------------------------- MODULE MCBucketScanExpand -------------------------
(***************************************************************************)
(* One grouping label and implicit grouping: every bucket is repeated as   *)
(* often as its anonymised count( * ) says, the scan is rewound and its    *)
(* input is read again.  Two AID instances.                                *)
(***************************************************************************)
EXTENDS BucketScanCursor

CONSTANTS a1, a2, a3

MCGroups == {<<1>>, <<2>>, <<3>>}

MCAids == {a1, a2, a3}

Instances(A, B) == [i \in {1, 2} |-> IF i = 1 THEN A ELSE B]

\* Low count in both instances, in the second one, and in none.
MCChildTuples ==
  [labels : MCGroups,
   aids   : {Instances({a3}, {a2}), Instances({a1, a2}, {a1}), Instances({a1, a2}, {a2, a3})}]

MCThreshold == [A \in SUBSET MCAids |-> 2]

\* The noisy count falls to 0 for some of the high count buckets.
MCAnonCount(aids) ==
  IF aids[1] = {a1, a2} /\ Cardinality(aids[2]) = 2 THEN 3
  ELSE IF aids[1] = MCAids THEN 2 ELSE 0

MCHaving(g) == g # <<3>>

\* Every call of ExecCustomScan returns.
CallReturns == phase # "idle" ~> phase = "idle"
=============================================================================
