--------------------------- MODULE MCBucketScanLed ---------------------------
(***************************************************************************)
(* Three grouping labels, where LED runs: a bucket, one or two siblings of *)
(* it in the first column, one in the second, and one in the third that    *)
(* takes its unknown column away.                                          *)
(***************************************************************************)
EXTENDS BucketScan

CONSTANTS a1, a2, a3, a4

MCGroups == {<<1, 1, 1>>, <<2, 1, 1>>, <<3, 1, 1>>, <<1, 2, 1>>, <<1, 1, 2>>}

MCAids == {a1, a2, a3, a4}

Tuples(g, sets) == {[labels |-> g, aids |-> [i \in {1} |-> A]] : A \in sets}

MCChildTuples ==
  UNION {Tuples(<<1, 1, 1>>, {{a3}, {a1, a2}}),
         Tuples(<<2, 1, 1>>, {{}, {a1, a2}, {a2, a3}}),
         Tuples(<<3, 1, 1>>, {{a4}}),
         Tuples(<<1, 2, 1>>, {{a3}, {a2, a4}}),
         Tuples(<<1, 1, 2>>, {{a1}, {a1, a2}})}

\* A merge can turn its target low count: the noise layer of the threshold is
\* drawn anew for the larger AID set.
MCThreshold ==
  [A \in SUBSET MCAids |-> IF {a1, a2, a3} \subseteq A \/ A = {a2, a3, a4} THEN 4 ELSE 2]

MCAnonCount(aids) == Cardinality(aids[1])

MCHaving(g) == TRUE
=============================================================================
