----------------------------- MODULE Histogram -----------------------------
(***************************************************************************)
(* What count_histogram promises: how many entities (values of the counted *)
(* AID) have how many rows.  In an anonymizing query bins of too few AIDs  *)
(* are left out, or reported together when that hides which they were.     *)
(* Rows are a bag: their order does not matter, nor through which buckets  *)
(* they have come.                                                         *)
(***************************************************************************)
EXTENDS Integers, FiniteSets, FiniteSetsExt

CONSTANTS
  Aids,         (* AID values.                                              *)
  Null,         (* The AID of a row may be NULL.                            *)
  Instances,    (* Number of AID instances.                                 *)
  CountedAid,   (* counted_aid_index, from 1.                               *)
  Rows,         (* Rows: the AIDs of every instance.                        *)
  Buckets,      (* Buckets that have a state of the aggregate.              *)
  Threshold,    (* generate_lcf_threshold, a function of the AID set.       *)
  Noise,        (* The layered noise, rounded, a function of the AID set.   *)
  MinThreshold, (* low_count_min_threshold                                  *)
  Width         (* Width of an int.                                         *)

AidInstances == 1 .. Instances

VARIABLES
  anonymizing, (* Is the query anonymizing?                                 *)
  bin_size,    (* The bin size of the query.                                *)
  rows,        (* The rows of every bucket: a bag.                          *)
  published    (* The result, or None.                                      *)

vars == <<anonymizing, bin_size, rows, published>>

None == [bins |-> "none"]
NoRows == [r \in Rows |-> 0]

-----------------------------------------------------------------------------

RowsOf(bag, aid) == {r \in Rows : bag[r] > 0 /\ r[CountedAid] = aid}
Entities(bag) == {aid \in Aids : RowsOf(bag, aid) # {}}
CountOf(bag, aid) == MapThenSumSet(LAMBDA r : bag[r], RowsOf(bag, aid))
Label(bag, aid) == (CountOf(bag, aid) \div bin_size) * bin_size

\* The AIDs of instance i in the rows of the entities E.
AidsOf(bag, E, i) == {r[i] : r \in UNION {RowsOf(bag, aid) : aid \in E}} \ {Null}
LowCount(bag, E) == \E i \in AidInstances :
  LET A == AidsOf(bag, E, i) IN Cardinality(A) < Threshold[A]

Larger(a, b) == IF a < b THEN b ELSE a
Reported(E) == Larger(Cardinality(E) + Noise[E], MinThreshold)

\* The entities of every bin, low count or not.
Bins(bag) == [l \in {Label(bag, aid) : aid \in Entities(bag)} |->
                {aid \in Entities(bag) : Label(bag, aid) = l}]

Plain(bag) ==
  [bins       |-> [l \in DOMAIN Bins(bag) |-> Cardinality(Bins(bag)[l])],
   suppressed |-> {}]

Anonymized(bag) ==
  LET bins   == Bins(bag)
      low    == {l \in DOMAIN bins : LowCount(bag, bins[l])}
      hidden == UNION {bins[l] : l \in low}
  IN  [bins       |-> [l \in DOMAIN bins \ low |-> Reported(bins[l])],
       suppressed |-> IF Cardinality(low) >= 2 /\ ~LowCount(bag, hidden)
                      THEN {Reported(hidden)} ELSE {}]

Result(bag) == IF anonymizing THEN Anonymized(bag) ELSE Plain(bag)

\* Everything that becomes an int fits one.
Exact(bag) == bin_size < 2^(Width - 1) /\ \A aid \in Entities(bag) : CountOf(bag, aid) < 2^(Width - 1)

-----------------------------------------------------------------------------

Init ==
  /\ anonymizing \in BOOLEAN
  /\ bin_size \in Int
  /\ rows = [b \in Buckets |-> NoRows]
  /\ published = None

Add(b, r) ==
  /\ published = None
  /\ rows' = [rows EXCEPT ![b][r] = @ + 1]
  /\ UNCHANGED <<anonymizing, bin_size, published>>

Merge(dst, src) ==
  /\ published = None
  /\ rows' = [rows EXCEPT ![dst] = [r \in Rows |-> rows[dst][r] + rows[src][r]]]
  /\ UNCHANGED <<anonymizing, bin_size, published>>

\* Nothing is promised of counts and bin sizes that do not fit an int.
Publish(b) ==
  /\ published = None
  /\ bin_size >= 1
  /\ published' # None
  /\ Exact(rows[b]) => published' = Result(rows[b])
  /\ UNCHANGED <<anonymizing, bin_size, rows>>

Next ==
  \/ \E b \in Buckets : \E r \in Rows : Add(b, r)
  \/ \E dst, src \in Buckets : dst # src /\ Merge(dst, src)
  \/ \E b \in Buckets : Publish(b)

Spec == Init /\ [][Next]_vars
=============================================================================
