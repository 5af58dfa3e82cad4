-------------------------- MODULE BucketScanCursor --------------------------
(***************************************************************************)
(* BucketScan as an implementation of ResultCursor: the refinement mapping. *)
(* The result is known from the end of the hooks on; its rows are those of *)
(* the slots, one slot after the other.                                    *)
(***************************************************************************)
EXTENDS BucketScan

CONSTANT Unknown  (* The result before the hooks are over. *)

Row == [labels : Groups \cup {Star}, aids : [AidInstances -> SUBSET Aids]]

ASSUME UnknownAssumption == Unknown \notin Seq(Row)

\* A row may be shown if its bucket is high count, as far as the query has a
\* low count aggregate to tell, and its labels pass the HAVING clause.
Presentable(row) == ~(HasLowCount /\ IsLowCount(row.aids)) /\ Having(row.labels)

RowOf(i) == [labels |-> BucketAt(i).labels, aids |-> BucketAt(i).aids]

\* The rows of slot i, as often as the bucket there is repeated.
RowsOfSlot(i) ==
  IF i = 0 /\ star = NoBucket THEN <<>>
  ELSE [k \in 1 .. RowCount(BucketAt(i)) |-> RowOf(i)]

Slots == [i \in 0 .. Len(buckets) |-> RowsOfSlot(i)]

\* For each k up to n: the lists 0 to k - 1, one after the other.
Joined(lists, n) ==
  LET upto[k \in 0 .. n] == IF k = 0 THEN <<>> ELSE upto[k - 1] \o lists[k - 1]
  IN  upto

AllRows == Joined(Slots, Len(buckets) + 1)[Len(buckets) + 1]

Materialised == input_done /\ phase \in {"emit", "idle"}

Result == IF Materialised THEN AllRows ELSE Unknown

Delivered == [k \in DOMAIN out |-> RowOf(out[k])]

Cursor == INSTANCE ResultCursor WITH
  result <- Result, delivered <- Delivered, exhausted <- eof

\* BucketScan implements a cursor over an unchanging list of presentable rows:
\* star bucket first, the other buckets in the child's order, each bucket
\* repeated as its count says, the same rows again after ReScanCustomScan, and
\* the end reported only when all of them were delivered.
IsResultCursor == Cursor!Spec
=============================================================================
