--------------------------- MODULE CountHistogram ---------------------------
(***************************************************************************)
(* count_histogram (src/aggregation/count_histogram.c): the plain          *)
(* aggregate, for direct access, and the anonymizing one the rewriter puts *)
(* in its place.  The anonymizing aggregate has a state in every bucket;   *)
(* states are merged when a bucket is, and the result is computed by       *)
(* passing over two hash tables, whose order is that of the hashes: here,  *)
(* any order.                                                              *)
(*                                                                         *)
(* Counts and bin sizes are int64, which is taken as unbounded; generalize *)
(* and the comparers truncate them to an int, of Width bits here.          *)
(***************************************************************************)
EXTENDS Integers, Sequences, FiniteSets, FiniteSetsExt, SequencesExt

CONSTANTS
  Aids,         (* AID values.                                              *)
  Null,         (* The AID of a row may be NULL.                            *)
  Instances,    (* Number of AID instances.                                 *)
  CountedAid,   (* counted_aid_index, from 1.                               *)
  Rows,         (* Rows: the AIDs of every instance.                        *)
  Buckets,      (* Buckets that have a state of the aggregate.              *)
  Threshold,    (* generate_lcf_threshold, a function of the AID set.       *)
  Noise,        (* The layered noise, rounded, a function of the AID set.   *)
  MinThreshold, (* low_count_min_threshold                                  *)
  Width,        (* Width of an int.                                         *)
  BinSizes,     (* Bin sizes of a query, invalid ones too.                  *)
  MaxRows       (* Bound on the rows.                                       *)

AidInstances == 1 .. Instances

ASSUME CountHistogramAssumption ==
  /\ Instances \in Nat /\ CountedAid \in AidInstances
  /\ Null \notin Aids /\ Rows \subseteq [AidInstances -> Aids \cup {Null}]
  /\ Threshold \in [SUBSET Aids -> Nat] /\ Noise \in [SUBSET Aids -> Int]
  /\ MinThreshold \in Nat /\ Width \in Nat \ {0}
  /\ BinSizes \subseteq Int /\ MaxRows \in Nat

VARIABLES
  anonymizing,    (* Is the query anonymizing, or of direct access?         *)
  bin_size,       (* The bin size of the query.                             *)
  rows,           (* History: the rows of every bucket, a bag.              *)
  phase,          (* "aggregate", "group", "collect", "done" or "failed"    *)
  tables,         (* The CountTracker of every AID, in every bucket.        *)
  bucket,         (* The bucket being finalized.                            *)
  pending,        (* Keys foreach_entry has not come to yet.                *)
  histogram,      (* The CountTracker of every bin label.                   *)
  bin_list,       (* The high count bins.                                   *)
  suppress_bin,   (* The CountTracker of the low count bins.                *)
  low_count_bins, (* Their number.                                          *)
  result          (* The array: pairs of label (NULL in the suppress bin)   *)
                  (* and count.                                             *)

query_vars == <<anonymizing, bin_size>>
loop_vars == <<pending, histogram, bin_list, suppress_bin, low_count_bins>>
vars == <<query_vars, rows, phase, tables, bucket, loop_vars, result>>

-----------------------------------------------------------------------------
(* CountTracker                                                            *)

NoAids == [i \in AidInstances |-> {}]

\* count_tracker_new
NewTracker == [count |-> 0, aids |-> NoAids]

\* count_tracker_merge
MergeTrackers(dst, src) ==
  [count |-> dst.count + src.count,
   aids  |-> [i \in AidInstances |-> dst.aids[i] \cup src.aids[i]]]

\* count_tracker_is_low_count
IsLowCount(tracker) ==
  \E i \in AidInstances : Cardinality(tracker.aids[i]) < Threshold[tracker.aids[i]]

\* count_tracker_finalize
FinalCount(tracker) ==
  LET counted     == tracker.aids[CountedAid]
      noisy_count == Cardinality(counted) + Noise[counted]
  IN  IF noisy_count < MinThreshold THEN MinThreshold ELSE noisy_count

\* The merge of a tracker into the entry of a key, a new one if there is none.
MergedInto(table, key, tracker) ==
  LET old == IF key \in DOMAIN table THEN table[key] ELSE NewTracker
  IN  [k \in DOMAIN table \cup {key} |-> IF k = key THEN MergeTrackers(old, tracker) ELSE table[k]]

-----------------------------------------------------------------------------
(* Arithmetic of the C type int.                                           *)

IntMin == -(2^(Width - 1))
ToInt(n) == ((n - IntMin) % 2^Width) + IntMin

\* Division truncates towards zero.
Quotient(a, b) ==
  LET Abs(n) == IF n < 0 THEN -n ELSE n
      q      == Abs(a) \div Abs(b)
  IN  IF (a < 0) = (b < 0) THEN q ELSE -q

\* The processor traps these divisions, and the query fails.
DivisionTraps(value) ==
  LET divisor == ToInt(bin_size)
  IN  divisor = 0 \/ (ToInt(value) = IntMin /\ divisor = -1)

\* generalize
Generalize(value) == Quotient(ToInt(value), ToInt(bin_size)) * ToInt(bin_size)

\* Mutant: the comparer is turned round.
PrecedesDescending(a, b) == ToInt(b.label - a.label) < 0

\* histogram_entry_comparer and int64_to_int64_entry_comparer return the
\* truncated difference of two keys.
Precedes(a, b) == ToInt(a.label - b.label) < 0

\* Mutant: an empty list is not handled.
SortedNonEmpty(bins) ==
  {s \in SetToSeqs(bins) : s # <<>> /\ \A i \in 1 .. Len(s) - 1 : ~Precedes(s[i + 1], s[i])}

\* What list_sort may return.  Where the comparer is no order: any order.
SortedLists(bins) ==
  LET lists  == SetToSeqs(bins)
      sorted == {s \in lists : \A i \in 1 .. Len(s) - 1 : ~Precedes(s[i + 1], s[i])}
  IN  IF sorted = {} THEN lists ELSE sorted

-----------------------------------------------------------------------------

Init ==
  /\ anonymizing \in BOOLEAN
  /\ bin_size \in BinSizes
  /\ rows = [b \in Buckets |-> [r \in Rows |-> 0]]
  /\ phase = "aggregate"
  /\ tables = [b \in Buckets |-> <<>>]
  /\ bucket = CHOOSE b \in Buckets : TRUE
  /\ pending = {} /\ histogram = <<>>
  /\ bin_list = {} /\ suppress_bin = NewTracker /\ low_count_bins = 0
  /\ result = <<>>

\* Mutant: zero is a valid bin size.
InvalidBelowZero == bin_size < 0

\* Checked by unwrap_const_int64 and by count_histogram_state_new.
InvalidBinSize == bin_size < 1

\* agg_create_state and count_histogram_state_new refuse the bin size.
Refuse ==
  /\ phase = "aggregate"
  /\ InvalidBinSize
  /\ phase' = "failed"
  /\ UNCHANGED <<query_vars, rows, tables, bucket, loop_vars, result>>

RowsIn(b) == MapThenSumSet(LAMBDA r : rows[b][r], Rows)

AddRow(b, r) ==
  /\ phase = "aggregate" /\ ~InvalidBinSize
  /\ MapThenSumSet(RowsIn, Buckets) < MaxRows
  /\ rows' = [rows EXCEPT ![b][r] = @ + 1]
  /\ UNCHANGED <<query_vars, phase, bucket, loop_vars, result>>

\* Mutant: NULL is taken for an AID.
AidsWithNull(r) == [i \in AidInstances |-> {r[i]}]

\* The AIDs of a row.  One that is NULL is in no tracker.
AidsOfRow(r) == [i \in AidInstances |-> {r[i]} \ {Null}]

\* agg_transition: without the counted AID the row is ignored.
Transition(b, r) ==
  /\ anonymizing
  /\ AddRow(b, r)
  /\ tables' = IF r[CountedAid] = Null THEN tables
               ELSE [tables EXCEPT ![b] =
                       MergedInto(@, r[CountedAid], [count |-> 1, aids |-> AidsOfRow(r)])]

\* count_histogram_transfn: only the value is looked at.  There is one state
\* for every group, and no other group is looked at.
PlainTransition(b, r) ==
  /\ ~anonymizing /\ b = bucket
  /\ AddRow(b, r)
  /\ tables' = IF r[CountedAid] = Null THEN tables
               ELSE [tables EXCEPT ![b] =
                       MergedInto(@, r[CountedAid], [count |-> 1, aids |-> NoAids])]

\* Mutant: an entry that is there already is not merged.
MergedTablesMissing(dst, src) ==
  [key \in DOMAIN dst \cup DOMAIN src |-> IF key \in DOMAIN dst THEN dst[key] ELSE src[key]]

\* The loop of agg_merge, over all entries of the source.
MergedTables(dst, src) ==
  [key \in DOMAIN dst \cup DOMAIN src |->
     IF key \notin DOMAIN src THEN dst[key]
     ELSE MergeTrackers(IF key \in DOMAIN dst THEN dst[key] ELSE NewTracker, src[key])]

\* agg_merge
Merge(dst, src) ==
  /\ phase = "aggregate" /\ ~InvalidBinSize
  /\ anonymizing
  /\ RowsIn(dst) + RowsIn(src) <= MaxRows
  /\ tables' = [tables EXCEPT ![dst] = MergedTables(@, tables[src])]
  /\ rows' = [rows EXCEPT ![dst] = [r \in Rows |-> @[r] + rows[src][r]]]
  /\ UNCHANGED <<query_vars, phase, bucket, loop_vars, result>>

\* The finalizers are called.
Finalize(b) ==
  /\ phase = "aggregate" /\ ~InvalidBinSize
  /\ anonymizing \/ b = bucket
  /\ phase' = "group"
  /\ bucket' = b
  /\ pending' = DOMAIN tables[b]
  /\ UNCHANGED <<query_vars, rows, tables, histogram, bin_list, suppress_bin, low_count_bins, result>>

\* Mutant: the last entry of a bin takes the place of the others.
LastOfBin(entry) ==
  [label \in DOMAIN histogram \cup {Generalize(entry.count)} |->
     IF label = Generalize(entry.count) THEN entry ELSE histogram[label]]

\* The histogram with an entry of the table added to its bin.  The count of
\* the anonymizing aggregate's bin is not used, that of the plain one is the
\* number of its entries.
Grouped(entry) ==
  MergedInto(histogram, Generalize(entry.count),
             IF anonymizing THEN entry ELSE [entry EXCEPT !.count = 1])

\* One round of the loop that groups entries by count.
Group(key) ==
  LET entry == tables[bucket][key]
  IN  /\ phase = "group" /\ key \in pending
      /\ IF DivisionTraps(entry.count)
         THEN phase' = "failed" /\ UNCHANGED <<pending, histogram>>
         ELSE /\ pending' = pending \ {key}
              /\ histogram' = Grouped(entry)
              /\ UNCHANGED phase
      /\ UNCHANGED <<query_vars, rows, tables, bucket, bin_list, suppress_bin, low_count_bins, result>>

StartCollecting ==
  /\ phase = "group" /\ pending = {}
  /\ phase' = "collect"
  /\ pending' = DOMAIN histogram
  /\ UNCHANGED <<query_vars, rows, tables, bucket, histogram, bin_list, suppress_bin, low_count_bins, result>>

\* One round of the loop that puts bins into the list or the suppress bin.
Collect(label) ==
  LET bin == histogram[label]
      Listed(count) == bin_list \cup {[label |-> label, count |-> count]}
  IN  /\ phase = "collect" /\ label \in pending
      /\ pending' = pending \ {label}
      /\ \/ /\ anonymizing /\ IsLowCount(bin)
            /\ suppress_bin' = MergeTrackers(suppress_bin, bin)
            /\ low_count_bins' = low_count_bins + 1
            /\ UNCHANGED bin_list
         \/ /\ ~(anonymizing /\ IsLowCount(bin))
            /\ bin_list' = Listed(IF anonymizing THEN FinalCount(bin) ELSE bin.count)
            /\ UNCHANGED <<suppress_bin, low_count_bins>>
      /\ UNCHANGED <<query_vars, rows, phase, tables, bucket, histogram, result>>

\* Mutant: the suppress bin itself may be of low count.
IncludeTwoLowBins == low_count_bins >= 2

\* include_suppress_bin
IncludeSuppressBin == low_count_bins >= 2 /\ ~IsLowCount(suppress_bin)

\* The sort and the construction of the array.
Return ==
  /\ phase = "collect" /\ pending = {}
  /\ \E sorted \in SortedLists(bin_list) :
       result' = IF anonymizing /\ IncludeSuppressBin
                 THEN <<[label |-> Null, count |-> FinalCount(suppress_bin)]>> \o sorted
                 ELSE sorted
  /\ phase' = "done"
  /\ UNCHANGED <<query_vars, rows, tables, bucket, loop_vars>>

\* The loops and what follows them.
Evaluate ==
  \/ \E key \in Aids : Group(key)
  \/ StartCollecting
  \/ \E label \in DOMAIN histogram : Collect(label)
  \/ Return

Next ==
  \/ Refuse
  \/ \E b \in Buckets : \E r \in Rows : Transition(b, r) \/ PlainTransition(b, r)
  \/ \E dst, src \in Buckets : dst # src /\ Merge(dst, src)
  \/ \E b \in Buckets : Finalize(b)
  \/ Evaluate

Spec == Init /\ [][Next]_vars

\* Once called the finalizer runs to its end.
FairSpec == Spec /\ WF_vars(Evaluate)

-----------------------------------------------------------------------------
(* Properties.                                                             *)

Trackers == [count : Nat, aids : [AidInstances -> SUBSET Aids]]

\* The aggregate's states and the variables of its finalizer have their types.
TypeOK ==
  /\ anonymizing \in BOOLEAN /\ bin_size \in BinSizes
  /\ rows \in [Buckets -> [Rows -> 0 .. MaxRows]]
  /\ phase \in {"aggregate", "group", "collect", "done", "failed"}
  /\ \A b \in Buckets : /\ DOMAIN tables[b] \subseteq Aids
                        /\ \A key \in DOMAIN tables[b] : tables[b][key] \in Trackers
  /\ bucket \in Buckets
  /\ DOMAIN histogram \subseteq Int
  /\ \A label \in DOMAIN histogram : histogram[label] \in Trackers
  /\ pending \subseteq (IF phase = "collect" THEN DOMAIN histogram ELSE Aids)
  /\ bin_list \subseteq [label : DOMAIN histogram, count : Int]
  /\ suppress_bin \in Trackers /\ low_count_bins \in Nat
  /\ Range(result) \subseteq [label : Int \cup {Null}, count : Int]

H == INSTANCE Histogram WITH
       published <- IF phase # "done" THEN [bins |-> "none"]
                    ELSE [bins       |-> [l \in {result[k].label : k \in DOMAIN result} \ {Null} |->
                                            (CHOOSE bin \in Range(result) : bin.label = l).count],
                          suppressed |-> {bin.count : bin \in {b \in Range(result) : b.label = Null}}]

\* What is returned is the histogram of the rows in the bucket, however they
\* came there and in whatever order the hash tables are passed over: every
\* high count bin with the number of its entities, and the low count ones
\* together, if they are at least two and not of low count themselves.
ImplementsHistogram == H!Spec

\* The bins that are returned are in ascending order and the suppress bin is
\* the first, as long as counts and bin size fit an int.
LabelsAscend ==
  phase = "done" /\ H!Exact(rows[bucket]) =>
    \A j, k \in DOMAIN result :
      j < k => /\ result[k].label # Null
               /\ result[j].label # Null => result[j].label < result[k].label

\* A query whose bin size is accepted and fits an int, as all its counts do,
\* does not fail in the division of generalize.
AcceptedBinSizesDivide ==
  phase = "failed" /\ H!Exact(rows[bucket]) => InvalidBinSize

\* The finalizer returns, or its query fails.
FinalizeReturns == phase = "group" ~> phase \in {"done", "failed"}
=============================================================================
