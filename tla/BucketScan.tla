----------------------------- MODULE BucketScan -----------------------------
(***************************************************************************)
(* The executor node BucketScan (src/aggregation/bucket_scan.c) together   *)
(* with the two hooks it runs over the materialised buckets: LED           *)
(* (src/aggregation/led.c) and the star bucket (star_bucket.c), and the    *)
(* low count aggregate that drives both (low_count.c).                     *)
(*                                                                         *)
(* One call of ExecCustomScan is a sequence of steps, one per iteration of *)
(* the loops in the code: it drains the child Agg, runs the LED loop and   *)
(* the star bucket loop, then looks for the next bucket to emit.           *)
(*                                                                         *)
(* A bucket is reduced to what these loops look at: its grouping labels,   *)
(* the AID sets of its low count state (one per AID instance), the two     *)
(* flags, and how many times the rows of each group were merged into it.   *)
(* Aggregates other than low count only matter by the value of count( * ). *)
(***************************************************************************)
EXTENDS Integers, Sequences, FiniteSets

CONSTANTS
  NumLabels,      (* Number of grouping labels of the query.               *)
  Groups,         (* Label tuples of the groups of the child Agg.          *)
  AidInstances,   (* AID columns of the query: one AID tracker for each.   *)
  Aids,           (* AID values.                                           *)
  ChildTuples,    (* The tuples the child may return: labels and AID sets. *)
  Threshold,      (* generate_lcf_threshold, a function of the AID set.    *)
  MinThreshold,   (* low_count_min_threshold.                              *)
  AnonCount(_),   (* The finalized count( * ) of a bucket's AID sets.      *)
  Having(_),      (* Does a tuple of labels pass the HAVING clause?        *)
  HasLowCount,    (* Does the query have a low_count aggregate?            *)
  ExpandBuckets,  (* anon_context.expand_buckets.                          *)
  NoBucket,       (* The NULL in slot 0 of the list of buckets.            *)
  Star,           (* The labels of the star bucket.                        *)
  MaxRescans      (* Bound on the rescans of a behaviour.                  *)

Columns == 1 .. NumLabels

ASSUME ConstantsAssumption ==
  /\ NumLabels \in Nat
  /\ \A g \in Groups : g = [c \in Columns |-> g[c]]
  /\ ChildTuples \subseteq [labels : Groups, aids : [AidInstances -> SUBSET Aids]]
  /\ Threshold \in [SUBSET Aids -> Nat]
  /\ \A A \in SUBSET Aids : Threshold[A] >= MinThreshold
  /\ MinThreshold \in Nat
  /\ \A aids \in [AidInstances -> SUBSET Aids] : AnonCount(aids) \in Nat
  /\ \A g \in Groups \cup {Star} : Having(g) \in BOOLEAN
  /\ HasLowCount \in BOOLEAN
  /\ ExpandBuckets \in BOOLEAN
  /\ Star \notin Groups
  /\ MaxRescans \in Nat

VARIABLES
  phase,        (* What the executing call is doing; "idle" between calls.  *)
  buckets,      (* The list of buckets, slots 1 and up.                     *)
  star,         (* Slot 0: the star bucket or NoBucket.                     *)
  staged,       (* The star bucket while star_bucket_hook is filling it.    *)
  staged_merges,(* buckets_merged of star_bucket_hook.                      *)
  cursor,       (* bucket_idx of the hook's loop that is running.           *)
  targets,      (* all_merge_targets of led_hook.                           *)
  next,         (* next_bucket_index.                                       *)
  repeat,       (* repeat_previous_bucket.                                  *)
  input_done,   (* Is the list of buckets populated?                        *)
  fetched,      (* History: the tuples of the child since the last refill.  *)
  out,          (* History: slots of the rows emitted since the last rewind.*)
  eof,          (* History: did the last call return no row?                *)
  rescans       (* Bounded counter of the rescans.                          *)

scan_vars == <<buckets, star, next, repeat, input_done>>
hook_vars == <<staged, staged_merges, cursor, targets>>
hist_vars == <<fetched, out, eof, rescans>>
vars == <<phase, scan_vars, hook_vars, hist_vars>>

Bucket == [labels    : Groups \cup {Star},
           aids      : [AidInstances -> SUBSET Aids],
           parts     : [Groups -> Nat],
           low_count : BOOLEAN,
           merged    : BOOLEAN]

ASSUME NoBucketAssumption == NoBucket \notin Bucket

-----------------------------------------------------------------------------
(* The low count aggregate and merging.                                    *)

\* agg_finalize of low_count.c: low count in any one AID instance suffices.
IsLowCount(aids) ==
  \E i \in AidInstances : Cardinality(aids[i]) < Threshold[aids[i]]

\* eval_low_count, guarded as in fill_bucket_list by the presence of the
\* aggregate: without it every bucket is high count.
EvalLowCount(bucket) == HasLowCount /\ IsLowCount(bucket.aids)

\* merge_bucket, called a number of times: every anonymizing state of src is
\* merged into dst, the flags and the labels of dst are left alone.
MergeBucket(dst, src, times) ==
  [dst EXCEPT !.aids  = [i \in AidInstances |-> dst.aids[i] \cup src.aids[i]],
              !.parts = [g \in Groups |-> dst.parts[g] + times * src.parts[g]]]

NewBucket(labels, aids, parts) ==
  [labels |-> labels, aids |-> aids, parts |-> parts,
   low_count |-> FALSE, merged |-> FALSE]

BucketOf(g, aids) ==
  NewBucket(g, aids, [h \in Groups |-> IF h = g THEN 1 ELSE 0])

EmptyStarBucket ==
  NewBucket(Star, [i \in AidInstances |-> {}], [g \in Groups |-> 0])

-----------------------------------------------------------------------------
(* LED: which buckets are merged where.                                    *)

\* Mutant: the loop of subset_equals ends at the skipped column.
SameBefore(g, h, c) == \A d \in 1 .. (c - 1) : g[d] = h[d]

\* subset_equals: the label tuples agree outside column c.
SameExcept(g, h, c) == \A d \in Columns \ {c} : g[d] = h[d]

\* Mutant: room for two siblings only.
SiblingsUpToTwo(b, c) ==
  LET same == {j \in DOMAIN buckets :
                 SameExcept(buckets[b].labels, buckets[j].labels, c)}
  IN  {j \in same : Cardinality({k \in same : k < j}) < 2}

\* The entry of column c's siblings tracker bucket b belongs to: the slots of
\* the first MAX_SIBLINGS = 3 buckets whose other labels are those of b.
Siblings(b, c) ==
  LET same == {j \in DOMAIN buckets :
                 SameExcept(buckets[b].labels, buckets[j].labels, c)}
  IN  {j \in same : Cardinality({k \in same : k < j}) < 3}

UnknownColumn(b, c) == Cardinality(Siblings(b, c)) = 1

\* Mutant: the other bucket's low count flag is not looked at.
IsolatingAnyColumn(b, c) == Cardinality(Siblings(b, c)) = 2

\* A column is isolating when b has one sibling there and it is high count.
IsolatingColumn(b, c) ==
  /\ Cardinality(Siblings(b, c)) = 2
  /\ \A j \in Siblings(b, c) \ {b} : ~buckets[j].low_count

\* How many columns stage bucket j in current_merge_targets for bucket b.
TimesMerged(b, j) ==
  IF buckets[b].low_count /\ \E c \in Columns : UnknownColumn(b, c)
  THEN Cardinality({c \in Columns : IsolatingColumn(b, c) /\ j \in Siblings(b, c) \ {b}})
  ELSE 0

MergeTargets(b) == {j \in DOMAIN buckets : TimesMerged(b, j) > 0}

\* One iteration of the LED bucket loop.
LedMerge(b) ==
  [j \in DOMAIN buckets |->
     IF j \in MergeTargets(b)
     THEN MergeBucket(buckets[j], buckets[b], TimesMerged(b, j))
     ELSE IF j = b /\ MergeTargets(b) # {}
          THEN [buckets[j] EXCEPT !.merged = TRUE]
          ELSE buckets[j]]

\* Mutant: the flags keep their values from before the merges.
RecomputeNothing == buckets

\* The loop over all_merge_targets that follows the LED bucket loop.
RecomputeLowCount ==
  [j \in DOMAIN buckets |->
     IF j \in targets
     THEN [buckets[j] EXCEPT !.low_count = EvalLowCount(buckets[j])]
     ELSE buckets[j]]

-----------------------------------------------------------------------------
(* The executing call.                                                     *)

Init ==
  /\ phase = "idle"
  /\ buckets = <<>>
  /\ star = NoBucket
  /\ staged = NoBucket
  /\ staged_merges = 0
  /\ cursor = 1
  /\ targets = {}
  /\ next = 1
  /\ repeat = 0
  /\ input_done = FALSE
  /\ fetched = <<>>
  /\ out = <<>>
  /\ eof = FALSE
  /\ rescans = 0

\* bucket_exec_scan is called: the list is filled first if need be.
ExecScan ==
  /\ phase = "idle"
  /\ phase' = IF input_done THEN "emit" ELSE "fill"
  /\ eof' = FALSE
  /\ UNCHANGED <<scan_vars, hook_vars, fetched, out, rescans>>

\* fill_bucket_list, one iteration: the child returns the bucket of a group it
\* has not returned yet; it is copied, appended and tested for low count.
FetchBucket(tuple) ==
  /\ phase = "fill"
  /\ \A i \in DOMAIN buckets : buckets[i].labels # tuple.labels
  /\ LET bucket == BucketOf(tuple.labels, tuple.aids)
     IN  buckets' = Append(buckets, [bucket EXCEPT !.low_count = EvalLowCount(bucket)])
  /\ fetched' = Append(fetched, tuple)
  /\ UNCHANGED <<phase, star, next, repeat, input_done, hook_vars, out, eof, rescans>>

\* fill_bucket_list, EOF, and the beginning of run_hooks: without a low count
\* aggregate no hook runs, and led_hook returns at once for 2 labels or less.
EndOfInput ==
  /\ phase = "fill"
  /\ input_done' = TRUE
  /\ phase' = CASE ~HasLowCount                   -> "emit"
                [] HasLowCount /\ NumLabels <= 2 -> "led_done"
                [] HasLowCount /\ NumLabels > 2  -> "led"
  /\ cursor' = 1
  /\ targets' = {}
  /\ UNCHANGED <<buckets, star, next, repeat, staged, staged_merges, hist_vars>>

\* led_hook, one iteration of the bucket loop.
LedStep ==
  /\ phase = "led"
  /\ cursor <= Len(buckets)
  /\ buckets' = LedMerge(cursor)
  /\ targets' = targets \cup MergeTargets(cursor)
  /\ cursor' = cursor + 1
  /\ UNCHANGED <<phase, star, next, repeat, input_done, staged, staged_merges, hist_vars>>

\* led_hook, after the bucket loop.
LedDone ==
  /\ phase = "led"
  /\ cursor > Len(buckets)
  /\ buckets' = RecomputeLowCount
  /\ phase' = "led_done"
  /\ targets' = {}
  /\ UNCHANGED <<star, next, repeat, input_done, staged, staged_merges, cursor, hist_vars>>

\* run_hooks reads compute_suppress_bin, which the session may have set to
\* either value, and calls star_bucket_hook only if it is on.
StartStarBucket(compute_suppress_bin) ==
  /\ phase = "led_done"
  /\ cursor' = 1
  /\ IF compute_suppress_bin
     THEN /\ phase' = "star"
          /\ staged' = EmptyStarBucket
          /\ staged_merges' = 0
     ELSE /\ phase' = "emit"
          /\ UNCHANGED <<staged, staged_merges>>
  /\ UNCHANGED <<scan_vars, targets, hist_vars>>

\* Mutant: buckets that LED merged are taken in as well.
GoesToStarEvenMerged(bucket) == bucket.low_count

GoesToStar(bucket) == bucket.low_count /\ ~bucket.merged

\* star_bucket_hook, one iteration of its loop.
StarStep ==
  /\ phase = "star"
  /\ cursor <= Len(buckets)
  /\ IF GoesToStar(buckets[cursor])
     THEN /\ staged' = MergeBucket(staged, buckets[cursor], 1)
          /\ staged_merges' = staged_merges + 1
     ELSE UNCHANGED <<staged, staged_merges>>
  /\ cursor' = cursor + 1
  /\ UNCHANGED <<phase, scan_vars, targets, hist_vars>>

\* star_bucket_hook, after its loop, and the end of run_hooks: the star bucket
\* takes slot 0 unless it is low count itself or made of fewer than 2 buckets.
StarDone ==
  /\ phase = "star"
  /\ cursor > Len(buckets)
  /\ IF EvalLowCount(staged) \/ staged_merges < 2
     THEN UNCHANGED <<star, next>>
     ELSE star' = staged /\ next' = 0
  /\ phase' = "emit"
  /\ staged' = NoBucket
  /\ UNCHANGED <<buckets, repeat, input_done, staged_merges, cursor, targets, hist_vars>>

BucketAt(i) == IF i = 0 THEN star ELSE buckets[i]

\* bucket_exec_scan: the previous row once more.
RepeatRow ==
  /\ phase = "emit"
  /\ repeat > 0
  /\ repeat' = repeat - 1
  /\ out' = Append(out, out[Len(out)])
  /\ phase' = "idle"
  /\ UNCHANGED <<buckets, star, next, input_done, hook_vars, fetched, eof, rescans>>

\* bucket_exec_scan: no bucket left.
ReturnEof ==
  /\ phase = "emit"
  /\ repeat = 0
  /\ next > Len(buckets)
  /\ eof' = TRUE
  /\ phase' = "idle"
  /\ UNCHANGED <<scan_vars, hook_vars, fetched, out, rescans>>

\* Rows a bucket stands for: the conditions of bucket_exec_scan's loop.
RowCount(bucket) ==
  IF bucket.low_count \/ bucket.merged \/ ~Having(bucket.labels) THEN 0
  ELSE IF ExpandBuckets THEN AnonCount(bucket.aids) ELSE 1

\* Mutant: the row being returned is counted twice.
RepetitionsAfterTwo(bucket) == RowCount(bucket) - 2

\* How often the row is repeated after it is first returned.
Repetitions(bucket) == RowCount(bucket) - 1

\* Mutant: the index is not advanced past a bucket that is skipped.
SkipInPlace ==
  /\ phase = "emit"
  /\ repeat = 0
  /\ next <= Len(buckets)
  /\ RowCount(BucketAt(next)) = 0
  /\ UNCHANGED vars

\* bucket_exec_scan: the next bucket produces no row, the loop continues.
SkipBucket ==
  /\ phase = "emit"
  /\ repeat = 0
  /\ next <= Len(buckets)
  /\ RowCount(BucketAt(next)) = 0
  /\ next' = next + 1
  /\ UNCHANGED <<phase, buckets, star, repeat, input_done, hook_vars, hist_vars>>

\* bucket_exec_scan: the next bucket is returned, and repeated later.
EmitBucket ==
  /\ phase = "emit"
  /\ repeat = 0
  /\ next <= Len(buckets)
  /\ RowCount(BucketAt(next)) > 0
  /\ next' = next + 1
  /\ repeat' = Repetitions(BucketAt(next))
  /\ out' = Append(out, next)
  /\ phase' = "idle"
  /\ UNCHANGED <<buckets, star, input_done, hook_vars, fetched, eof, rescans>>

\* bucket_rescan before the list is populated: nothing to do.
RescanEmpty ==
  /\ phase = "idle"
  /\ ~input_done
  /\ rescans < MaxRescans
  /\ rescans' = rescans + 1
  /\ UNCHANGED <<phase, scan_vars, hook_vars, fetched, out, eof>>

\* Mutant: the star bucket is forgotten.
RescanWithoutStar ==
  /\ phase = "idle"
  /\ input_done
  /\ rescans < MaxRescans
  /\ next' = 1
  /\ repeat' = 0
  /\ out' = <<>>
  /\ eof' = FALSE
  /\ rescans' = rescans + 1
  /\ UNCHANGED <<phase, buckets, star, input_done, hook_vars, fetched>>

\* bucket_rescan with unchanged parameters: emit the same buckets again.
RescanBuckets ==
  /\ phase = "idle"
  /\ input_done
  /\ rescans < MaxRescans
  /\ next' = IF star # NoBucket THEN 0 ELSE 1
  /\ repeat' = 0
  /\ out' = <<>>
  /\ eof' = FALSE
  /\ rescans' = rescans + 1
  /\ UNCHANGED <<phase, buckets, star, input_done, hook_vars, fetched>>

\* bucket_rescan with a changed parameter: the buckets are freed, the next
\* call fills the list anew.
RescanInput ==
  /\ phase = "idle"
  /\ input_done
  /\ rescans < MaxRescans
  /\ buckets' = <<>>
  /\ star' = NoBucket
  /\ next' = 1
  /\ repeat' = 0
  /\ input_done' = FALSE
  /\ fetched' = <<>>
  /\ out' = <<>>
  /\ eof' = FALSE
  /\ rescans' = rescans + 1
  /\ UNCHANGED <<phase, hook_vars>>

\* The steps of a call in progress.
CallStep ==
  \/ \E tuple \in ChildTuples : FetchBucket(tuple)
  \/ EndOfInput
  \/ LedStep
  \/ LedDone
  \/ \E compute_suppress_bin \in BOOLEAN : StartStarBucket(compute_suppress_bin)
  \/ StarStep
  \/ StarDone
  \/ RepeatRow
  \/ ReturnEof
  \/ SkipBucket
  \/ EmitBucket

Next ==
  \/ ExecScan
  \/ CallStep
  \/ RescanEmpty
  \/ RescanBuckets
  \/ RescanInput

Spec == Init /\ [][Next]_vars

\* A call, once made, keeps running: it only waits for its own loops.
FairSpec == Spec /\ WF_vars(CallStep)

-----------------------------------------------------------------------------
(* What LED computes, said of the set of fetched buckets: no list of        *)
(* siblings that stops at three, no loop, no order.                         *)

FetchedLow(i) == HasLowCount /\ IsLowCount(fetched[i].aids)

OthersAlong(i, c) ==
  {j \in DOMAIN fetched \ {i} : SameExcept(fetched[i].labels, fetched[j].labels, c)}

\* i is low count, alone in some column, and t is its only and high count
\* sibling in another.
LedSends(i, t) ==
  /\ NumLabels > 2
  /\ FetchedLow(i)
  /\ ~FetchedLow(t)
  /\ \E c \in Columns : OthersAlong(i, c) = {}
  /\ \E c \in Columns : OthersAlong(i, c) = {t}

SourcesOf(t) == {i \in DOMAIN fetched : LedSends(i, t)}

AidsFrom(t, sources) ==
  [n \in AidInstances |->
     fetched[t].aids[n] \cup UNION {fetched[i].aids[n] : i \in sources}]

PartsFrom(t, sources) ==
  [g \in Groups |-> IF \E i \in sources \cup {t} : fetched[i].labels = g THEN 1 ELSE 0]

LedReference(t) ==
  LET aids == AidsFrom(t, SourcesOf(t))
  IN  [labels    |-> fetched[t].labels,
       aids      |-> aids,
       parts     |-> PartsFrom(t, SourcesOf(t)),
       low_count |-> HasLowCount /\ IsLowCount(aids),
       merged    |-> \E j \in DOMAIN fetched : LedSends(t, j)]

-----------------------------------------------------------------------------
(* Properties.                                                             *)

TypeOK ==
  /\ phase \in {"idle", "fill", "led", "led_done", "star", "emit"}
  /\ buckets \in Seq(Bucket)
  /\ star \in Bucket \cup {NoBucket}
  /\ staged \in Bucket \cup {NoBucket}
  /\ staged_merges \in Nat
  /\ cursor \in Nat \ {0}
  /\ targets \subseteq DOMAIN buckets
  /\ next \in Nat
  /\ repeat \in Nat
  /\ input_done \in BOOLEAN
  /\ fetched \in Seq(ChildTuples)
  /\ out \in Seq(Nat)
  /\ eof \in BOOLEAN
  /\ rescans \in 0 .. MaxRescans

\* No row is emitted for a bucket whose AIDs, after every merge it took part
\* in, fall short of the noisy threshold in some AID instance (the low_count
\* test of bucket_exec_scan relies on flags computed before and after LED).
EmittedHighCount ==
  HasLowCount =>
    \A k \in DOMAIN out : ~IsLowCount(BucketAt(out[k]).aids)

\* A bucket that LED merged away never received the rows of another one, so
\* that no row disappears at the end of a chain of merges (led_hook leaves
\* low_count alone until its loop is over).
NoMergeChains ==
  \A i \in DOMAIN buckets :
    buckets[i].merged =>
      \A g \in Groups : buckets[i].parts[g] = IF g = buckets[i].labels THEN 1 ELSE 0

\* No bucket of the child takes in the rows of the same group twice, although
\* LED merges a bucket once for each of its isolating columns.  The star bucket
\* may: see StarCoversSuppressed.
NoDoubleCount ==
  \A i \in DOMAIN buckets, g \in Groups : buckets[i].parts[g] <= 1

\* Whatever the order in which the child returned the buckets, LED leaves every
\* bucket with the rows the reference gives it, as long as it is emitted from.
LedMatchesReference ==
  input_done /\ phase # "led" =>
    /\ Len(buckets) = Len(fetched)
    /\ \A t \in DOMAIN buckets : buckets[t] = LedReference(t)

\* The suppressed buckets that hold the rows of group g.
SuppressedWith(g) ==
  {i \in DOMAIN buckets : buckets[i].low_count /\ ~buckets[i].merged /\ buckets[i].parts[g] > 0}

\* Once the hooks have run, the star bucket has counted the rows of a group once
\* for each suppressed bucket that holds them, its own one or one that LED merged
\* it into: none is missed, and none that is emitted or merged away is counted.
\* Two suppressed buckets may hold the same group, if LED merged it into both
\* of them and both turned low count.
StarCoversSuppressed ==
  star # NoBucket => \A g \in Groups : star.parts[g] = Cardinality(SuppressedWith(g))
=============================================================================
