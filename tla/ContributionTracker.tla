------------------------ MODULE ContributionTracker ------------------------
(***************************************************************************)
(* The states of count (src/aggregation/count.c) and sum (sum.c) for one   *)
(* AID instance: contribution trackers (contribution_tracker.c) with per   *)
(* AID sums in a hash table and the sorted list of the AIDs with the       *)
(* largest sums, kept up to date row by row.  A sum has two trackers, its  *)
(* legs: one for positive, one for negative values.  LED and the star      *)
(* bucket merge states with merge_trackers (summable.c), one entry of the  *)
(* source's table at a time and in the order of the hash table.            *)
(*                                                                         *)
(* Rows with an AID in no instance are ignored (all_aids_null) and left    *)
(* out; rows without an AID in this one have one in another.               *)
(* Contributions are signed integers of the width given by IntLimit, which *)
(* wrap around (PostgreSQL and its extensions are built with -fwrapv).     *)
(***************************************************************************)
EXTENDS FiniteSets, FiniteSetsExt, TopContributors

CONSTANTS
  Buckets,        (* The buckets, the star bucket included.                 *)
  Aggregates,     (* Among "count" and "sum".                               *)
  Aids,           (* AID values: numbers, compared to break ties.           *)
  Summands,       (* Values of the argument of sum.                         *)
  NullValue,      (* The argument is NULL.                                  *)
  Capacities,     (* outlier_count_max + top_count_max: the settings in     *)
                  (* force when the tracker is created.                     *)
  IntLimit,       (* 2^63.                                                  *)
  NotSeen,        (* No contribution: the AID is not in the table.          *)
  NoMerge,        (* No merge is in progress.                               *)
  MaxRows,        (* Bound on the number of rows.                           *)
  MaxMerges       (* Bound on the number of merges.                         *)

ASSUME TrackerAssumption ==
  /\ Aids \subseteq Nat
  /\ IntLimit \in Nat \ {0, 1}
  /\ Aggregates \subseteq {"count", "sum"}
  /\ Summands \subseteq (0 - IntLimit) .. (IntLimit - 1)
  /\ NullValue \notin Int
  /\ Capacities \subseteq Nat \ {0}
  /\ NotSeen \notin Int
  /\ MaxRows \in Nat /\ MaxMerges \in Nat

Contribution == (0 - IntLimit) .. (IntLimit - 1)

Contributor == [aid : Aids, contribution : Contribution]

Legs == {"positive", "negative"}

Merge == [dst : Buckets, src : Buckets, leg : Legs, todo : SUBSET Aids]

ASSUME NoMergeAssumption == NoMerge \notin Merge

VARIABLES
  aggregate, (* "count" or "sum"                                            *)
  state,    (* The trackers of every bucket, one for each leg.              *)
  merge,    (* The loop of merge_trackers that is running, or NoMerge.      *)
  given,    (* History: the rows of every tracker, summed up for each AID.  *)
  given_nulls, (* History: the contributions without AID of every tracker.  *)
  total,    (* History: what the rows of every bucket add up to.            *)
  rows,     (* Bounded counter of the rows.                                 *)
  merges    (* Bounded counter of the merges; no rows follow the first.     *)

vars == <<aggregate, state, merge, given, given_nulls, total, rows, merges>>

-----------------------------------------------------------------------------
(* Trackers.                                                               *)

\* Mutant: the sum is unsigned.
CombineUnsigned(x, y) == (x + y + IntLimit) % (2 * IntLimit)

\* integer_contribution_combine: addition that wraps around.
Combine(x, y) == ((x + y + IntLimit) % (2 * IntLimit)) - IntLimit

\* contribution_tracker_new
NewTracker(capacity) ==
  [table        |-> [a \in Aids |-> NotSeen],
   seed         |-> {},   (* the AIDs whose XOR is aid_seed *)
   distinct     |-> 0,
   overall      |-> 0,
   unaccounted  |-> 0,
   capacity     |-> capacity,
   top          |-> <<>>]

\* The entry that contribution_tracker_update_contribution finds or creates,
\* brought up to date.
Updated(tracker, aid, contribution) ==
  [aid |-> aid,
   contribution |-> IF tracker.table[aid] = NotSeen THEN contribution
                    ELSE Combine(tracker.table[aid], contribution)]

Toggle(set, e) == IF e \in set THEN set \ {e} ELSE set \cup {e}

\* Mutant: an AID that fell out of the list is never tried again.
UpdateContributionOnce(tracker, aid, contribution) ==
  LET found == tracker.table[aid] # NotSeen
      c     == Updated(tracker, aid, contribution)
      known == AidIndex(tracker.top, aid) <= Len(tracker.top)
  IN  [tracker EXCEPT
         !.overall  = Combine(@, contribution),
         !.table[aid] = c.contribution,
         !.seed     = IF found THEN @ ELSE Toggle(@, aid),
         !.distinct = IF found THEN @ ELSE @ + 1,
         !.top      = IF ~found THEN AddTop(@, tracker.capacity, c)
                      ELSE IF known THEN UpdateOrAddTop(@, tracker.capacity, c) ELSE @]

\* contribution_tracker_update_contribution
UpdateContribution(tracker, aid, contribution) ==
  LET found == tracker.table[aid] # NotSeen
      c     == Updated(tracker, aid, contribution)
  IN  [tracker EXCEPT
         !.overall  = Combine(@, contribution),
         !.table[aid] = c.contribution,
         !.seed     = IF found THEN @ ELSE Toggle(@, aid),
         !.distinct = IF found THEN @ ELSE @ + 1,
         !.top      = IF found THEN UpdateOrAddTop(@, tracker.capacity, c)
                      ELSE AddTop(@, tracker.capacity, c)]

Entries(tracker) == {a \in Aids : tracker.table[a] # NotSeen}

-----------------------------------------------------------------------------
(* Rows.                                                                   *)

LegsOf == IF aggregate = "sum" THEN Legs ELSE {"positive"}
Arguments == IF aggregate = "sum" THEN Summands \union {NullValue} ELSE {1, NullValue}

\* integer_contribution_abs: -2^63 has no absolute value.
Abs(x) == IF x >= 0 \/ x = 0 - IntLimit THEN x ELSE 0 - x

\* Mutant: without abs.
LegContributionSigned(leg, value) ==
  IF aggregate = "count" THEN IF value = NullValue THEN 0 ELSE 1
  ELSE IF value = NullValue THEN NotSeen
  ELSE IF (leg = "positive" /\ value >= 0) \/ (leg = "negative" /\ value <= 0) THEN value
  ELSE NotSeen

\* What a row contributes to the tracker of a leg, if anything: a count takes
\* note of the AID of a NULL, a sum does not, and takes note of the AID of a
\* zero in both legs.
LegContribution(leg, value) ==
  IF aggregate = "count" THEN IF value = NullValue THEN 0 ELSE 1
  ELSE IF value = NullValue THEN NotSeen
  ELSE IF (leg = "positive" /\ value >= 0) \/ (leg = "negative" /\ value <= 0) THEN Abs(value)
  ELSE NotSeen

\* Sums of what is known of an AID, or of a row.
Plus(x, y) == IF x = NotSeen THEN y ELSE IF y = NotSeen THEN x ELSE x + y

Amount(value) == IF value = NullValue THEN 0 ELSE value

\* count_create_state, sum_create_state
Init ==
  /\ aggregate \in Aggregates
  /\ \E capacities \in [Buckets -> Capacities] :
       state = [b \in Buckets |-> [leg \in LegsOf |-> NewTracker(capacities[b])]]
  /\ merge = NoMerge
  /\ given = [b \in Buckets |-> [leg \in LegsOf |-> [a \in Aids |-> NotSeen]]]
  /\ given_nulls = [b \in Buckets |-> [leg \in LegsOf |-> 0]]
  /\ total = [b \in Buckets |-> 0]
  /\ rows = 0
  /\ merges = 0

\* A row of bucket b reaches the transition function of the aggregate.
\* The backend stops at the sanity check of update_or_add_top_contributor, or,
\* built without assertions, at the memmove that follows it.
Transition(b, aid, value) ==
  LET touched == {leg \in LegsOf : LegContribution(leg, value) # NotSeen}
  IN  /\ rows < MaxRows /\ merges = 0
      /\ \A leg \in touched :
           CanUpdate(state[b][leg].top, Updated(state[b][leg], aid, LegContribution(leg, value)))
      /\ state' = [state EXCEPT ![b] =
           [leg \in LegsOf |-> IF leg \in touched
                               THEN UpdateContribution(@[leg], aid, LegContribution(leg, value))
                               ELSE @[leg]]]
      /\ given' = [given EXCEPT ![b] =
           [leg \in LegsOf |-> [given[b][leg] EXCEPT ![aid] = Plus(@, LegContribution(leg, value))]]]
      /\ total' = [total EXCEPT ![b] = @ + Amount(value)]
      /\ rows' = rows + 1
      /\ UNCHANGED <<aggregate, merge, given_nulls, merges>>

\* The same for a row whose AID is NULL.
TransitionWithoutAid(b, value) ==
  LET Unaccounted(leg) == Plus(0, LegContribution(leg, value))
  IN  /\ rows < MaxRows /\ merges = 0
      /\ state' = [state EXCEPT ![b] =
           [leg \in LegsOf |-> [state[b][leg] EXCEPT !.unaccounted = Combine(@, Unaccounted(leg))]]]
      /\ given_nulls' = [given_nulls EXCEPT ![b] = [leg \in LegsOf |-> @[leg] + Unaccounted(leg)]]
      /\ total' = [total EXCEPT ![b] = @ + Amount(value)]
      /\ rows' = rows + 1
      /\ UNCHANGED <<aggregate, merge, given, merges>>

\* count_merge or sum_merge calls merge_trackers, for the positive leg.
BeginMerge(dst, src) ==
  /\ merge = NoMerge /\ merges < MaxMerges
  /\ dst # src
  /\ merge' = [dst |-> dst, src |-> src, leg |-> "positive", todo |-> Entries(state[src]["positive"])]
  /\ merges' = merges + 1
  /\ UNCHANGED <<aggregate, state, given, given_nulls, total, rows>>

\* One iteration of its loop over the entries of the source.
MergeEntry(aid) ==
  /\ merge # NoMerge
  /\ aid \in merge.todo
  /\ LET contribution == state[merge.src][merge.leg].table[aid]
         tracker      == state[merge.dst][merge.leg]
     IN  /\ CanUpdate(tracker.top, Updated(tracker, aid, contribution))
         /\ state' = [state EXCEPT ![merge.dst][merge.leg] = UpdateContribution(tracker, aid, contribution)]
  /\ merge' = [merge EXCEPT !.todo = @ \ {aid}]
  /\ UNCHANGED <<aggregate, given, given_nulls, total, rows, merges>>

\* After the loop.  The tracker of the destination now stands for the rows of
\* both; the merge of a sum goes on with the negative leg.
EndMerge ==
  /\ merge # NoMerge
  /\ merge.todo = {}
  /\ LET dst == merge.dst  src == merge.src  leg == merge.leg
         last == leg = "negative" \/ aggregate = "count"
     IN  /\ state' = [state EXCEPT ![dst][leg].unaccounted = Combine(@, state[src][leg].unaccounted)]
         /\ given' = [given EXCEPT ![dst][leg] = [a \in Aids |-> Plus(@[a], given[src][leg][a])]]
         /\ given_nulls' = [given_nulls EXCEPT ![dst][leg] = @ + given_nulls[src][leg]]
         /\ total' = IF last THEN [total EXCEPT ![dst] = @ + total[src]] ELSE total
         /\ merge' = IF last THEN NoMerge
                     ELSE [merge EXCEPT !.leg = "negative", !.todo = Entries(state[src]["negative"])]
  /\ UNCHANGED <<aggregate, rows, merges>>

Next ==
  \/ \E b \in Buckets, aid \in Aids, value \in Arguments : Transition(b, aid, value)
  \/ \E b \in Buckets, value \in Arguments : TransitionWithoutAid(b, value)
  \/ \E dst, src \in Buckets : BeginMerge(dst, src)
  \/ \E aid \in Aids : MergeEntry(aid)
  \/ EndMerge

Spec == Init /\ [][Next]_vars

-----------------------------------------------------------------------------
(* Properties.                                                             *)

Tracker ==
  [table : [Aids -> Contribution \cup {NotSeen}], seed : SUBSET Aids,
   distinct : Nat, overall : Contribution, unaccounted : Contribution,
   capacity : Capacities, top : Seq(Contributor)]

TypeOK ==
  /\ aggregate \in Aggregates
  /\ state \in [Buckets -> [LegsOf -> Tracker]]
  /\ merge \in Merge \cup {NoMerge}
  /\ given \in [Buckets -> [LegsOf -> [Aids -> Int \cup {NotSeen}]]]
  /\ given_nulls \in [Buckets -> [LegsOf -> Int]]
  /\ total \in [Buckets -> Int]
  /\ rows \in 0 .. MaxRows
  /\ merges \in 0 .. MaxMerges

\* At all times, in the middle of a merge too, the list of top contributors
\* is what finalize takes it for: AIDs of the table, each once, by strictly
\* falling contribution, as many as there are or as fit.
TopWellFormed ==
  \A b \in Buckets, leg \in LegsOf :
    LET tracker == state[b][leg]
        top     == tracker.top
    IN  /\ \A i, j \in DOMAIN top :
             i < j => Greater(top[i], top[j]) /\ top[i].aid # top[j].aid
        /\ \A i \in DOMAIN top : tracker.table[top[i].aid] # NotSeen
        /\ Len(top) = IF tracker.distinct < tracker.capacity THEN tracker.distinct ELSE tracker.capacity

\* A merge is bringing this tracker up to date.
Merging(b, leg) == merge # NoMerge /\ merge.dst = b /\ merge.leg = leg

\* No sum of an AID has left the integers of that width.  The smallest of them
\* is left out: it has no absolute value.
NeverWrapped(b, leg) ==
  /\ 0 - IntLimit \notin Summands
  /\ \A a \in Aids : given[b][leg][a] # NotSeen => given[b][leg][a] < IntLimit

\* The AIDs of which something is known.
Seen(known) == {a \in Aids : known[a] # NotSeen}

\* common.h: "Merging 2 separately aggregated sequences must be equivalent to
\* a single aggregation of those 2 sequences concatenated".  Whatever the
\* order of rows, merges and hash tables, a tracker only depends on the rows
\* it stands for: its sums are theirs, and its top contributors are the
\* largest of all, although an AID that was pushed out of the list comes back.
TrackerIsSumOfRows ==
  \A b \in Buckets, leg \in LegsOf :
    ~ Merging(b, leg) /\ NeverWrapped(b, leg) =>
      LET tracker == state[b][leg]
          known   == given[b][leg]
          seen    == Seen(known)
          all     == {[aid |-> a, contribution |-> known[a]] : a \in seen}
      IN  /\ tracker.table = known
          /\ tracker.seed = seen
          /\ tracker.distinct = Cardinality(seen)
          /\ \A i \in DOMAIN tracker.top :
               /\ tracker.top[i] \in all
               /\ \A c \in all : Greater(c, tracker.top[i]) =>
                                   \E j \in 1 .. (i - 1) : tracker.top[j] = c

\* What is left of a sum in integers of that width.
Wrapped(sum) == Combine(sum, 0)

\* The contributions of all AIDs.
AllOf(known) == FoldSet(LAMBDA a, sum : sum + known[a], 0, Seen(known))

\* A tracker accounts for every row it stands for: those with an AID in its
\* overall contribution, the others apart.  Between merges, the legs make up
\* the sum of the bucket.  This holds in integers of that width, also when
\* sums have wrapped, of AIDs or of all of them, before merges or in them.
RowsAddUp ==
  /\ \A b \in Buckets, leg \in LegsOf : ~ Merging(b, leg) =>
       /\ state[b][leg].overall = Wrapped(AllOf(given[b][leg]))
       /\ state[b][leg].unaccounted = Wrapped(given_nulls[b][leg])
  /\ merge = NoMerge =>
       \A b \in Buckets :
         LET In(leg) == IF leg \in LegsOf THEN state[b][leg].overall + state[b][leg].unaccounted ELSE 0
         IN  Wrapped(In("positive") - In("negative")) = Wrapped(total[b])

\* contribution_tracker.c asserts that the entry of an AID that contributes
\* again never moves down: "Assert(insertion_index <= aid_index)".
EntriesNeverMoveDown ==
  \A b \in Buckets, aid \in Aids, value \in Arguments, leg \in LegsOf :
    LET contribution == LegContribution(leg, value)
    IN  (contribution # NotSeen /\ state[b][leg].table[aid] # NotSeen) =>
          CanUpdate(state[b][leg].top, Updated(state[b][leg], aid, contribution))
=============================================================================
