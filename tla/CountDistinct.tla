--------------------------- MODULE CountDistinct ---------------------------
(***************************************************************************)
(* count(distinct col) (src/aggregation/count_distinct.c): the AID sets of *)
(* every value, and the evaluation of the aggregate.  Values of enough     *)
(* AIDs are counted as they are.  The low count ones are handed out to     *)
(* their AIDs one by one, so that each value becomes a contribution of one *)
(* AID only, for every AID instance on its own.                            *)
(***************************************************************************)
EXTENDS FiniteSets, Ordering, TopContributors

CONSTANTS
  Values,          (* Values of the column: numbers, in their sort order.   *)
  Aids,            (* AID values: numbers.                                  *)
  Instances,       (* Number of AID instances.                              *)
  Threshold,       (* generate_lcf_threshold, a function of the AID set.    *)
  MinThreshold,    (* low_count_min_threshold.                              *)
  MinContributors, (* outlier_count_min + top_count_min.                    *)
  TopCapacity,     (* outlier_count_max + top_count_max.                    *)
  NoEntry,         (* A value that is not in the table.                     *)
  MaxRows          (* Bound on the rows and merged entries.                 *)

AidInstances == 1 .. Instances

ASSUME CountDistinctAssumption ==
  /\ Values \subseteq Nat /\ IsFiniteSet(Values)
  /\ Aids \subseteq Nat /\ IsFiniteSet(Aids)
  /\ Instances \in Nat
  /\ Threshold \in [SUBSET Aids -> Nat]
  /\ MinThreshold \in Nat /\ MinContributors \in Nat /\ TopCapacity \in Nat \ {0}
  /\ NoEntry \notin [AidInstances -> SUBSET Aids]
  /\ MaxRows \in Nat

VARIABLES
  phase,      (* "aggregate", "instance", "distribute" or "done"            *)
  tracker,    (* DistinctTracker: the AID sets of every value.              *)
  aid_index,  (* The AID instance count_distinct_calculate_final is at.     *)
  per_aid,    (* per_aid_values: AID, its low count values, contributions.  *)
  cell,       (* Where in per_aid the pass of distribute_lc_values is.      *)
  used,       (* used_values                                                *)
  remaining,  (* values_count                                               *)
  result,     (* Per AID instance: top contributors, their count and seed.  *)
  credit,     (* History: the AID each used value is counted for.           *)
  passes,     (* History: completed passes over per_aid, counted up to      *)
              (* the number of values.                                      *)
  rows        (* Bounded counter of the rows.                               *)

loop_vars == <<per_aid, cell, used, remaining, credit, passes>>
vars == <<phase, tracker, aid_index, loop_vars, result, rows>>

-----------------------------------------------------------------------------
(* The tracker.                                                            *)

\* get_distinct_tracker_entry
Entry(value) == IF tracker[value] = NoEntry THEN [i \in AidInstances |-> {}] ELSE tracker[value]

\* hash_set_add and hash_set_union, for every AID instance.
WithAids(value, aids) == [i \in AidInstances |-> Entry(value)[i] \cup aids[i]]

\* aid_set_is_high_count
AidSetIsHighCount(A) == Cardinality(A) >= MinThreshold /\ Cardinality(A) >= Threshold[A]

\* filter_lc_entries
LowCountValues ==
  {v \in Values : tracker[v] # NoEntry /\ \E i \in AidInstances : ~AidSetIsHighCount(tracker[v][i])}

-----------------------------------------------------------------------------
(* Handing out the low count values of one AID instance.                   *)

\* Mutant: a value without any AID is counted as well.
TrueCountOfAll(i) == Cardinality(LowCountValues)

\* lc_values_true_count of transpose_lc_values_per_aid
TrueCount(i) == Cardinality({v \in LowCountValues : tracker[v][i] # {}})

\* The values associate_value_with_aid adds to the entry of each AID.
AssociatedValues(i) == [a \in Aids |-> {v \in LowCountValues : a \in tracker[v][i]}]

\* compare_per_aid_values_entries, of the AIDs that have an entry.
EntryOrder(values) ==
  {pair \in {a \in Aids : values[a] # {}} \X Aids :
     LET a == pair[1]  b == pair[2]
     IN  \/ Cardinality(values[a]) < Cardinality(values[b])
         \/ Cardinality(values[a]) = Cardinality(values[b]) /\ a < b}

\* transpose_lc_values_per_aid, and the sort after it.  The values of an entry
\* are sorted, as compare_tracker_entries_by_value has sorted the low count
\* values before.
PerAidValues(i) ==
  LET values == AssociatedValues(i)
      aids   == InOrder({a \in Aids : values[a] # {}}, EntryOrder(values))
  IN  [k \in DOMAIN aids |->
         [aid |-> aids[k], values |-> Ascending(values[aids[k]]), contributions |-> 0]]

\* Mutant: used values are not told apart.
UnusedAlways(value) == TRUE

\* is_marked_as_used, negated.
Unused(value) == value \notin used

\* Mutant: a used value at the end of the list costs the AID its turn.
PoppedLast(values) == Len(values)

\* Where in a list the value popped last is: list_pop_back goes on while the
\* value is used and there are more.
Popped(values) ==
  LET unused == {k \in DOMAIN values : Unused(values[k])}
  IN  IF unused = {} THEN 1 ELSE CHOOSE k \in unused : \A l \in unused : l <= k

\* process_lc_values_contributions
Contributed == SelectSeq(per_aid, LAMBDA entry : entry.contributions > 0)

InstanceResult ==
  [top   |-> FoldLeft(LAMBDA top, entry :
                        AddTop(top, TopCapacity,
                               [aid |-> entry.aid, contribution |-> entry.contributions]),
                      <<>>, Contributed),
   count |-> Len(Contributed),
   seed  |-> {Contributed[k].aid : k \in DOMAIN Contributed}]

-----------------------------------------------------------------------------

Init ==
  /\ phase = "aggregate"
  /\ tracker = [v \in Values |-> NoEntry]
  /\ aid_index = 1
  /\ per_aid = <<>> /\ cell = 1 /\ used = {} /\ remaining = 0
  /\ result = <<>>
  /\ credit = [v \in {} |-> 0] /\ passes = 0
  /\ rows = 0

\* count_distinct_transition, of a row whose value is not NULL; each of its
\* AIDs may be NULL.  count_distinct_merge does the same with the sets of an
\* entry of the source.
AddToEntry(value, aids) ==
  /\ phase = "aggregate"
  /\ rows < MaxRows
  /\ tracker' = [tracker EXCEPT ![value] = WithAids(value, aids)]
  /\ rows' = rows + 1
  /\ UNCHANGED <<phase, aid_index, loop_vars, result>>

Transition(value) ==
  \E aids \in [AidInstances -> {{}} \cup {{a} : a \in Aids}] : AddToEntry(value, aids)

MergeEntry(value) ==
  \E aids \in [AidInstances -> SUBSET Aids] : AddToEntry(value, aids)

\* count_distinct_calculate_final is called.
Finalize ==
  /\ phase = "aggregate"
  /\ phase' = "instance"
  /\ aid_index' = 1
  /\ result' = <<>>
  /\ UNCHANGED <<tracker, loop_vars, rows>>

\* The beginning of its loop over the AID instances.
StartInstance ==
  /\ phase = "instance"
  /\ aid_index <= Instances
  /\ phase' = "distribute"
  /\ per_aid' = PerAidValues(aid_index)
  /\ remaining' = TrueCount(aid_index)
  /\ used' = {}
  /\ cell' = 1
  /\ credit' = [v \in {} |-> 0]
  /\ passes' = 0
  /\ UNCHANGED <<tracker, aid_index, result, rows>>

\* distribute_lc_values: the turn of one AID in a pass.
Distribute ==
  /\ phase = "distribute"
  /\ cell <= Len(per_aid)
  /\ cell > 1 \/ remaining > 0
  /\ LET values == per_aid[cell].values
         k      == Popped(values)
         counts == Unused(values[k])
     IN  IF values = <<>> THEN UNCHANGED <<per_aid, used, remaining, credit>>
         ELSE /\ per_aid' = [per_aid EXCEPT ![cell].values = SubSeq(@, 1, k - 1),
                                            ![cell].contributions = IF counts THEN @ + 1 ELSE @]
              /\ IF counts
                 THEN /\ used' = used \cup {values[k]}
                      /\ remaining' = remaining - 1
                      /\ credit' = [v \in used' |-> IF v \in used THEN credit[v] ELSE per_aid[cell].aid]
                 ELSE UNCHANGED <<used, remaining, credit>>
  /\ cell' = cell + 1
  /\ UNCHANGED <<phase, tracker, aid_index, result, passes, rows>>

\* distribute_lc_values: the end of a pass.
NextPass ==
  /\ phase = "distribute"
  /\ cell > Len(per_aid)
  /\ remaining > 0
  /\ cell' = 1
  /\ passes' = IF passes < Cardinality(Values) THEN passes + 1 ELSE passes
  /\ UNCHANGED <<phase, tracker, aid_index, per_aid, used, remaining, result, credit, rows>>

\* The rest of the loop body: the contributors are collected, and the loop is
\* left if aggregate_contributions finds too few of them.
EndInstance ==
  /\ phase = "distribute"
  /\ remaining = 0
  /\ cell = 1 \/ cell > Len(per_aid)
  /\ result' = Append(result, InstanceResult)
  /\ aid_index' = aid_index + 1
  /\ phase' = IF InstanceResult.count < MinContributors THEN "done" ELSE "instance"
  /\ UNCHANGED <<tracker, loop_vars, rows>>

\* All instances are done.
EndFinalize ==
  /\ phase = "instance"
  /\ aid_index > Instances
  /\ phase' = "done"
  /\ UNCHANGED <<tracker, aid_index, loop_vars, result, rows>>

FinalizeStep ==
  StartInstance \/ Distribute \/ NextPass \/ EndInstance \/ EndFinalize

Next ==
  \/ \E value \in Values : Transition(value) \/ MergeEntry(value)
  \/ Finalize
  \/ FinalizeStep

Spec == Init /\ [][Next]_vars

\* The evaluation, once called, keeps running.
FairSpec == Spec /\ WF_vars(FinalizeStep)

-----------------------------------------------------------------------------
(* Properties.                                                             *)

PerAidEntry == [aid : Aids, values : Seq(Values), contributions : Nat]

TypeOK ==
  /\ phase \in {"aggregate", "instance", "distribute", "done"}
  /\ tracker \in [Values -> [AidInstances -> SUBSET Aids] \cup {NoEntry}]
  /\ aid_index \in 1 .. Instances + 1
  /\ per_aid \in Seq(PerAidEntry)
  /\ cell \in 1 .. Len(per_aid) + 1
  /\ used \subseteq Values
  /\ remaining \in Nat
  /\ Len(result) <= Instances
  /\ passes \in 0 .. Cardinality(Values)
  /\ rows \in 0 .. MaxRows

\* A low count value is counted for one AID, one of those that have it: no
\* AID is there twice, and its contributions are the values credited to it.
\* At the end of distribute_lc_values every low count value with an AID is.
CountedForOneOfItsAids ==
  phase = "distribute" =>
    /\ DOMAIN credit \subseteq LowCountValues
    /\ \A v \in DOMAIN credit : /\ credit[v] \in tracker[v][aid_index]
                                /\ \E k \in DOMAIN per_aid : per_aid[k].aid = credit[v]
    /\ \A k, l \in DOMAIN per_aid : per_aid[k].aid = per_aid[l].aid => k = l
    /\ \A k \in DOMAIN per_aid :
         per_aid[k].contributions
           = Cardinality({v \in DOMAIN credit : credit[v] = per_aid[k].aid})
    /\ (remaining = 0) <=>
         (DOMAIN credit = {v \in LowCountValues : tracker[v][aid_index] # {}})

\* "From each AID value in turn [...] a unique value is counted", says the
\* comment of distribute_lc_values: at the end of a pass no AID is behind, if
\* it still has a value to count.
TakenInTurn ==
  (phase = "distribute" /\ cell > Len(per_aid)) =>
    \A k \in DOMAIN per_aid :
      (\E l \in DOMAIN per_aid[k].values : per_aid[k].values[l] \notin used) =>
        per_aid[k].contributions = passes + 1

\* The loops of the evaluation end, whatever the AID sets are.
FinalizeReturns == phase = "instance" ~> phase = "done"
=============================================================================
