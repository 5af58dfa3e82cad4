----------------------------- MODULE AggContext -----------------------------
(***************************************************************************)
(* Where the anonymizing aggregates keep their states.  The transition     *)
(* function (src/aggregation/common.c) is called by PostgreSQL's Agg node  *)
(* and learns only from the global g_current_bucket_scan                   *)
(* (src/aggregation/bucket_scan.c) whether a BucketScan is draining that   *)
(* Agg, in which memory context its states must live, and whether an       *)
(* equal aggregate earlier in the target list already counts its rows.     *)
(*                                                                         *)
(* Evaluating the arguments of an aggregate may run functions, and these   *)
(* may run queries or fetch from open cursors, so that executions nest.    *)
(* An error unwinds the executions up to whoever catches it.               *)
(***************************************************************************)
EXTENDS Integers, Sequences, FiniteSets, SequencesExt

CONSTANTS
  Scans,        (* Queries whose Agg is drained by a BucketScan.            *)
  Plains,       (* Queries whose Agg has no BucketScan parent.              *)
  Aggrefs,      (* [Query -> Seq(class)]: the anonymizing aggregates; equal *)
                (* class: same functions (AnonAggFuncs) and same arguments. *)
  MaxErrors,    (* Bound on the errors.                                     *)
  NULL,         (* No bucket scan.                                          *)
  NoState,      (* The state of an aggregate before its first call.         *)
  Redirected,   (* AGG_STATE_REDIRECTED.                                    *)
  Outer,        (* The aggregation context of the calling Agg itself.       *)
  MaxRows,      (* Bound on the rows of a bucket.                           *)
  MaxBuckets    (* Bound on the buckets of a query.                         *)

Query == Scans \cup Plains

ASSUME AggContextAssumption ==
  /\ Scans \cap Plains = {}
  /\ DOMAIN Aggrefs = Query
  /\ \A q \in Query : Aggrefs[q] \in Seq(Range(Aggrefs[q])) /\ Aggrefs[q] # <<>>
  /\ {NULL, Outer} \cap Query = {} /\ NULL # Outer
  /\ MaxRows \in Nat /\ MaxBuckets \in Nat /\ MaxErrors \in Nat

VARIABLES
  g_current_bucket_scan,  (* A scan or NULL.                                *)
  stack,                  (* The queries being executed, innermost last.    *)
  exec,                   (* The execution state of every query.            *)
  errors                  (* Bounded counter of the errors.                 *)

vars == <<g_current_bucket_scan, stack, exec, errors>>

Aggs(q) == DOMAIN Aggrefs[q]

\* What agg_state_new creates, reduced to its place and the rows it counted.
State == [context : Query \cup {Outer}, rows : Nat]

ASSUME StateAssumption == {NoState, Redirected} \cap State = {} /\ NoState # Redirected

AggState(q) == [Aggs(q) -> State \cup {NoState, Redirected}]

Running(q) == \E k \in DOMAIN stack : stack[k] = q

-----------------------------------------------------------------------------
(* Sharing and creating states.                                            *)

\* Mutant: the search for a compatible aggregate does not stop at the first.
RedirectToLast(q, i) ==
  LET same == {j \in Aggs(q) : j < i /\ Aggrefs[q][j] = Aggrefs[q][i]}
  IN  IF same = {} THEN i ELSE CHOOSE j \in same : \A k \in same : k <= j

\* init_bucket_descriptor: the first earlier aggregate whose state can be
\* shared (can_share_agg_state), or the aggregate itself.
RedirectTo(q, i) ==
  LET same == {j \in Aggs(q) : j <= i /\ Aggrefs[q][j] = Aggrefs[q][i]}
  IN  CHOOSE j \in same : \A k \in same : j <= k

\* aggref_shares_state compares Aggrefs by reference: those of another query
\* are not found in the descriptor of the current scan.
SharesState(q, i) ==
  /\ g_current_bucket_scan = q
  /\ RedirectTo(q, i) # i

\* Mutant: the current bucket scan is not tested for NULL.
GetAggStateUntested(q, i) ==
  IF exec[q].state[i] # NoState THEN exec[q].state[i]
  ELSE IF SharesState(q, i) THEN Redirected
  ELSE [context |-> g_current_bucket_scan, rows |-> 0]

\* get_agg_state.
GetAggState(q, i) ==
  IF exec[q].state[i] # NoState THEN exec[q].state[i]
  ELSE IF g_current_bucket_scan = NULL THEN [context |-> Outer, rows |-> 0]
  ELSE IF SharesState(q, i) THEN Redirected
  ELSE [context |-> g_current_bucket_scan, rows |-> 0]

\* anon_agg_state_transfn: a redirected state leaves the row to its owner.
Transfn(q, i) ==
  LET state == GetAggState(q, i)
  IN  IF state = Redirected THEN state ELSE [state EXCEPT !.rows = @ + 1]

-----------------------------------------------------------------------------
(* Executing queries.                                                      *)

NoStates(q) == [i \in Aggs(q) |-> NoState]

Execution(q) ==
  [stage   : {"closed", "open", "filled", "ended"},
   old     : Scans \cup {NULL},
   next    : Aggs(q),
   rows    : 0 .. MaxRows,
   state   : AggState(q),
   buckets : Seq([rows : 0 .. MaxRows, state : AggState(q)])]

NotBegun(q) ==
  [stage   |-> "closed",     (* closed, open, filled or ended               *)
   old     |-> NULL,         (* old_bucket_scan of fill_bucket_list         *)
   next    |-> 1,            (* the aggregate the current row is at         *)
   rows    |-> 0,            (* rows of the current group                   *)
   state   |-> NoStates(q),  (* states of the current group                 *)
   buckets |-> <<>>]         (* finished groups: rows and states            *)

Init ==
  /\ g_current_bucket_scan = NULL
  /\ stack = <<>>
  /\ exec = [q \in Query |-> NotBegun(q)]
  /\ errors = 0

\* bucket_begin_scan, or ExecInitAgg for a query without a BucketScan.
BeginScan(q) ==
  /\ exec[q].stage = "closed"
  /\ exec' = [exec EXCEPT ![q].stage = "open"]
  /\ UNCHANGED <<g_current_bucket_scan, stack, errors>>

\* The first row of a scan is asked for: fill_bucket_list saves the global
\* and enters its loop.  A query without a scan computes its next group.
\* The caller is the client, or a function run by the innermost query.
Call(q) ==
  /\ exec[q].stage = "open"
  /\ ~Running(q)
  /\ stack' = Append(stack, q)
  /\ IF q \in Scans
     THEN /\ exec' = [exec EXCEPT ![q].old = g_current_bucket_scan]
          /\ g_current_bucket_scan' = q
     ELSE UNCHANGED <<exec, g_current_bucket_scan>>
  /\ UNCHANGED errors

Top == stack[Len(stack)]

\* Grouping without GROUP BY returns one bucket even for an empty input; a
\* query that did has no more rows.
MoreInput(q) ==
  /\ Len(exec[q].buckets) < MaxBuckets
  /\ \A k \in DOMAIN exec[q].buckets : exec[q].buckets[k].rows > 0

\* The innermost Agg advances the next of its aggregates by the current row.
Transition ==
  /\ stack # <<>>
  /\ MoreInput(Top)
  /\ exec[Top].rows < MaxRows
  /\ LET i    == exec[Top].next
         last == i = Len(Aggrefs[Top])
     IN  exec' = [exec EXCEPT ![Top].state[i] = Transfn(Top, i),
                              ![Top].next = IF last THEN 1 ELSE i + 1,
                              ![Top].rows = IF last THEN @ + 1 ELSE @]
  /\ UNCHANGED <<g_current_bucket_scan, stack, errors>>

\* The innermost Agg returns a group, after anon_agg_state_finalfn has made
\* sure that all states exist.  A scan keeps the states in a bucket and goes
\* on, with the global set again; a query without one returns to its caller.
ReturnGroup ==
  /\ stack # <<>>
  /\ MoreInput(Top)
  /\ exec[Top].next = 1
  /\ exec[Top].rows > 0 \/ exec[Top].buckets = <<>>
  /\ LET bucket == [rows  |-> exec[Top].rows,
                    state |-> [i \in Aggs(Top) |-> GetAggState(Top, i)]]
     IN  exec' = [exec EXCEPT ![Top].buckets = Append(@, bucket),
                              ![Top].state = NoStates(Top),
                              ![Top].rows = 0]
  /\ IF Top \in Scans
     THEN g_current_bucket_scan' = Top /\ UNCHANGED stack
     ELSE stack' = Front(stack) /\ UNCHANGED g_current_bucket_scan
  /\ UNCHANGED errors

\* Mutant: the global is cleared instead of restored.
EndOfInputClears ==
  /\ stack # <<>>
  /\ exec[Top].next = 1
  /\ exec[Top].rows = 0
  /\ exec' = [exec EXCEPT ![Top].stage = "filled"]
  /\ stack' = Front(stack)
  /\ g_current_bucket_scan' = IF Top \in Scans THEN NULL ELSE g_current_bucket_scan
  /\ UNCHANGED errors

\* The innermost Agg has no more groups: fill_bucket_list leaves its loop and
\* restores the global.
EndOfInput ==
  /\ stack # <<>>
  /\ exec[Top].next = 1
  /\ exec[Top].rows = 0
  /\ exec' = [exec EXCEPT ![Top].stage = "filled"]
  /\ stack' = Front(stack)
  /\ g_current_bucket_scan' = IF Top \in Scans THEN exec[Top].old ELSE g_current_bucket_scan
  /\ UNCHANGED errors

\* bucket_end_scan, or the end of a query without a scan: its memory is freed.
EndScan(q) ==
  /\ exec[q].stage \in {"open", "filled"}
  /\ ~Running(q)
  /\ exec' = [exec EXCEPT ![q] = [NotBegun(q) EXCEPT !.stage = "ended"]]
  /\ UNCHANGED <<g_current_bucket_scan, stack, errors>>

\* An error is raised and caught by the client (depth 0) or by a function that
\* the query at that depth runs: the executions above are abandoned, their
\* memory is freed, and fill_bucket_list does not get to restore the global.
Error(depth) ==
  /\ errors < MaxErrors
  /\ depth < Len(stack)
  /\ stack' = SubSeq(stack, 1, depth)
  /\ exec' = [q \in Query |->
                IF \E k \in DOMAIN stack : k > depth /\ stack[k] = q
                THEN [NotBegun(q) EXCEPT !.stage = "ended"] ELSE exec[q]]
  /\ errors' = errors + 1
  /\ UNCHANGED g_current_bucket_scan

Next ==
  \/ \E q \in Query : BeginScan(q) \/ Call(q) \/ EndScan(q)
  \/ Transition
  \/ ReturnGroup
  \/ EndOfInput
  \/ \E depth \in 0 .. Len(stack) : Error(depth)

Spec == Init /\ [][Next]_vars

-----------------------------------------------------------------------------
(* Properties.                                                             *)

TypeOK ==
  /\ g_current_bucket_scan \in Scans \cup {NULL}
  /\ stack \in Seq(Query)
  /\ DOMAIN exec = Query
  /\ \A q \in Query : exec[q] \in Execution(q)
  /\ errors \in 0 .. MaxErrors

IsState(state) == state \notin {NoState, Redirected}

\* The innermost scan among the first k executions of s.
InnermostScan(s, k) ==
  LET scans == {j \in 1 .. k : s[j] \in Scans}
  IN  IF scans = {} THEN NULL ELSE s[CHOOSE j \in scans : \A l \in scans : l <= j]

ScanAt(k) == InnermostScan(stack, k)

\* States live as long as they are needed: those of a scan in its own bucket
\* context, where its buckets are; those of a query without one, which are
\* gone with its group, in its own context or that of a scan around it.  This
\* is what fill_bucket_list sets, saves and restores the global for, whatever
\* queries run nested between two transitions.  An error makes it stale.
StatesInTheirContext == errors = 0 =>
  /\ \A k \in DOMAIN stack : \A i \in Aggs(stack[k]) :
       LET state == exec[stack[k]].state[i]
       IN  IsState(state) =>
             state.context = IF ScanAt(k) = NULL THEN Outer ELSE ScanAt(k)
  /\ \A q \in Scans : \A k \in DOMAIN exec[q].buckets : \A i \in Aggs(q) :
       LET state == exec[q].buckets[k].state[i]
       IN  IsState(state) => state.context = q

\* Every aggregate of a bucket is finalized from a state (the one it is
\* redirected to) that exists and counted every row of the bucket once.
FinalizedFromAllRows ==
  \A q \in Query : \A k \in DOMAIN exec[q].buckets : \A i \in Aggs(q) :
    LET owner == IF q \in Scans THEN RedirectTo(q, i) ELSE i
        state == exec[q].buckets[k].state[owner]
    IN  IsState(state) /\ state.rows = exec[q].buckets[k].rows
=============================================================================
