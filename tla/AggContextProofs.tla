-------------------------- MODULE AggContextProofs --------------------------
(***************************************************************************)
(* Proofs about AggContext for every set of queries, every list of         *)
(* aggregates and executions nested to any depth.                          *)
(***************************************************************************)
EXTENDS AggContext, SequenceTheorems, NaturalSets

-----------------------------------------------------------------------------
(* Sharing and creating states.                                            *)

(* The aggregates of a query are numbered. *)
LEMMA AggsType ==
  ASSUME NEW q \in Query
  PROVE  /\ Len(Aggrefs[q]) \in Nat \ {0}
         /\ Aggs(q) = 1 .. Len(Aggrefs[q])
<1>1. Aggrefs[q] \in Seq(Range(Aggrefs[q])) /\ Aggrefs[q] # <<>>
  BY AggContextAssumption DEF AggContextAssumption
<1> HIDE DEF Query
<1> DEFINE R == Range(Aggrefs[q])
<1> HIDE DEF R
<1>2. Aggrefs[q] \in Seq(R) /\ Aggrefs[q] # <<>>
  BY <1>1 DEF R
<1>3. Len(Aggrefs[q]) \in Nat \ {0}
  BY <1>2, EmptySeq
<1>4. DOMAIN Aggrefs[q] = 1 .. Len(Aggrefs[q])
  BY <1>2, LenProperties
<1> QED BY <1>3, <1>4 DEF Aggs

(* An aggregate is redirected to one that is not redirected itself. *)
LEMMA OwnerOwns ==
  ASSUME NEW q \in Query, NEW i \in Aggs(q)
  PROVE  /\ RedirectTo(q, i) \in Aggs(q)
         /\ RedirectTo(q, RedirectTo(q, i)) = RedirectTo(q, i)
<1> DEFINE same(k) == {j \in Aggs(q) : j <= k /\ Aggrefs[q][j] = Aggrefs[q][k]}
<1>1. ASSUME NEW k \in Aggs(q)
      PROVE  /\ RedirectTo(q, k) \in same(k)
             /\ \A j \in same(k) : RedirectTo(q, k) <= j
  <2>1. same(k) \in SUBSET Nat /\ k \in same(k)
    BY AggsType
  <2>2. \E j \in same(k) : \A l \in same(k) : j <= l
    <3> DEFINE S == same(k)
    <3>1. S \in SUBSET Nat /\ S # {}
      BY <2>1
    <3> HIDE DEF S
    <3>2. \E j \in S : \A l \in S : j <= l
      BY <3>1, LeastElement
    <3> QED BY <3>2 DEF S
  <2>3. RedirectTo(q, k) = CHOOSE j \in same(k) : \A l \in same(k) : j <= l
    BY DEF RedirectTo
  <2> HIDE DEF same
  <2> QED BY <2>2, <2>3
<1> DEFINE owner == RedirectTo(q, i)
<1>2. owner \in Aggs(q) /\ owner <= i /\ Aggrefs[q][owner] = Aggrefs[q][i]
  BY <1>1
<1>3. /\ RedirectTo(q, owner) \in Aggs(q) /\ RedirectTo(q, owner) <= owner
      /\ Aggrefs[q][RedirectTo(q, owner)] = Aggrefs[q][owner]
  BY <1>1, <1>2
<1>4. owner \in Int /\ i \in Int /\ RedirectTo(q, owner) \in Int
  BY <1>2, <1>3, AggsType
<1>5. RedirectTo(q, owner) \in same(i)
  BY <1>2, <1>3, <1>4
<1>6. owner <= RedirectTo(q, owner)
  BY <1>1, <1>5
<1> QED BY <1>2, <1>3, <1>4, <1>6

\* The aggregate keeps a state of its own.
Owns(q, i) == q \in Scans => RedirectTo(q, i) = i

(* What get_agg_state returns: the state there is, or a new one in the       *)
(* context the global tells, and never a redirection for an owner.           *)
LEMMA GetAggStateType ==
  ASSUME TypeOK, NEW q \in Query, NEW i \in Aggs(q)
  PROVE  /\ exec[q].state[i] \in State \cup {NoState, Redirected}
         /\ exec[q].state[i] # NoState => GetAggState(q, i) = exec[q].state[i]
         /\ exec[q].state[i] = NoState =>
              \/ ~Owns(q, i) /\ GetAggState(q, i) = Redirected
              \/ GetAggState(q, i) = [context |-> IF g_current_bucket_scan = NULL THEN Outer
                                                  ELSE g_current_bucket_scan,
                                      rows |-> 0]
         /\ GetAggState(q, i) \in State \cup {Redirected}
<1>1. exec[q].state[i] \in State \cup {NoState, Redirected}
  BY DEF TypeOK, Execution, AggState
<1>2. g_current_bucket_scan \in Scans \cup {NULL} /\ Scans \cap Plains = {} /\ NULL \notin Query
  BY AggContextAssumption DEF TypeOK, AggContextAssumption
<1>3. exec[q].state[i] # NoState => GetAggState(q, i) = exec[q].state[i]
  BY DEF GetAggState
<1>4. exec[q].state[i] = NoState =>
        \/ ~Owns(q, i) /\ GetAggState(q, i) = Redirected
        \/ GetAggState(q, i) = [context |-> IF g_current_bucket_scan = NULL THEN Outer
                                            ELSE g_current_bucket_scan,
                                rows |-> 0]
  BY <1>2 DEF GetAggState, SharesState, Owns
<1>5. [context |-> IF g_current_bucket_scan = NULL THEN Outer ELSE g_current_bucket_scan,
       rows |-> 0] \in State
  BY <1>2 DEF State, Query
<1> QED BY <1>1, <1>3, <1>4, <1>5

(* anon_agg_state_transfn counts one row in a state and leaves its context. *)
LEMMA TransfnType ==
  ASSUME TypeOK, NEW q \in Query, NEW i \in Aggs(q)
  PROVE  \/ GetAggState(q, i) = Redirected /\ Transfn(q, i) = Redirected
         \/ /\ GetAggState(q, i) \in State /\ Transfn(q, i) \in State
            /\ Transfn(q, i).rows = GetAggState(q, i).rows + 1
            /\ Transfn(q, i).context = GetAggState(q, i).context
<1>1. CASE GetAggState(q, i) = Redirected
  BY <1>1 DEF Transfn
<1>2. CASE GetAggState(q, i) \in State
  <2>1. GetAggState(q, i) # Redirected
    BY <1>2, StateAssumption DEF StateAssumption
  <2>2. Transfn(q, i) = [GetAggState(q, i) EXCEPT !.rows = @ + 1]
    BY <2>1 DEF Transfn
  <2> QED BY <1>2, <2>2 DEF State
<1> QED BY <1>1, <1>2, GetAggStateType

-----------------------------------------------------------------------------
(* What the actions do to the executions.                                  *)

(* The innermost query, and the stack without it. *)
LEMMA TopType ==
  ASSUME TypeOK, stack # <<>>
  PROVE  /\ Top \in Query /\ Len(stack) \in Nat \ {0} /\ DOMAIN stack = 1 .. Len(stack)
         /\ Top = stack[Len(stack)] /\ Len(stack) \in DOMAIN stack
         /\ Front(stack) \in Seq(Query) /\ Len(Front(stack)) = Len(stack) - 1
         /\ \A k \in 1 .. Len(stack) - 1 : Front(stack)[k] = stack[k]
<1>1. stack \in Seq(Query)
  BY DEF TypeOK
<1> HIDE DEF Query
<1>2. Len(stack) \in Nat \ {0} /\ DOMAIN stack = 1 .. Len(stack)
  BY <1>1, EmptySeq, LenProperties
<1>3. Top = stack[Len(stack)] /\ Top \in Query
  BY <1>1, <1>2, ElementOfSeq DEF Top
<1>4. Front(stack) = SubSeq(stack, 1, Len(stack) - 1)
  BY DEF Front
<1>5. \A i \in 1 .. Len(stack) - 1 : stack[i] \in Query
  BY <1>1, <1>2, ElementOfSeq
<1>6. /\ SubSeq(stack, 1, Len(stack) - 1) \in Seq(Query)
      /\ Len(SubSeq(stack, 1, Len(stack) - 1)) = Len(stack) - 1
      /\ \A k \in 1 .. Len(stack) - 1 : SubSeq(stack, 1, Len(stack) - 1)[k] = stack[k]
  BY <1>1, <1>2, <1>5
<1> QED BY <1>2, <1>3, <1>4, <1>6

(* Before it begins and after it ends, a query has no states and no buckets. *)
LEMMA NotBegunType ==
  ASSUME NEW q \in Query
  PROVE  /\ NotBegun(q) \in Execution(q)
         /\ [NotBegun(q) EXCEPT !.stage = "ended"] \in Execution(q)
         /\ NoStates(q) \in AggState(q)
         /\ \A i \in Aggs(q) : NoStates(q)[i] = NoState
<1>1. 1 \in Aggs(q)
  BY AggsType
<1>2. 0 \in 0 .. MaxRows
  BY AggContextAssumption DEF AggContextAssumption
<1>3. NoStates(q) \in AggState(q)
  BY DEF NoStates, AggState
<1>4. <<>> \in Seq([rows : 0 .. MaxRows, state : AggState(q)])
  BY EmptySeq
<1>5. NotBegun(q) \in Execution(q)
  BY <1>1, <1>2, <1>3, <1>4 DEF NotBegun, Execution
<1>6. [NotBegun(q) EXCEPT !.stage = "ended"] \in Execution(q)
  BY <1>5 DEF Execution
<1> QED BY <1>3, <1>5, <1>6 DEF NoStates

\* Only the execution of q changes, to e.
Becomes(q, e) ==
  /\ DOMAIN exec' = Query
  /\ \A p \in Query \ {q} : exec'[p] = exec[p]
  /\ exec'[q] = e
  /\ e \in Execution(q)

LEMMA BeginScanEffect ==
  ASSUME TypeOK, NEW q \in Query, BeginScan(q)
  PROVE  Becomes(q, [exec[q] EXCEPT !.stage = "open"])
<1>1. exec[q] \in Execution(q) /\ DOMAIN exec = Query
  BY DEF TypeOK
<1>2. [exec[q] EXCEPT !.stage = "open"] \in Execution(q)
  BY <1>1 DEF Execution
<1> QED BY <1>1, <1>2 DEF BeginScan, Becomes

LEMMA CallEffect ==
  ASSUME TypeOK, NEW q \in Query, Call(q)
  PROVE  Becomes(q, IF q \in Scans THEN [exec[q] EXCEPT !.old = g_current_bucket_scan] ELSE exec[q])
<1>1. exec[q] \in Execution(q) /\ DOMAIN exec = Query
  BY DEF TypeOK
<1>2. [exec[q] EXCEPT !.old = g_current_bucket_scan] \in Execution(q)
  BY <1>1 DEF Execution, TypeOK
<1> QED BY <1>1, <1>2 DEF Call, Becomes

LEMMA TransitionEffect ==
  ASSUME TypeOK, Transition, NEW q, q = Top, NEW i, i = exec[q].next
  PROVE  /\ q \in Query /\ i \in Aggs(q) /\ exec[q].rows \in 0 .. MaxRows
         /\ Becomes(q, [exec[q] EXCEPT !.state = [exec[q].state EXCEPT ![i] = Transfn(q, i)],
                                       !.next = IF i = Len(Aggrefs[q]) THEN 1 ELSE i + 1,
                                       !.rows = IF i = Len(Aggrefs[q]) THEN exec[q].rows + 1 ELSE exec[q].rows])
<1>1. exec[q] \in Execution(q) /\ DOMAIN exec = Query /\ q \in Query
  BY TopType DEF TypeOK, Transition
<1>2. i \in Aggs(q) /\ exec[q].rows \in 0 .. MaxRows /\ exec[q].state \in AggState(q)
  BY <1>1 DEF Execution
<1>3. Transfn(q, i) \in State \cup {Redirected}
  BY <1>1, <1>2, TransfnType
<1>4. [exec[q].state EXCEPT ![i] = Transfn(q, i)] \in AggState(q)
  BY <1>2, <1>3 DEF AggState
<1>5. (IF i = Len(Aggrefs[q]) THEN 1 ELSE i + 1) \in Aggs(q)
  <2>1. Len(Aggrefs[q]) \in Nat \ {0} /\ Aggs(q) = 1 .. Len(Aggrefs[q])
    BY <1>1, AggsType
  <2>2. CASE i = Len(Aggrefs[q])
    BY <2>1, <2>2
  <2>3. CASE i # Len(Aggrefs[q])
    <3>1. i + 1 \in Aggs(q)
      BY <1>2, <2>1, <2>3
    <3> QED BY <2>3, <3>1
  <2> QED BY <2>2, <2>3
<1>6. (IF i = Len(Aggrefs[q]) THEN exec[q].rows + 1 ELSE exec[q].rows) \in 0 .. MaxRows
  BY <1>2, AggContextAssumption DEF Transition, AggContextAssumption
<1>7. [exec[q] EXCEPT !.state = [exec[q].state EXCEPT ![i] = Transfn(q, i)],
                      !.next = IF i = Len(Aggrefs[q]) THEN 1 ELSE i + 1,
                      !.rows = IF i = Len(Aggrefs[q]) THEN exec[q].rows + 1 ELSE exec[q].rows] \in Execution(q)
  <2> DEFINE state == [exec[q].state EXCEPT ![i] = Transfn(q, i)]
             next == IF i = Len(Aggrefs[q]) THEN 1 ELSE i + 1
             n == IF i = Len(Aggrefs[q]) THEN exec[q].rows + 1 ELSE exec[q].rows
  <2>1. state \in AggState(q) /\ next \in Aggs(q) /\ n \in 0 .. MaxRows
    BY <1>4, <1>5, <1>6
  <2> HIDE DEF state, next, n
  <2>2. [exec[q] EXCEPT !.state = state, !.next = next, !.rows = n] \in Execution(q)
    BY <1>1, <2>1 DEF Execution
  <2> QED BY <2>2 DEF state, next, n
<1>8. exec' = [exec EXCEPT ![q] =
                 [exec[q] EXCEPT !.state = [exec[q].state EXCEPT ![i] = Transfn(q, i)],
                                 !.next = IF i = Len(Aggrefs[q]) THEN 1 ELSE i + 1,
                                 !.rows = IF i = Len(Aggrefs[q]) THEN exec[q].rows + 1 ELSE exec[q].rows]]
  BY <1>1 DEF Transition
<1> QED BY <1>1, <1>2, <1>7, <1>8 DEF Becomes

\* The bucket fill_bucket_list makes of the current group.
BucketOf(q) ==
  [rows |-> exec[q].rows, state |-> [i \in Aggs(q) |-> GetAggState(q, i)]]

LEMMA ReturnGroupEffect ==
  ASSUME TypeOK, ReturnGroup, NEW q, q = Top
  PROVE  /\ q \in Query
         /\ BucketOf(q) \in [rows : 0 .. MaxRows, state : AggState(q)]
         /\ Becomes(q, [exec[q] EXCEPT !.buckets = Append(exec[q].buckets, BucketOf(q)),
                                       !.state = NoStates(q), !.rows = 0])
<1>1. exec[q] \in Execution(q) /\ DOMAIN exec = Query /\ q \in Query
  BY TopType DEF TypeOK, ReturnGroup
<1>2. BucketOf(q) \in [rows : 0 .. MaxRows, state : AggState(q)]
  <2>1. exec[q].rows \in 0 .. MaxRows
    BY <1>1 DEF Execution
  <2>2. \A i \in Aggs(q) : GetAggState(q, i) \in State \cup {NoState, Redirected}
    BY <1>1, GetAggStateType
  <2>3. [i \in Aggs(q) |-> GetAggState(q, i)] \in AggState(q)
    BY <2>2 DEF AggState
  <2> QED BY <2>1, <2>3 DEF BucketOf
<1>3. Append(exec[q].buckets, BucketOf(q)) \in Seq([rows : 0 .. MaxRows, state : AggState(q)])
  <2>1. exec[q].buckets \in Seq([rows : 0 .. MaxRows, state : AggState(q)])
    BY <1>1 DEF Execution
  <2> QED BY <1>2, <2>1, AppendProperties
<1>4a. NoStates(q) \in AggState(q)
  BY <1>1, NotBegunType
<1>4b. 0 \in 0 .. MaxRows
  BY AggContextAssumption DEF AggContextAssumption
<1>5. [exec[q] EXCEPT !.buckets = Append(exec[q].buckets, BucketOf(q)),
                      !.state = NoStates(q), !.rows = 0] \in Execution(q)
  BY <1>1, <1>3, <1>4a, <1>4b DEF Execution
<1>6. exec' = [exec EXCEPT ![q] =
                 [exec[q] EXCEPT !.buckets = Append(exec[q].buckets, BucketOf(q)),
                                 !.state = NoStates(q), !.rows = 0]]
  BY <1>1 DEF ReturnGroup, BucketOf
<1> QED BY <1>1, <1>2, <1>5, <1>6 DEF Becomes

LEMMA EndOfInputEffect ==
  ASSUME TypeOK, EndOfInput, NEW q, q = Top
  PROVE  q \in Query /\ Becomes(q, [exec[q] EXCEPT !.stage = "filled"])
<1>1. exec[q] \in Execution(q) /\ DOMAIN exec = Query /\ q \in Query
  BY TopType DEF TypeOK, EndOfInput
<1>2. [exec[q] EXCEPT !.stage = "filled"] \in Execution(q)
  BY <1>1 DEF Execution
<1> QED BY <1>1, <1>2 DEF EndOfInput, Becomes

LEMMA EndScanEffect ==
  ASSUME TypeOK, NEW q \in Query, EndScan(q)
  PROVE  Becomes(q, [NotBegun(q) EXCEPT !.stage = "ended"])
BY NotBegunType DEF EndScan, Becomes, TypeOK

LEMMA TypeStep == TypeOK /\ [Next]_vars => TypeOK'
<1> SUFFICES ASSUME TypeOK, [Next]_vars PROVE TypeOK'
  OBVIOUS
<1>1. ASSUME NEW q \in Query, NEW e, Becomes(q, e)
      PROVE  DOMAIN exec' = Query /\ \A p \in Query : exec'[p] \in Execution(p)
  BY <1>1 DEF Becomes, TypeOK
<1>2. ASSUME NEW q \in Query, BeginScan(q) PROVE TypeOK'
  BY <1>1, <1>2, BeginScanEffect DEF BeginScan, TypeOK
<1>3. ASSUME NEW q \in Query, Call(q) PROVE TypeOK'
  <2>1. stack' \in Seq(Query)
    BY <1>3 DEF Call, TypeOK
  <2> QED BY <1>1, <1>3, <2>1, CallEffect DEF Call, TypeOK
<1>4. ASSUME NEW q \in Query, EndScan(q) PROVE TypeOK'
  BY <1>1, <1>4, EndScanEffect DEF EndScan, TypeOK
<1>5. CASE Transition
  <2>1. UNCHANGED <<g_current_bucket_scan, stack, errors>> /\ Top \in Query
    BY <1>5, TopType DEF Transition
  <2>2. PICK e : Becomes(Top, e)
    BY <1>5, TransitionEffect
  <2>3. DOMAIN exec' = Query /\ \A p \in Query : exec'[p] \in Execution(p)
    BY <1>1, <2>1, <2>2
  <2> QED BY <2>1, <2>3 DEF TypeOK
<1>6. CASE ReturnGroup
  <2>1. stack' \in Seq(Query) /\ g_current_bucket_scan' \in Scans \cup {NULL}
    BY <1>6, TopType DEF ReturnGroup, TypeOK
  <2> QED BY <1>1, <1>6, <2>1, ReturnGroupEffect DEF ReturnGroup, TypeOK
<1>7. CASE EndOfInput
  <2>1. exec[Top].old \in Scans \cup {NULL} /\ Front(stack) \in Seq(Query)
    BY <1>7, TopType DEF EndOfInput, TypeOK, Execution
  <2>2. stack' \in Seq(Query) /\ g_current_bucket_scan' \in Scans \cup {NULL}
    BY <1>7, <2>1 DEF EndOfInput, TypeOK
  <2> QED BY <1>1, <1>7, <2>2, EndOfInputEffect DEF EndOfInput, TypeOK
<1>8. ASSUME NEW depth \in 0 .. Len(stack), Error(depth) PROVE TypeOK'
  <2>1. stack \in Seq(Query) /\ depth \in Nat /\ depth < Len(stack) /\ Len(stack) \in Nat
    BY <1>8 DEF Error, TypeOK
  <2>2. SubSeq(stack, 1, depth) \in Seq(Query)
    BY <2>1
  <2>3. DOMAIN exec' = Query /\ \A p \in Query : exec'[p] \in Execution(p)
    BY <1>8, NotBegunType DEF Error, TypeOK
  <2>4. errors' \in 0 .. MaxErrors
    BY <1>8, AggContextAssumption DEF Error, TypeOK, AggContextAssumption
  <2> QED BY <1>8, <2>2, <2>3, <2>4 DEF Error, TypeOK
<1>9. CASE UNCHANGED vars
  BY <1>9 DEF vars, TypeOK
<1>10. ASSUME Next PROVE TypeOK'
  <2>1. CASE \E q \in Query : BeginScan(q) \/ Call(q) \/ EndScan(q)
    BY <1>2, <1>3, <1>4, <2>1
  <2>2. CASE \E depth \in 0 .. Len(stack) : Error(depth)
    BY <1>8, <2>2
  <2> QED BY <1>5, <1>6, <1>7, <1>10, <2>1, <2>2 DEF Next
<1> QED BY <1>9, <1>10
-----------------------------------------------------------------------------
(* Rows and states: every state counts every row once.                     *)

(* What holds of the execution e of query q.  An aggregate has no state      *)
(* before the group's first row reaches it, an owner is never redirected, a  *)
(* state has counted the current row if the row has passed it, and a         *)
(* finished group has the states it is finalized from.                       *)
Counted(q, e) ==
  /\ \A i \in Aggs(q) :
       /\ (e.state[i] = NoState) <=> (e.rows = 0 /\ i >= e.next)
       /\ Owns(q, i) => e.state[i] # Redirected
       /\ IsState(e.state[i]) => e.state[i].rows = e.rows + IF i < e.next THEN 1 ELSE 0
  /\ \A k \in DOMAIN e.buckets : \A i \in Aggs(q) :
       LET owner == IF q \in Scans THEN RedirectTo(q, i) ELSE i
           state == e.buckets[k].state[owner]
       IN  IsState(state) /\ state.rows = e.buckets[k].rows

CountInv == \A q \in Query : Counted(q, exec[q])

LEMMA CountInvStates == CountInv => FinalizedFromAllRows
BY DEF CountInv, Counted, FinalizedFromAllRows

(* Only a change of its rows, states and buckets can disturb what is said of *)
(* an execution, and one that has not begun, or has ended, has nothing to    *)
(* count.                                                                    *)
LEMMA SameCounts ==
  ASSUME NEW q \in Query, NEW e, NEW f, Counted(q, e), f.state = e.state,
         f.rows = e.rows, f.next = e.next, f.buckets = e.buckets
  PROVE  Counted(q, f)
BY DEF Counted

LEMMA NothingCounted ==
  ASSUME NEW q \in Query
  PROVE  Counted(q, NotBegun(q)) /\ Counted(q, [NotBegun(q) EXCEPT !.stage = "ended"])
<1>1. Counted(q, NotBegun(q))
  <2>1. DOMAIN NotBegun(q).buckets = {}
    BY DEF NotBegun
  <2>2. \A i \in Aggs(q) : i >= NotBegun(q).next
    BY AggsType DEF NotBegun
  <2>3. NotBegun(q).rows = 0 /\ \A i \in Aggs(q) : NotBegun(q).state[i] = NoState
    BY DEF NotBegun, NoStates
  <2>4. NoState # Redirected
    BY StateAssumption DEF StateAssumption
  <2> QED BY <2>1, <2>2, <2>3, <2>4 DEF Counted, IsState
<1> DEFINE e == [NotBegun(q) EXCEPT !.stage = "ended"]
<1>2. /\ e.state = NotBegun(q).state /\ e.rows = NotBegun(q).rows
      /\ e.next = NotBegun(q).next /\ e.buckets = NotBegun(q).buckets
  BY DEF NotBegun
<1> QED BY <1>1, <1>2, SameCounts

LEMMA CountedNext ==
  ASSUME \A p \in Query : Counted(p, exec'[p])
  PROVE  CountInv'
BY DEF CountInv, Counted, Owns, IsState, Aggs, RedirectTo

LEMMA CountedStep ==
  ASSUME CountInv, NEW q \in Query, NEW e, Becomes(q, e), Counted(q, e)
  PROVE  CountInv'
<1>1. \A p \in Query : Counted(p, exec'[p])
  BY DEF CountInv, Becomes
<1> QED BY <1>1, CountedNext

(* The state a transition leaves behind has counted one row more than before *)
(* and can be finalized from, unless it is redirected.                       *)
LEMMA TransitionCounts ==
  ASSUME TypeOK, CountInv, NEW q \in Query, NEW i \in Aggs(q), i = exec[q].next
  PROVE  /\ Transfn(q, i) # NoState
         /\ Owns(q, i) => Transfn(q, i) # Redirected
         /\ Transfn(q, i) # Redirected => Transfn(q, i).rows = exec[q].rows + 1
<1>1. /\ (exec[q].state[i] = NoState) <=> (exec[q].rows = 0)
      /\ Owns(q, i) => exec[q].state[i] # Redirected
      /\ IsState(exec[q].state[i]) => exec[q].state[i].rows = exec[q].rows
  <2>1. i \in Int /\ exec[q].rows \in Int
    <3>1. exec[q].rows \in 0 .. MaxRows
      BY DEF TypeOK, Execution
    <3>2. MaxRows \in Nat
      BY AggContextAssumption DEF AggContextAssumption
    <3> QED BY <3>1, <3>2, AggsType
  <2> QED BY <2>1 DEF CountInv, Counted
<1>2. State \cap {NoState, Redirected} = {} /\ NoState # Redirected
  BY StateAssumption DEF StateAssumption
<1>3. GetAggState(q, i) # Redirected => GetAggState(q, i).rows = exec[q].rows
  BY <1>1, GetAggStateType DEF IsState
<1>4. Owns(q, i) => GetAggState(q, i) # Redirected
  <2>1. [context |-> IF g_current_bucket_scan = NULL THEN Outer ELSE g_current_bucket_scan,
         rows |-> 0] \in State
    <3>1. g_current_bucket_scan \in Scans \cup {NULL} /\ NULL \notin Query
      BY AggContextAssumption DEF TypeOK, AggContextAssumption
    <3> QED BY <3>1 DEF State, Query
  <2> QED BY <1>1, <1>2, <2>1, GetAggStateType
<1>5. Transfn(q, i) = Redirected <=> GetAggState(q, i) = Redirected
  BY <1>2, TransfnType
<1> QED BY <1>2, <1>3, <1>4, <1>5, TransfnType

LEMMA CountStep == TypeOK /\ CountInv /\ [Next]_vars => CountInv'
<1> SUFFICES ASSUME TypeOK, CountInv, [Next]_vars PROVE CountInv'
  OBVIOUS
<1>a. \A p \in Query : exec[p] \in Execution(p) /\ Counted(p, exec[p])
  BY DEF TypeOK, CountInv
<1>1. ASSUME NEW q \in Query, BeginScan(q) PROVE CountInv'
  <2> DEFINE e == [exec[q] EXCEPT !.stage = "open"]
  <2>1. /\ e.state = exec[q].state /\ e.rows = exec[q].rows
        /\ e.next = exec[q].next /\ e.buckets = exec[q].buckets
    BY <1>a DEF Execution
  <2>2. Counted(q, e)
    BY <1>a, <2>1, SameCounts
  <2> QED BY <1>1, <2>2, BeginScanEffect, CountedStep
<1>2. ASSUME NEW q \in Query, Call(q) PROVE CountInv'
  <2> DEFINE e == [exec[q] EXCEPT !.old = g_current_bucket_scan]
  <2>1. /\ e.state = exec[q].state /\ e.rows = exec[q].rows
        /\ e.next = exec[q].next /\ e.buckets = exec[q].buckets
    BY <1>a DEF Execution
  <2>2. Counted(q, e) /\ Counted(q, exec[q])
    BY <1>a, <2>1, SameCounts
  <2> HIDE DEF e
  <2>3. Counted(q, IF q \in Scans THEN e ELSE exec[q])
    BY <2>2
  <2> QED BY <1>2, <2>3, CallEffect, CountedStep DEF e
<1>3. ASSUME NEW q \in Query, EndScan(q) PROVE CountInv'
  BY <1>3, EndScanEffect, NothingCounted, CountedStep
<1>4. ASSUME Transition PROVE CountInv'
  <2> DEFINE q == Top  i == exec[q].next  n == Len(Aggrefs[q])
  <2> DEFINE e == [exec[q] EXCEPT !.state = [exec[q].state EXCEPT ![i] = Transfn(q, i)],
                                  !.next = IF i = n THEN 1 ELSE i + 1,
                                  !.rows = IF i = n THEN exec[q].rows + 1 ELSE exec[q].rows]
  <2>1. q \in Query /\ i \in Aggs(q) /\ exec[q].rows \in Nat /\ Becomes(q, e)
    <3>1. q \in Query /\ i \in Aggs(q) /\ exec[q].rows \in 0 .. MaxRows /\ Becomes(q, e)
      BY <1>4, TransitionEffect
    <3> QED BY <3>1, AggContextAssumption DEF AggContextAssumption
  <2>2. n \in Nat \ {0} /\ Aggs(q) = 1 .. n
    BY <2>1, AggsType
  <2>3. /\ e.state = [exec[q].state EXCEPT ![i] = Transfn(q, i)]
        /\ e.next = IF i = n THEN 1 ELSE i + 1
        /\ e.rows = IF i = n THEN exec[q].rows + 1 ELSE exec[q].rows
        /\ e.buckets = exec[q].buckets
        /\ DOMAIN exec[q].state = Aggs(q)
    BY <1>a, <2>1 DEF Execution, AggState
  <2>4. /\ Transfn(q, i) # NoState
        /\ Owns(q, i) => Transfn(q, i) # Redirected
        /\ Transfn(q, i) # Redirected => Transfn(q, i).rows = exec[q].rows + 1
    BY <2>1, TransitionCounts
  <2>5. Counted(q, exec[q])
    BY <1>a, <2>1
  <2> HIDE DEF e, q, i, n
  <2>6. e.state[i] = Transfn(q, i) /\ \A j \in Aggs(q) \ {i} : e.state[j] = exec[q].state[j]
    BY <2>1, <2>3
  <2>7. ASSUME NEW j \in Aggs(q)
        PROVE  /\ (e.state[j] = NoState) <=> (e.rows = 0 /\ j >= e.next)
               /\ Owns(q, j) => e.state[j] # Redirected
               /\ IsState(e.state[j]) => e.state[j].rows = e.rows + IF j < e.next THEN 1 ELSE 0
    <3>1. CASE j = i
      <4>1. ~ (e.rows = 0 /\ j >= e.next)
        BY <2>1, <2>2, <2>3, <3>1
      <4>2. exec[q].rows + 1 = e.rows + IF j < e.next THEN 1 ELSE 0
        BY <2>1, <2>2, <2>3, <3>1
      <4> QED BY <2>4, <2>6, <3>1, <4>1, <4>2 DEF IsState
    <3>2. CASE j # i
      <4>1. /\ (e.state[j] = NoState) <=> (exec[q].rows = 0 /\ j >= i)
            /\ Owns(q, j) => e.state[j] # Redirected
            /\ IsState(e.state[j]) => e.state[j].rows = exec[q].rows + IF j < i THEN 1 ELSE 0
        BY <2>5, <2>6, <3>2 DEF Counted, i
      <4>2. (e.rows = 0 /\ j >= e.next) <=> (exec[q].rows = 0 /\ j >= i)
        BY <2>1, <2>2, <2>3, <3>2
      <4>3. (IF j < i THEN 1 ELSE 0) + exec[q].rows = e.rows + IF j < e.next THEN 1 ELSE 0
        BY <2>1, <2>2, <2>3, <3>2
      <4> QED BY <2>1, <4>1, <4>2, <4>3
    <3> QED BY <3>1, <3>2
  <2>8. Counted(q, e)
    BY <2>3, <2>5, <2>7 DEF Counted
  <2> QED BY <2>1, <2>8, CountedStep
<1>5. ASSUME ReturnGroup PROVE CountInv'
  <2> DEFINE q == Top
  <2> DEFINE e == [exec[q] EXCEPT !.buckets = Append(exec[q].buckets, BucketOf(q)),
                                  !.state = NoStates(q), !.rows = 0]
  <2>1. q \in Query /\ Becomes(q, e) /\ exec[q].next = 1
    BY <1>5, ReturnGroupEffect DEF ReturnGroup
  <2>2. Counted(q, exec[q]) /\ exec[q].rows \in Nat
    <3>1. exec[q].rows \in 0 .. MaxRows
      BY <1>a, <2>1 DEF Execution
    <3>2. MaxRows \in Nat
      BY AggContextAssumption DEF AggContextAssumption
    <3> QED BY <1>a, <2>1, <3>1, <3>2
  <2>3. /\ e.state = NoStates(q) /\ e.next = 1 /\ e.rows = 0
        /\ e.buckets = Append(exec[q].buckets, BucketOf(q))
        /\ exec[q].buckets \in Seq([rows : 0 .. MaxRows, state : AggState(q)])
    BY <1>a, <2>1 DEF Execution
  <2> HIDE DEF e, q
  <2>4. NoState # Redirected /\ State \cap {NoState, Redirected} = {}
    BY StateAssumption DEF StateAssumption
  <2>5. \A i \in Aggs(q) : i >= 1 /\ i \in Int
    BY <2>1, AggsType
  <2>6. ASSUME NEW i \in Aggs(q), Owns(q, i)
        PROVE  IsState(GetAggState(q, i)) /\ GetAggState(q, i).rows = exec[q].rows
    <3>1. /\ (exec[q].state[i] = NoState) <=> (exec[q].rows = 0)
          /\ exec[q].state[i] # Redirected
          /\ IsState(exec[q].state[i]) => exec[q].state[i].rows = exec[q].rows
      BY <2>1, <2>2, <2>5, <2>6 DEF Counted
    <3>2. CASE exec[q].state[i] = NoState
      <4>1. GetAggState(q, i) = [context |-> IF g_current_bucket_scan = NULL THEN Outer
                                             ELSE g_current_bucket_scan,
                                 rows |-> 0]
        BY <2>1, <2>6, <3>2, GetAggStateType
      <4>2. GetAggState(q, i) \in State \cup {Redirected}
        BY <2>1, GetAggStateType
      <4>3. GetAggState(q, i) \in State
        <5>1. g_current_bucket_scan \in Scans \cup {NULL} /\ NULL \notin Query
          BY AggContextAssumption DEF TypeOK, AggContextAssumption
        <5> QED BY <4>1, <5>1 DEF State, Query
      <4> QED BY <2>4, <3>1, <3>2, <4>1, <4>3 DEF IsState
    <3>3. CASE exec[q].state[i] # NoState
      BY <2>1, <3>1, <3>3, GetAggStateType DEF IsState
    <3> QED BY <3>2, <3>3
  <2>7. ASSUME NEW i \in Aggs(q)
        PROVE  LET owner == IF q \in Scans THEN RedirectTo(q, i) ELSE i
                   state == BucketOf(q).state[owner]
               IN  IsState(state) /\ state.rows = BucketOf(q).rows
    <3> DEFINE owner == IF q \in Scans THEN RedirectTo(q, i) ELSE i
    <3>1. owner \in Aggs(q) /\ Owns(q, owner)
      BY <2>1, OwnerOwns DEF Owns
    <3> HIDE DEF owner
    <3>2. BucketOf(q).state[owner] = GetAggState(q, owner) /\ BucketOf(q).rows = exec[q].rows
      BY <3>1 DEF BucketOf
    <3>3. IsState(BucketOf(q).state[owner]) /\ BucketOf(q).state[owner].rows = BucketOf(q).rows
      BY <2>6, <3>1, <3>2
    <3> QED BY <3>3 DEF owner
  <2>8. ASSUME NEW k \in DOMAIN e.buckets
        PROVE  e.buckets[k] = BucketOf(q) \/ (k \in DOMAIN exec[q].buckets
                                              /\ e.buckets[k] = exec[q].buckets[k])
    BY <2>3, LenProperties, AppendProperties
  <2>9. Counted(q, e)
    <3>1. \A i \in Aggs(q) : e.state[i] = NoState
      BY <2>3 DEF NoStates
    <3>2. ASSUME NEW k \in DOMAIN e.buckets, NEW i \in Aggs(q)
          PROVE  LET owner == IF q \in Scans THEN RedirectTo(q, i) ELSE i
                     state == e.buckets[k].state[owner]
                 IN  IsState(state) /\ state.rows = e.buckets[k].rows
      <4>1. CASE e.buckets[k] = BucketOf(q)
        BY <2>7, <4>1
      <4>2. CASE k \in DOMAIN exec[q].buckets /\ e.buckets[k] = exec[q].buckets[k]
        BY <2>2, <4>2 DEF Counted
      <4> QED BY <2>8, <4>1, <4>2
    <3> QED BY <2>3, <2>4, <2>5, <3>1, <3>2 DEF Counted, IsState
  <2> QED BY <2>1, <2>9, CountedStep
<1>6. ASSUME EndOfInput PROVE CountInv'
  <2> DEFINE q == Top  e == [exec[q] EXCEPT !.stage = "filled"]
  <2>1. q \in Query /\ Becomes(q, e)
    BY <1>6, EndOfInputEffect
  <2>2. /\ e.state = exec[q].state /\ e.rows = exec[q].rows
        /\ e.next = exec[q].next /\ e.buckets = exec[q].buckets
    BY <1>a, <2>1 DEF Execution
  <2>3. Counted(q, e)
    BY <1>a, <2>1, <2>2, SameCounts
  <2> QED BY <2>1, <2>3, CountedStep
<1>7. ASSUME NEW depth \in 0 .. Len(stack), Error(depth) PROVE CountInv'
  <2>1. \A p \in Query : exec'[p] = exec[p] \/ exec'[p] = [NotBegun(p) EXCEPT !.stage = "ended"]
    BY <1>7 DEF Error
  <2>2. \A p \in Query : Counted(p, exec'[p])
    BY <1>a, <2>1, NothingCounted
  <2> QED BY <2>2, CountedNext
<1>8. CASE UNCHANGED vars
  <2>1. exec' = exec
    BY <1>8 DEF vars
  <2> QED BY <1>a, <2>1, CountedNext
<1>9. ASSUME Next PROVE CountInv'
  <2>1. CASE \E q \in Query : BeginScan(q) \/ Call(q) \/ EndScan(q)
    BY <1>1, <1>2, <1>3, <2>1
  <2>2. CASE \E depth \in 0 .. Len(stack) : Error(depth)
    BY <1>7, <2>2
  <2> QED BY <1>4, <1>5, <1>6, <1>9, <2>1, <2>2 DEF Next
<1> QED BY <1>8, <1>9
-----------------------------------------------------------------------------
(* The innermost scan.                                                     *)

(* It is the last scan of the first k executions, if there is one, and does  *)
(* not depend on later executions.                                           *)
LEMMA InnermostScanProperties ==
  ASSUME NEW s, NEW k \in Nat
  PROVE  /\ k = 0 => InnermostScan(s, k) = NULL
         /\ k > 0 /\ s[k] \in Scans => InnermostScan(s, k) = s[k]
         /\ k > 0 /\ s[k] \notin Scans => InnermostScan(s, k) = InnermostScan(s, k - 1)
<1> DEFINE scans(n) == {j \in 1 .. n : s[j] \in Scans}
<1>1. \A n : InnermostScan(s, n) =
               IF scans(n) = {} THEN NULL
               ELSE s[CHOOSE j \in scans(n) : \A l \in scans(n) : l <= j]
  BY DEF InnermostScan
<1>2. ASSUME k = 0 PROVE InnermostScan(s, k) = NULL
  <2>1. scans(k) = {}
    BY <1>2
  <2> HIDE DEF scans
  <2> QED BY <1>1, <2>1
<1>3. ASSUME k > 0, s[k] \in Scans PROVE InnermostScan(s, k) = s[k]
  <2>1. k \in scans(k) /\ \A l \in scans(k) : l <= k
    BY <1>3
  <2>2. \A j \in scans(k) : k <= j => j = k
    OBVIOUS
  <2> HIDE DEF scans
  <2> DEFINE j == CHOOSE j \in scans(k) : \A l \in scans(k) : l <= j
  <2>3. j \in scans(k) /\ \A l \in scans(k) : l <= j
    BY <2>1
  <2>4. j = k
    BY <2>1, <2>2, <2>3
  <2> QED BY <1>1, <2>1, <2>4
<1>4. ASSUME k > 0, s[k] \notin Scans PROVE InnermostScan(s, k) = InnermostScan(s, k - 1)
  <2>1. scans(k) = scans(k - 1)
    <3>1. \A j \in 1 .. k : j = k \/ j \in 1 .. k - 1
      OBVIOUS
    <3>2. 1 .. k - 1 \subseteq 1 .. k
      OBVIOUS
    <3> QED BY <1>4, <3>1, <3>2
  <2> HIDE DEF scans
  <2> QED BY <1>1, <2>1
<1> QED BY <1>2, <1>3, <1>4

LEMMA InnermostScanLocal ==
  ASSUME NEW s, NEW t, NEW k \in Nat, \A j \in 1 .. k : t[j] = s[j]
  PROVE  InnermostScan(t, k) = InnermostScan(s, k)
<1> DEFINE scans(r) == {j \in 1 .. k : r[j] \in Scans}
<1>1. scans(t) = scans(s)
  OBVIOUS
<1>2. \A r : InnermostScan(r, k) =
               IF scans(r) = {} THEN NULL
               ELSE r[CHOOSE j \in scans(r) : \A l \in scans(r) : l <= j]
  BY DEF InnermostScan
<1>3. CASE scans(s) = {}
  BY <1>1, <1>2, <1>3
<1>4. CASE scans(s) # {}
  <2>1. scans(s) \in SUBSET Nat /\ \A j \in scans(s) : j <= k /\ j \in 1 .. k
    OBVIOUS
  <2> HIDE DEF scans
  <2>2. \E j \in scans(s) : \A l \in scans(s) : l <= j
    <3> DEFINE S == scans(s)
    <3>1. S \in SUBSET Nat /\ S # {} /\ \A x \in S : x <= k
      BY <1>4, <2>1
    <3> HIDE DEF S
    <3>2. \E x \in S : \A y \in S : y <= x
      BY <3>1, GreatestElement
    <3> QED BY <3>2 DEF S
  <2> DEFINE j == CHOOSE j \in scans(s) : \A l \in scans(s) : l <= j
  <2>3. j \in scans(s)
    BY <2>2
  <2>4. t[j] = s[j]
    BY <2>1, <2>3
  <2> QED BY <1>1, <1>2, <1>4, <2>4
<1> QED BY <1>3, <1>4

-----------------------------------------------------------------------------
(* Nesting: as long as no error happened, executions nest like calls.      *)

\* A query is executed once at a time.
NoRepeat == \A j, k \in DOMAIN stack : stack[j] = stack[k] => j = k

\* The global is the innermost scan.
GlobalIsInnermost == g_current_bucket_scan = ScanAt(Len(stack))

\* Every scan has saved the one around it.
SavedScans ==
  \A k \in DOMAIN stack : stack[k] \in Scans => exec[stack[k]].old = ScanAt(k - 1)

\* A query that is not running has no states outside its buckets.
OthersStateless ==
  \A q \in Query : ~Running(q) => \A i \in Aggs(q) : exec[q].state[i] = NoState

\* The two halves of StatesInTheirContext.
GroupStates ==
  \A k \in DOMAIN stack : \A i \in Aggs(stack[k]) :
    IsState(exec[stack[k]].state[i]) =>
      exec[stack[k]].state[i].context = IF ScanAt(k) = NULL THEN Outer ELSE ScanAt(k)

BucketStates ==
  \A q \in Scans : \A k \in DOMAIN exec[q].buckets : \A i \in Aggs(q) :
    IsState(exec[q].buckets[k].state[i]) => exec[q].buckets[k].state[i].context = q

Nested == NoRepeat /\ GlobalIsInnermost /\ SavedScans /\ OthersStateless

IInv ==
  /\ TypeOK
  /\ CountInv
  /\ errors = 0 => Nested /\ GroupStates /\ BucketStates

(* What Call does to the stack and what a return does. *)
LEMMA PushEffect ==
  ASSUME TypeOK, NEW q \in Query, Call(q)
  PROVE  /\ Len(stack) \in Nat /\ DOMAIN stack = 1 .. Len(stack)
         /\ Len(stack') = Len(stack) + 1 /\ DOMAIN stack' = 1 .. Len(stack) + 1
         /\ stack'[Len(stack) + 1] = q
         /\ \A k \in 1 .. Len(stack) : stack'[k] = stack[k] /\ stack[k] # q
         /\ \A k \in 0 .. Len(stack) : ScanAt(k)' = ScanAt(k)
<1>1. stack \in Seq(Query) /\ stack' = Append(stack, q)
  BY DEF TypeOK, Call
<1> HIDE DEF Query
<1>2. /\ Len(stack) \in Nat /\ DOMAIN stack = 1 .. Len(stack)
      /\ Len(stack') = Len(stack) + 1 /\ DOMAIN stack' = 1 .. Len(stack) + 1
      /\ stack'[Len(stack) + 1] = q
      /\ \A k \in 1 .. Len(stack) : stack'[k] = stack[k]
  BY <1>1, LenProperties, AppendProperties
<1>3. \A k \in 1 .. Len(stack) : stack[k] # q
  BY <1>2 DEF Call, Running
<1>4. ASSUME NEW k \in 0 .. Len(stack) PROVE InnermostScan(stack', k) = InnermostScan(stack, k)
  BY <1>2, InnermostScanLocal
<1> QED BY <1>2, <1>3, <1>4 DEF ScanAt

LEMMA PopEffect ==
  ASSUME TypeOK, stack # <<>>, stack' = Front(stack)
  PROVE  /\ Len(stack') = Len(stack) - 1 /\ DOMAIN stack' = 1 .. Len(stack) - 1
         /\ \A k \in 1 .. Len(stack) - 1 : stack'[k] = stack[k]
         /\ \A k \in 0 .. Len(stack) - 1 : ScanAt(k)' = ScanAt(k)
<1>1. /\ Len(stack) \in Nat \ {0} /\ stack' \in Seq(Query) /\ Len(stack') = Len(stack) - 1
      /\ \A k \in 1 .. Len(stack) - 1 : stack'[k] = stack[k]
  BY TopType
<1>2. DOMAIN stack' = 1 .. Len(stack) - 1
  BY <1>1, LenProperties
<1>3. ASSUME NEW k \in 0 .. Len(stack) - 1
      PROVE  InnermostScan(stack', k) = InnermostScan(stack, k)
  BY <1>1, InnermostScanLocal
<1> QED BY <1>1, <1>2, <1>3 DEF ScanAt

(* What is innermost at the top of the stack, and below it. *)
LEMMA TopScan ==
  ASSUME TypeOK, stack # <<>>
  PROVE  /\ Top \in Scans => ScanAt(Len(stack)) = Top
         /\ Top \notin Scans => ScanAt(Len(stack)) = ScanAt(Len(stack) - 1)
BY TopType, InnermostScanProperties DEF ScanAt

AllNested == Nested /\ GroupStates /\ BucketStates

(* A step that leaves the stack, the global and the states alone. *)
LEMMA QuietNests ==
  ASSUME TypeOK, AllNested, stack' = stack, g_current_bucket_scan' = g_current_bucket_scan,
         \A p \in Query : /\ exec'[p].old = exec[p].old
                          /\ exec'[p].state = exec[p].state
                          /\ exec'[p].buckets = exec[p].buckets
  PROVE  AllNested'
<1>1. \A k \in DOMAIN stack : stack[k] \in Query
  BY ElementOfSeq, LenProperties DEF TypeOK
<1>2. Scans \subseteq Query
  BY DEF Query
<1>3. \A k : ScanAt(k)' = ScanAt(k)
  BY DEF ScanAt, InnermostScan
<1>4. NoRepeat' /\ GlobalIsInnermost'
  BY <1>3 DEF AllNested, Nested, NoRepeat, GlobalIsInnermost
<1>5. SavedScans'
  BY <1>1, <1>3 DEF AllNested, Nested, SavedScans
<1>6. OthersStateless'
  BY DEF AllNested, Nested, OthersStateless, Running, Aggs
<1>7. GroupStates'
  BY <1>1, <1>3 DEF AllNested, GroupStates, Aggs, IsState
<1>8. BucketStates'
  BY <1>2 DEF AllNested, BucketStates, Aggs, IsState
<1> QED BY <1>4, <1>5, <1>6, <1>7, <1>8 DEF AllNested, Nested

LEMMA EndScanNests ==
  ASSUME TypeOK, AllNested, NEW q \in Query, EndScan(q)
  PROVE  AllNested'
<1>1. \A k \in DOMAIN stack : stack[k] \in Query /\ stack[k] # q
  BY ElementOfSeq, LenProperties DEF TypeOK, EndScan, Running
<1>2. Scans \subseteq Query
  BY DEF Query
<1>3. \A k : ScanAt(k)' = ScanAt(k)
  BY DEF EndScan, ScanAt, InnermostScan
<1>4. /\ \A p \in Query \ {q} : exec'[p] = exec[p]
      /\ exec'[q] = [NotBegun(q) EXCEPT !.stage = "ended"]
      /\ stack' = stack /\ g_current_bucket_scan' = g_current_bucket_scan
  BY EndScanEffect DEF Becomes, EndScan
<1>5. /\ \A i \in Aggs(q) : exec'[q].state[i] = NoState
      /\ DOMAIN exec'[q].buckets = {}
  BY <1>4 DEF NotBegun, NoStates
<1>6. NoRepeat' /\ GlobalIsInnermost'
  BY <1>3, <1>4 DEF AllNested, Nested, NoRepeat, GlobalIsInnermost
<1>7. SavedScans'
  BY <1>1, <1>3, <1>4 DEF AllNested, Nested, SavedScans
<1>8. OthersStateless'
  <2> SUFFICES ASSUME NEW p \in Query, ~Running(p)', NEW i \in Aggs(p)
               PROVE  exec'[p].state[i] = NoState
    BY DEF OthersStateless, Aggs
  <2>1. ~Running(p)
    BY <1>4 DEF Running
  <2>2. exec[p].state[i] = NoState
    BY <2>1 DEF AllNested, Nested, OthersStateless
  <2> QED BY <1>4, <1>5, <2>2
<1>9. GroupStates'
  BY <1>1, <1>3, <1>4 DEF AllNested, GroupStates, Aggs, IsState
<1>10. BucketStates'
  <2> SUFFICES ASSUME NEW p \in Scans, NEW k \in DOMAIN exec'[p].buckets, NEW i \in Aggs(p),
                      IsState(exec'[p].buckets[k].state[i])
               PROVE  exec'[p].buckets[k].state[i].context = p
    BY DEF BucketStates, Aggs, IsState
  <2>1. exec'[p] = exec[p]
    BY <1>2, <1>4, <1>5
  <2> QED BY <2>1 DEF AllNested, BucketStates
<1> QED BY <1>6, <1>7, <1>8, <1>9, <1>10 DEF AllNested, Nested

LEMMA CallNests ==
  ASSUME TypeOK, AllNested, NEW q \in Query, Call(q)
  PROVE  AllNested'
<1>1. /\ Len(stack) \in Nat /\ DOMAIN stack = 1 .. Len(stack)
      /\ Len(stack') = Len(stack) + 1 /\ DOMAIN stack' = 1 .. Len(stack) + 1
      /\ stack'[Len(stack) + 1] = q
      /\ \A k \in 1 .. Len(stack) : stack'[k] = stack[k] /\ stack[k] # q
      /\ \A k \in 0 .. Len(stack) : ScanAt(k)' = ScanAt(k)
  BY PushEffect
<1>2. \A k \in DOMAIN stack : stack[k] \in Query
  BY ElementOfSeq, LenProperties DEF TypeOK
<1>3. Scans \subseteq Query
  BY DEF Query
<1>4. /\ \A p \in Query \ {q} : exec'[p] = exec[p]
      /\ exec'[q].state = exec[q].state /\ exec'[q].buckets = exec[q].buckets
      /\ q \in Scans => exec'[q].old = g_current_bucket_scan
      /\ exec[q] \in Execution(q)
  <2>1. exec[q] \in Execution(q) /\ Becomes(q, IF q \in Scans
                                               THEN [exec[q] EXCEPT !.old = g_current_bucket_scan]
                                               ELSE exec[q])
    BY CallEffect DEF TypeOK
  <2> QED BY <2>1 DEF Becomes, Execution
<1>5. ~Running(q) /\ \A i \in Aggs(q) : exec[q].state[i] = NoState
  BY DEF Call, AllNested, Nested, OthersStateless
<1>6. NoRepeat'
  <2> SUFFICES ASSUME NEW j \in DOMAIN stack', NEW k \in DOMAIN stack', stack'[j] = stack'[k]
               PROVE  j = k
    BY DEF NoRepeat
  <2>1. \A n \in DOMAIN stack' : n \in 1 .. Len(stack) \/ n = Len(stack) + 1
    BY <1>1
  <2> QED BY <1>1, <2>1 DEF AllNested, Nested, NoRepeat
<1>7. InnermostScan(stack', Len(stack) + 1) =
        IF q \in Scans THEN q ELSE InnermostScan(stack, Len(stack))
  <2> DEFINE n == Len(stack) + 1
  <2>1. n \in Nat /\ n > 0 /\ n - 1 = Len(stack) /\ stack'[n] = q
    BY <1>1
  <2>2. /\ stack'[n] \in Scans => InnermostScan(stack', n) = stack'[n]
        /\ stack'[n] \notin Scans => InnermostScan(stack', n) = InnermostScan(stack', n - 1)
    BY <2>1, InnermostScanProperties
  <2>3. InnermostScan(stack', Len(stack)) = InnermostScan(stack, Len(stack))
    BY <1>1, InnermostScanLocal
  <2> QED BY <2>1, <2>2, <2>3
<1>8. GlobalIsInnermost'
  <2>1. g_current_bucket_scan' = IF q \in Scans THEN q ELSE g_current_bucket_scan
    BY DEF Call
  <2>2. g_current_bucket_scan = InnermostScan(stack, Len(stack))
    BY DEF AllNested, Nested, GlobalIsInnermost, ScanAt
  <2>3. InnermostScan(stack', Len(stack')) = g_current_bucket_scan'
    BY <1>1, <1>7, <2>1, <2>2
  <2> QED BY <2>3 DEF GlobalIsInnermost, ScanAt
<1>9. SavedScans'
  <2> SUFFICES ASSUME NEW k \in DOMAIN stack', stack'[k] \in Scans
               PROVE  exec'[stack'[k]].old = InnermostScan(stack', k - 1)
    BY DEF SavedScans, ScanAt
  <2>1. CASE k = Len(stack) + 1
    <3>1. InnermostScan(stack', Len(stack)) = InnermostScan(stack, Len(stack))
      BY <1>1, InnermostScanLocal
    <3>2. g_current_bucket_scan = InnermostScan(stack, Len(stack))
      BY DEF AllNested, Nested, GlobalIsInnermost, ScanAt
    <3>3. k - 1 = Len(stack)
      BY <1>1, <2>1
    <3> QED BY <1>1, <1>4, <2>1, <3>1, <3>2, <3>3
  <2>2. CASE k \in 1 .. Len(stack)
    <3>1. InnermostScan(stack', k - 1) = InnermostScan(stack, k - 1)
      BY <1>1, <2>2, InnermostScanLocal
    <3>2. exec'[stack'[k]] = exec[stack[k]] /\ stack'[k] = stack[k]
      BY <1>1, <1>2, <1>4, <2>2
    <3>3. exec[stack[k]].old = InnermostScan(stack, k - 1)
      BY <1>1, <2>2, <3>2 DEF AllNested, Nested, SavedScans, ScanAt
    <3> QED BY <3>1, <3>2, <3>3
  <2> QED BY <1>1, <2>1, <2>2
<1>10. OthersStateless'
  <2>1. \A p \in Query : exec'[p].state = exec[p].state
    BY <1>4
  <2>2. \A p \in Query : ~Running(p)' => ~Running(p)
    BY <1>1 DEF Running
  <2> QED BY <2>1, <2>2 DEF AllNested, Nested, OthersStateless, Aggs
<1>11. GroupStates'
  <2> SUFFICES ASSUME NEW k \in DOMAIN stack', NEW i \in Aggs(stack'[k]),
                      IsState(exec'[stack'[k]].state[i])
               PROVE  exec'[stack'[k]].state[i].context =
                        IF ScanAt(k)' = NULL THEN Outer ELSE ScanAt(k)'
    BY DEF GroupStates, Aggs, IsState
  <2>1. k # Len(stack) + 1
    BY <1>1, <1>4, <1>5 DEF IsState
  <2>2. k \in 1 .. Len(stack)
    BY <1>1, <2>1
  <2>3. exec'[stack'[k]] = exec[stack[k]] /\ stack'[k] = stack[k] /\ ScanAt(k)' = ScanAt(k)
    BY <1>1, <1>2, <1>4, <2>2
  <2> QED BY <1>1, <2>2, <2>3 DEF AllNested, GroupStates
<1>12. BucketStates'
  BY <1>3, <1>4 DEF AllNested, BucketStates, Aggs, IsState
<1> QED BY <1>6, <1>8, <1>9, <1>10, <1>11, <1>12 DEF AllNested, Nested

(* The context of a state the innermost query has or gets. *)
LEMMA TopContext ==
  ASSUME TypeOK, AllNested, stack # <<>>, NEW i \in Aggs(Top), GetAggState(Top, i) # Redirected
  PROVE  GetAggState(Top, i).context =
           IF ScanAt(Len(stack)) = NULL THEN Outer ELSE ScanAt(Len(stack))
<1>1. Top \in Query /\ Len(stack) \in DOMAIN stack /\ Top = stack[Len(stack)]
  BY TopType
<1>2. CASE exec[Top].state[i] = NoState
  <2>1. GetAggState(Top, i) = [context |-> IF g_current_bucket_scan = NULL THEN Outer
                                           ELSE g_current_bucket_scan,
                               rows |-> 0]
    BY <1>1, <1>2, GetAggStateType
  <2>2. g_current_bucket_scan = ScanAt(Len(stack))
    BY DEF AllNested, Nested, GlobalIsInnermost
  <2> QED BY <2>1, <2>2
<1>3. CASE exec[Top].state[i] # NoState
  <2>1. GetAggState(Top, i) = exec[Top].state[i]
    BY <1>1, <1>3, GetAggStateType
  <2>2. IsState(exec[Top].state[i])
    BY <1>3, <2>1 DEF IsState
  <2> HIDE DEF Top
  <2>3. exec[stack[Len(stack)]].state[i].context =
          IF ScanAt(Len(stack)) = NULL THEN Outer ELSE ScanAt(Len(stack))
    BY <1>1, <2>2 DEF AllNested, GroupStates
  <2> QED BY <1>1, <2>1, <2>3
<1> QED BY <1>2, <1>3

LEMMA TransitionNests ==
  ASSUME TypeOK, AllNested, Transition
  PROVE  AllNested'
<1> DEFINE q == Top  i == exec[q].next
<1>1. /\ stack # <<>> /\ stack' = stack /\ g_current_bucket_scan' = g_current_bucket_scan
      /\ q \in Query /\ i \in Aggs(q) /\ Len(stack) \in DOMAIN stack /\ q = stack[Len(stack)]
      /\ DOMAIN stack = 1 .. Len(stack)
  BY TopType, TransitionEffect DEF Transition
<1>2. /\ \A p \in Query \ {q} : exec'[p] = exec[p]
      /\ exec'[q].old = exec[q].old /\ exec'[q].buckets = exec[q].buckets
      /\ exec'[q].state = [exec[q].state EXCEPT ![i] = Transfn(q, i)]
      /\ DOMAIN exec[q].state = Aggs(q)
  <2> DEFINE e == [exec[q] EXCEPT !.state = [exec[q].state EXCEPT ![i] = Transfn(q, i)],
                                  !.next = IF i = Len(Aggrefs[q]) THEN 1 ELSE i + 1,
                                  !.rows = IF i = Len(Aggrefs[q]) THEN exec[q].rows + 1
                                           ELSE exec[q].rows]
  <2>1. Becomes(q, e)
    BY TransitionEffect
  <2>2. exec[q] \in Execution(q)
    BY <1>1 DEF TypeOK
  <2>3. e.old = exec[q].old /\ e.buckets = exec[q].buckets
        /\ e.state = [exec[q].state EXCEPT ![i] = Transfn(q, i)]
        /\ DOMAIN exec[q].state = Aggs(q)
    BY <2>2 DEF Execution, AggState
  <2> HIDE DEF e, q, i
  <2> QED BY <2>1, <2>3 DEF Becomes
<1>3. Transfn(q, i) # Redirected => /\ GetAggState(q, i) # Redirected
                                    /\ Transfn(q, i).context = GetAggState(q, i).context
  BY <1>1, TransfnType, StateAssumption DEF StateAssumption
<1>4. Transfn(q, i) # Redirected =>
        Transfn(q, i).context = IF ScanAt(Len(stack)) = NULL THEN Outer ELSE ScanAt(Len(stack))
  BY <1>1, <1>3, TopContext
<1>5. \A k \in DOMAIN stack : stack[k] \in Query
  BY ElementOfSeq, LenProperties DEF TypeOK
<1>6. Scans \subseteq Query
  BY DEF Query
<1> HIDE DEF q, i
<1>7. \A k : ScanAt(k)' = ScanAt(k)
  BY <1>1 DEF ScanAt, InnermostScan
<1>8. NoRepeat' /\ GlobalIsInnermost'
  BY <1>1, <1>7 DEF AllNested, Nested, NoRepeat, GlobalIsInnermost
<1>9. \A p \in Query : exec'[p].old = exec[p].old /\ exec'[p].buckets = exec[p].buckets
  BY <1>2
<1>10. SavedScans'
  BY <1>1, <1>5, <1>7, <1>9 DEF AllNested, Nested, SavedScans
<1>11. OthersStateless'
  <2> SUFFICES ASSUME NEW p \in Query, ~Running(p)', NEW j \in Aggs(p)
               PROVE  exec'[p].state[j] = NoState
    BY DEF OthersStateless, Aggs
  <2>1. ~Running(p) /\ p # q
    BY <1>1 DEF Running
  <2>2. exec[p].state[j] = NoState
    BY <2>1 DEF AllNested, Nested, OthersStateless
  <2> QED BY <1>2, <2>1, <2>2
<1>12. GroupStates'
  <2> SUFFICES ASSUME NEW k \in DOMAIN stack', NEW j \in Aggs(stack'[k]),
                      IsState(exec'[stack'[k]].state[j])
               PROVE  exec'[stack'[k]].state[j].context =
                        IF ScanAt(k)' = NULL THEN Outer ELSE ScanAt(k)'
    BY DEF GroupStates, Aggs, IsState
  <2>1. stack'[k] = stack[k] /\ ScanAt(k)' = ScanAt(k) /\ k \in DOMAIN stack
    BY <1>1, <1>7
  <2>2. CASE k = Len(stack) /\ j = i
    BY <1>1, <1>2, <1>4, <2>1, <2>2 DEF IsState
  <2>3. CASE k # Len(stack) \/ j # i
    <3>1. stack[k] # q \/ j # i
      BY <1>1, <2>1, <2>3 DEF AllNested, Nested, NoRepeat
    <3>2. exec'[stack[k]].state[j] = exec[stack[k]].state[j]
      BY <1>2, <1>5, <2>1, <3>1
    <3> QED BY <2>1, <3>2 DEF AllNested, GroupStates
  <2> QED BY <2>2, <2>3
<1>13. BucketStates'
  BY <1>6, <1>9 DEF AllNested, BucketStates, Aggs, IsState
<1> QED BY <1>8, <1>10, <1>11, <1>12, <1>13 DEF AllNested, Nested

(* A return from the innermost query, which leaves it without states and with *)
(* the buckets it had.                                                        *)
LEMMA PopNests ==
  ASSUME TypeOK, AllNested, stack # <<>>, stack' = Front(stack),
         \A p \in Query \ {Top} : exec'[p] = exec[p],
         \A i \in Aggs(Top) : exec'[Top].state[i] = NoState,
         Top \in Scans => exec'[Top].buckets = exec[Top].buckets,
         g_current_bucket_scan' = IF Top \in Scans THEN exec[Top].old ELSE g_current_bucket_scan
  PROVE  AllNested'
<1>1. /\ Len(stack') = Len(stack) - 1 /\ DOMAIN stack' = 1 .. Len(stack) - 1
      /\ \A k \in 1 .. Len(stack) - 1 : stack'[k] = stack[k]
      /\ \A k \in 0 .. Len(stack) - 1 : InnermostScan(stack', k) = InnermostScan(stack, k)
  BY PopEffect DEF ScanAt
<1>2. /\ Top \in Query /\ Len(stack) \in Nat \ {0} /\ DOMAIN stack = 1 .. Len(stack)
      /\ Len(stack) \in DOMAIN stack /\ Top = stack[Len(stack)]
  BY TopType
<1>3. \A k \in DOMAIN stack : stack[k] \in Query
  BY ElementOfSeq, LenProperties DEF TypeOK
<1>4. \A k \in 1 .. Len(stack) - 1 : k \in DOMAIN stack /\ stack[k] # Top
  BY <1>2 DEF AllNested, Nested, NoRepeat
<1>5. Scans \subseteq Query
  BY DEF Query
<1> HIDE DEF Top
<1>6. NoRepeat'
  BY <1>1, <1>4 DEF AllNested, Nested, NoRepeat
<1>7. GlobalIsInnermost'
  <2>1. g_current_bucket_scan = InnermostScan(stack, Len(stack))
    BY DEF AllNested, Nested, GlobalIsInnermost, ScanAt
  <2>2. Top \in Scans => exec[Top].old = InnermostScan(stack, Len(stack) - 1)
    BY <1>2 DEF AllNested, Nested, SavedScans, ScanAt
  <2>3. Top \notin Scans => InnermostScan(stack, Len(stack)) = InnermostScan(stack, Len(stack) - 1)
    BY <1>2, InnermostScanProperties
  <2>4. g_current_bucket_scan' = InnermostScan(stack', Len(stack'))
    BY <1>1, <1>2, <2>1, <2>2, <2>3
  <2> QED BY <2>4 DEF GlobalIsInnermost, ScanAt
<1>8. SavedScans'
  <2> SUFFICES ASSUME NEW k \in DOMAIN stack', stack'[k] \in Scans
               PROVE  exec'[stack'[k]].old = InnermostScan(stack', k - 1)
    BY DEF SavedScans, ScanAt
  <2>1. InnermostScan(stack', k - 1) = InnermostScan(stack, k - 1)
    BY <1>1, <1>2
  <2>2. stack'[k] = stack[k] /\ exec'[stack[k]] = exec[stack[k]]
    BY <1>1, <1>3, <1>4
  <2>3. exec[stack[k]].old = InnermostScan(stack, k - 1)
    BY <1>1, <1>4, <2>2 DEF AllNested, Nested, SavedScans, ScanAt
  <2> QED BY <2>1, <2>2, <2>3
<1>9. OthersStateless'
  <2> SUFFICES ASSUME NEW p \in Query, ~Running(p)', NEW j \in Aggs(p)
               PROVE  exec'[p].state[j] = NoState
    BY DEF OthersStateless, Aggs
  <2>1. CASE p = Top
    BY <2>1
  <2>2. CASE p # Top
    <3>1. ~Running(p)
      BY <1>1, <1>2, <2>2 DEF Running
    <3> QED BY <2>2, <3>1 DEF AllNested, Nested, OthersStateless
  <2> QED BY <2>1, <2>2
<1>10. GroupStates'
  <2> SUFFICES ASSUME NEW k \in DOMAIN stack', NEW j \in Aggs(stack'[k]),
                      IsState(exec'[stack'[k]].state[j])
               PROVE  exec'[stack'[k]].state[j].context =
                        IF InnermostScan(stack', k) = NULL THEN Outer ELSE InnermostScan(stack', k)
    BY DEF GroupStates, Aggs, IsState, ScanAt
  <2>1. stack'[k] = stack[k] /\ exec'[stack[k]] = exec[stack[k]] /\ k \in DOMAIN stack
    BY <1>1, <1>3, <1>4
  <2>2. InnermostScan(stack', k) = InnermostScan(stack, k)
    BY <1>1, <1>2
  <2> QED BY <2>1, <2>2 DEF AllNested, GroupStates, ScanAt
<1>11. BucketStates'
  <2> SUFFICES ASSUME NEW p \in Scans, NEW k \in DOMAIN exec'[p].buckets, NEW i \in Aggs(p),
                      IsState(exec'[p].buckets[k].state[i])
               PROVE  exec'[p].buckets[k].state[i].context = p
    BY DEF BucketStates, Aggs, IsState
  <2>1. exec'[p].buckets = exec[p].buckets
    BY <1>5
  <2> QED BY <2>1 DEF AllNested, BucketStates
<1> QED BY <1>6, <1>7, <1>8, <1>9, <1>10, <1>11 DEF AllNested, Nested

LEMMA EndOfInputNests ==
  ASSUME TypeOK, CountInv, AllNested, EndOfInput
  PROVE  AllNested'
<1>1. /\ stack # <<>> /\ stack' = Front(stack) /\ exec[Top].next = 1 /\ exec[Top].rows = 0
      /\ g_current_bucket_scan' = IF Top \in Scans THEN exec[Top].old ELSE g_current_bucket_scan
  BY DEF EndOfInput
<1>2. Top \in Query /\ exec[Top] \in Execution(Top) /\ Becomes(Top, [exec[Top] EXCEPT !.stage = "filled"])
  BY EndOfInputEffect DEF TypeOK
<1>3. /\ exec'[Top].state = exec[Top].state /\ exec'[Top].buckets = exec[Top].buckets
      /\ \A p \in Query \ {Top} : exec'[p] = exec[p]
  BY <1>2 DEF Becomes, Execution
<1>4. \A i \in Aggs(Top) : exec[Top].state[i] = NoState
  <2>1. \A i \in Aggs(Top) : i >= 1
    BY <1>2, AggsType
  <2> QED BY <1>1, <1>2, <2>1 DEF CountInv, Counted
<1> QED BY <1>1, <1>3, <1>4, PopNests

LEMMA ReturnGroupNests ==
  ASSUME TypeOK, AllNested, ReturnGroup
  PROVE  AllNested'
<1> DEFINE e == [exec[Top] EXCEPT !.buckets = Append(exec[Top].buckets, BucketOf(Top)),
                                  !.state = NoStates(Top), !.rows = 0]
<1>1. Top \in Query /\ exec[Top] \in Execution(Top) /\ Becomes(Top, e)
  BY ReturnGroupEffect DEF TypeOK
<1>2. /\ e.state = NoStates(Top) /\ e.old = exec[Top].old
      /\ e.buckets = Append(exec[Top].buckets, BucketOf(Top))
      /\ exec[Top].buckets \in Seq([rows : 0 .. MaxRows, state : AggState(Top)])
  BY <1>1 DEF Execution
<1>3. /\ \A p \in Query \ {Top} : exec'[p] = exec[p]
      /\ \A i \in Aggs(Top) : exec'[Top].state[i] = NoState
      /\ exec'[Top].old = exec[Top].old
      /\ exec'[Top].buckets = Append(exec[Top].buckets, BucketOf(Top))
  <2> HIDE DEF e
  <2> QED BY <1>1, <1>2 DEF Becomes, NoStates
<1> HIDE DEF e
<1>4. CASE Top \notin Scans
  <2>1. /\ stack # <<>> /\ stack' = Front(stack)
        /\ g_current_bucket_scan' = IF Top \in Scans THEN exec[Top].old ELSE g_current_bucket_scan
    BY <1>4 DEF ReturnGroup
  <2> QED BY <1>3, <1>4, <2>1, PopNests
<1>5. CASE Top \in Scans
  <2>1. stack # <<>> /\ stack' = stack /\ g_current_bucket_scan' = Top
    BY <1>5 DEF ReturnGroup
  <2>2. /\ Len(stack) \in Nat \ {0} /\ DOMAIN stack = 1 .. Len(stack)
        /\ Len(stack) \in DOMAIN stack /\ Top = stack[Len(stack)]
    BY <2>1, TopType
  <2>3. ScanAt(Len(stack)) = Top /\ Top # NULL
    BY <1>1, <1>5, <2>1, TopScan, AggContextAssumption DEF AggContextAssumption
  <2>4. \A k \in DOMAIN stack : stack[k] \in Query
    BY ElementOfSeq, LenProperties DEF TypeOK
  <2>5. \A k : ScanAt(k)' = ScanAt(k)
    BY <2>1 DEF ScanAt, InnermostScan
  <2>6. Scans \subseteq Query
    BY DEF Query
  <2>7. \A i \in Aggs(Top) : GetAggState(Top, i) # Redirected => GetAggState(Top, i).context = Top
    BY <2>1, <2>3, TopContext
  <2>8. \A k \in DOMAIN exec'[Top].buckets :
           \/ exec'[Top].buckets[k] = BucketOf(Top)
           \/ k \in DOMAIN exec[Top].buckets /\ exec'[Top].buckets[k] = exec[Top].buckets[k]
    <3> DEFINE b == exec[Top].buckets  B == BucketOf(Top)
        S == [rows : 0 .. MaxRows, state : AggState(Top)]
    <3>1. b \in Seq(S) /\ B \in S /\ exec'[Top].buckets = Append(b, B)
      BY <1>2, <1>3, ReturnGroupEffect
    <3> HIDE DEF b, B, S
    <3>2. \A k \in DOMAIN Append(b, B) : Append(b, B)[k] = B \/ (k \in DOMAIN b /\ Append(b, B)[k] = b[k])
      BY <3>1, LenProperties, AppendProperties
    <3> QED BY <3>1, <3>2 DEF b, B
  <2>9. \A i \in Aggs(Top) : BucketOf(Top).state[i] = GetAggState(Top, i)
    BY DEF BucketOf
  <2> HIDE DEF Top
  <2>10. NoRepeat' /\ GlobalIsInnermost'
    <3>1. NoRepeat'
      BY <2>1 DEF AllNested, Nested, NoRepeat
    <3>2. g_current_bucket_scan' = InnermostScan(stack', Len(stack'))
      BY <2>1, <2>3 DEF ScanAt
    <3> QED BY <3>1, <3>2 DEF GlobalIsInnermost, ScanAt
  <2>11. SavedScans'
    <3>1. \A p \in Query : exec'[p].old = exec[p].old
      BY <1>3
    <3> QED BY <2>1, <2>4, <2>5, <3>1 DEF AllNested, Nested, SavedScans
  <2>12. OthersStateless'
    <3> SUFFICES ASSUME NEW p \in Query, ~Running(p)', NEW j \in Aggs(p)
                 PROVE  exec'[p].state[j] = NoState
      BY DEF OthersStateless, Aggs
    <3>1. ~Running(p)
      BY <2>1 DEF Running
    <3>2. exec[p].state[j] = NoState
      BY <3>1 DEF AllNested, Nested, OthersStateless
    <3> QED BY <1>3, <3>2
  <2>13. GroupStates'
    <3> SUFFICES ASSUME NEW k \in DOMAIN stack', NEW j \in Aggs(stack'[k]),
                        IsState(exec'[stack'[k]].state[j])
                 PROVE  exec'[stack'[k]].state[j].context =
                          IF ScanAt(k)' = NULL THEN Outer ELSE ScanAt(k)'
      BY DEF GroupStates, Aggs, IsState
    <3>1. stack'[k] # Top
      BY <1>3 DEF IsState
    <3>2. stack'[k] = stack[k] /\ exec'[stack[k]] = exec[stack[k]] /\ ScanAt(k)' = ScanAt(k)
      BY <1>3, <2>1, <2>4, <2>5, <3>1
    <3> QED BY <2>1, <3>2 DEF AllNested, GroupStates
  <2>14. BucketStates'
    <3> SUFFICES ASSUME NEW p \in Scans, NEW k \in DOMAIN exec'[p].buckets, NEW i \in Aggs(p),
                        IsState(exec'[p].buckets[k].state[i])
                 PROVE  exec'[p].buckets[k].state[i].context = p
      BY DEF BucketStates, Aggs, IsState
    <3>1. CASE p # Top \/ (k \in DOMAIN exec[p].buckets /\ exec'[p].buckets[k] = exec[p].buckets[k])
      BY <1>3, <2>6, <3>1 DEF AllNested, BucketStates
    <3>2. CASE p = Top /\ exec'[p].buckets[k] = BucketOf(Top)
      BY <2>7, <2>9, <3>2 DEF IsState
    <3> QED BY <2>8, <3>1, <3>2
  <2> QED BY <2>10, <2>11, <2>12, <2>13, <2>14 DEF AllNested, Nested
<1> QED BY <1>4, <1>5

LEMMA NestStep ==
  ASSUME TypeOK, TypeOK', CountInv, errors = 0 => AllNested, [Next]_vars
  PROVE  errors' = 0 => AllNested'
<1>1. ASSUME NEW q \in Query, BeginScan(q) PROVE errors' = 0 => AllNested'
  <2> DEFINE e == [exec[q] EXCEPT !.stage = "open"]
  <2>1. exec[q] \in Execution(q) /\ Becomes(q, e)
    BY <1>1, BeginScanEffect DEF TypeOK
  <2>2. e.old = exec[q].old /\ e.state = exec[q].state /\ e.buckets = exec[q].buckets
    BY <2>1 DEF Execution
  <2> HIDE DEF e
  <2>3. \A p \in Query : /\ exec'[p].old = exec[p].old
                         /\ exec'[p].state = exec[p].state
                         /\ exec'[p].buckets = exec[p].buckets
    BY <2>1, <2>2 DEF Becomes
  <2> QED BY <1>1, <2>3, QuietNests DEF BeginScan
<1>2. ASSUME NEW q \in Query, Call(q) PROVE errors' = 0 => AllNested'
  BY <1>2, CallNests DEF Call
<1>3. ASSUME NEW q \in Query, EndScan(q) PROVE errors' = 0 => AllNested'
  BY <1>3, EndScanNests DEF EndScan
<1>4. ASSUME Transition PROVE errors' = 0 => AllNested'
  BY <1>4, TransitionNests DEF Transition
<1>5. ASSUME ReturnGroup PROVE errors' = 0 => AllNested'
  BY <1>5, ReturnGroupNests DEF ReturnGroup
<1>6. ASSUME EndOfInput PROVE errors' = 0 => AllNested'
  BY <1>6, EndOfInputNests DEF EndOfInput
<1>7. ASSUME NEW depth \in 0 .. Len(stack), Error(depth) PROVE errors' # 0
  <2>1. errors \in 0 .. MaxErrors /\ MaxErrors \in Nat
    BY AggContextAssumption DEF TypeOK, AggContextAssumption
  <2> QED BY <1>7, <2>1 DEF Error
<1>8. ASSUME UNCHANGED vars PROVE errors' = 0 => AllNested'
  BY <1>8, QuietNests DEF vars
<1>9. ASSUME Next PROVE errors' = 0 => AllNested'
  <2>1. CASE \E q \in Query : BeginScan(q) \/ Call(q) \/ EndScan(q)
    BY <1>1, <1>2, <1>3, <2>1
  <2>2. CASE \E depth \in 0 .. Len(stack) : Error(depth)
    BY <1>7, <2>2
  <2> QED BY <1>4, <1>5, <1>6, <1>9, <2>1, <2>2 DEF Next
<1> QED BY <1>8, <1>9

-----------------------------------------------------------------------------
(* The theorems.                                                           *)

LEMMA Initially == Init => IInv
<1> SUFFICES ASSUME Init PROVE IInv
  OBVIOUS
<1>1. /\ g_current_bucket_scan = NULL /\ stack = <<>> /\ errors = 0
      /\ DOMAIN exec = Query /\ \A q \in Query : exec[q] = NotBegun(q)
  BY DEF Init
<1>2. TypeOK
  <2>1. <<>> \in Seq(Query)
    OBVIOUS
  <2>2. \A q \in Query : exec[q] \in Execution(q)
    BY <1>1, NotBegunType
  <2>3. 0 \in 0 .. MaxErrors
    BY AggContextAssumption DEF AggContextAssumption
  <2> QED BY <1>1, <2>1, <2>2, <2>3 DEF TypeOK
<1>3. CountInv
  BY <1>1, NothingCounted DEF CountInv
<1>4. Len(stack) = 0 /\ DOMAIN stack = {}
  BY <1>1, EmptySeq
<1>5. \A q \in Query : /\ \A i \in Aggs(q) : exec[q].state[i] = NoState
                       /\ DOMAIN exec[q].buckets = {}
  BY <1>1 DEF NotBegun, NoStates
<1>6. ScanAt(0) = NULL
  BY InnermostScanProperties DEF ScanAt
<1>7. Nested
  BY <1>1, <1>4, <1>5, <1>6 DEF Nested, NoRepeat, GlobalIsInnermost, SavedScans, OthersStateless
<1>8. GroupStates /\ BucketStates
  BY <1>4, <1>5 DEF GroupStates, BucketStates, Query
<1> QED BY <1>2, <1>3, <1>7, <1>8 DEF IInv

THEOREM Invariance == Spec => []IInv
<1>1. IInv /\ [Next]_vars => IInv'
  <2> SUFFICES ASSUME IInv, [Next]_vars PROVE IInv'
    OBVIOUS
  <2>1. TypeOK' /\ CountInv'
    BY TypeStep, CountStep DEF IInv
  <2>2. errors' = 0 => AllNested'
    BY <2>1, NestStep DEF IInv, AllNested
  <2> QED BY <2>1, <2>2 DEF IInv, AllNested
<1> QED BY Initially, <1>1, PTL DEF Spec

(* The executions of every query have their type: a row is never at an       *)
(* aggregate the query does not have, whatever queries run nested and        *)
(* wherever an error is caught.                                              *)
THEOREM TypeCorrect == Spec => []TypeOK
<1>1. IInv => TypeOK
  BY DEF IInv
<1> QED BY <1>1, Invariance, PTL

(* anon_agg_state_finalfn finds, for every aggregate of every bucket, a state *)
(* that counted each row of the bucket once, redirected or not, also after    *)
(* errors have left the global pointing to another scan.                      *)
THEOREM FinalizesAllRows == Spec => []FinalizedFromAllRows
<1>1. IInv => FinalizedFromAllRows
  BY CountInvStates DEF IInv
<1> QED BY <1>1, Invariance, PTL

(* Until an error, the states of every group are in the context of the        *)
(* innermost scan around it, and those of every bucket in that of its scan:   *)
(* what fill_bucket_list saves and restores is, at every depth, the scan      *)
(* around it.                                                                 *)
THEOREM StatesStayInContext == Spec => []StatesInTheirContext
<1>1. IInv => StatesInTheirContext
  BY DEF IInv, GroupStates, BucketStates, StatesInTheirContext
<1> QED BY <1>1, Invariance, PTL
=============================================================================
