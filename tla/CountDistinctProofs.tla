------------------------ MODULE CountDistinctProofs ------------------------
(***************************************************************************)
(* Proofs about count(distinct), for any values, AIDs and AID instances:   *)
(* how distribute_lc_values hands out the low count values.                *)
(***************************************************************************)
EXTENDS CountDistinct, SequenceTheorems, FiniteSetTheorems, NaturalSets

\* The values the AID instance counts: low count, and with an AID in it.
Countable(i) == {v \in LowCountValues : tracker[v][i] # {}}

\* Entry k has a value left that is not used.
HasUnused(k) == \E l \in DOMAIN per_aid[k].values : Unused(per_aid[k].values[l])

-----------------------------------------------------------------------------
(* The inductive invariant.                                                *)

\* The evaluation is at the instance after those that have a result.
Progress ==
  /\ result \in Seq({result[k] : k \in DOMAIN result})
  /\ Len(result) = aid_index - 1
  /\ phase = "distribute" => aid_index \in AidInstances

\* Each used value is credited to one of its AIDs, and remaining counts the others.
Credited ==
  /\ DOMAIN credit = used
  /\ used \subseteq Countable(aid_index)
  /\ \A v \in used : credit[v] \in tracker[v][aid_index]
  /\ remaining = Cardinality(Countable(aid_index)) - Cardinality(used)

\* The list of an AID holds values of that AID.
ListsHold ==
  \A k \in DOMAIN per_aid : \A l \in DOMAIN per_aid[k].values :
    /\ per_aid[k].values[l] \in LowCountValues
    /\ per_aid[k].aid \in tracker[per_aid[k].values[l]][aid_index]

\* No AID has two entries, none is missing, and no value that is not used is.
ListsCover ==
  /\ \A k, l \in DOMAIN per_aid : per_aid[k].aid = per_aid[l].aid => k = l
  /\ \A v \in LowCountValues : \A a \in tracker[v][aid_index] :
       \E k \in DOMAIN per_aid :
         /\ per_aid[k].aid = a
         /\ Unused(v) => \E l \in DOMAIN per_aid[k].values : per_aid[k].values[l] = v

\* The contributions of an AID are the values credited to it.
Counts ==
  \A k \in DOMAIN per_aid :
    per_aid[k].contributions = Cardinality({v \in used : credit[v] = per_aid[k].aid})

\* Each AID that has something left to count has counted in every pass.
Turns ==
  \A k \in DOMAIN per_aid :
    HasUnused(k) => per_aid[k].contributions = IF k < cell THEN passes + 1 ELSE passes

Handout == Credited /\ ListsHold /\ ListsCover /\ Counts /\ Turns

IInv == TypeOK /\ Progress /\ (phase = "distribute" => Handout)

-----------------------------------------------------------------------------
(* The low count values and their lists.                                   *)

LEMMA LowCountFacts ==
  ASSUME TypeOK
  PROVE  /\ LowCountValues \subseteq Values
         /\ IsFiniteSet(LowCountValues) /\ LowCountValues \subseteq Int
         /\ \A v \in LowCountValues : \A i \in AidInstances : tracker[v][i] \subseteq Aids
<1>1. LowCountValues \subseteq Values
  BY DEF LowCountValues
<1>2. IsFiniteSet(LowCountValues) /\ LowCountValues \subseteq Int
  <2>1. IsFiniteSet(Values) /\ Values \subseteq Int
    BY CountDistinctAssumption DEF CountDistinctAssumption
  <2> QED BY <1>1, <2>1, FS_Subset
<1>3. ASSUME NEW v \in LowCountValues, NEW i \in AidInstances
      PROVE  tracker[v][i] \subseteq Aids
  <2>1. tracker[v] \in [AidInstances -> SUBSET Aids]
    BY <1>1 DEF TypeOK, LowCountValues
  <2> QED BY <2>1
<1> QED BY <1>1, <1>2, <1>3

LEMMA CountableFacts ==
  ASSUME TypeOK, NEW i \in AidInstances
  PROVE  /\ Countable(i) \subseteq LowCountValues /\ Countable(i) \subseteq Values
         /\ IsFiniteSet(Countable(i)) /\ Cardinality(Countable(i)) \in Nat
         /\ TrueCount(i) = Cardinality(Countable(i))
<1>1. Countable(i) \subseteq LowCountValues
  BY DEF Countable
<1>2. IsFiniteSet(Countable(i))
  BY <1>1, LowCountFacts, FS_Subset
<1>3. Cardinality(Countable(i)) \in Nat
  BY <1>2, FS_CardinalityType
<1> QED BY <1>1, <1>2, <1>3, LowCountFacts DEF TrueCount, Countable

\* What the list of entries is when an instance starts.
LEMMA PerAidValuesFacts ==
  ASSUME TypeOK, NEW i \in AidInstances, NEW list, list = PerAidValues(i)
  PROVE  /\ list \in Seq(PerAidEntry)
         /\ \A k \in DOMAIN list : list[k].contributions = 0
         /\ \A k \in DOMAIN list : \A l \in DOMAIN list[k].values :
              /\ list[k].values[l] \in LowCountValues
              /\ list[k].aid \in tracker[list[k].values[l]][i]
         /\ \A k, l \in DOMAIN list : list[k].aid = list[l].aid => k = l
         /\ \A v \in LowCountValues : \A a \in tracker[v][i] :
              \E k \in DOMAIN list :
                /\ list[k].aid = a
                /\ \E l \in DOMAIN list[k].values : list[k].values[l] = v
<1> DEFINE values == AssociatedValues(i)
           S == {a \in Aids : values[a] # {}}
           order == EntryOrder(values)
           aids == InOrder(S, order)
           n == Cardinality(S)
<1>1. /\ DOMAIN values = Aids
      /\ \A a \in Aids : values[a] = {v \in LowCountValues : a \in tracker[v][i]}
  BY DEF AssociatedValues
<1>2. ASSUME NEW a \in Aids
      PROVE  /\ values[a] \subseteq LowCountValues /\ values[a] \subseteq Values
             /\ values[a] \in SUBSET Int /\ IsFiniteSet(values[a])
             /\ Cardinality(values[a]) \in Nat
  <2>1. values[a] \subseteq LowCountValues
    BY <1>1
  <2>2. IsFiniteSet(values[a]) /\ values[a] \in SUBSET Int /\ values[a] \subseteq Values
    BY <2>1, LowCountFacts, FS_Subset
  <2> QED BY <2>1, <2>2, FS_CardinalityType
<1>3. S \in SUBSET Nat /\ IsFiniteSet(S) /\ n \in Nat /\ S \subseteq Aids
  <2>1. S \in SUBSET Aids
    OBVIOUS
  <2>2. IsFiniteSet(S)
    BY <2>1, FS_Subset, CountDistinctAssumption DEF CountDistinctAssumption
  <2> QED BY <2>1, <2>2, FS_CardinalityType, CountDistinctAssumption DEF CountDistinctAssumption
<1>4. \A a, b \in S : <<a, b>> \in order <=>
         \/ Cardinality(values[a]) < Cardinality(values[b])
         \/ Cardinality(values[a]) = Cardinality(values[b]) /\ a < b
  BY DEF EntryOrder
<1>5. list = [k \in DOMAIN aids |->
               [aid |-> aids[k], values |-> Ascending(values[aids[k]]), contributions |-> 0]]
  BY DEF PerAidValues
<1> HIDE DEF values, order
<1>6. StrictlyOrders(order, S)
  <2> DEFINE size == [a \in S |-> Cardinality(values[a])]
  <2>1. \A a \in S : size[a] \in Nat /\ size[a] = Cardinality(values[a]) /\ a \in Nat
    BY <1>2, <1>3
  <2> HIDE DEF size, S
  <2>2. \A a, b \in S : <<a, b>> \in order <=> (size[a] < size[b] \/ (size[a] = size[b] /\ a < b))
    BY <1>4, <2>1
  <2>3. \A a \in S : <<a, a>> \notin order
    BY <2>1, <2>2
  <2>4. \A a, b \in S : a # b => <<a, b>> \in order \/ <<b, a>> \in order
    BY <2>1, <2>2
  <2>5. \A a, b, c \in S : <<a, b>> \in order /\ <<b, c>> \in order => <<a, c>> \in order
    BY <2>1, <2>2
  <2> QED BY <2>3, <2>4, <2>5 DEF StrictlyOrders
<1>7. IsSortedList(aids, S, order)
  BY <1>3, <1>6, InOrderSorts
<1>8. /\ aids \in [1 .. n -> S] /\ DOMAIN aids = 1 .. n
      /\ \A k, l \in 1 .. n : aids[k] = aids[l] => k = l
      /\ \A a \in S : \E k \in 1 .. n : aids[k] = a
  BY <1>7 DEF IsSortedList
<1> HIDE DEF aids, n
<1>9. ASSUME NEW a \in S
      PROVE  /\ Ascending(values[a]) \in Seq(Values)
             /\ \A l \in DOMAIN Ascending(values[a]) : Ascending(values[a])[l] \in values[a]
             /\ \A v \in values[a] : \E l \in DOMAIN Ascending(values[a]) : Ascending(values[a])[l] = v
  <2> DEFINE set == values[a]  m == Cardinality(set)  asc == Ascending(set)
  <2>1. set \in SUBSET Int /\ IsFiniteSet(set) /\ set \subseteq Values /\ m \in Nat
    BY <1>2, <1>3
  <2> HIDE DEF set
  <2>2. asc \in [1 .. m -> set] /\ \A x \in set : \E k \in 1 .. m : asc[k] = x
    BY <2>1, AscendingSorts
  <2> HIDE DEF asc, m
  <2>3. DOMAIN asc = 1 .. m /\ asc \in [1 .. m -> Values]
    BY <2>1, <2>2
  <2>4. asc \in Seq(Values)
    BY <2>1, <2>3
  <2> QED BY <2>2, <2>3, <2>4 DEF asc, set
<1>10. /\ DOMAIN list = 1 .. n
       /\ \A k \in 1 .. n : /\ list[k] = [aid |-> aids[k], values |-> Ascending(values[aids[k]]),
                                          contributions |-> 0]
                            /\ aids[k] \in S
  BY <1>5, <1>8
<1>11. \A k \in 1 .. n : list[k] \in PerAidEntry
  BY <1>3, <1>9, <1>10 DEF PerAidEntry
<1>12. list \in Seq(PerAidEntry)
  <2>1. list = [k \in 1 .. n |-> list[k]]
    BY <1>5, <1>8
  <2>2. list \in [1 .. n -> PerAidEntry]
    BY <1>11, <2>1
  <2> QED BY <1>3, <2>2
<1>13. \A k \in 1 .. n : /\ list[k].aid = aids[k] /\ list[k].contributions = 0
                         /\ list[k].values = Ascending(values[aids[k]])
  BY <1>10
<1>14. \A k \in 1 .. n : \A l \in DOMAIN list[k].values :
         /\ list[k].values[l] \in LowCountValues
         /\ list[k].aid \in tracker[list[k].values[l]][i]
  <2> TAKE k \in 1 .. n
  <2> TAKE l \in DOMAIN list[k].values
  <2>1. aids[k] \in S /\ aids[k] \in Aids
    BY <1>3, <1>10
  <2>2. list[k].values[l] \in values[aids[k]]
    BY <1>9, <1>13, <2>1
  <2> QED BY <1>1, <1>13, <2>1, <2>2
<1>15. ASSUME NEW v \in LowCountValues, NEW a \in tracker[v][i]
       PROVE  \E k \in 1 .. n : /\ list[k].aid = a
                                /\ \E l \in DOMAIN list[k].values : list[k].values[l] = v
  <2>1. a \in Aids
    BY LowCountFacts
  <2>2. v \in values[a]
    BY <1>1, <2>1
  <2>3. a \in S
    BY <2>1, <2>2
  <2>4. PICK k \in 1 .. n : aids[k] = a
    BY <1>8, <2>3
  <2> QED BY <1>9, <1>13, <2>2, <2>3, <2>4
<1> HIDE DEF S
<1> QED BY <1>8, <1>10, <1>12, <1>13, <1>14, <1>15

\* list_pop_back: the last value that is not used, if there is any.
LEMMA PoppedFacts ==
  ASSUME NEW list \in Seq(Values), list # <<>>, NEW k, k = Popped(list)
  PROVE  /\ k \in DOMAIN list /\ list[k] \in Values
         /\ (\E l \in DOMAIN list : Unused(list[l])) =>
              /\ Unused(list[k])
              /\ \A l \in DOMAIN list : Unused(list[l]) => l <= k
<1> DEFINE unused == {l \in DOMAIN list : Unused(list[l])}
<1>1. Len(list) \in Nat \ {0} /\ DOMAIN list = 1 .. Len(list)
  BY EmptySeq, LenProperties
<1>2. k = IF unused = {} THEN 1 ELSE CHOOSE j \in unused : \A l \in unused : l <= j
  BY DEF Popped
<1>3. unused \in SUBSET Nat /\ \A l \in unused : l <= Len(list) /\ l \in DOMAIN list
  BY <1>1
<1>4. CASE unused = {}
  <2>1. k = 1 /\ k \in DOMAIN list
    BY <1>1, <1>2, <1>4
  <2> QED BY <1>1, <1>4, <2>1, ElementOfSeq
<1>5. CASE unused # {}
  <2> HIDE DEF unused
  <2>1. \E j \in unused : \A l \in unused : l <= j
    BY <1>1, <1>3, <1>5, GreatestElement
  <2>2. k \in unused /\ \A l \in unused : l <= k
    BY <1>2, <1>5, <2>1
  <2> USE DEF unused
  <2>3. k \in DOMAIN list /\ Unused(list[k]) /\ \A l \in DOMAIN list : Unused(list[l]) => l <= k
    BY <2>2
  <2> QED BY <1>1, <2>3, ElementOfSeq
<1> QED BY <1>4, <1>5

-----------------------------------------------------------------------------
(* The steps.                                                              *)

LEMMA Initially == Init => IInv
<1> SUFFICES ASSUME Init PROVE IInv
  OBVIOUS
<1>1. Cardinality(Values) \in Nat /\ Instances \in Nat /\ MaxRows \in Nat
  BY CountDistinctAssumption, FS_CardinalityType DEF CountDistinctAssumption
<1>2. per_aid = <<>> /\ per_aid \in Seq(PerAidEntry) /\ Len(per_aid) = 0
  BY EmptySeq DEF Init
<1>3. result = <<>> /\ Len(result) = 0 /\ result \in Seq({result[k] : k \in DOMAIN result})
  BY EmptySeq DEF Init
<1>4. TypeOK
  BY <1>1, <1>2, <1>3 DEF Init, TypeOK
<1>5. Progress
  BY <1>3 DEF Init, Progress
<1> QED BY <1>4, <1>5 DEF Init, IInv

LEMMA AddToEntryStep ==
  ASSUME IInv, NEW value \in Values, NEW aids \in [AidInstances -> SUBSET Aids],
         AddToEntry(value, aids)
  PROVE  IInv'
<1>1. Entry(value) \in [AidInstances -> SUBSET Aids]
  BY DEF Entry, IInv, TypeOK
<1>2. WithAids(value, aids) \in [AidInstances -> SUBSET Aids]
  BY <1>1 DEF WithAids
<1>3. tracker' \in [Values -> [AidInstances -> SUBSET Aids] \cup {NoEntry}]
  BY <1>2 DEF AddToEntry, IInv, TypeOK
<1>4. rows' \in 0 .. MaxRows
  BY CountDistinctAssumption DEF AddToEntry, IInv, TypeOK, CountDistinctAssumption
<1>5. UNCHANGED <<phase, aid_index, per_aid, cell, used, remaining, credit, passes, result>>
      /\ phase = "aggregate"
  BY DEF AddToEntry, loop_vars
<1>6. TypeOK'
  BY <1>3, <1>4, <1>5 DEF IInv, TypeOK
<1>7. Progress'
  BY <1>5 DEF IInv, Progress
<1> QED BY <1>5, <1>6, <1>7 DEF IInv

LEMMA FinalizeCallStep ==
  ASSUME IInv, Finalize
  PROVE  IInv'
<1>1. /\ UNCHANGED <<tracker, per_aid, cell, used, remaining, credit, passes, rows>>
      /\ phase' = "instance" /\ aid_index' = 1 /\ result' = <<>>
  BY DEF Finalize, loop_vars
<1>2. 1 \in 1 .. Instances + 1 /\ 0 <= Instances
  BY CountDistinctAssumption DEF CountDistinctAssumption
<1>3. result' \in Seq({result'[k] : k \in DOMAIN result'}) /\ Len(result') = 0
  BY <1>1, EmptySeq
<1>4. TypeOK'
  BY <1>1, <1>2, <1>3 DEF IInv, TypeOK
<1>5. Progress'
  BY <1>1, <1>3 DEF Progress
<1> QED BY <1>1, <1>4, <1>5 DEF IInv

LEMMA StartInstanceStep ==
  ASSUME IInv, StartInstance
  PROVE  IInv'
<1>1. /\ UNCHANGED <<tracker, aid_index, result, rows>>
      /\ phase' = "distribute" /\ per_aid' = PerAidValues(aid_index)
      /\ remaining' = TrueCount(aid_index) /\ used' = {} /\ cell' = 1
      /\ credit' = [v \in {} |-> 0] /\ passes' = 0
  BY DEF StartInstance
<1>2. TypeOK /\ aid_index \in AidInstances
  BY CountDistinctAssumption DEF StartInstance, IInv, TypeOK, AidInstances, CountDistinctAssumption
<1>3. LowCountValues' = LowCountValues /\ Countable(aid_index)' = Countable(aid_index)
  BY <1>1 DEF LowCountValues, Countable
<1>4. /\ per_aid' \in Seq(PerAidEntry)
      /\ \A k \in DOMAIN per_aid' : per_aid'[k].contributions = 0
      /\ \A k \in DOMAIN per_aid' : \A l \in DOMAIN per_aid'[k].values :
           /\ per_aid'[k].values[l] \in LowCountValues
           /\ per_aid'[k].aid \in tracker[per_aid'[k].values[l]][aid_index]
      /\ \A k, l \in DOMAIN per_aid' : per_aid'[k].aid = per_aid'[l].aid => k = l
      /\ \A v \in LowCountValues : \A a \in tracker[v][aid_index] :
           \E k \in DOMAIN per_aid' :
             /\ per_aid'[k].aid = a
             /\ \E l \in DOMAIN per_aid'[k].values : per_aid'[k].values[l] = v
  BY <1>1, <1>2, PerAidValuesFacts
<1>5. Len(per_aid') \in Nat /\ DOMAIN per_aid' = 1 .. Len(per_aid')
  BY <1>4, LenProperties
<1>6. /\ remaining' = Cardinality(Countable(aid_index)) /\ remaining' \in Nat
      /\ Cardinality({}) = 0 /\ Cardinality(Values) \in Nat
  BY <1>1, <1>2, CountableFacts, FS_EmptySet, FS_CardinalityType, CountDistinctAssumption
     DEF CountDistinctAssumption
<1>7. TypeOK'
  BY <1>1, <1>2, <1>4, <1>5, <1>6 DEF TypeOK
<1>8. Progress'
  BY <1>1, <1>2 DEF IInv, Progress
<1>9. Credited'
  BY <1>1, <1>3, <1>6 DEF Credited
<1>10. ListsHold'
  BY <1>1, <1>3, <1>4 DEF ListsHold
<1>11. ListsCover'
  BY <1>1, <1>3, <1>4 DEF ListsCover
<1>12. Counts'
  <2> SUFFICES ASSUME NEW k \in DOMAIN per_aid'
               PROVE  per_aid'[k].contributions
                        = Cardinality({v \in used' : credit'[v] = per_aid'[k].aid})
    BY DEF Counts
  <2>1. {v \in used' : credit'[v] = per_aid'[k].aid} = {}
    BY <1>1
  <2> QED BY <1>4, <1>6, <2>1
<1>13. Turns'
  <2> SUFFICES ASSUME NEW k \in DOMAIN per_aid'
               PROVE  per_aid'[k].contributions = IF k < cell' THEN passes' + 1 ELSE passes'
    BY DEF Turns
  <2> QED BY <1>1, <1>4, <1>5
<1> QED BY <1>7, <1>8, <1>9, <1>10, <1>11, <1>12, <1>13 DEF IInv, Handout

LEMMA EndInstanceStep ==
  ASSUME IInv, EndInstance
  PROVE  IInv'
<1> DEFINE r == InstanceResult
           S == {result[k] : k \in DOMAIN result}
           T == {result'[k] : k \in DOMAIN result'}
<1>1. /\ UNCHANGED <<tracker, per_aid, cell, used, remaining, credit, passes, rows>>
      /\ result' = Append(result, r) /\ aid_index' = aid_index + 1
      /\ phase' \in {"done", "instance"}
      /\ phase = "distribute"
  BY DEF EndInstance, loop_vars
<1> HIDE DEF r
<1>2. /\ aid_index \in AidInstances /\ Instances \in Nat /\ TypeOK
      /\ result \in Seq(S) /\ Len(result) = aid_index - 1
  BY <1>1, CountDistinctAssumption DEF IInv, Progress, CountDistinctAssumption
<1>3. aid_index \in Nat \ {0} /\ aid_index <= Instances /\ aid_index + 1 \in 1 .. Instances + 1
  BY <1>2 DEF AidInstances
<1>4. Len(result') = aid_index /\ result' \in Seq(T)
  <2> DEFINE U == S \cup {r}
  <2>1. result \in Seq(U) /\ r \in U
    <3>1. \A k \in 1 .. Len(result) : result[k] \in S
      BY <1>2, ElementOfSeq
    <3> HIDE DEF S
    <3>2. result = [k \in 1 .. Len(result) |-> result[k]] /\ Len(result) \in Nat
      BY <1>2, LenProperties
    <3>3. result \in [1 .. Len(result) -> U]
      BY <3>1, <3>2
    <3> QED BY <3>2, <3>3
  <2> HIDE DEF S, U
  <2>2. result' \in Seq(U) /\ Len(result') = Len(result) + 1
    BY <1>1, <2>1, AppendProperties
  <2>3. /\ Len(result') \in Nat /\ DOMAIN result' = 1 .. Len(result')
        /\ result' = [k \in 1 .. Len(result') |-> result'[k]]
    BY <2>2, LenProperties
  <2>4. result' \in [1 .. Len(result') -> T]
    BY <2>3
  <2> HIDE DEF T
  <2>5. result' \in Seq(T)
    BY <2>3, <2>4
  <2> QED BY <1>2, <1>3, <2>2, <2>5
<1>5. TypeOK'
  BY <1>1, <1>2, <1>3, <1>4 DEF TypeOK
<1>6. Progress'
  BY <1>1, <1>3, <1>4 DEF Progress
<1>7. phase' # "distribute"
  BY <1>1
<1> QED BY <1>5, <1>6, <1>7 DEF IInv

LEMMA EndFinalizeStep ==
  ASSUME IInv, EndFinalize
  PROVE  IInv'
<1>1. /\ UNCHANGED <<tracker, aid_index, per_aid, cell, used, remaining, credit, passes, result, rows>>
      /\ phase' = "done"
  BY DEF EndFinalize, loop_vars
<1>2. TypeOK' /\ Progress'
  BY <1>1 DEF IInv, TypeOK, Progress
<1> QED BY <1>1, <1>2 DEF IInv

LEMMA UnchangedStep ==
  ASSUME IInv, UNCHANGED vars
  PROVE  IInv'
<1>1. UNCHANGED <<phase, tracker, aid_index, per_aid, cell, used, remaining, credit, passes, result, rows>>
  BY DEF vars, loop_vars
<1>2. TypeOK' /\ Progress'
  BY <1>1 DEF IInv, TypeOK, Progress
<1>3. LowCountValues' = LowCountValues
  BY <1>1 DEF LowCountValues
<1>4. phase' = "distribute" => Credited' /\ ListsHold' /\ ListsCover' /\ Counts' /\ Turns'
  BY <1>1, <1>3 DEF IInv, Handout, Credited, Countable, ListsHold, ListsCover, Counts, Turns,
                    HasUnused, Unused
<1> QED BY <1>2, <1>4 DEF IInv, Handout

LEMMA NextPassStep ==
  ASSUME IInv, NextPass
  PROVE  IInv'
<1>1. /\ UNCHANGED <<phase, tracker, aid_index, per_aid, used, remaining, result, credit, rows>>
      /\ cell' = 1 /\ cell > Len(per_aid) /\ phase = "distribute"
      /\ passes' = IF passes < Cardinality(Values) THEN passes + 1 ELSE passes
  BY DEF NextPass
<1>2. TypeOK /\ Handout /\ aid_index \in AidInstances
  BY <1>1 DEF IInv, Progress
<1>3. /\ Len(per_aid) \in Nat /\ DOMAIN per_aid = 1 .. Len(per_aid)
      /\ passes \in 0 .. Cardinality(Values) /\ Cardinality(Values) \in Nat
  BY <1>2, LenProperties, FS_CardinalityType, CountDistinctAssumption DEF TypeOK, CountDistinctAssumption
<1>4. TypeOK'
  BY <1>1, <1>2, <1>3 DEF TypeOK
<1>5. Progress'
  BY <1>1 DEF IInv, Progress
<1>6. LowCountValues' = LowCountValues
  BY <1>1 DEF LowCountValues
<1>7. Credited' /\ ListsHold' /\ ListsCover' /\ Counts'
  BY <1>1, <1>2, <1>6 DEF Handout, Credited, Countable, ListsHold, ListsCover, Counts, Unused
<1>8. ASSUME NEW k \in DOMAIN per_aid, HasUnused(k)
      PROVE  passes < Cardinality(Values) /\ per_aid[k].contributions = passes + 1
  <2> DEFINE own == {v \in used : credit[v] = per_aid[k].aid}
  <2>1. per_aid[k].contributions = passes + 1
    BY <1>1, <1>2, <1>3, <1>8 DEF Handout, Turns, TypeOK
  <2>2. per_aid[k].contributions = Cardinality(own)
    BY <1>2 DEF Handout, Counts
  <2>3. PICK v \in LowCountValues : v \notin used
    BY <1>2, <1>8 DEF Handout, ListsHold, HasUnused, Unused
  <2>4. v \in Values /\ own \in SUBSET (Values \ {v})
    BY <1>2, <2>3, LowCountFacts DEF TypeOK
  <2> HIDE DEF own
  <2>5. IsFiniteSet(Values \ {v}) /\ Cardinality(Values \ {v}) = Cardinality(Values) - 1
    BY <2>4, FS_RemoveElement, CountDistinctAssumption DEF CountDistinctAssumption
  <2>6. Cardinality(own) <= Cardinality(Values \ {v})
    BY <2>4, <2>5, FS_Subset
  <2> QED BY <1>3, <2>1, <2>2, <2>5, <2>6
<1>9. Turns'
  <2> SUFFICES ASSUME NEW k \in DOMAIN per_aid, HasUnused(k)
               PROVE  per_aid[k].contributions = IF k < 1 THEN passes' + 1 ELSE passes'
    BY <1>1 DEF Turns, HasUnused, Unused
  <2> QED BY <1>1, <1>3, <1>8
<1> QED BY <1>4, <1>5, <1>7, <1>9 DEF IInv, Handout

\* What a turn of an AID does to its entry.
LEMMA DistributeEffect ==
  ASSUME TypeOK, Distribute, NEW list, list = per_aid[cell].values, list # <<>>,
         NEW k, k = Popped(list)
  PROVE  /\ cell \in DOMAIN per_aid /\ list \in Seq(Values)
         /\ k \in DOMAIN list /\ DOMAIN list = 1 .. Len(list) /\ Len(list) \in Nat
         /\ per_aid' \in Seq(PerAidEntry) /\ Len(per_aid') = Len(per_aid)
         /\ DOMAIN per_aid' = DOMAIN per_aid
         /\ \A j \in DOMAIN per_aid : /\ per_aid'[j].aid = per_aid[j].aid
                                      /\ j # cell => per_aid'[j] = per_aid[j]
         /\ DOMAIN per_aid'[cell].values = 1 .. k - 1
         /\ \A l \in 1 .. k - 1 : per_aid'[cell].values[l] = list[l]
         /\ per_aid'[cell].contributions = IF Unused(list[k]) THEN per_aid[cell].contributions + 1
                                           ELSE per_aid[cell].contributions
<1> DEFINE n == IF Unused(list[k]) THEN per_aid[cell].contributions + 1
                ELSE per_aid[cell].contributions
           prefix == SubSeq(list, 1, k - 1)
           entry == [aid |-> per_aid[cell].aid, values |-> prefix, contributions |-> n]
<1>1. /\ per_aid \in Seq(PerAidEntry) /\ Len(per_aid) \in Nat /\ DOMAIN per_aid = 1 .. Len(per_aid)
      /\ cell \in DOMAIN per_aid /\ cell \in Nat
  BY LenProperties DEF TypeOK, Distribute
<1>2. per_aid[cell] \in PerAidEntry
  BY <1>1, ElementOfSeq
<1>3. /\ per_aid[cell].aid \in Aids /\ list \in Seq(Values) /\ per_aid[cell].contributions \in Nat
      /\ per_aid[cell] = [aid |-> per_aid[cell].aid, values |-> list,
                          contributions |-> per_aid[cell].contributions]
  BY <1>2 DEF PerAidEntry
<1>4. k \in DOMAIN list /\ DOMAIN list = 1 .. Len(list) /\ Len(list) \in Nat
  BY <1>3, PoppedFacts, LenProperties
<1>5. /\ prefix \in Seq(Values) /\ Len(prefix) = k - 1
      /\ \A l \in 1 .. k - 1 : prefix[l] = list[l]
  <2>1. \A l \in 1 .. Len(list) : list[l] \in Values
    BY <1>3, ElementOfSeq
  <2> QED BY <1>3, <1>4, <2>1
<1>6. n \in Nat
  BY <1>3
<1>7. per_aid' = [per_aid EXCEPT ![cell] = entry]
  BY <1>3 DEF Distribute
<1> HIDE DEF n, prefix
<1>8. entry \in PerAidEntry
  BY <1>3, <1>5, <1>6 DEF PerAidEntry
<1>9. entry.aid = per_aid[cell].aid /\ entry.values = prefix /\ entry.contributions = n
  OBVIOUS
<1> HIDE DEF entry
<1>10. per_aid' \in Seq(PerAidEntry) /\ Len(per_aid') = Len(per_aid) /\ DOMAIN per_aid' = DOMAIN per_aid
  BY <1>1, <1>7, <1>8
<1>11. per_aid'[cell] = entry /\ \A j \in DOMAIN per_aid : j # cell => per_aid'[j] = per_aid[j]
  BY <1>1, <1>7
<1>12. DOMAIN prefix = 1 .. k - 1
  BY <1>5, LenProperties
<1> QED BY <1>1, <1>3, <1>4, <1>5, <1>9, <1>10, <1>11, <1>12 DEF n

LEMMA DistributeStep ==
  ASSUME IInv, Distribute
  PROVE  IInv'
<1> DEFINE list == per_aid[cell].values  k == Popped(list)  v == list[k]
<1>1. /\ UNCHANGED <<phase, tracker, aid_index, result, passes, rows>>
      /\ cell' = cell + 1 /\ phase = "distribute"
  BY DEF Distribute
<1>2. TypeOK /\ Handout /\ aid_index \in AidInstances
  BY <1>1 DEF IInv, Progress
<1>3. /\ per_aid \in Seq(PerAidEntry) /\ Len(per_aid) \in Nat /\ DOMAIN per_aid = 1 .. Len(per_aid)
      /\ cell \in DOMAIN per_aid /\ cell \in Nat /\ per_aid[cell] \in PerAidEntry
  <2>1. per_aid \in Seq(PerAidEntry) /\ Len(per_aid) \in Nat /\ DOMAIN per_aid = 1 .. Len(per_aid)
        /\ cell \in DOMAIN per_aid /\ cell \in Nat
    BY <1>2, LenProperties DEF TypeOK, Distribute
  <2> QED BY <2>1, ElementOfSeq
<1>4. list \in Seq(Values) /\ \A j \in DOMAIN per_aid : per_aid[j].contributions \in Nat
  <2>1. \A j \in 1 .. Len(per_aid) : per_aid[j] \in PerAidEntry
    BY <1>3, ElementOfSeq
  <2> QED BY <1>3, <2>1 DEF PerAidEntry
<1>5. Progress'
  BY <1>1 DEF IInv, Progress
<1>6. LowCountValues' = LowCountValues /\ Countable(aid_index)' = Countable(aid_index)
  BY <1>1 DEF LowCountValues, Countable
<1>7. CASE list = <<>>
  <2>1. UNCHANGED <<per_aid, used, remaining, credit>>
    BY <1>7 DEF Distribute
  <2>2. TypeOK'
    BY <1>1, <1>2, <1>3, <2>1 DEF TypeOK
  <2>3. Credited' /\ ListsHold' /\ ListsCover' /\ Counts'
    BY <1>1, <1>2, <1>6, <2>1 DEF Handout, Credited, Countable, ListsHold, ListsCover, Counts, Unused
  <2>4. ~ HasUnused(cell)
    BY <1>7 DEF HasUnused
  <2>5. Turns'
    <3> SUFFICES ASSUME NEW j \in DOMAIN per_aid, HasUnused(j)
                 PROVE  per_aid[j].contributions = IF j < cell + 1 THEN passes + 1 ELSE passes
      BY <1>1, <2>1 DEF Turns, HasUnused, Unused
    <3>1. j # cell /\ j \in Nat
      BY <1>3, <2>4
    <3>2. per_aid[j].contributions = IF j < cell THEN passes + 1 ELSE passes
      BY <1>2 DEF Handout, Turns
    <3> QED BY <1>3, <3>1, <3>2
  <2> QED BY <1>1, <1>5, <2>2, <2>3, <2>5 DEF IInv, Handout
<1>8. CASE list # <<>>
  <2>1. /\ k \in DOMAIN list /\ DOMAIN list = 1 .. Len(list) /\ Len(list) \in Nat
        /\ per_aid' \in Seq(PerAidEntry) /\ Len(per_aid') = Len(per_aid)
        /\ DOMAIN per_aid' = DOMAIN per_aid
        /\ \A j \in DOMAIN per_aid : /\ per_aid'[j].aid = per_aid[j].aid
                                     /\ j # cell => per_aid'[j] = per_aid[j]
        /\ DOMAIN per_aid'[cell].values = 1 .. k - 1
        /\ \A l \in 1 .. k - 1 : per_aid'[cell].values[l] = list[l]
        /\ per_aid'[cell].contributions = IF Unused(v) THEN per_aid[cell].contributions + 1
                                          ELSE per_aid[cell].contributions
    BY <1>2, <1>8, DistributeEffect
  <2>2. /\ v \in Values
        /\ (\E l \in DOMAIN list : Unused(list[l])) =>
             /\ Unused(v)
             /\ \A l \in DOMAIN list : Unused(list[l]) => l <= k
    BY <1>4, <1>8, PoppedFacts
  <2>3. v \in LowCountValues /\ per_aid[cell].aid \in tracker[v][aid_index] /\ v \in Countable(aid_index)
    <3>1. v \in LowCountValues /\ per_aid[cell].aid \in tracker[v][aid_index]
      BY <1>2, <1>3, <2>1 DEF Handout, ListsHold
    <3> QED BY <3>1 DEF Countable
  <2>4. IF Unused(v)
        THEN /\ used' = used \cup {v} /\ remaining' = remaining - 1
             /\ credit' = [x \in used' |-> IF x \in used THEN credit[x] ELSE per_aid[cell].aid]
        ELSE UNCHANGED <<used, remaining, credit>>
    BY <1>8 DEF Distribute
  <2> HIDE DEF v, k
  <2>5. ListsHold'
    <3> SUFFICES ASSUME NEW j \in DOMAIN per_aid, NEW l \in DOMAIN per_aid'[j].values
                 PROVE  /\ per_aid'[j].values[l] \in LowCountValues
                        /\ per_aid'[j].aid \in tracker[per_aid'[j].values[l]][aid_index]
      BY <1>1, <1>6, <2>1 DEF ListsHold
    <3>1. CASE j # cell
      BY <1>2, <2>1, <3>1 DEF Handout, ListsHold
    <3>2. CASE j = cell
      <4>1. l \in DOMAIN list /\ per_aid'[j].values[l] = list[l] /\ per_aid'[j].aid = per_aid[cell].aid
        BY <2>1, <3>2
      <4> QED BY <1>2, <1>3, <4>1 DEF Handout, ListsHold
    <3> QED BY <3>1, <3>2
  <2>6. \A x : x \notin used' => Unused(x)
    BY <2>4 DEF Unused
  <2>7. \A l \in DOMAIN list : list[l] \notin used' => l \in 1 .. k - 1
    <3> SUFFICES ASSUME NEW l \in DOMAIN list, list[l] \notin used' PROVE l \in 1 .. k - 1
      OBVIOUS
    <3>1. Unused(v) /\ l <= k
      BY <2>2, <2>6
    <3>2. v \in used'
      BY <2>4, <3>1
    <3>3. l # k
      BY <3>2 DEF v
    <3> QED BY <2>1, <3>1, <3>3
  <2>8. ListsCover'
    <3>1. \A i, j \in DOMAIN per_aid' : per_aid'[i].aid = per_aid'[j].aid => i = j
      BY <1>2, <2>1 DEF Handout, ListsCover
    <3>2. ASSUME NEW x \in LowCountValues, NEW a \in tracker[x][aid_index]
          PROVE  \E j \in DOMAIN per_aid' :
                   /\ per_aid'[j].aid = a
                   /\ x \notin used' => \E l \in DOMAIN per_aid'[j].values : per_aid'[j].values[l] = x
      <4>1. PICK j \in DOMAIN per_aid :
              /\ per_aid[j].aid = a
              /\ Unused(x) => \E l \in DOMAIN per_aid[j].values : per_aid[j].values[l] = x
        BY <1>2, <3>2 DEF Handout, ListsCover
      <4>2. ASSUME x \notin used', j = cell
            PROVE  \E l \in DOMAIN per_aid'[j].values : per_aid'[j].values[l] = x
        <5>1. PICK l \in DOMAIN list : list[l] = x
          BY <2>6, <4>1, <4>2
        <5>2. l \in 1 .. k - 1
          BY <2>7, <4>2, <5>1
        <5> QED BY <2>1, <4>2, <5>1, <5>2
      <4>3. ASSUME x \notin used', j # cell
            PROVE  \E l \in DOMAIN per_aid'[j].values : per_aid'[j].values[l] = x
        BY <2>1, <2>6, <4>1, <4>3
      <4> QED BY <2>1, <4>1, <4>2, <4>3
    <3> QED BY <1>1, <1>6, <3>1, <3>2 DEF ListsCover, Unused
  <2>9. \A j \in DOMAIN per_aid : HasUnused(j)' => HasUnused(j)
    <3> SUFFICES ASSUME NEW j \in DOMAIN per_aid, NEW l \in DOMAIN per_aid'[j].values,
                        per_aid'[j].values[l] \notin used'
                 PROVE  \E i \in DOMAIN per_aid[j].values : Unused(per_aid[j].values[i])
      BY DEF HasUnused, Unused
    <3>1. Unused(per_aid'[j].values[l])
      BY <2>6
    <3>2. CASE j # cell
      BY <2>1, <3>1, <3>2
    <3>3. CASE j = cell
      <4>1. l \in DOMAIN list /\ per_aid'[j].values[l] = list[l]
        BY <2>1, <3>3
      <4> QED BY <3>1, <3>3, <4>1
    <3> QED BY <3>2, <3>3
  <2>10. cell' \in 1 .. Len(per_aid') + 1
    BY <1>1, <1>3, <2>1
  <2>11. CASE Unused(v)
    <3>1. v \notin used
      BY <2>11 DEF Unused
    <3>2. /\ used' = used \cup {v} /\ remaining' = remaining - 1
          /\ credit' = [x \in used' |-> IF x \in used THEN credit[x] ELSE per_aid[cell].aid]
      BY <2>4, <2>11
    <3>3. /\ used' \subseteq Countable(aid_index) /\ used' \subseteq Values
          /\ DOMAIN credit = used
      BY <1>2, <2>2, <2>3, <3>2 DEF Handout, Credited, TypeOK
    <3>4. /\ DOMAIN credit' = used' /\ credit'[v] = per_aid[cell].aid
          /\ \A x \in used : credit'[x] = credit[x]
      BY <3>1, <3>2, <3>3
    <3>5. /\ Cardinality(used) \in Nat /\ Cardinality(used') = Cardinality(used) + 1
          /\ Cardinality(used') <= Cardinality(Countable(aid_index))
          /\ Cardinality(Countable(aid_index)) \in Nat
      <4>1. IsFiniteSet(Countable(aid_index)) /\ Cardinality(Countable(aid_index)) \in Nat
        BY <1>2, CountableFacts
      <4>2. Cardinality(used') <= Cardinality(Countable(aid_index))
        BY <3>3, <4>1, FS_Subset
      <4>3. IsFiniteSet(used)
        BY <3>2, <3>3, <4>1, FS_Subset
      <4> QED BY <3>1, <3>2, <4>1, <4>2, <4>3, FS_CardinalityType, FS_AddElement
    <3>6. /\ remaining = Cardinality(Countable(aid_index)) - Cardinality(used)
          /\ remaining' = Cardinality(Countable(aid_index)) - Cardinality(used') /\ remaining' \in Nat
      <4>1. remaining = Cardinality(Countable(aid_index)) - Cardinality(used)
        BY <1>2 DEF Handout, Credited
      <4> QED BY <3>2, <3>5, <4>1
    <3>7. TypeOK'
      BY <1>1, <1>2, <2>1, <2>10, <3>3, <3>6 DEF TypeOK
    <3>8. Credited'
      <4>1. \A x \in used' : credit'[x] \in tracker[x][aid_index]
        BY <1>2, <2>3, <3>2, <3>4 DEF Handout, Credited
      <4> QED BY <1>1, <1>6, <3>3, <3>4, <3>6, <4>1 DEF Credited
    <3>9. Counts'
      <4> SUFFICES ASSUME NEW j \in DOMAIN per_aid
                   PROVE  per_aid'[j].contributions
                            = Cardinality({x \in used' : credit'[x] = per_aid'[j].aid})
        BY <2>1 DEF Counts
      <4> DEFINE own == {x \in used : credit[x] = per_aid[j].aid}
                 own2 == {x \in used' : credit'[x] = per_aid'[j].aid}
      <4>1. per_aid[j].contributions = Cardinality(own)
        BY <1>2 DEF Handout, Counts
      <4>2. CASE j # cell
        <5>1. per_aid[j].aid # per_aid[cell].aid
          BY <1>2, <1>3, <4>2 DEF Handout, ListsCover
        <5>2. own2 = own
          BY <2>1, <3>2, <3>4, <4>2, <5>1
        <5> QED BY <2>1, <4>1, <4>2, <5>2
      <4>3. CASE j = cell
        <5>1. own2 = own \cup {v}
          BY <2>1, <3>2, <3>4, <4>3
        <5>2. IsFiniteSet(own) /\ v \notin own
          <6>1. IsFiniteSet(Countable(aid_index)) /\ own \subseteq Countable(aid_index)
            BY <1>2, <3>2, <3>3, CountableFacts
          <6> QED BY <3>1, <6>1, FS_Subset
        <5> HIDE DEF own, own2
        <5>3. Cardinality(own2) = Cardinality(own) + 1
          BY <5>1, <5>2, FS_AddElement
        <5>4. per_aid'[j].contributions = per_aid[j].contributions + 1
          BY <2>1, <2>11, <4>3
        <5> QED BY <4>1, <5>3, <5>4 DEF own2
      <4> QED BY <4>2, <4>3
    <3>10. HasUnused(cell)
      BY <2>1, <2>11 DEF HasUnused, v
    <3>11. Turns'
      <4> SUFFICES ASSUME NEW j \in DOMAIN per_aid, HasUnused(j)
                   PROVE  per_aid'[j].contributions = IF j < cell + 1 THEN passes + 1 ELSE passes
        BY <1>1, <2>1, <2>9 DEF Turns
      <4>1. per_aid[j].contributions = IF j < cell THEN passes + 1 ELSE passes
        BY <1>2 DEF Handout, Turns
      <4>2. j \in Nat
        BY <1>3
      <4>3. CASE j # cell
        BY <1>3, <2>1, <4>1, <4>2, <4>3
      <4>4. CASE j = cell
        BY <1>3, <2>1, <2>11, <4>1, <4>4
      <4> QED BY <4>3, <4>4
    <3> QED BY <1>1, <1>5, <2>5, <2>8, <3>7, <3>8, <3>9, <3>11 DEF IInv, Handout
  <2>12. CASE ~ Unused(v)
    <3>1. UNCHANGED <<used, remaining, credit>>
      BY <2>4, <2>12
    <3>2. TypeOK'
      BY <1>1, <1>2, <2>1, <2>10, <3>1 DEF TypeOK
    <3>3. Credited'
      BY <1>1, <1>2, <1>6, <3>1 DEF Handout, Credited
    <3>4. Counts'
      <4>1. \A j \in DOMAIN per_aid : per_aid'[j].contributions = per_aid[j].contributions
        BY <2>1, <2>12
      <4> QED BY <1>2, <2>1, <3>1, <4>1 DEF Handout, Counts
    <3>5. ~ HasUnused(cell)
      BY <2>2, <2>12 DEF HasUnused
    <3>6. Turns'
      <4> SUFFICES ASSUME NEW j \in DOMAIN per_aid, HasUnused(j)
                   PROVE  per_aid'[j].contributions = IF j < cell + 1 THEN passes + 1 ELSE passes
        BY <1>1, <2>1, <2>9 DEF Turns
      <4>1. per_aid[j].contributions = IF j < cell THEN passes + 1 ELSE passes
        BY <1>2 DEF Handout, Turns
      <4>2. j \in Nat /\ j # cell
        BY <1>3, <3>5
      <4> QED BY <1>3, <2>1, <4>1, <4>2
    <3> QED BY <1>1, <1>5, <2>5, <2>8, <3>2, <3>3, <3>4, <3>6 DEF IInv, Handout
  <2> QED BY <2>11, <2>12
<1> QED BY <1>7, <1>8

-----------------------------------------------------------------------------

(* The inductive invariant of count(distinct). *)
THEOREM Invariance == Spec => []IInv
<1>1. IInv /\ [Next]_vars => IInv'
  <2> SUFFICES ASSUME IInv, [Next]_vars PROVE IInv'
    OBVIOUS
  <2>1. ASSUME NEW value \in Values, Transition(value) PROVE IInv'
    <3>1. PICK aids \in [AidInstances -> {{}} \cup {{a} : a \in Aids}] : AddToEntry(value, aids)
      BY <2>1 DEF Transition
    <3>2. aids \in [AidInstances -> SUBSET Aids]
      OBVIOUS
    <3> QED BY <3>1, <3>2, AddToEntryStep
  <2>2. ASSUME NEW value \in Values, MergeEntry(value) PROVE IInv'
    BY <2>2, AddToEntryStep DEF MergeEntry
  <2>3. CASE Finalize
    BY <2>3, FinalizeCallStep
  <2>4. CASE StartInstance
    BY <2>4, StartInstanceStep
  <2>5. CASE Distribute
    BY <2>5, DistributeStep
  <2>6. CASE NextPass
    BY <2>6, NextPassStep
  <2>7. CASE EndInstance
    BY <2>7, EndInstanceStep
  <2>8. CASE EndFinalize
    BY <2>8, EndFinalizeStep
  <2>9. CASE UNCHANGED vars
    BY <2>9, UnchangedStep
  <2> QED BY <2>1, <2>2, <2>3, <2>4, <2>5, <2>6, <2>7, <2>8, <2>9 DEF Next, FinalizeStep
<1> QED BY Initially, <1>1, PTL DEF Spec

(* The variables of CountDistinct keep their types: values_count never falls *)
(* below zero, although it is counted apart from the lists it is taken from. *)
THEOREM TypeCorrect == Spec => []TypeOK
<1>1. IInv => TypeOK
  BY DEF IInv
<1> QED BY Invariance, <1>1, PTL

(* Whatever the AID sets are, a low count value is counted once, for one of   *)
(* its AIDs, and distribute_lc_values leaves none out.                        *)
THEOREM CountedOnce == Spec => []CountedForOneOfItsAids
<1>1. IInv => CountedForOneOfItsAids
  <2> SUFFICES ASSUME IInv, phase = "distribute" PROVE CountedForOneOfItsAids
    BY DEF CountedForOneOfItsAids
  <2>1. TypeOK /\ Handout /\ aid_index \in AidInstances
    BY DEF IInv, Progress
  <2>2. DOMAIN credit = used /\ used \subseteq Countable(aid_index)
    BY <2>1 DEF Handout, Credited
  <2>3. \A v \in used : credit[v] \in tracker[v][aid_index]
    BY <2>1 DEF Handout, Credited
  <2>4. \A v \in used : \E k \in DOMAIN per_aid : per_aid[k].aid = credit[v]
    BY <2>1, <2>2, <2>3 DEF Handout, ListsCover, Countable
  <2>5. (remaining = 0) <=> (used = Countable(aid_index))
    <3>1. IsFiniteSet(Countable(aid_index)) /\ Cardinality(Countable(aid_index)) \in Nat
      BY <2>1, CountableFacts
    <3>2. Cardinality(used) \in Nat
      BY <2>2, <3>1, FS_Subset, FS_CardinalityType
    <3>3. remaining = Cardinality(Countable(aid_index)) - Cardinality(used)
      BY <2>1 DEF Handout, Credited
    <3>4. Cardinality(Countable(aid_index)) = Cardinality(used) => Countable(aid_index) = used
      BY <2>2, <3>1, FS_Subset
    <3> QED BY <3>1, <3>2, <3>3, <3>4
  <2>6. \A k, l \in DOMAIN per_aid : per_aid[k].aid = per_aid[l].aid => k = l
    BY <2>1 DEF Handout, ListsCover
  <2>7. \A k \in DOMAIN per_aid :
          per_aid[k].contributions = Cardinality({v \in DOMAIN credit : credit[v] = per_aid[k].aid})
    BY <2>1, <2>2 DEF Handout, Counts
  <2>8. DOMAIN credit \subseteq LowCountValues
    BY <2>2 DEF Countable
  <2> QED BY <2>2, <2>3, <2>4, <2>5, <2>6, <2>7, <2>8 DEF CountedForOneOfItsAids, Countable
<1> QED BY Invariance, <1>1, PTL

(* No AID misses a turn: at the end of a pass, each one that has a value left *)
(* to count has counted in every pass.                                        *)
THEOREM NoTurnMissed == Spec => []TakenInTurn
<1>1. IInv => TakenInTurn
  <2> SUFFICES ASSUME IInv, phase = "distribute", cell > Len(per_aid), NEW k \in DOMAIN per_aid,
                      \E l \in DOMAIN per_aid[k].values : per_aid[k].values[l] \notin used
               PROVE  per_aid[k].contributions = passes + 1
    BY DEF TakenInTurn
  <2>1. TypeOK /\ Turns
    BY DEF IInv, Handout
  <2>2. HasUnused(k)
    BY DEF HasUnused, Unused
  <2>3. k < cell
    BY <2>1, LenProperties DEF TypeOK
  <2> QED BY <2>1, <2>2, <2>3 DEF Turns
<1> QED BY Invariance, <1>1, PTL
=============================================================================
