----------------------------- MODULE NaturalSets -----------------------------
(***************************************************************************)
(* Facts that the proofs of several modules need: sets of natural numbers  *)
(* have extrema, induction, said of sets, and finite sets can be sorted.   *)
(***************************************************************************)
EXTENDS Ordering, FiniteSetTheorems, WellFoundedInduction, TLAPS

(* A set of natural numbers has a least element. *)
LEMMA LeastElement ==
  ASSUME NEW S \in SUBSET Nat, S # {}
  PROVE  \E x \in S : \A y \in S : x <= y
<1> DEFINE R == OpToRel(<, Nat)
<1>1. IsWellFoundedOn(R, Nat)
  BY NatLessThanWellFounded
<1>2. \A x, y \in Nat : <<x, y>> \in R <=> x < y
  BY DEF OpToRel
<1> HIDE DEF R
<1>3. PICK x \in S : \A y \in S : ~ (<<y, x>> \in R)
  BY <1>1, WFMin
<1>4. \A y \in S : x <= y
  <2> TAKE y \in S
  <2>1. x \in Nat /\ y \in Nat
    OBVIOUS
  <2>2. ~ (y < x)
    BY <1>2, <1>3, <2>1
  <2> QED BY <2>1, <2>2
<1> QED BY <1>4

(* A bounded set of natural numbers has a greatest element. *)
LEMMA GreatestElement ==
  ASSUME NEW S \in SUBSET Nat, S # {}, NEW n \in Nat, \A x \in S : x <= n
  PROVE  \E x \in S : \A y \in S : y <= x
<1> DEFINE T == {k \in Nat : n - k \in S}
<1>1. T \in SUBSET Nat
  OBVIOUS
<1>2. T # {}
  <2>1. PICK x \in S : TRUE
    OBVIOUS
  <2>2. x \in Nat /\ x <= n
    BY <2>1
  <2>3. n - x \in Nat /\ n - (n - x) = x
    BY <2>2
  <2>4. n - x \in T
    BY <2>1, <2>3
  <2> QED BY <2>4
<1>3. PICK k \in T : \A l \in T : k <= l
  <2> HIDE DEF T
  <2> QED BY <1>1, <1>2, LeastElement
<1>4. \A y \in S : y <= n - k
  <2> TAKE y \in S
  <2>1. y \in Nat /\ y <= n
    OBVIOUS
  <2>2. n - y \in Nat /\ n - (n - y) = y
    BY <2>1
  <2>3. n - y \in T
    BY <2>2
  <2>4. k <= n - y /\ k \in Nat
    BY <1>3, <2>3
  <2> QED BY <2>1, <2>4
<1> QED BY <1>3, <1>4

(* Induction: a set that contains 0 and is closed under successor contains   *)
(* every natural number.                                                     *)
LEMMA SetInduction ==
  ASSUME NEW S, 0 \in S, \A n \in Nat : n \in S => n + 1 \in S
  PROVE  Nat \subseteq S
<1> SUFFICES ASSUME Nat \ S # {} PROVE FALSE
  OBVIOUS
<1>1. PICK x \in Nat \ S : \A y \in Nat \ S : x <= y
  BY LeastElement
<1>2. x # 0 /\ x - 1 \in Nat /\ x - 1 < x
  BY <1>1
<1>3. x - 1 \in S
  BY <1>1, <1>2
<1>4. (x - 1) + 1 \in S
  BY <1>2, <1>3
<1> QED BY <1>1, <1>4

-----------------------------------------------------------------------------
(* A finite set with a total, transitive order has a last element.          *)
LEMMA LastElement ==
  ASSUME NEW S, IsFiniteSet(S), S # {}, NEW order,
         \A x, y \in S : x # y => <<x, y>> \in order \/ <<y, x>> \in order,
         \A x, y, z \in S : <<x, y>> \in order /\ <<y, z>> \in order => <<x, z>> \in order
  PROVE  \E m \in S : \A x \in S \ {m} : <<x, m>> \in order
<1> DEFINE HasLast(T) == \E m \in T : \A x \in T \ {m} : <<x, m>> \in order
           P == {n \in Nat : \A T \in SUBSET S : Cardinality(T) = n /\ T # {} => HasLast(T)}
<1>1. 0 \in P
  <2> SUFFICES ASSUME NEW T \in SUBSET S, Cardinality(T) = 0, T # {} PROVE FALSE
    OBVIOUS
  <2> QED BY FS_Subset, FS_EmptySet
<1>2. ASSUME NEW n \in Nat, n \in P
      PROVE  n + 1 \in P
  <2> SUFFICES ASSUME NEW T \in SUBSET S, Cardinality(T) = n + 1, T # {} PROVE HasLast(T)
    OBVIOUS
  <2>1. PICK a \in T : TRUE
    OBVIOUS
  <2> DEFINE U == T \ {a}
  <2>2. IsFiniteSet(T) /\ U \in SUBSET S
    BY FS_Subset
  <2>3. Cardinality(U) = n
    BY <2>1, <2>2, FS_RemoveElement
  <2>4. CASE U = {}
    <3>1. \A x \in T \ {a} : <<x, a>> \in order
      BY <2>4
    <3> QED BY <2>1, <3>1
  <2>5. CASE U # {}
    <3>1. HasLast(U)
      BY <1>2, <2>2, <2>3, <2>5
    <3>2. PICK m \in U : \A x \in U \ {m} : <<x, m>> \in order
      BY <3>1
    <3>3. CASE <<a, m>> \in order
      <4>1. \A x \in T \ {m} : <<x, m>> \in order
        BY <3>2, <3>3
      <4> QED BY <4>1, <3>2
    <3>4. CASE <<m, a>> \in order
      <4>1. \A x \in T \ {a} : <<x, a>> \in order
        <5> TAKE x \in T \ {a}
        <5>1. x \in S /\ m \in S /\ a \in S
          BY <2>1, <3>2
        <5>2. x = m \/ <<x, m>> \in order
          BY <3>2
        <5> QED BY <5>1, <5>2, <3>4
      <4> QED BY <4>1, <2>1
    <3>5. a # m /\ a \in S /\ m \in S
      BY <2>1, <3>2
    <3> QED BY <3>3, <3>4, <3>5
  <2> QED BY <2>4, <2>5
<1> HIDE DEF P
<1>3. Nat \subseteq P
  BY <1>1, <1>2, SetInduction
<1>4. Cardinality(S) \in P
  BY <1>3, FS_CardinalityType
<1> QED BY <1>4 DEF P

(* A finite set with a total, transitive order can be sorted.               *)
LEMMA CanBeSorted ==
  ASSUME NEW S, IsFiniteSet(S), NEW order,
         \A x, y \in S : x # y => <<x, y>> \in order \/ <<y, x>> \in order,
         \A x, y, z \in S : <<x, y>> \in order /\ <<y, z>> \in order => <<x, z>> \in order
  PROVE  \E list \in [1 .. Cardinality(S) -> S] :
           \A k, l \in 1 .. Cardinality(S) : k < l => <<list[k], list[l]>> \in order
<1> DEFINE Sorts(list, n) == \A k, l \in 1 .. n : k < l => <<list[k], list[l]>> \in order
           P == {n \in Nat : \A T \in SUBSET S : Cardinality(T) = n =>
                               \E list \in [1 .. n -> T] : Sorts(list, n)}
<1>1. 0 \in P
  <2> SUFFICES ASSUME NEW T \in SUBSET S, Cardinality(T) = 0
               PROVE  \E list \in [1 .. 0 -> T] : Sorts(list, 0)
    OBVIOUS
  <2> DEFINE e == [k \in 1 .. 0 |-> {}]
  <2>1. 1 .. 0 = {}
    OBVIOUS
  <2>2. e \in [1 .. 0 -> T] /\ Sorts(e, 0)
    BY <2>1
  <2> QED BY <2>2
<1>2. ASSUME NEW n \in Nat, n \in P
      PROVE  n + 1 \in P
  <2> SUFFICES ASSUME NEW T \in SUBSET S, Cardinality(T) = n + 1
               PROVE  \E list \in [1 .. n + 1 -> T] : Sorts(list, n + 1)
    OBVIOUS
  <2>1. IsFiniteSet(T) /\ T # {}
    BY FS_Subset, FS_EmptySet
  <2>2. PICK m \in T : \A x \in T \ {m} : <<x, m>> \in order
    <3>1. \A x, y \in T : x # y => <<x, y>> \in order \/ <<y, x>> \in order
      OBVIOUS
    <3>2. \A x, y, z \in T : <<x, y>> \in order /\ <<y, z>> \in order => <<x, z>> \in order
      OBVIOUS
    <3> QED BY <2>1, <3>1, <3>2, LastElement
  <2> DEFINE U == T \ {m}
  <2>3. U \in SUBSET S /\ Cardinality(U) = n
    <3>1. Cardinality(T \ {m}) = Cardinality(T) - 1
      BY <2>1, <2>2, FS_RemoveElement
    <3> QED BY <3>1
  <2>4. PICK list \in [1 .. n -> U] : Sorts(list, n)
    BY <1>2, <2>3
  <2> DEFINE longer == [k \in 1 .. n + 1 |-> IF k = n + 1 THEN m ELSE list[k]]
  <2>5. \A k \in 1 .. n + 1 : k # n + 1 => k \in 1 .. n
    OBVIOUS
  <2>6. longer \in [1 .. n + 1 -> T]
    BY <2>2, <2>4, <2>5
  <2>7. Sorts(longer, n + 1)
    <3> SUFFICES ASSUME NEW k \in 1 .. n + 1, NEW l \in 1 .. n + 1, k < l
                 PROVE  <<longer[k], longer[l]>> \in order
      OBVIOUS
    <3>1. k \in 1 .. n /\ k # n + 1
      OBVIOUS
    <3>2. CASE l = n + 1
      <4>1. list[k] \in U
        BY <2>4, <3>1
      <4>2. longer[k] = list[k] /\ longer[l] = m
        BY <3>1, <3>2
      <4> QED BY <2>2, <4>1, <4>2
    <3>3. CASE l # n + 1
      <4>1. l \in 1 .. n
        BY <3>3
      <4>2. longer[k] = list[k] /\ longer[l] = list[l]
        BY <3>1, <3>3
      <4> QED BY <2>4, <3>1, <4>1, <4>2
    <3> QED BY <3>2, <3>3
  <2> QED BY <2>6, <2>7
<1> HIDE DEF P
<1>3. Nat \subseteq P
  BY <1>1, <1>2, SetInduction
<1>4. Cardinality(S) \in P
  BY <1>3, FS_CardinalityType
<1> QED BY <1>4 DEF P

(* What a comparer of list_sort is, if all elements differ for it. *)
StrictlyOrders(order, S) ==
  /\ \A x \in S : <<x, x>> \notin order
  /\ \A x, y \in S : x # y => <<x, y>> \in order \/ <<y, x>> \in order
  /\ \A x, y, z \in S : <<x, y>> \in order /\ <<y, z>> \in order => <<x, z>> \in order

(* A list with each element of S once, sorted by order. *)
IsSortedList(list, S, order) ==
  /\ list \in [1 .. Cardinality(S) -> S]
  /\ \A k, l \in 1 .. Cardinality(S) : k < l => <<list[k], list[l]>> \in order
  /\ \A k, l \in 1 .. Cardinality(S) : k # l => list[k] # list[l]
  /\ \A x \in S : \E k \in 1 .. Cardinality(S) : list[k] = x

(* What InOrder returns: a list of the elements, each one once, sorted.      *)
LEMMA InOrderSorts ==
  ASSUME NEW S, IsFiniteSet(S), NEW order, StrictlyOrders(order, S)
  PROVE  IsSortedList(InOrder(S, order), S, order)
<1> DEFINE n == Cardinality(S)
           Sorts(list) == \A k, l \in 1 .. n : k < l => <<list[k], list[l]>> \in order
           list == InOrder(S, order)
<1>1. n \in Nat
  BY FS_CardinalityType
<1>2. list \in [1 .. n -> S] /\ Sorts(list)
  <2>1. \E l \in [1 .. n -> S] : Sorts(l)
    BY CanBeSorted DEF StrictlyOrders
  <2> QED BY <2>1 DEF InOrder
<1> HIDE DEF list, n
<1>3. \A k, l \in 1 .. n : k # l => list[k] # list[l]
  <2> SUFFICES ASSUME NEW k \in 1 .. n, NEW l \in 1 .. n, k # l, list[k] = list[l] PROVE FALSE
    OBVIOUS
  <2>1. list[k] \in S
    BY <1>2
  <2>2. k < l \/ l < k
    BY <1>1
  <2>3. <<list[k], list[k]>> \in order
    BY <1>2, <2>2
  <2> QED BY <2>1, <2>3 DEF StrictlyOrders
<1>4. \A x \in S : \E k \in 1 .. n : list[k] = x
  <2> SUFFICES ASSUME NEW x \in S, \A k \in 1 .. n : list[k] # x PROVE FALSE
    OBVIOUS
  <2>1. IsFiniteSet(S \ {x}) /\ Cardinality(S \ {x}) = n - 1
    BY FS_RemoveElement DEF n
  <2>2. IsFiniteSet(1 .. n) /\ Cardinality(1 .. n) = n
    BY <1>1, FS_Interval
  <2>3. list \in [1 .. n -> S \ {x}]
    BY <1>2
  <2>4. \E k, l \in 1 .. n : k # l /\ list[k] = list[l]
    BY <1>1, <2>1, <2>2, <2>3, FS_PigeonHole
  <2> QED BY <1>3, <2>4
<1> QED BY <1>2, <1>3, <1>4 DEF list, n, IsSortedList

(* The elements of a finite set of numbers in ascending order.              *)
LEMMA AscendingSorts ==
  ASSUME NEW S \in SUBSET Int, IsFiniteSet(S)
  PROVE  /\ Ascending(S) \in [1 .. Cardinality(S) -> S]
         /\ \A k, l \in 1 .. Cardinality(S) : k < l => Ascending(S)[k] < Ascending(S)[l]
         /\ \A x \in S : \E k \in 1 .. Cardinality(S) : Ascending(S)[k] = x
<1> DEFINE order == {pair \in S \X S : pair[1] < pair[2]}
<1>1. \A x, y \in S : <<x, y>> \in order <=> x < y
  OBVIOUS
<1>2. Ascending(S) = InOrder(S, order)
  BY DEF Ascending
<1> HIDE DEF order
<1>3. StrictlyOrders(order, S)
  BY <1>1 DEF StrictlyOrders
<1>4. IsSortedList(Ascending(S), S, order)
  BY <1>2, <1>3, InOrderSorts
<1> QED BY <1>1, <1>4 DEF IsSortedList
=============================================================================
