----------------------- MODULE ContributionTrackerProofs -----------------------
(***************************************************************************)
(* Proofs about the contribution trackers, for any number of AIDs, rows    *)
(* and merges, any capacity and any width of the sums: what wraps around   *)
(* included.                                                               *)
(***************************************************************************)
EXTENDS ContributionTracker, SequenceTheorems, FiniteSetTheorems, NaturalSets

-----------------------------------------------------------------------------
(* Lists of top contributors.                                              *)

Entry == [aid : Nat, contribution : Int]

\* By strictly falling contribution, each AID once.
Sorted(top) ==
  \A i, j \in DOMAIN top : i < j => Greater(top[i], top[j]) /\ top[i].aid # top[j].aid

InTop(top, aid) == \E i \in DOMAIN top : top[i].aid = aid

(* contributor_greater is a strict order, total on different AIDs. *)
LEMMA GreaterOrder ==
  ASSUME NEW x \in Entry, NEW y \in Entry, NEW z \in Entry
  PROVE  /\ ~ Greater(x, x)
         /\ Greater(x, y) => ~ Greater(y, x)
         /\ Greater(x, y) /\ Greater(y, z) => Greater(x, z)
         /\ x.aid # y.aid => Greater(x, y) \/ Greater(y, x)
BY DEF Greater, Entry

LEMMA FirstIndexProperties ==
  ASSUME NEW S \in SUBSET Entry, NEW top \in Seq(S), NEW c \in Entry,
         NEW start \in 1 .. Len(top) + 1
  PROVE  /\ FirstIndex(top, start, c) \in start .. Len(top) + 1
         /\ FirstIndex(top, start, c) <= Len(top) => Greater(c, top[FirstIndex(top, start, c)])
         /\ \A j \in start .. FirstIndex(top, start, c) - 1 : ~ Greater(c, top[j])
<1> DEFINE found == {i \in start .. Len(top) : Greater(c, top[i])}
<1>1. FirstIndex(top, start, c) =
        IF found = {} THEN Len(top) + 1 ELSE CHOOSE i \in found : \A j \in found : i <= j
  BY DEF FirstIndex
<1>2. Len(top) \in Nat /\ start \in Nat \ {0}
  OBVIOUS
<1>3. CASE found = {}
  BY <1>1, <1>2, <1>3
<1>4. CASE found # {}
  <2>1. found \in SUBSET Nat
    BY <1>2
  <2> HIDE DEF found
  <2>2. \E i \in found : \A j \in found : i <= j
    BY <1>4, <2>1, LeastElement
  <2>3. /\ FirstIndex(top, start, c) \in found
        /\ \A j \in found : FirstIndex(top, start, c) <= j
    BY <1>1, <1>4, <2>2
  <2> USE DEF found
  <2>4. FirstIndex(top, start, c) \in start .. Len(top) /\ Greater(c, top[FirstIndex(top, start, c)])
    BY <2>3
  <2>5. \A j \in start .. FirstIndex(top, start, c) - 1 : ~ Greater(c, top[j])
    BY <1>2, <2>3, <2>4
  <2> QED BY <1>2, <2>4, <2>5
<1> QED BY <1>3, <1>4

(* The place find_insertion_index finds, also with the comparison in the      *)
(* middle: the entry is greater than all that follow and than none before.    *)
LEMMA InsertionIndexProperties ==
  ASSUME NEW S \in SUBSET Entry, NEW top \in Seq(S), NEW c \in Entry, Sorted(top)
  PROVE  /\ InsertionIndex(top, c) \in 1 .. Len(top) + 1
         /\ \A j \in 1 .. InsertionIndex(top, c) - 1 : ~ Greater(c, top[j])
         /\ \A j \in InsertionIndex(top, c) .. Len(top) : Greater(c, top[j])
<1>1. CASE top = <<>>
  BY <1>1 DEF InsertionIndex
<1>2. CASE top # <<>>
  <2> DEFINE middle == Len(top) \div 2 + 1
  <2> DEFINE start == IF Greater(c, top[middle]) THEN 1 ELSE middle + 1
  <2> DEFINE n == FirstIndex(top, start, c)
  <2>1. Len(top) \in Nat \ {0} /\ DOMAIN top = 1 .. Len(top) /\ \A j \in 1 .. Len(top) : top[j] \in Entry
    BY <1>2, EmptySeq, LenProperties, ElementOfSeq
  <2>2. middle \in 1 .. Len(top)
    BY <2>1
  <2>3. start \in 1 .. Len(top) + 1
    BY <2>1, <2>2
  <2>4. InsertionIndex(top, c) = n
    BY <1>2 DEF InsertionIndex
  <2>5. /\ n \in start .. Len(top) + 1
        /\ n <= Len(top) => Greater(c, top[n])
        /\ \A j \in start .. n - 1 : ~ Greater(c, top[j])
    <3> HIDE DEF start
    <3> QED BY <2>3, FirstIndexProperties
  <2> HIDE DEF n, middle
  <2>6. ASSUME NEW j \in 1 .. n - 1 PROVE ~ Greater(c, top[j])
    <3>1. CASE j \in start .. n - 1
      BY <2>5, <3>1
    <3>2. CASE j < start
      <4>1. ~ Greater(c, top[middle]) /\ j <= middle
        BY <2>2, <3>2
      <4>2. j \in 1 .. Len(top) /\ (j = middle \/ j < middle)
        BY <2>1, <2>2, <4>1
      <4>3. j # middle => Greater(top[j], top[middle])
        BY <2>1, <2>2, <4>2 DEF Sorted
      <4> QED BY <2>1, <2>2, <4>1, <4>2, <4>3, GreaterOrder
    <3> QED BY <2>3, <2>5, <3>1, <3>2
  <2>7. ASSUME NEW j \in n .. Len(top) PROVE Greater(c, top[j])
    <3>1. n \in 1 .. Len(top) /\ j \in 1 .. Len(top) /\ Greater(c, top[n]) /\ (j = n \/ n < j)
      BY <2>1, <2>3, <2>5
    <3>2. j # n => Greater(top[n], top[j])
      BY <2>1, <3>1 DEF Sorted
    <3> QED BY <2>1, <3>1, <3>2, GreaterOrder
  <2>8. n \in 1 .. Len(top) + 1
    BY <2>1, <2>3, <2>5
  <2> QED BY <2>4, <2>6, <2>7, <2>8
<1> QED BY <1>1, <1>2

(* An entry between two lists. *)
LEMMA Between ==
  ASSUME NEW S, NEW s \in Seq(S), NEW c \in S, NEW t \in Seq(S)
  PROVE  /\ s \o <<c>> \o t \in Seq(S)
         /\ Len(s \o <<c>> \o t) = Len(s) + 1 + Len(t)
         /\ \A j \in 1 .. Len(s) + 1 + Len(t) :
              (s \o <<c>> \o t)[j] = IF j <= Len(s) THEN s[j]
                                     ELSE IF j = Len(s) + 1 THEN c ELSE t[j - Len(s) - 1]
<1> DEFINE e == <<c>>
<1>1. e \in Seq(S) /\ Len(e) = 1 /\ e[1] = c /\ Len(s) \in Nat /\ Len(t) \in Nat
  OBVIOUS
<1> HIDE DEF e
<1> DEFINE st == s \o e
<1> HIDE DEF st
<1>2. /\ st \in Seq(S) /\ Len(st) = Len(s) + Len(e)
      /\ \A j \in 1 .. Len(s) + Len(e) : st[j] = IF j <= Len(s) THEN s[j] ELSE e[j - Len(s)]
  BY <1>1, ConcatProperties DEF st
<1> DEFINE all == st \o t
<1> HIDE DEF all
<1>3. /\ all \in Seq(S) /\ Len(all) = Len(st) + Len(t)
      /\ \A j \in 1 .. Len(st) + Len(t) : all[j] = IF j <= Len(st) THEN st[j] ELSE t[j - Len(st)]
  <2>1. st \in Seq(S)
    BY <1>2
  <2> QED BY <2>1, ConcatProperties DEF all
<1>4. Len(st) = Len(s) + 1 /\ Len(all) = Len(s) + 1 + Len(t)
  BY <1>1, <1>2, <1>3
<1>5. ASSUME NEW j \in 1 .. Len(s) + 1 + Len(t)
      PROVE  all[j] = IF j <= Len(s) THEN s[j]
                      ELSE IF j = Len(s) + 1 THEN c ELSE t[j - Len(s) - 1]
  <2>1. j \in Int /\ j >= 1 /\ j <= Len(s) + 1 + Len(t)
    BY <1>1
  <2>2. CASE j <= Len(s)
    BY <1>1, <1>2, <1>3, <1>4, <2>1, <2>2
  <2>3. CASE j = Len(s) + 1
    <3>1. all[j] = st[j] /\ ~ (j <= Len(s)) /\ j - Len(s) = 1 /\ j \in 1 .. Len(s) + Len(e)
      BY <1>1, <1>3, <1>4, <2>1, <2>3
    <3>2. st[j] = e[1]
      BY <1>2, <3>1
    <3> QED BY <1>1, <2>3, <3>1, <3>2
  <2>4. CASE j > Len(s) + 1
    <3>1. all[j] = t[j - Len(st)] /\ j - Len(st) = j - Len(s) - 1
      BY <1>1, <1>3, <1>4, <2>1, <2>4
    <3> QED BY <1>1, <2>1, <2>4, <3>1
  <2> QED BY <1>1, <2>1, <2>2, <2>3, <2>4
<1>6. s \o <<c>> \o t = all
  BY DEF all, st, e
<1> QED BY <1>3, <1>4, <1>5, <1>6

LEMMA SubSeqEntries ==
  ASSUME NEW S, NEW s \in Seq(S), NEW m \in 1 .. Len(s) + 1, NEW n \in m - 1 .. Len(s)
  PROVE  /\ SubSeq(s, m, n) \in Seq(S) /\ Len(SubSeq(s, m, n)) = n - m + 1
         /\ \A j \in 1 .. n - m + 1 : SubSeq(s, m, n)[j] = s[m + j - 1]
<1>1. Len(s) \in Nat /\ \A j \in 1 .. Len(s) : s[j] \in S
  BY LenProperties, ElementOfSeq
<1>2. \A j \in m .. n : s[j] \in S
  BY <1>1
<1> QED BY <1>1, <1>2

(* A list with an entry slid in, cut off after the first m entries. *)
LEMMA InsertAtProperties ==
  ASSUME NEW S, NEW top \in Seq(S), NEW c \in S, NEW n \in 1 .. Len(top) + 1,
         NEW m \in 0 .. Len(top) + 1
  PROVE  /\ SubSeq(InsertAt(top, n, c), 1, m) \in Seq(S)
         /\ Len(SubSeq(InsertAt(top, n, c), 1, m)) = m
         /\ \A j \in 1 .. m : SubSeq(InsertAt(top, n, c), 1, m)[j] =
                                IF j < n THEN top[j] ELSE IF j = n THEN c ELSE top[j - 1]
<1> DEFINE s == SubSeq(top, 1, n - 1)  t == SubSeq(top, n, Len(top))
<1>0. Len(top) \in Nat
  OBVIOUS
<1>1. s \in Seq(S) /\ Len(s) = n - 1 /\ \A j \in 1 .. n - 1 : s[j] = top[j]
  <2>1. 1 \in 1 .. Len(top) + 1 /\ n - 1 \in 1 - 1 .. Len(top)
    BY <1>0
  <2> QED BY <1>0, <2>1, SubSeqEntries
<1>2. t \in Seq(S) /\ Len(t) = Len(top) - n + 1 /\ \A j \in 1 .. Len(top) - n + 1 : t[j] = top[n + j - 1]
  <2>1. Len(top) \in n - 1 .. Len(top)
    BY <1>0
  <2> QED BY <1>0, <2>1, SubSeqEntries
<1> HIDE DEF s, t
<1> DEFINE all == s \o <<c>> \o t
<1> HIDE DEF all
<1>3. /\ all \in Seq(S) /\ Len(all) = Len(s) + 1 + Len(t)
      /\ \A j \in 1 .. Len(s) + 1 + Len(t) :
           all[j] = IF j <= Len(s) THEN s[j]
                    ELSE IF j = Len(s) + 1 THEN c ELSE t[j - Len(s) - 1]
  <2>1. s \in Seq(S) /\ t \in Seq(S)
    BY <1>1, <1>2
  <2> QED BY <2>1, Between DEF all
<1>4. Len(all) = Len(top) + 1
  BY <1>0, <1>1, <1>2, <1>3
<1>5. ASSUME NEW j \in 1 .. Len(top) + 1
      PROVE  all[j] = IF j < n THEN top[j] ELSE IF j = n THEN c ELSE top[j - 1]
  <2>1. CASE j < n
    <3>1. j \in 1 .. Len(s) + 1 + Len(t) /\ j \in 1 .. n - 1 /\ j <= Len(s)
      BY <1>0, <1>1, <1>2, <2>1
    <3>2. all[j] = s[j]
      BY <1>3, <3>1
    <3> QED BY <1>1, <2>1, <3>1, <3>2
  <2>3. CASE j = n
    <3>1. j \in 1 .. Len(s) + 1 + Len(t) /\ ~(j <= Len(s)) /\ j = Len(s) + 1
      BY <1>0, <1>1, <1>2, <2>3
    <3>2. all[j] = c
      BY <1>3, <3>1
    <3> QED BY <2>3, <3>2
  <2>2. CASE j > n
    <3>1. j - n \in 1 .. Len(top) - n + 1 /\ n + (j - n) - 1 = j - 1 /\ j - Len(s) - 1 = j - n
      BY <1>0, <1>1, <2>2
    <3>2. t[j - n] = top[j - 1]
      BY <1>2, <3>1
    <3>3. j \in 1 .. Len(s) + 1 + Len(t) /\ ~(j <= Len(s)) /\ j # Len(s) + 1
      BY <1>0, <1>1, <1>2, <2>2
    <3>4. all[j] = t[j - n]
      BY <1>3, <3>1, <3>3
    <3> QED BY <2>2, <3>2, <3>4
  <2> QED BY <1>0, <2>1, <2>2, <2>3
<1>6. InsertAt(top, n, c) = all
  BY DEF InsertAt, all, s, t
<1>7. /\ SubSeq(all, 1, m) \in Seq(S) /\ Len(SubSeq(all, 1, m)) = m
      /\ \A j \in 1 .. m : SubSeq(all, 1, m)[j] = all[j]
  <2>1. 1 \in 1 .. Len(all) + 1 /\ m \in 1 - 1 .. Len(all)
    BY <1>0, <1>4
  <2> QED BY <1>0, <1>3, <2>1, SubSeqEntries
<1> QED BY <1>0, <1>5, <1>6, <1>7

\* A list whose entry at old is replaced by c at n <= old.
MovedUp(top, c, old, n) ==
  SubSeq(top, 1, n - 1) \o <<c>> \o SubSeq(top, n, old - 1) \o SubSeq(top, old + 1, Len(top))

LEMMA MovedUpProperties ==
  ASSUME NEW S, NEW top \in Seq(S), NEW c \in S, NEW old \in 1 .. Len(top), NEW n \in 1 .. old
  PROVE  /\ MovedUp(top, c, old, n) \in Seq(S)
         /\ Len(MovedUp(top, c, old, n)) = Len(top)
         /\ \A j \in 1 .. Len(top) :
              MovedUp(top, c, old, n)[j] = IF j < n \/ j > old THEN top[j]
                                           ELSE IF j = n THEN c ELSE top[j - 1]
<1> DEFINE s == SubSeq(top, 1, n - 1)  t == SubSeq(top, n, old - 1)
           u == SubSeq(top, old + 1, Len(top))  r == MovedUp(top, c, old, n)
<1>0. Len(top) \in Nat
  OBVIOUS
<1>1. s \in Seq(S) /\ Len(s) = n - 1 /\ \A j \in 1 .. n - 1 : s[j] = top[j]
  <2>1. 1 \in 1 .. Len(top) + 1 /\ n - 1 \in 1 - 1 .. Len(top)
    BY <1>0
  <2> QED BY <1>0, <2>1, SubSeqEntries
<1>2. t \in Seq(S) /\ Len(t) = old - n /\ \A j \in 1 .. old - n : t[j] = top[n + j - 1]
  <2>1. n \in 1 .. Len(top) + 1 /\ old - 1 \in n - 1 .. Len(top) /\ old - 1 - n + 1 = old - n
    BY <1>0
  <2> QED BY <1>0, <2>1, SubSeqEntries
<1>3. u \in Seq(S) /\ Len(u) = Len(top) - old /\ \A j \in 1 .. Len(top) - old : u[j] = top[old + j]
  <2> DEFINE m == old + 1
  <2>1. m \in 1 .. Len(top) + 1 /\ Len(top) \in m - 1 .. Len(top)
    BY <1>0
  <2>2. Len(top) - m + 1 = Len(top) - old /\ \A j \in 1 .. Len(top) - old : m + j - 1 = old + j
    BY <1>0
  <2> HIDE DEF m
  <2>3. /\ SubSeq(top, m, Len(top)) \in Seq(S) /\ Len(SubSeq(top, m, Len(top))) = Len(top) - m + 1
        /\ \A j \in 1 .. Len(top) - m + 1 : SubSeq(top, m, Len(top))[j] = top[m + j - 1]
    BY <2>1, SubSeqEntries
  <2>4. u = SubSeq(top, m, Len(top))
    BY DEF m
  <2> QED BY <2>2, <2>3, <2>4
<1> HIDE DEF s, t, u, r
<1> DEFINE v == s \o <<c>> \o t
<1> HIDE DEF v
<1>4. /\ v \in Seq(S) /\ Len(v) = Len(s) + 1 + Len(t)
      /\ \A j \in 1 .. Len(s) + 1 + Len(t) :
           v[j] = IF j <= Len(s) THEN s[j]
                  ELSE IF j = Len(s) + 1 THEN c ELSE t[j - Len(s) - 1]
  <2>1. s \in Seq(S) /\ t \in Seq(S)
    BY <1>1, <1>2
  <2> QED BY <2>1, Between DEF v
<1>5. r = v \o u
  BY DEF r, MovedUp, v, u, t, s
<1>6. /\ r \in Seq(S) /\ Len(r) = Len(v) + Len(u)
      /\ \A j \in 1 .. Len(v) + Len(u) : r[j] = IF j <= Len(v) THEN v[j] ELSE u[j - Len(v)]
  <2>1. v \in Seq(S) /\ u \in Seq(S)
    BY <1>3, <1>4
  <2> QED BY <1>5, <2>1, ConcatProperties
<1>7. Len(v) = old /\ Len(r) = Len(top)
  <2>1. Len(v) = n - 1 + 1 + (old - n) /\ Len(u) = Len(top) - old /\ Len(r) = Len(v) + Len(u)
    BY <1>1, <1>2, <1>3, <1>4, <1>6
  <2> QED BY <1>0, <2>1
<1>8. ASSUME NEW j \in 1 .. Len(top)
      PROVE  r[j] = IF j < n \/ j > old THEN top[j] ELSE IF j = n THEN c ELSE top[j - 1]
  <2>1. CASE j > old
    <3>1. j - old \in 1 .. Len(top) - old /\ old + (j - old) = j
      BY <1>0, <2>1
    <3>2. u[j - old] = top[j]
      BY <1>3, <3>1
    <3> QED BY <1>0, <1>3, <1>6, <1>7, <2>1, <3>2
  <2>2. CASE j <= n
    <3>1. j <= Len(v) /\ j \in 1 .. Len(v) + Len(u) /\ j \in 1 .. Len(s) + 1 + Len(t)
      BY <1>0, <1>1, <1>2, <1>3, <1>7, <2>2
    <3>2. r[j] = IF j <= Len(s) THEN s[j] ELSE IF j = Len(s) + 1 THEN c ELSE t[j - Len(s) - 1]
      BY <1>4, <1>6, <3>1
    <3>3. CASE j < n
      BY <1>0, <1>1, <3>2, <3>3
    <3>4. CASE j = n
      BY <1>0, <1>1, <3>2, <3>4
    <3> QED BY <1>0, <2>2, <3>3, <3>4
  <2>3. CASE n < j /\ j <= old
    <3>1. j - n \in 1 .. old - n /\ n + (j - n) - 1 = j - 1 /\ j - Len(s) - 1 = j - n
      BY <1>0, <1>1, <2>3
    <3>2. t[j - n] = top[j - 1]
      BY <1>2, <3>1
    <3> QED BY <1>0, <1>1, <1>2, <1>3, <1>4, <1>6, <1>7, <2>3, <3>1, <3>2
  <2> QED BY <1>0, <2>1, <2>2, <2>3
<1> QED BY <1>6, <1>7, <1>8 DEF r

\* x is an entry of the list.
Listed(top, x) == \E i \in DOMAIN top : top[i] = x

LEMMA LastIsLeast ==
  ASSUME NEW S, NEW top \in Seq(S), Sorted(top), NEW i \in DOMAIN top, i # Len(top)
  PROVE  Greater(top[i], top[Len(top)])
<1>1. i < Len(top) /\ Len(top) \in DOMAIN top
  BY LenProperties
<1> QED BY <1>1 DEF Sorted

(* add_top_contributor: of the list and a new entry, it keeps as many of the  *)
(* greatest as fit.                                                           *)
LEMMA AddTopProperties ==
  ASSUME NEW S \in SUBSET Entry, NEW top \in Seq(S), NEW c \in S, NEW capacity \in Nat \ {0},
         Sorted(top), Len(top) <= capacity, ~ InTop(top, c.aid)
  PROVE  /\ AddTop(top, capacity, c) \in Seq(S)
         /\ Sorted(AddTop(top, capacity, c))
         /\ Len(AddTop(top, capacity, c)) = IF Len(top) < capacity THEN Len(top) + 1 ELSE capacity
         /\ \A x : Listed(AddTop(top, capacity, c), x) => x = c \/ Listed(top, x)
         /\ \A x : x = c \/ Listed(top, x) =>
              \/ Listed(AddTop(top, capacity, c), x)
              \/ Len(top) = capacity /\ \A y : Listed(AddTop(top, capacity, c), y) => Greater(y, x)
         /\ Listed(AddTop(top, capacity, c), c) /\ Len(top) = capacity => Greater(c, top[Len(top)])
<1>0. Len(top) \in Nat /\ capacity \in Int /\ Len(top) <= capacity /\ capacity >= 1
  OBVIOUS
<1>a. DOMAIN top = 1 .. Len(top) /\ \A j \in 1 .. Len(top) : top[j] \in Entry
  BY LenProperties, ElementOfSeq
<1>b. c \in Entry /\ \A j \in 1 .. Len(top) : top[j].aid # c.aid
  BY <1>a DEF InTop
<1>1. CASE Len(top) = capacity /\ ~ Greater(c, top[Len(top)])
  <2>1. AddTop(top, capacity, c) = top
    BY <1>1 DEF AddTop
  <2>2. Len(top) \in 1 .. Len(top)
    BY <1>0, <1>1
  <2>3. Greater(top[Len(top)], c)
    BY <1>0, <1>a, <1>b, <1>1, <2>2, GreaterOrder
  <2>4. ASSUME NEW y, Listed(top, y) PROVE Greater(y, c)
    <3>1. PICK i \in 1 .. Len(top) : top[i] = y
      BY <1>0, <1>a, <2>4 DEF Listed
    <3>2. i = Len(top) \/ Greater(top[i], top[Len(top)])
      BY <1>a, LastIsLeast
    <3> QED BY <1>0, <1>a, <1>b, <2>2, <2>3, <3>1, <3>2, GreaterOrder
  <2>5. ~ Listed(top, c)
    BY DEF Listed, InTop
  <2> QED BY <1>1, <2>1, <2>4, <2>5
<1>2. CASE ~ (Len(top) = capacity /\ ~ Greater(c, top[Len(top)]))
  <2> DEFINE n == InsertionIndex(top, c)
             m == IF Len(top) < capacity THEN Len(top) + 1 ELSE capacity
             r == SubSeq(InsertAt(top, n, c), 1, m)
  <2>1. AddTop(top, capacity, c) = r
    BY <1>2 DEF AddTop
  <2>2. /\ n \in 1 .. Len(top) + 1
        /\ \A j \in 1 .. n - 1 : ~ Greater(c, top[j])
        /\ \A j \in n .. Len(top) : Greater(c, top[j])
    BY <1>0, InsertionIndexProperties
  <2>3. m \in 1 .. Len(top) + 1 /\ (Len(top) < capacity => m = Len(top) + 1)
        /\ (~ (Len(top) < capacity) => m = Len(top) /\ Len(top) = capacity)
    <3>1. CASE Len(top) < capacity
      BY <1>0, <3>1
    <3>2. CASE ~ (Len(top) < capacity)
      BY <1>0, <3>2
    <3> QED BY <3>1, <3>2
  <2> HIDE DEF n
  <2>4. n <= m
    <3>1. CASE Len(top) < capacity
      BY <1>0, <2>2, <2>3, <3>1
    <3>2. CASE ~ (Len(top) < capacity)
      <4>1. Greater(c, top[Len(top)]) /\ Len(top) \in 1 .. Len(top)
        BY <1>0, <1>2, <2>3, <3>2
      <4>2. n # Len(top) + 1
        BY <1>0, <2>2, <4>1
      <4> QED BY <1>0, <2>2, <2>3, <3>2, <4>2
    <3> QED BY <3>1, <3>2
  <2> HIDE DEF m
  <2>5. /\ r \in Seq(S) /\ Len(r) = m
        /\ \A j \in 1 .. m : r[j] = IF j < n THEN top[j] ELSE IF j = n THEN c ELSE top[j - 1]
    <3>1. m \in 0 .. Len(top) + 1
      BY <2>3
    <3> QED BY <2>2, <3>1, InsertAtProperties
  <2> HIDE DEF r
  <2>6. DOMAIN r = 1 .. m
    BY <2>5, LenProperties
  <2>7. \A j \in 1 .. n - 1 : j \in 1 .. Len(top) /\ Greater(top[j], c)
    <3> TAKE j \in 1 .. n - 1
    <3>1. j \in 1 .. Len(top) /\ ~ Greater(c, top[j])
      BY <1>0, <2>2
    <3> QED BY <1>0, <1>a, <1>b, <3>1, GreaterOrder
  <2>8. Sorted(r)
    <3> SUFFICES ASSUME NEW i \in 1 .. m, NEW j \in 1 .. m, i < j
                 PROVE  Greater(r[i], r[j]) /\ r[i].aid # r[j].aid
      BY <2>6 DEF Sorted
    <3>1. i \in Int /\ j \in Int /\ m <= Len(top) + 1 /\ n \in Int
      BY <1>0, <2>2, <2>3
    <3>2. CASE j < n
      <4>1. r[i] = top[i] /\ r[j] = top[j] /\ i \in 1 .. Len(top) /\ j \in 1 .. Len(top)
        BY <1>0, <2>2, <2>5, <3>1, <3>2
      <4>2. i \in DOMAIN top /\ j \in DOMAIN top
        BY <1>a, <4>1
      <4> QED BY <4>1, <4>2 DEF Sorted
    <3>3. CASE j = n
      <4>1. r[i] = top[i] /\ r[j] = c /\ i \in 1 .. n - 1 /\ i \in 1 .. Len(top)
        BY <1>0, <2>2, <2>5, <3>1, <3>3
      <4>2. top[i].aid # c.aid
        BY <1>b, <4>1
      <4>3. Greater(top[i], c)
        BY <2>7, <4>1
      <4> QED BY <4>1, <4>2, <4>3
    <3>4. CASE j > n
      <4>1. r[j] = top[j - 1] /\ j - 1 \in n .. Len(top) /\ j - 1 \in 1 .. Len(top)
        BY <1>0, <2>2, <2>5, <3>1, <3>4
      <4>2. CASE i = n
        <5>1. r[i] = c
          BY <2>5, <4>2
        <5>2. Greater(c, top[j - 1]) /\ top[j - 1].aid # c.aid
          BY <1>b, <2>2, <4>1
        <5> QED BY <4>1, <5>1, <5>2
      <4>3. CASE i # n
        <5> DEFINE k == IF i < n THEN i ELSE i - 1
        <5>1. r[i] = top[k] /\ k \in 1 .. Len(top) /\ k < j - 1
          BY <1>0, <2>2, <2>5, <3>1, <3>4, <4>3
        <5> HIDE DEF k
        <5> QED BY <1>0, <1>a, <4>1, <5>1 DEF Sorted
      <4> QED BY <4>2, <4>3
    <3> QED BY <3>1, <3>2, <3>3, <3>4
  <2>9. ASSUME NEW x, Listed(r, x) PROVE x = c \/ Listed(top, x)
    <3>1. PICK j \in 1 .. m : r[j] = x
      BY <2>6, <2>9 DEF Listed
    <3>2. j \in Int /\ m <= Len(top) + 1 /\ n \in Int
      BY <1>0, <2>2, <2>3
    <3>3. CASE j < n
      <4>1. j \in 1 .. Len(top) /\ x = top[j]
        BY <1>0, <2>2, <2>5, <3>1, <3>2, <3>3
      <4> QED BY <1>0, <1>a, <4>1 DEF Listed
    <3>4. CASE j = n
      BY <2>5, <3>1, <3>2, <3>4
    <3>5. CASE j > n
      <4>1. j - 1 \in 1 .. Len(top) /\ x = top[j - 1]
        BY <1>0, <2>2, <2>5, <3>1, <3>2, <3>5
      <4> QED BY <1>0, <1>a, <4>1 DEF Listed
    <3> QED BY <3>2, <3>3, <3>4, <3>5
  <2>10. Listed(r, c)
    <3>1. n \in 1 .. m /\ r[n] = c
      BY <2>2, <2>3, <2>4, <2>5
    <3> QED BY <2>6, <3>1 DEF Listed
  <2>11. ASSUME NEW x, Listed(top, x), ~ Listed(r, x)
         PROVE  Len(top) = capacity /\ \A y : Listed(r, y) => Greater(y, x)
    <3>1. PICK j \in 1 .. Len(top) : top[j] = x
      BY <1>0, <1>a, <2>11 DEF Listed
    <3>2. j \in Int /\ n \in Int /\ j >= n
      <4>1. j < n => j \in 1 .. m /\ r[j] = top[j]
        BY <1>0, <2>2, <2>3, <2>4, <2>5
      <4> QED BY <1>0, <1>a, <2>2, <2>6, <2>11, <3>1, <4>1 DEF Listed
    <3>3. ~ (j + 1 <= m)
      <4>1. j + 1 <= m => j + 1 \in 1 .. m /\ r[j + 1] = top[j]
        BY <1>0, <2>2, <2>3, <2>5, <3>2
      <4> QED BY <2>6, <2>11, <3>1, <4>1 DEF Listed
    <3>4. j = Len(top) /\ Len(top) = capacity /\ m = Len(top)
      BY <1>0, <2>3, <3>2, <3>3
    <3>5. ASSUME NEW y, Listed(r, y) PROVE Greater(y, x)
      <4>1. CASE y = c
        BY <1>0, <2>2, <3>1, <3>2, <3>4, <4>1
      <4>2. CASE y # c
        <5>1. PICK k \in 1 .. Len(top) : top[k] = y
          BY <1>0, <1>a, <2>9, <3>5, <4>2 DEF Listed
        <5>2. k = Len(top) \/ Greater(top[k], top[Len(top)])
          BY <1>a, LastIsLeast
        <5>3. k # Len(top)
          BY <2>11, <3>1, <3>4, <3>5, <5>1
        <5> QED BY <3>1, <3>4, <5>1, <5>2, <5>3
      <4> QED BY <4>1, <4>2
    <3> QED BY <3>4, <3>5
  <2>12. Len(r) = IF Len(top) < capacity THEN Len(top) + 1 ELSE capacity
    BY <2>5 DEF m
  <2> QED BY <1>2, <2>1, <2>5, <2>8, <2>9, <2>10, <2>11, <2>12
<1> QED BY <1>1, <1>2

(* find_aid_index. *)
LEMMA AidIndexProperties ==
  ASSUME NEW S \in SUBSET Entry, NEW top \in Seq(S), NEW aid
  PROVE  /\ AidIndex(top, aid) \in 1 .. Len(top) + 1
         /\ AidIndex(top, aid) <= Len(top) => top[AidIndex(top, aid)].aid = aid
         /\ InTop(top, aid) <=> AidIndex(top, aid) <= Len(top)
<1> DEFINE found == {i \in DOMAIN top : top[i].aid = aid}
<1>1. AidIndex(top, aid) =
        IF found = {} THEN Len(top) + 1 ELSE CHOOSE i \in found : \A j \in found : i <= j
  BY DEF AidIndex
<1>2. Len(top) \in Nat /\ DOMAIN top = 1 .. Len(top)
  BY LenProperties
<1>3. CASE found = {}
  BY <1>1, <1>2, <1>3 DEF InTop
<1>4. CASE found # {}
  <2>1. found \in SUBSET Nat
    BY <1>2
  <2> HIDE DEF found
  <2>2. \E i \in found : \A j \in found : i <= j
    BY <1>4, <2>1, LeastElement
  <2>3. AidIndex(top, aid) \in found
    BY <1>1, <1>4, <2>2
  <2> QED BY <1>2, <2>3 DEF found, InTop
<1> QED BY <1>3, <1>4

(* update_or_add_top_contributor for an AID of the list, when its entry does  *)
(* not move down: the new entry takes the place of the old one, or nothing    *)
(* happens.                                                                   *)
LEMMA UpdateTopProperties ==
  ASSUME NEW S \in SUBSET Entry, NEW top \in Seq(S), NEW c \in S, NEW capacity,
         Sorted(top), InTop(top, c.aid), CanUpdate(top, c)
  PROVE  LET old == AidIndex(top, c.aid)
             r   == UpdateOrAddTop(top, capacity, c)
         IN  /\ r \in Seq(S) /\ Sorted(r) /\ Len(r) = Len(top)
             /\ \A aid : InTop(r, aid) <=> InTop(top, aid)
             /\ \/ r = top /\ ~ Greater(c, top[old])
                \/ \A x : Listed(r, x) <=> x = c \/ (Listed(top, x) /\ x.aid # c.aid)
<1> DEFINE old == AidIndex(top, c.aid)
           n   == InsertionIndex(top, c)
           r   == UpdateOrAddTop(top, capacity, c)
<1>0. Len(top) \in Nat
  OBVIOUS
<1>a. DOMAIN top = 1 .. Len(top) /\ \A j \in 1 .. Len(top) : top[j] \in Entry
  BY LenProperties, ElementOfSeq
<1>b. c \in Entry
  OBVIOUS
<1>1. old \in 1 .. Len(top) /\ top[old].aid = c.aid
  BY AidIndexProperties
<1>2. /\ n \in 1 .. Len(top) + 1
      /\ \A j \in 1 .. n - 1 : ~ Greater(c, top[j])
      /\ \A j \in n .. Len(top) : Greater(c, top[j])
  BY <1>0, InsertionIndexProperties
<1>3. n <= old + 1
  BY <1>0, <1>1 DEF CanUpdate
<1>4. \A j \in 1 .. Len(top) : j # old => top[j].aid # c.aid
  BY <1>0, <1>a, <1>1 DEF Sorted
<1>5. CASE n = old + 1
  <2>1. r = top
    BY <1>0, <1>1, <1>5 DEF UpdateOrAddTop
  <2>2. ~ Greater(c, top[old])
    BY <1>1, <1>2, <1>5
  <2> QED BY <2>1, <2>2
<1>6. CASE n # old + 1
  <2>1. n \in 1 .. old
    BY <1>0, <1>1, <1>2, <1>3, <1>6
  <2>2. r = MovedUp(top, c, old, n)
    <3>1. ~ (old > Len(top)) /\ n # old + 1
      BY <1>0, <1>1, <1>6
    <3> QED BY <3>1 DEF UpdateOrAddTop, MovedUp
  <2> HIDE DEF old, n, r
  <2>3. /\ r \in Seq(S) /\ Len(r) = Len(top)
        /\ \A j \in 1 .. Len(top) : r[j] = IF j < n \/ j > old THEN top[j]
                                           ELSE IF j = n THEN c ELSE top[j - 1]
    BY <1>1, <2>1, <2>2, MovedUpProperties
  <2>4. DOMAIN r = 1 .. Len(top)
    BY <2>3, LenProperties
  <2>5. \A j \in 1 .. n - 1 : j \in 1 .. Len(top) /\ Greater(top[j], c) /\ top[j].aid # c.aid
    <3> TAKE j \in 1 .. n - 1
    <3>1. j \in 1 .. Len(top) /\ ~ Greater(c, top[j]) /\ j # old
      BY <1>0, <1>1, <1>2, <2>1
    <3> QED BY <1>0, <1>a, <1>b, <1>4, <3>1, GreaterOrder
  (* Where the entries of r come from: c, or another place than old. *)
  <2> DEFINE from(j) == IF j < n \/ j > old THEN j ELSE j - 1
  <2>6. ASSUME NEW j \in 1 .. Len(top), j # n
        PROVE  r[j] = top[from(j)] /\ from(j) \in 1 .. Len(top) /\ from(j) # old
    BY <1>0, <1>1, <2>1, <2>3, <2>6
  <2>7. \A i, j \in 1 .. Len(top) : i # n /\ j # n /\ i < j => from(i) < from(j)
    BY <1>0, <1>1, <2>1
  <2>8. r[n] = c
    BY <1>0, <1>1, <2>1, <2>3
  <2>9. \A k \in 1 .. Len(top) : k # old => \E j \in 1 .. Len(top) : j # n /\ r[j] = top[k]
    <3> TAKE k \in 1 .. Len(top)
    <3> HAVE k # old
    <3> DEFINE j == IF k < n \/ k > old THEN k ELSE k + 1
    <3>1. j \in 1 .. Len(top) /\ j # n /\ from(j) = k
      BY <1>0, <1>1, <2>1
    <3> HIDE DEF j, from
    <3>2. r[j] = top[k]
      BY <2>6, <3>1
    <3> QED BY <3>1, <3>2
  <2>10. \A j \in 1 .. Len(top) : (j > n => from(j) >= n) /\ (j < n => from(j) = j)
    BY <1>0, <1>1, <2>1
  <2> HIDE DEF from
  <2>11. Sorted(r)
    <3> SUFFICES ASSUME NEW i \in 1 .. Len(top), NEW j \in 1 .. Len(top), i < j
                 PROVE  Greater(r[i], r[j]) /\ r[i].aid # r[j].aid
      BY <2>4 DEF Sorted
    <3>1. i \in Int /\ j \in Int /\ n \in Int
      BY <1>0, <2>1
    <3>2. CASE i # n /\ j # n
      <4>1. r[i] = top[from(i)] /\ r[j] = top[from(j)] /\ from(i) < from(j)
            /\ from(i) \in DOMAIN top /\ from(j) \in DOMAIN top
        BY <1>0, <2>6, <2>7, <3>2
      <4> QED BY <4>1 DEF Sorted
    <3>3. CASE i = n
      <4>1. r[j] = top[from(j)] /\ from(j) \in 1 .. Len(top) /\ from(j) # old /\ from(j) >= n
        BY <2>6, <2>10, <3>1, <3>3
      <4>2. from(j) \in n .. Len(top)
        BY <1>0, <3>1, <4>1
      <4> QED BY <1>2, <1>4, <2>8, <3>3, <4>1, <4>2
    <3>4. CASE j = n
      <4>1. r[i] = top[i] /\ i \in 1 .. n - 1
        BY <2>6, <2>10, <3>1, <3>4
      <4> QED BY <2>5, <2>8, <3>4, <4>1
    <3> QED BY <3>2, <3>3, <3>4
  <2>12. n \in 1 .. Len(top)
    BY <1>0, <1>1, <2>1
  <2>13. ASSUME NEW x PROVE Listed(r, x) <=> x = c \/ (Listed(top, x) /\ x.aid # c.aid)
    <3>1. ASSUME Listed(r, x) PROVE x = c \/ (Listed(top, x) /\ x.aid # c.aid)
      <4>1. PICK j \in 1 .. Len(top) : r[j] = x
        BY <2>4, <3>1 DEF Listed
      <4>2. j # n => from(j) \in 1 .. Len(top) /\ x = top[from(j)] /\ from(j) # old
        BY <2>6, <4>1
      <4> QED BY <1>0, <1>a, <1>4, <2>8, <4>1, <4>2 DEF Listed
    <3>2. ASSUME x = c PROVE Listed(r, x)
      BY <2>4, <2>8, <2>12, <3>2 DEF Listed
    <3>3. ASSUME Listed(top, x), x.aid # c.aid PROVE Listed(r, x)
      <4>1. PICK k \in 1 .. Len(top) : top[k] = x
        BY <1>0, <1>a, <3>3 DEF Listed
      <4>2. k # old
        BY <1>1, <3>3, <4>1
      <4> QED BY <2>4, <2>9, <4>1, <4>2 DEF Listed
    <3> QED BY <3>1, <3>2, <3>3
  <2>14. ASSUME NEW aid PROVE InTop(r, aid) <=> InTop(top, aid)
    <3>1. InTop(r, aid) => InTop(top, aid)
      <4> SUFFICES ASSUME NEW j \in 1 .. Len(top), r[j].aid = aid PROVE InTop(top, aid)
        BY <2>4 DEF InTop
      <4>1. CASE j = n
        BY <1>0, <1>a, <1>1, <2>8, <4>1 DEF InTop
      <4>2. CASE j # n
        BY <1>0, <1>a, <2>6, <4>2 DEF InTop
      <4> QED BY <4>1, <4>2
    <3>2. InTop(top, aid) => InTop(r, aid)
      <4> SUFFICES ASSUME NEW k \in 1 .. Len(top), top[k].aid = aid PROVE InTop(r, aid)
        BY <1>0, <1>a DEF InTop
      <4>1. CASE k = old
        BY <1>1, <2>4, <2>8, <2>12, <4>1 DEF InTop
      <4>2. CASE k # old
        BY <2>4, <2>9, <4>2 DEF InTop
      <4> QED BY <4>1, <4>2
    <3> QED BY <3>1, <3>2
  <2> QED BY <2>3, <2>11, <2>13, <2>14 DEF old, r
<1> QED BY <1>5, <1>6

-----------------------------------------------------------------------------
(* Trackers.                                                               *)

(* A remainder is bounded by its divisor, and what is below the divisor is    *)
(* left alone.                                                                *)
LEMMA Remainder ==
  ASSUME NEW z \in Int, NEW n \in Nat \ {0}
  PROVE  /\ z % n \in 0 .. n - 1
         /\ z \in 0 .. n - 1 => z % n = z
OBVIOUS

(* The sum of two contributions is one, and unless it wraps, it is their sum. *)
LEMMA CombineProperties ==
  ASSUME NEW x \in Contribution, NEW y \in Contribution
  PROVE  /\ Combine(x, y) \in Contribution
         /\ x + y \in Contribution => Combine(x, y) = x + y
<1>1. IntLimit \in Nat \ {0, 1} /\ x \in Int /\ y \in Int
  BY TrackerAssumption DEF TrackerAssumption, Contribution
<1> DEFINE n == 2 * IntLimit  z == x + y + IntLimit
<1>2. n \in Nat \ {0} /\ z \in Int /\ (x + y \in Contribution => z \in 0 .. n - 1)
  BY <1>1 DEF Contribution
<1> HIDE DEF n, z
<1>3. z % n \in 0 .. n - 1 /\ (z \in 0 .. n - 1 => z % n = z)
  BY <1>2, Remainder
<1>4. Combine(x, y) = (z % n) - IntLimit
  BY DEF Combine, n, z
<1>5. (z % n) - IntLimit \in Contribution
  BY <1>1, <1>3 DEF Contribution, n
<1>6. x + y \in Contribution => (z % n) - IntLimit = x + y
  BY <1>1, <1>2, <1>3 DEF z
<1> QED BY <1>4, <1>5, <1>6

LEMMA ContributorIsEntry == Contributor \subseteq Entry
<1>1. Aids \subseteq Nat /\ Contribution \subseteq Int
  BY TrackerAssumption DEF TrackerAssumption, Contribution
<1> HIDE DEF Contribution
<1> QED BY <1>1 DEF Contributor, Entry

(* What holds of every tracker, also when sums wrap: the list is sorted and   *)
(* as long as it can be, its AIDs are in the table, all of them if it is not  *)
(* full, and the seed and the number of AIDs are those of the table.          *)
WellFormed(tracker) ==
  /\ tracker \in Tracker
  /\ Sorted(tracker.top)
  /\ \A a : InTop(tracker.top, a) => a \in Entries(tracker)
  /\ Len(tracker.top) = IF tracker.distinct < tracker.capacity THEN tracker.distinct
                        ELSE tracker.capacity
  /\ Len(tracker.top) < tracker.capacity => \A a \in Entries(tracker) : InTop(tracker.top, a)
  /\ tracker.seed = Entries(tracker)
  /\ IsFiniteSet(Entries(tracker)) /\ tracker.distinct = Cardinality(Entries(tracker))

\* The entry of an AID of the table, as the list of top contributors has it.
InTable(tracker, a) == [aid |-> a, contribution |-> tracker.table[a]]

\* The list has the entries of the table, and the greatest of them.
Faithful(tracker) ==
  /\ \A c : Listed(tracker.top, c) => c = InTable(tracker, c.aid)
  /\ \A a \in Entries(tracker) : ~ InTop(tracker.top, a) =>
       \A c : Listed(tracker.top, c) => Greater(c, InTable(tracker, a))

LEMMA NewTrackerIsWellFormed ==
  ASSUME NEW capacity \in Capacities
  PROVE  WellFormed(NewTracker(capacity)) /\ Faithful(NewTracker(capacity))
<1> DEFINE t == NewTracker(capacity)
<1>1. /\ t.table = [a \in Aids |-> NotSeen] /\ t.seed = {} /\ t.distinct = 0
      /\ t.capacity = capacity /\ t.top = <<>> /\ t.overall = 0 /\ t.unaccounted = 0
  BY DEF NewTracker
<1>2. Entries(t) = {}
  BY <1>1 DEF Entries
<1>3. t \in Tracker
  <2>1. 0 \in Contribution
    BY TrackerAssumption DEF TrackerAssumption, Contribution
  <2>2. <<>> \in Seq(Contributor)
    OBVIOUS
  <2> QED BY <2>1, <2>2 DEF Tracker, NewTracker
<1>4. DOMAIN t.top = {} /\ Len(t.top) = 0
  BY <1>1
<1>5. capacity \in Nat /\ capacity > 0
  BY TrackerAssumption DEF TrackerAssumption
<1>6. IsFiniteSet({}) /\ Cardinality({}) = 0
  BY FS_EmptySet
<1> HIDE DEF t
<1>7. WellFormed(t)
  BY <1>1, <1>2, <1>3, <1>4, <1>5, <1>6 DEF WellFormed, Sorted, InTop
<1>8. Faithful(t)
  BY <1>2, <1>4 DEF Faithful, Listed
<1> QED BY <1>7, <1>8 DEF t

(* contribution_tracker_update_contribution, field by field. *)
LEMMA UpdateFields ==
  ASSUME NEW tracker \in Tracker, NEW aid \in Aids, NEW x \in Contribution
  PROVE  LET c == Updated(tracker, aid, x)
             u == UpdateContribution(tracker, aid, x)
         IN  /\ c \in Contributor /\ c.aid = aid
             /\ c.contribution = IF tracker.table[aid] = NotSeen THEN x ELSE Combine(tracker.table[aid], x)
             /\ u.overall = Combine(tracker.overall, x) /\ u.overall \in Contribution
             /\ u.table[aid] = c.contribution
             /\ \A a \in Aids \ {aid} : u.table[a] = tracker.table[a]
             /\ u.table \in [Aids -> Contribution \cup {NotSeen}]
             /\ u.unaccounted = tracker.unaccounted /\ u.capacity = tracker.capacity
             /\ Entries(u) = Entries(tracker) \cup {aid}
             /\ aid \in Entries(tracker) =>
                  /\ u.seed = tracker.seed /\ u.distinct = tracker.distinct
                  /\ u.top = UpdateOrAddTop(tracker.top, tracker.capacity, c)
             /\ aid \notin Entries(tracker) =>
                  /\ u.seed = Toggle(tracker.seed, aid) /\ u.distinct = tracker.distinct + 1
                  /\ u.top = AddTop(tracker.top, tracker.capacity, c)
             /\ u = [table |-> u.table, seed |-> u.seed, distinct |-> u.distinct, overall |-> u.overall,
                     unaccounted |-> u.unaccounted, capacity |-> u.capacity, top |-> u.top]
<1> DEFINE c == Updated(tracker, aid, x)  u == UpdateContribution(tracker, aid, x)
<1>0. c = Updated(tracker, aid, x) /\ u = UpdateContribution(tracker, aid, x)
  OBVIOUS
<1> HIDE DEF c, u
<1>1. /\ tracker.table \in [Aids -> Contribution \cup {NotSeen}] /\ tracker.overall \in Contribution
      /\ tracker = [table |-> tracker.table, seed |-> tracker.seed, distinct |-> tracker.distinct,
                    overall |-> tracker.overall, unaccounted |-> tracker.unaccounted,
                    capacity |-> tracker.capacity, top |-> tracker.top]
  BY DEF Tracker
<1>2. NotSeen \notin Contribution
  BY TrackerAssumption DEF TrackerAssumption, Contribution
<1>3. /\ c.aid = aid
      /\ c.contribution = IF tracker.table[aid] = NotSeen THEN x ELSE Combine(tracker.table[aid], x)
  BY <1>0 DEF Updated
<1>4. c.contribution \in Contribution
  BY <1>1, <1>3, CombineProperties
<1>5. c \in Contributor
  BY <1>0, <1>3, <1>4 DEF Updated, Contributor
<1>6. Combine(tracker.overall, x) \in Contribution
  BY <1>1, CombineProperties
<1> DEFINE found == tracker.table[aid] # NotSeen
<1>7. u = [table |-> [tracker.table EXCEPT ![aid] = c.contribution],
           seed |-> IF found THEN tracker.seed ELSE Toggle(tracker.seed, aid),
           distinct |-> IF found THEN tracker.distinct ELSE tracker.distinct + 1,
           overall |-> Combine(tracker.overall, x),
           unaccounted |-> tracker.unaccounted, capacity |-> tracker.capacity,
           top |-> IF found THEN UpdateOrAddTop(tracker.top, tracker.capacity, c)
                   ELSE AddTop(tracker.top, tracker.capacity, c)]
  BY <1>0, <1>1 DEF UpdateContribution
<1>8. u.table = [tracker.table EXCEPT ![aid] = c.contribution]
  BY <1>7
<1>9. u.table \in [Aids -> Contribution \cup {NotSeen}] /\ Entries(u) = Entries(tracker) \cup {aid}
  BY <1>1, <1>2, <1>4, <1>8 DEF Entries
<1>12. u.table[aid] = c.contribution /\ \A a \in Aids \ {aid} : u.table[a] = tracker.table[a]
  BY <1>1, <1>8
<1>10. found <=> aid \in Entries(tracker)
  BY DEF Entries
<1> HIDE DEF found
<1>11. /\ u.overall = Combine(tracker.overall, x)
       /\ u.unaccounted = tracker.unaccounted /\ u.capacity = tracker.capacity
       /\ u.seed = IF found THEN tracker.seed ELSE Toggle(tracker.seed, aid)
       /\ u.distinct = IF found THEN tracker.distinct ELSE tracker.distinct + 1
       /\ u.top = IF found THEN UpdateOrAddTop(tracker.top, tracker.capacity, c)
                  ELSE AddTop(tracker.top, tracker.capacity, c)
       /\ u = [table |-> u.table, seed |-> u.seed, distinct |-> u.distinct, overall |-> u.overall,
               unaccounted |-> u.unaccounted, capacity |-> u.capacity, top |-> u.top]
  BY <1>7
<1> QED BY <1>0, <1>3, <1>5, <1>6, <1>12, <1>9, <1>10, <1>11

(* The list of top contributors after an update. *)
LEMMA UpdatedTop ==
  ASSUME NEW tracker, WellFormed(tracker), NEW aid \in Aids, NEW x \in Contribution,
         CanUpdate(tracker.top, Updated(tracker, aid, x))
  PROVE  LET c == Updated(tracker, aid, x)
             u == UpdateContribution(tracker, aid, x)
             top == tracker.top
         IN  /\ u.top \in Seq(Contributor) /\ Sorted(u.top)
             /\ \A a : InTop(u.top, a) => a = aid \/ InTop(top, a)
             /\ Len(u.top) = IF aid \notin Entries(tracker) /\ Len(top) < tracker.capacity
                             THEN Len(top) + 1 ELSE Len(top)
             /\ Len(top) < tracker.capacity =>
                  InTop(u.top, aid) /\ \A a : InTop(top, a) => InTop(u.top, a)
             /\ \/ ~ InTop(top, aid) /\ u.top = AddTop(top, tracker.capacity, c)
                \/ InTop(top, aid) /\ u.top = UpdateOrAddTop(top, tracker.capacity, c)
<1> DEFINE c == Updated(tracker, aid, x)
           u == UpdateContribution(tracker, aid, x)
           top == tracker.top
           capacity == tracker.capacity
<1>1. /\ tracker \in Tracker /\ Sorted(top)
      /\ \A a : InTop(top, a) => a \in Entries(tracker)
      /\ Len(top) < capacity => \A a \in Entries(tracker) : InTop(top, a)
  BY DEF WellFormed
<1>2. top \in Seq(Contributor) /\ capacity \in Capacities /\ tracker.distinct \in Nat
  BY <1>1 DEF Tracker
<1>3. capacity \in Nat \ {0} /\ Contributor \in SUBSET Entry /\ Len(top) \in Nat
  <2>1. capacity \in Nat \ {0}
    BY <1>2, TrackerAssumption DEF TrackerAssumption
  <2>2. Len(top) \in Nat
    BY <1>2, LenProperties
  <2> QED BY <2>1, <2>2, ContributorIsEntry
<1>4. Len(top) <= capacity
  BY <1>2, <1>3 DEF WellFormed
<1>5. /\ c \in Contributor /\ c.aid = aid
      /\ aid \in Entries(tracker) => u.top = UpdateOrAddTop(top, capacity, c)
      /\ aid \notin Entries(tracker) => u.top = AddTop(top, capacity, c)
  <2>1. tracker \in Tracker
    BY <1>1
  <2>2. c = Updated(tracker, aid, x) /\ u = UpdateContribution(tracker, aid, x)
    OBVIOUS
  <2> HIDE DEF c, u
  <2> QED BY <2>1, <2>2, UpdateFields
<1>6. CanUpdate(top, c)
  OBVIOUS
<1> HIDE DEF c, u, top, capacity
<1>7. CASE InTop(top, aid)
  <2>1. aid \in Entries(tracker)
    BY <1>1, <1>7
  <2> DEFINE r == UpdateOrAddTop(top, capacity, c)
  <2>2. /\ r \in Seq(Contributor) /\ Sorted(r) /\ Len(r) = Len(top)
        /\ \A a : InTop(r, a) <=> InTop(top, a)
    BY <1>1, <1>2, <1>3, <1>5, <1>6, <1>7, UpdateTopProperties
  <2> HIDE DEF r
  <2>3. u.top = r
    BY <1>5, <2>1 DEF r
  <2>4. /\ u.top \in Seq(Contributor) /\ Sorted(u.top)
        /\ \A a : InTop(u.top, a) => a = aid \/ InTop(top, a)
        /\ Len(u.top) = IF aid \notin Entries(tracker) /\ Len(top) < capacity
                        THEN Len(top) + 1 ELSE Len(top)
        /\ Len(top) < capacity => InTop(u.top, aid) /\ \A a : InTop(top, a) => InTop(u.top, a)
    BY <1>7, <2>1, <2>2, <2>3
  <2> QED BY <1>7, <2>3, <2>4 DEF c, u, top, capacity, r
<1>8. CASE ~ InTop(top, aid)
  <2> DEFINE r == AddTop(top, capacity, c)
  <2>1. /\ r \in Seq(Contributor) /\ Sorted(r)
        /\ Len(r) = IF Len(top) < capacity THEN Len(top) + 1 ELSE capacity
        /\ \A y : Listed(r, y) => y = c \/ Listed(top, y)
        /\ \A y : y = c \/ Listed(top, y) => Listed(r, y) \/ Len(top) = capacity
    BY <1>1, <1>2, <1>3, <1>4, <1>5, <1>8, AddTopProperties
  <2>2. u.top = r
    <3>1. CASE aid \in Entries(tracker)
      <4>1. AidIndex(top, aid) > Len(top)
        BY <1>2, <1>3, <1>8, AidIndexProperties
      <4>2. UpdateOrAddTop(top, capacity, c) = AddTop(top, capacity, c)
        BY <1>5, <4>1 DEF UpdateOrAddTop
      <4> QED BY <1>5, <3>1, <4>2
    <3>2. CASE aid \notin Entries(tracker)
      BY <1>5, <3>2
    <3> QED BY <3>1, <3>2
  <2> HIDE DEF r
  <2>3. aid \in Entries(tracker) => ~ (Len(top) < capacity)
    BY <1>1, <1>8
  <2>4. Len(r) = IF aid \notin Entries(tracker) /\ Len(top) < capacity THEN Len(top) + 1 ELSE Len(top)
    BY <1>3, <1>4, <2>1, <2>3
  <2>5. \A a : InTop(r, a) => a = aid \/ InTop(top, a)
    BY <1>5, <2>1 DEF InTop, Listed
  <2>6. ASSUME Len(top) < capacity
        PROVE  InTop(r, aid) /\ \A a : InTop(top, a) => InTop(r, a)
    <3>1. Len(top) # capacity
      BY <1>3, <2>6
    <3>2. \A y : y = c \/ Listed(top, y) => Listed(r, y)
      BY <2>1, <3>1
    <3>3. \A a : InTop(r, a) <=> \E y : Listed(r, y) /\ y.aid = a
      BY DEF InTop, Listed
    <3>4. \A a : InTop(top, a) => \E y : Listed(top, y) /\ y.aid = a
      BY DEF InTop, Listed
    <3> QED BY <1>5, <3>2, <3>3, <3>4
  <2> QED BY <1>8, <2>1, <2>2, <2>4, <2>5, <2>6 DEF c, u, top, capacity, r
<1> QED BY <1>7, <1>8

LEMMA UpdateKeepsWellFormed ==
  ASSUME NEW tracker, WellFormed(tracker), NEW aid \in Aids, NEW x \in Contribution,
         CanUpdate(tracker.top, Updated(tracker, aid, x))
  PROVE  WellFormed(UpdateContribution(tracker, aid, x))
<1> DEFINE c == Updated(tracker, aid, x)
           u == UpdateContribution(tracker, aid, x)
           top == tracker.top
           capacity == tracker.capacity
           E == Entries(tracker)
<1>1. /\ tracker \in Tracker
      /\ \A a : InTop(top, a) => a \in E
      /\ Len(top) = IF tracker.distinct < capacity THEN tracker.distinct ELSE capacity
      /\ Len(top) < capacity => \A a \in E : InTop(top, a)
      /\ tracker.seed = E /\ IsFiniteSet(E) /\ tracker.distinct = Cardinality(E)
  BY DEF WellFormed
<1>2. /\ u.top \in Seq(Contributor) /\ Sorted(u.top)
      /\ \A a : InTop(u.top, a) => a = aid \/ InTop(top, a)
      /\ Len(u.top) = IF aid \notin E /\ Len(top) < capacity THEN Len(top) + 1 ELSE Len(top)
      /\ Len(top) < capacity => InTop(u.top, aid) /\ \A a : InTop(top, a) => InTop(u.top, a)
  BY UpdatedTop
<1>3. /\ u.overall \in Contribution /\ u.table \in [Aids -> Contribution \cup {NotSeen}]
      /\ u.unaccounted = tracker.unaccounted /\ u.capacity = capacity
      /\ Entries(u) = E \cup {aid}
      /\ aid \in E => u.seed = tracker.seed /\ u.distinct = tracker.distinct
      /\ aid \notin E => u.seed = Toggle(tracker.seed, aid) /\ u.distinct = tracker.distinct + 1
      /\ u = [table |-> u.table, seed |-> u.seed, distinct |-> u.distinct, overall |-> u.overall,
              unaccounted |-> u.unaccounted, capacity |-> u.capacity, top |-> u.top]
  <2>1. tracker \in Tracker
    BY <1>1
  <2>2. c = Updated(tracker, aid, x) /\ u = UpdateContribution(tracker, aid, x)
    OBVIOUS
  <2> HIDE DEF c, u
  <2> QED BY <2>1, <2>2, UpdateFields
<1>4. /\ tracker.distinct \in Nat /\ capacity \in Capacities /\ capacity \in Nat \ {0}
      /\ tracker.unaccounted \in Contribution /\ E \subseteq Aids
  BY <1>1, TrackerAssumption DEF Tracker, TrackerAssumption, Entries
<1> HIDE DEF c, u, top, capacity, E
<1>5. u.seed = E \cup {aid} /\ u.distinct \in Nat
  BY <1>1, <1>3, <1>4 DEF Toggle
<1>6. u \in Tracker
  <2>1. u.seed \in SUBSET Aids
    BY <1>4, <1>5
  <2> QED BY <1>2, <1>3, <1>4, <1>5, <2>1 DEF Tracker
<1>7. IsFiniteSet(E \cup {aid}) /\ u.distinct = Cardinality(E \cup {aid})
  <2>1. CASE aid \in E
    <3>1. E \cup {aid} = E
      BY <2>1
    <3> QED BY <1>1, <1>3, <2>1, <3>1
  <2>2. CASE aid \notin E
    BY <1>1, <1>3, <2>2, FS_AddElement
  <2> QED BY <2>1, <2>2
<1>8. Len(u.top) = IF u.distinct < u.capacity THEN u.distinct ELSE u.capacity
  <2>1. CASE aid \in E
    <3>1. Len(u.top) = Len(top) /\ u.distinct = tracker.distinct /\ u.capacity = capacity
      BY <1>2, <1>3, <2>1
    <3> QED BY <1>1, <3>1
  <2>2. CASE aid \notin E
    <3>1. /\ Len(u.top) = IF Len(top) < capacity THEN Len(top) + 1 ELSE Len(top)
          /\ u.distinct = tracker.distinct + 1 /\ u.capacity = capacity
          /\ Len(top) = IF tracker.distinct < capacity THEN tracker.distinct ELSE capacity
      BY <1>1, <1>2, <1>3, <2>2
    <3> QED BY <1>4, <3>1
  <2> QED BY <2>1, <2>2
<1>9. \A a : InTop(u.top, a) => a \in Entries(u)
  BY <1>1, <1>2, <1>3
<1>10. Len(u.top) < u.capacity => \A a \in Entries(u) : InTop(u.top, a)
  <2>1. Len(u.top) < capacity => Len(top) < capacity
    <3>1. Len(top) \in Nat
      BY <1>1, <1>4
    <3> QED BY <1>2, <1>4, <3>1
  <2> QED BY <1>1, <1>2, <1>3, <2>1
<1> QED BY <1>2, <1>3, <1>5, <1>6, <1>7, <1>8, <1>9, <1>10 DEF WellFormed, u

(* As long as no sum falls, the list keeps the greatest entries: what was     *)
(* pushed out is tried again whenever it grows.                               *)
LEMMA UpdateKeepsFaithful ==
  ASSUME NEW tracker, WellFormed(tracker), Faithful(tracker), NEW aid \in Aids,
         NEW x \in Contribution, CanUpdate(tracker.top, Updated(tracker, aid, x)),
         aid \in Entries(tracker) => Updated(tracker, aid, x).contribution >= tracker.table[aid]
  PROVE  Faithful(UpdateContribution(tracker, aid, x))
<1> DEFINE c == Updated(tracker, aid, x)
           u == UpdateContribution(tracker, aid, x)
           top == tracker.top
           capacity == tracker.capacity
<1>1. /\ tracker \in Tracker /\ Sorted(top)
      /\ \A a : InTop(top, a) => a \in Entries(tracker)
      /\ Len(top) < capacity => \A a \in Entries(tracker) : InTop(top, a)
  BY DEF WellFormed
<1>2. top \in Seq(Contributor) /\ capacity \in Capacities /\ tracker.distinct \in Nat
      /\ tracker.table \in [Aids -> Contribution \cup {NotSeen}]
  BY <1>1 DEF Tracker
<1>3. capacity \in Nat \ {0} /\ Contributor \in SUBSET Entry /\ Len(top) \in Nat
  <2>1. capacity \in Nat \ {0}
    BY <1>2, TrackerAssumption DEF TrackerAssumption
  <2>2. Len(top) \in Nat
    BY <1>2, LenProperties
  <2> QED BY <2>1, <2>2, ContributorIsEntry
<1>4. Len(top) <= capacity
  BY <1>2, <1>3 DEF WellFormed
<1>5. /\ c \in Contributor /\ c.aid = aid /\ Entries(u) = Entries(tracker) \cup {aid}
      /\ u.table[aid] = c.contribution
      /\ \A a \in Aids \ {aid} : u.table[a] = tracker.table[a]
  <2>1. tracker \in Tracker
    BY <1>1
  <2>2. c = Updated(tracker, aid, x) /\ u = UpdateContribution(tracker, aid, x)
    OBVIOUS
  <2> HIDE DEF c, u
  <2> QED BY <2>1, <2>2, UpdateFields
<1>6. /\ \/ ~ InTop(top, aid) /\ u.top = AddTop(top, capacity, c)
         \/ InTop(top, aid) /\ u.top = UpdateOrAddTop(top, capacity, c)
      /\ CanUpdate(top, c)
  BY UpdatedTop
<1>7. /\ \A y : Listed(top, y) => y = InTable(tracker, y.aid)
      /\ \A a \in Entries(tracker) : ~ InTop(top, a) =>
           \A y : Listed(top, y) => Greater(y, InTable(tracker, a))
  BY DEF Faithful
<1>8. aid \in Entries(tracker) => c.contribution >= tracker.table[aid]
  OBVIOUS
<1> HIDE DEF c, u, top, capacity
<1>9. InTable(u, aid) = c
  <2>1. u.table[aid] = c.contribution
    BY <1>2, <1>5
  <2> QED BY <1>5, <2>1 DEF InTable, Contributor
<1>10. \A a \in Aids \ {aid} : InTable(u, a) = InTable(tracker, a)
  BY <1>2, <1>5 DEF InTable
<1>11. Entries(tracker) \subseteq Aids
  BY DEF Entries
<1>12. \A y : Listed(top, y) => y \in Entry /\ InTop(top, y.aid)
  BY <1>2, <1>3, LenProperties, ElementOfSeq DEF Listed, InTop
<1>13. \A a \in Entries(tracker) : InTable(tracker, a) \in Entry
  BY <1>2, <1>11, TrackerAssumption DEF InTable, Entries, Entry, TrackerAssumption, Contribution
<1>14. CASE ~ InTop(top, aid)
  <2> DEFINE r == AddTop(top, capacity, c)
  <2>1. /\ \A y : Listed(r, y) => y = c \/ Listed(top, y)
        /\ \A y : y = c \/ Listed(top, y) =>
             Listed(r, y) \/ (Len(top) = capacity /\ \A z : Listed(r, z) => Greater(z, y))
        /\ Listed(r, c) /\ Len(top) = capacity => Greater(c, top[Len(top)])
    BY <1>1, <1>2, <1>3, <1>4, <1>5, <1>14, AddTopProperties
  <2>2. u.top = r
    BY <1>6, <1>14
  <2> HIDE DEF r
  <2>3. ASSUME NEW y, Listed(r, y) PROVE y = InTable(u, y.aid)
    <3>1. CASE y = c
      BY <1>5, <1>9, <3>1
    <3>2. CASE Listed(top, y)
      <4>1. y.aid # aid /\ y.aid \in Aids
        BY <1>1, <1>11, <1>12, <1>14, <3>2
      <4> QED BY <1>7, <1>10, <3>2, <4>1
    <3> QED BY <2>1, <2>3, <3>1, <3>2
  <2>4. ASSUME NEW a \in Entries(u), ~ InTop(r, a), NEW y, Listed(r, y)
        PROVE  Greater(y, InTable(u, a))
    <3>1. CASE a = aid
      <4>1. ~ Listed(r, c)
        BY <1>5, <2>4, <3>1 DEF Listed, InTop
      <4> QED BY <1>9, <2>1, <2>4, <3>1, <4>1
    <3>2. CASE a # aid
      <4>1. a \in Entries(tracker) /\ InTable(u, a) = InTable(tracker, a)
        BY <1>5, <1>10, <1>11, <2>4, <3>2
      <4>2. CASE InTop(top, a)
        <5>1. PICK z : Listed(top, z) /\ z.aid = a
          BY <4>2 DEF InTop, Listed
        <5>2. z = InTable(u, a)
          BY <1>7, <4>1, <5>1
        <5>3. ~ Listed(r, z)
          BY <2>4, <5>1 DEF Listed, InTop
        <5> QED BY <2>1, <2>4, <5>1, <5>2, <5>3
      <4>3. CASE ~ InTop(top, a)
        <5>1. Len(top) = capacity
          BY <1>1, <1>3, <1>4, <4>1, <4>3
        <5>2. \A z : Listed(top, z) => Greater(z, InTable(u, a))
          BY <1>7, <4>1, <4>3
        <5>3. CASE Listed(top, y)
          BY <5>2, <5>3
        <5>4. CASE y = c
          <6> DEFINE last == top[Len(top)]
          <6>1. Greater(c, last)
            BY <2>1, <2>4, <5>1, <5>4
          <6>2. Listed(top, last)
            <7>1. Len(top) \in DOMAIN top
              BY <1>2, <1>3, <5>1, LenProperties
            <7> QED BY <7>1 DEF Listed
          <6> HIDE DEF last
          <6>3. Greater(last, InTable(u, a)) /\ last \in Entry /\ c \in Entry /\ InTable(u, a) \in Entry
            BY <1>3, <1>5, <1>12, <1>13, <4>1, <5>2, <6>2
          <6> QED BY <5>4, <6>1, <6>3, GreaterOrder
        <5> QED BY <2>1, <2>4, <5>3, <5>4
      <4> QED BY <4>2, <4>3
    <3> QED BY <3>1, <3>2
  <2>5. Faithful(u)
    BY <2>2, <2>3, <2>4 DEF Faithful
  <2> QED BY <2>5 DEF u
<1>15. CASE InTop(top, aid)
  <2> DEFINE old == AidIndex(top, aid)
             r   == UpdateOrAddTop(top, capacity, c)
  <2>1. /\ \A a : InTop(r, a) <=> InTop(top, a)
        /\ \/ r = top /\ ~ Greater(c, top[old])
           \/ \A y : Listed(r, y) <=> y = c \/ (Listed(top, y) /\ y.aid # c.aid)
    BY <1>1, <1>2, <1>3, <1>5, <1>6, <1>15, UpdateTopProperties
  <2>2. u.top = r
    BY <1>6, <1>15
  <2>3. old \in DOMAIN top /\ top[old].aid = aid
    BY <1>2, <1>3, <1>15, AidIndexProperties, LenProperties
  <2> HIDE DEF r, old
  <2>4. /\ aid \in Entries(tracker)
        /\ Listed(top, top[old]) /\ top[old] = InTable(tracker, aid)
        /\ top[old].contribution = tracker.table[aid]
    <3>1. aid \in Entries(tracker) /\ Listed(top, top[old])
      BY <1>1, <1>15, <2>3 DEF Listed
    <3>2. top[old] = InTable(tracker, aid)
      BY <1>7, <2>3, <3>1
    <3> QED BY <3>1, <3>2 DEF InTable
  <2>5. c \in Entry /\ top[old] \in Entry /\ c.contribution >= top[old].contribution
    BY <1>3, <1>5, <1>8, <1>12, <2>4
  <2>6. c = top[old] \/ Greater(c, top[old])
    BY <1>5, <2>3, <2>5 DEF Greater, Entry
  <2>7. CASE r = top /\ ~ Greater(c, top[old])
    <3>1. \A a \in Aids : InTable(u, a) = InTable(tracker, a)
      BY <1>9, <1>10, <2>4, <2>6, <2>7
    <3>2. Entries(u) = Entries(tracker)
      BY <1>5, <2>4
    <3>3. ASSUME NEW y, Listed(r, y) PROVE y = InTable(u, y.aid)
      BY <1>1, <1>7, <1>11, <1>12, <2>7, <3>1, <3>3
    <3>4. ASSUME NEW a \in Entries(u), ~ InTop(r, a), NEW y, Listed(r, y)
          PROVE  Greater(y, InTable(u, a))
      BY <1>7, <1>11, <2>7, <3>1, <3>2, <3>4
    <3>5. Faithful(u)
      BY <2>2, <3>3, <3>4 DEF Faithful
    <3> QED BY <3>5 DEF u
  <2>8. CASE \A y : Listed(r, y) <=> y = c \/ (Listed(top, y) /\ y.aid # c.aid)
    <3>1. ASSUME NEW y, Listed(r, y) PROVE y = InTable(u, y.aid)
      <4>1. CASE y = c
        BY <1>5, <1>9, <4>1
      <4>2. CASE Listed(top, y) /\ y.aid # c.aid
        <5>1. y.aid # aid /\ y.aid \in Aids
          BY <1>1, <1>5, <1>11, <1>12, <4>2
        <5> QED BY <1>7, <1>10, <4>2, <5>1
      <4> QED BY <2>8, <3>1, <4>1, <4>2
    <3>2. ASSUME NEW a \in Entries(u), ~ InTop(r, a), NEW y, Listed(r, y)
          PROVE  Greater(y, InTable(u, a))
      <4>1. ~ InTop(top, a) /\ a # aid
        BY <1>15, <2>1, <3>2
      <4>2. a \in Entries(tracker) /\ InTable(u, a) = InTable(tracker, a)
        BY <1>5, <1>10, <1>11, <3>2, <4>1
      <4>3. \A z : Listed(top, z) => Greater(z, InTable(u, a))
        BY <1>7, <4>1, <4>2
      <4>4. CASE y = c
        <5>1. Greater(top[old], InTable(u, a)) /\ InTable(u, a) \in Entry
          BY <1>13, <2>4, <4>2, <4>3
        <5> QED BY <2>5, <2>6, <4>4, <5>1, GreaterOrder
      <4>5. CASE Listed(top, y)
        BY <4>3, <4>5
      <4> QED BY <2>8, <3>2, <4>4, <4>5
    <3>3. Faithful(u)
      BY <2>2, <3>1, <3>2 DEF Faithful
    <3> QED BY <3>3 DEF u
  <2> QED BY <2>1, <2>7, <2>8
<1> QED BY <1>14, <1>15

-----------------------------------------------------------------------------
(* The invariant.                                                          *)

NoSmallest == 0 - IntLimit \notin Summands

BelowLimit(known) == \A a \in Aids : known[a] # NotSeen => known[a] < IntLimit

\* The table has the AIDs that are known, with their sums as long as those
\* have not wrapped, and the list is that of the table as long as none has.
\* What is known only grows: a sum that has wrapped is not taken for exact
\* again.
SumsOf(tracker, known) ==
  /\ \A a \in Aids : known[a] = NotSeen <=> tracker.table[a] = NotSeen
  /\ NoSmallest =>
       /\ \A a \in Aids : known[a] # NotSeen =>
            known[a] >= 0 /\ (known[a] < IntLimit => tracker.table[a] = known[a])
       /\ BelowLimit(known) => Faithful(tracker)

\* What the tracker of a leg has been given so far, in the middle of a merge
\* as well: of the AIDs that are done, what the source was given, too.
KnownIn(given_, merge_, b, leg) ==
  [a \in Aids |->
     IF merge_ # NoMerge /\ merge_.dst = b /\ merge_.leg = leg /\ a \notin merge_.todo
     THEN Plus(given_[b][leg][a], given_[merge_.src][leg][a])
     ELSE given_[b][leg][a]]

MergeInv ==
  merge # NoMerge =>
    /\ merge.leg \in LegsOf /\ merge.dst # merge.src /\ merges # 0
    /\ merge.todo \subseteq Entries(state[merge.src][merge.leg])

TrackersInv ==
  \A b \in Buckets, leg \in LegsOf :
    WellFormed(state[b][leg]) /\ SumsOf(state[b][leg], KnownIn(given, merge, b, leg))

IInv == TypeOK /\ MergeInv /\ TrackersInv

Known == [Aids -> Int \cup {NotSeen}]

(* An AID contributes again: s in truth, x as far as the width of the         *)
(* integers lets it.                                                          *)
LEMMA UpdateKeepsSums ==
  ASSUME NEW tracker, WellFormed(tracker), NEW known \in Known, SumsOf(tracker, known),
         NEW aid \in Aids, NEW x \in Contribution, NEW s \in Int,
         NoSmallest => s >= 0 /\ (s < IntLimit => x = s),
         CanUpdate(tracker.top, Updated(tracker, aid, x)),
         NEW more \in Known, more[aid] = Plus(known[aid], s),
         \A a \in Aids \ {aid} : more[a] = known[a]
  PROVE  SumsOf(UpdateContribution(tracker, aid, x), more)
<1> DEFINE c == Updated(tracker, aid, x)  u == UpdateContribution(tracker, aid, x)
<1>1. tracker \in Tracker
  BY DEF WellFormed
<1>2. /\ c.contribution = IF tracker.table[aid] = NotSeen THEN x ELSE Combine(tracker.table[aid], x)
      /\ u.table[aid] = c.contribution
      /\ \A a \in Aids \ {aid} : u.table[a] = tracker.table[a]
      /\ u.table \in [Aids -> Contribution \cup {NotSeen}]
      /\ c \in Contributor
  <2>1. c = Updated(tracker, aid, x) /\ u = UpdateContribution(tracker, aid, x)
    OBVIOUS
  <2> HIDE DEF c, u
  <2> QED BY <1>1, <2>1, UpdateFields
<1>3. Faithful(tracker) /\ (aid \in Entries(tracker) => c.contribution >= tracker.table[aid]) => Faithful(u)
  BY UpdateKeepsFaithful
<1> HIDE DEF c, u
<1>4. /\ NotSeen \notin Int /\ IntLimit \in Nat \ {0}
      /\ Contribution = (0 - IntLimit) .. (IntLimit - 1) /\ Contribution \subseteq Int
  BY TrackerAssumption DEF TrackerAssumption, Contribution
<1>5. /\ tracker.table \in [Aids -> Contribution \cup {NotSeen}]
      /\ c.contribution \in Contribution
  BY <1>1, <1>2 DEF Tracker, Contributor
<1>6. \A a \in Aids : known[a] \in Int \cup {NotSeen} /\ more[a] \in Int \cup {NotSeen}
  BY DEF Known
<1>7. \A a \in Aids : known[a] = NotSeen <=> tracker.table[a] = NotSeen
  BY DEF SumsOf
<1>8. more[aid] \in Int /\ more[aid] = IF known[aid] = NotSeen THEN s ELSE known[aid] + s
  BY <1>4, <1>6 DEF Plus
<1>9. \A a \in Aids : more[a] = NotSeen <=> u.table[a] = NotSeen
  <2>1. more[aid] # NotSeen /\ u.table[aid] # NotSeen
    BY <1>2, <1>4, <1>5, <1>8
  <2> QED BY <1>2, <1>7, <2>1
<1>10. ASSUME NoSmallest
       PROVE  /\ \A a \in Aids : more[a] # NotSeen =>
                   more[a] >= 0 /\ (more[a] < IntLimit => u.table[a] = more[a])
              /\ BelowLimit(more) => Faithful(u)
  <2>1. /\ \A a \in Aids : known[a] # NotSeen =>
             known[a] >= 0 /\ (known[a] < IntLimit => tracker.table[a] = known[a])
        /\ BelowLimit(known) => Faithful(tracker)
    BY <1>10 DEF SumsOf
  <2>2. s >= 0 /\ (s < IntLimit => x = s)
    BY <1>10
  <2>3. more[aid] >= 0 /\ (more[aid] < IntLimit => u.table[aid] = more[aid])
    <3>1. CASE known[aid] = NotSeen
      BY <1>2, <1>7, <1>8, <2>2, <3>1
    <3>2. CASE known[aid] # NotSeen
      <4>1. known[aid] \in Int /\ known[aid] >= 0
        BY <1>6, <2>1, <3>2
      <4>2. more[aid] = known[aid] + s /\ more[aid] >= 0
        BY <1>8, <2>2, <3>2, <4>1
      <4>3. ASSUME more[aid] < IntLimit PROVE u.table[aid] = more[aid]
        <5>1. known[aid] < IntLimit /\ s < IntLimit
          BY <1>4, <2>2, <4>1, <4>2, <4>3
        <5>2. tracker.table[aid] = known[aid] /\ x = s
          BY <2>1, <2>2, <3>2, <5>1
        <5>3. known[aid] \in Contribution /\ known[aid] + x \in Contribution
          BY <1>4, <2>2, <4>1, <4>2, <4>3, <5>1, <5>2
        <5>4. Combine(known[aid], x) = known[aid] + x
          BY <5>3, CombineProperties
        <5>5. u.table[aid] = Combine(known[aid], x)
          BY <1>2, <1>7, <3>2, <5>2
        <5> QED BY <4>2, <5>2, <5>4, <5>5
      <4> QED BY <4>2, <4>3
    <3> QED BY <3>1, <3>2
  <2>4. ASSUME NEW a \in Aids, more[a] # NotSeen
        PROVE  more[a] >= 0 /\ (more[a] < IntLimit => u.table[a] = more[a])
    <3>1. CASE a = aid
      BY <2>3, <3>1
    <3>2. CASE a # aid
      BY <1>2, <2>1, <2>4, <3>2
    <3> QED BY <3>1, <3>2
  <2>5. ASSUME BelowLimit(more) PROVE Faithful(u)
    <3>1. more[aid] < IntLimit
      BY <1>4, <1>8, <2>5 DEF BelowLimit
    <3>2. known[aid] # NotSeen => known[aid] < IntLimit /\ more[aid] >= known[aid]
      BY <1>4, <1>6, <1>8, <2>2, <3>1
    <3>3. BelowLimit(known)
      BY <2>5, <3>2 DEF BelowLimit
    <3>4. aid \in Entries(tracker) => c.contribution >= tracker.table[aid]
      <4>1. aid \in Entries(tracker) => known[aid] # NotSeen
        BY <1>7 DEF Entries
      <4>2. c.contribution = more[aid]
        BY <1>2, <2>3, <3>1
      <4> QED BY <2>1, <3>2, <4>1, <4>2
    <3> QED BY <1>3, <2>1, <3>3, <3>4
  <2> QED BY <2>4, <2>5
<1> QED BY <1>9, <1>10 DEF SumsOf, u

(* What rows without an AID add up to is kept apart. *)
LEMMA UnaccountedApart ==
  ASSUME NEW tracker, WellFormed(tracker), NEW x \in Contribution
  PROVE  LET t == [tracker EXCEPT !.unaccounted = Combine(@, x)]
         IN  /\ WellFormed(t) /\ Entries(t) = Entries(tracker)
             /\ \A known : SumsOf(tracker, known) => SumsOf(t, known)
<1> DEFINE y == Combine(tracker.unaccounted, x)
           t == [tracker EXCEPT !.unaccounted = Combine(@, x)]
<1>1. tracker \in Tracker
  BY DEF WellFormed
<1>2. y \in Contribution
  <2>1. tracker.unaccounted \in Contribution
    BY <1>1 DEF Tracker
  <2> QED BY <2>1, CombineProperties
<1> HIDE DEF y
<1>3. t = [tracker EXCEPT !.unaccounted = y]
  BY DEF y
<1> HIDE DEF t
<1>4. /\ t \in Tracker /\ t.table = tracker.table /\ t.seed = tracker.seed /\ t.distinct = tracker.distinct
      /\ t.capacity = tracker.capacity /\ t.top = tracker.top
  BY <1>1, <1>2, <1>3 DEF Tracker
<1>5. Entries(t) = Entries(tracker)
  BY <1>4 DEF Entries
<1>6. WellFormed(t)
  BY <1>4, <1>5 DEF WellFormed
<1>7. Faithful(tracker) => Faithful(t)
  BY <1>4, <1>5 DEF Faithful, InTable
<1>8. \A known : SumsOf(tracker, known) => SumsOf(t, known)
  BY <1>4, <1>7 DEF SumsOf
<1> QED BY <1>5, <1>6, <1>8 DEF t

(* What a row contributes: nothing negative, unless it is the smallest of     *)
(* the integers.                                                              *)
LEMMA LegContributionProperties ==
  ASSUME aggregate \in Aggregates, NEW leg, NEW value \in Arguments
  PROVE  /\ LegContribution(leg, value) \in Contribution \cup {NotSeen}
         /\ NoSmallest /\ LegContribution(leg, value) # NotSeen => LegContribution(leg, value) >= 0
<1>1. /\ Summands \subseteq (0 - IntLimit) .. (IntLimit - 1) /\ IntLimit \in Nat \ {0, 1}
      /\ NullValue \notin Int /\ aggregate \in {"count", "sum"}
  BY TrackerAssumption DEF TrackerAssumption
<1>2. CASE aggregate = "count"
  BY <1>1, <1>2 DEF LegContribution, Contribution
<1>3. CASE aggregate = "sum"
  <2>1. value \in Summands \/ value = NullValue
    BY <1>3 DEF Arguments
  <2>2. CASE value = NullValue
    BY <1>3, <2>2 DEF LegContribution
  <2>3. CASE value \in Summands /\ value # NullValue
    <3>1. /\ value \in Int /\ 0 - IntLimit <= value /\ value <= IntLimit - 1
          /\ NoSmallest => value # 0 - IntLimit
      BY <1>1, <2>3 DEF NoSmallest
    <3>2. LegContribution(leg, value) \in {Abs(value), NotSeen}
      BY <1>3, <2>3 DEF LegContribution
    <3>3. Abs(value) \in Contribution /\ (NoSmallest => Abs(value) >= 0)
      BY <1>1, <3>1 DEF Abs, Contribution
    <3> QED BY <3>2, <3>3
  <2> QED BY <2>1, <2>2, <2>3
<1> QED BY <1>1, <1>2, <1>3

LEMMA KnownInProperties ==
  ASSUME TypeOK, NEW b \in Buckets, NEW leg \in LegsOf, MergeInv
  PROVE  KnownIn(given, merge, b, leg) \in Known
<1>1. given \in [Buckets -> [LegsOf -> Known]] /\ merge \in Merge \cup {NoMerge}
  BY DEF TypeOK, Known
<1>2. \A a \in Aids : Plus(given[b][leg][a], given[merge.src][leg][a]) \in Int \cup {NotSeen}
                      \/ merge = NoMerge
  <2> SUFFICES ASSUME NEW a \in Aids, merge # NoMerge
               PROVE  Plus(given[b][leg][a], given[merge.src][leg][a]) \in Int \cup {NotSeen}
    OBVIOUS
  <2>1. merge.src \in Buckets
    BY <1>1 DEF Merge
  <2>2. given[b][leg] \in Known /\ given[merge.src][leg] \in Known
    BY <1>1, <2>1
  <2>3. given[b][leg][a] \in Int \cup {NotSeen} /\ given[merge.src][leg][a] \in Int \cup {NotSeen}
    BY <2>2 DEF Known
  <2> QED BY <2>3 DEF Plus
<1>3. given[b][leg] \in Known
  BY <1>1
<1> QED BY <1>2, <1>3 DEF KnownIn, Known

LEMMA Initially == Init => IInv
<1> SUFFICES ASSUME Init PROVE IInv
  OBVIOUS
<1>1. PICK capacities \in [Buckets -> Capacities] :
        state = [b \in Buckets |-> [leg \in LegsOf |-> NewTracker(capacities[b])]]
  BY DEF Init
<1>2. \A b \in Buckets : WellFormed(NewTracker(capacities[b])) /\ Faithful(NewTracker(capacities[b]))
  BY NewTrackerIsWellFormed
<1>3. \A b \in Buckets, leg \in LegsOf :
        /\ state[b][leg] \in Tracker /\ WellFormed(state[b][leg]) /\ Faithful(state[b][leg])
        /\ state[b][leg].table = [a \in Aids |-> NotSeen]
  <2> TAKE b \in Buckets, leg \in LegsOf
  <2>1. state[b][leg] = NewTracker(capacities[b])
    BY <1>1
  <2>2. NewTracker(capacities[b]).table = [a \in Aids |-> NotSeen]
    BY DEF NewTracker
  <2>3. WellFormed(state[b][leg]) /\ Faithful(state[b][leg])
    BY <1>2, <2>1
  <2>4. state[b][leg] \in Tracker
    BY <2>3 DEF WellFormed
  <2> QED BY <2>1, <2>2, <2>3, <2>4
<1>4. /\ aggregate \in Aggregates /\ merge = NoMerge /\ rows = 0 /\ merges = 0
      /\ given = [b \in Buckets |-> [leg \in LegsOf |-> [a \in Aids |-> NotSeen]]]
      /\ given_nulls = [b \in Buckets |-> [leg \in LegsOf |-> 0]]
      /\ total = [b \in Buckets |-> 0]
  BY DEF Init
<1>5. TypeOK
  <2>1. state \in [Buckets -> [LegsOf -> Tracker]]
    <3>1. state = [b \in Buckets |-> [leg \in LegsOf |-> state[b][leg]]]
      BY <1>1
    <3> QED BY <1>3, <3>1
  <2>2. given \in [Buckets -> [LegsOf -> [Aids -> Int \cup {NotSeen}]]]
    BY <1>4
  <2>3. given_nulls \in [Buckets -> [LegsOf -> Int]] /\ total \in [Buckets -> Int]
    BY <1>4
  <2>4. rows \in 0 .. MaxRows /\ merges \in 0 .. MaxMerges
    BY <1>4, TrackerAssumption DEF TrackerAssumption
  <2> QED BY <1>4, <2>1, <2>2, <2>3, <2>4 DEF TypeOK
<1>6. TrackersInv
  <2> SUFFICES ASSUME NEW b \in Buckets, NEW leg \in LegsOf
               PROVE  SumsOf(state[b][leg], KnownIn(given, merge, b, leg))
    BY <1>3 DEF TrackersInv
  <2>1. KnownIn(given, merge, b, leg) = [a \in Aids |-> NotSeen]
    BY <1>4 DEF KnownIn
  <2>2. state[b][leg].table = [a \in Aids |-> NotSeen] /\ Faithful(state[b][leg])
    BY <1>3
  <2> QED BY <2>1, <2>2 DEF SumsOf
<1> QED BY <1>4, <1>5, <1>6 DEF IInv, MergeInv

(* Every bucket's state but one is left alone. *)
LEMMA OneUpdated ==
  ASSUME NEW S, NEW T, NEW I, NEW f \in [S -> [I -> T]], NEW s \in S, NEW i \in I, NEW t \in T
  PROVE  LET g == [f EXCEPT ![s][i] = t]
         IN  /\ g \in [S -> [I -> T]]
             /\ g[s][i] = t
             /\ \A r \in S, j \in I : r # s \/ j # i => g[r][j] = f[r][j]
OBVIOUS

LEMMA AllUpdated ==
  ASSUME NEW S, NEW T, NEW I, NEW f \in [S -> [I -> T]], NEW s \in S, NEW u \in [I -> T]
  PROVE  LET g == [f EXCEPT ![s] = u]
         IN  /\ g \in [S -> [I -> T]]
             /\ g[s] = u
             /\ \A r \in S : r # s => g[r] = f[r]
OBVIOUS

LEMMA TransitionStep ==
  ASSUME IInv, NEW b \in Buckets, NEW aid \in Aids, NEW value \in Arguments,
         Transition(b, aid, value)
  PROVE  IInv'
<1> DEFINE L(leg) == LegContribution(leg, value)
           Next1(leg) == IF L(leg) # NotSeen THEN UpdateContribution(state[b][leg], aid, L(leg))
                         ELSE state[b][leg]
           More(leg) == [given[b][leg] EXCEPT ![aid] = Plus(@, L(leg))]
<1>1. TypeOK /\ MergeInv /\ TrackersInv
  BY DEF IInv
<1>2. /\ rows < MaxRows /\ merges = 0 /\ merge = NoMerge
      /\ \A leg \in LegsOf : L(leg) # NotSeen =>
           CanUpdate(state[b][leg].top, Updated(state[b][leg], aid, L(leg)))
      /\ rows' = rows + 1 /\ aggregate' = aggregate /\ merge' = merge
      /\ given_nulls' = given_nulls /\ merges' = merges
      /\ total' = [total EXCEPT ![b] = @ + Amount(value)]
  BY <1>1 DEF Transition, MergeInv
<1>3. state' = [state EXCEPT ![b] = [leg \in LegsOf |-> Next1(leg)]]
  BY DEF Transition
<1>4. given' = [given EXCEPT ![b] = [leg \in LegsOf |-> More(leg)]]
  BY DEF Transition
<1>5. LegsOf' = LegsOf
  BY <1>2 DEF LegsOf
<1>6. /\ aggregate \in Aggregates
      /\ state \in [Buckets -> [LegsOf -> Tracker]]
      /\ given \in [Buckets -> [LegsOf -> Known]]
  BY <1>1 DEF TypeOK, Known
<1>7. \A leg \in LegsOf :
        /\ L(leg) \in Contribution \cup {NotSeen}
        /\ NoSmallest /\ L(leg) # NotSeen => L(leg) >= 0
  BY <1>6, LegContributionProperties
<1>8. ASSUME NEW leg \in LegsOf
      PROVE  WellFormed(state[b][leg]) /\ SumsOf(state[b][leg], given[b][leg])
  <2>1. KnownIn(given, merge, b, leg) = given[b][leg]
    <3>1. given[b][leg] \in Known
      BY <1>6
    <3> QED BY <1>2, <3>1 DEF KnownIn, Known
  <2> QED BY <1>1, <2>1 DEF TrackersInv
<1> HIDE DEF L
<1>9. NotSeen \notin Int /\ Contribution \subseteq Int
  BY TrackerAssumption DEF TrackerAssumption, Contribution
<1>10. ASSUME NEW leg \in LegsOf
       PROVE  More(leg) \in Known /\ WellFormed(Next1(leg)) /\ SumsOf(Next1(leg), More(leg))
  <2>1. given[b][leg] \in Known /\ given[b][leg][aid] \in Int \cup {NotSeen}
    BY <1>6 DEF Known
  <2>2. Plus(given[b][leg][aid], L(leg)) \in Int \cup {NotSeen}
    <3>1. L(leg) \in Int \cup {NotSeen}
      BY <1>7, <1>9
    <3>2. given[b][leg][aid] \in Int \cup {NotSeen}
      BY <2>1
    <3> QED BY <3>1, <3>2 DEF Plus
  <2>3. /\ More(leg) \in Known /\ More(leg)[aid] = Plus(given[b][leg][aid], L(leg))
        /\ \A a \in Aids \ {aid} : More(leg)[a] = given[b][leg][a]
    BY <2>1, <2>2 DEF Known
  <2>4. CASE L(leg) = NotSeen
    <3>1. More(leg) = given[b][leg] /\ Next1(leg) = state[b][leg]
      BY <2>1, <2>4 DEF Plus, Known
    <3> QED BY <1>8, <2>1, <3>1
  <2>5. CASE L(leg) # NotSeen
    <3> DEFINE more == More(leg)
    <3>1. /\ WellFormed(state[b][leg]) /\ SumsOf(state[b][leg], given[b][leg])
          /\ L(leg) \in Contribution /\ L(leg) \in Int
          /\ NoSmallest => L(leg) >= 0 /\ (L(leg) < IntLimit => L(leg) = L(leg))
          /\ CanUpdate(state[b][leg].top, Updated(state[b][leg], aid, L(leg)))
      BY <1>2, <1>7, <1>8, <1>9, <2>5
    <3>2. WellFormed(UpdateContribution(state[b][leg], aid, L(leg)))
      BY <3>1, UpdateKeepsWellFormed
    <3>3. more \in Known /\ more[aid] = Plus(given[b][leg][aid], L(leg))
          /\ \A a \in Aids \ {aid} : more[a] = given[b][leg][a]
      BY <2>3
    <3> HIDE DEF more
    <3>4. SumsOf(UpdateContribution(state[b][leg], aid, L(leg)), more)
      BY <2>1, <3>1, <3>3, UpdateKeepsSums
    <3> QED BY <2>3, <2>5, <3>2, <3>4 DEF more
  <2> QED BY <2>4, <2>5
<1>11. \A leg \in LegsOf : Next1(leg) \in Tracker
  BY <1>10 DEF WellFormed
<1> HIDE DEF Next1, More
<1>12. /\ state' \in [Buckets -> [LegsOf -> Tracker]]
       /\ \A leg \in LegsOf : state'[b][leg] = Next1(leg)
       /\ \A r \in Buckets \ {b} : state'[r] = state[r]
  BY <1>3, <1>6, <1>11
<1>13. /\ given' \in [Buckets -> [LegsOf -> Known]]
       /\ \A leg \in LegsOf : given'[b][leg] = More(leg)
       /\ \A r \in Buckets \ {b} : given'[r] = given[r]
  BY <1>4, <1>6, <1>10
<1>14. TypeOK'
  <2>1. total' \in [Buckets -> Int]
    <3>1. Amount(value) \in Int
      BY TrackerAssumption DEF TrackerAssumption, Amount, Arguments
    <3>2. total \in [Buckets -> Int]
      BY <1>1 DEF TypeOK
    <3> QED BY <1>2, <3>1, <3>2
  <2>2. rows' \in 0 .. MaxRows
    BY <1>1, <1>2, TrackerAssumption DEF TypeOK, TrackerAssumption
  <2> QED BY <1>1, <1>2, <1>5, <1>12, <1>13, <2>1, <2>2 DEF TypeOK, Known
<1>15. TrackersInv'
  <2> SUFFICES ASSUME NEW r \in Buckets, NEW leg \in LegsOf
               PROVE  WellFormed(state'[r][leg]) /\ SumsOf(state'[r][leg], KnownIn(given', merge', r, leg))
    BY <1>5 DEF TrackersInv
  <2>1. KnownIn(given', merge', r, leg) = given'[r][leg]
    <3>1. given'[r][leg] \in Known
      BY <1>13
    <3> QED BY <1>2, <3>1 DEF KnownIn, Known
  <2>2. CASE r = b
    BY <1>10, <1>12, <1>13, <2>1, <2>2
  <2>3. CASE r # b
    <3>1. state'[r][leg] = state[r][leg] /\ KnownIn(given', merge', r, leg) = KnownIn(given, merge, r, leg)
      BY <1>2, <1>12, <1>13, <2>3 DEF KnownIn
    <3> QED BY <1>1, <3>1 DEF TrackersInv
  <2> QED BY <2>2, <2>3
<1> QED BY <1>2, <1>14, <1>15 DEF IInv, MergeInv

LEMMA TransitionWithoutAidStep ==
  ASSUME IInv, NEW b \in Buckets, NEW value \in Arguments, TransitionWithoutAid(b, value)
  PROVE  IInv'
<1> DEFINE Unaccounted(leg) == Plus(0, LegContribution(leg, value))
           Next1(leg) == [state[b][leg] EXCEPT !.unaccounted = Combine(@, Unaccounted(leg))]
<1>1. TypeOK /\ MergeInv /\ TrackersInv
  BY DEF IInv
<1>2. /\ rows < MaxRows /\ rows' = rows + 1 /\ aggregate' = aggregate /\ merge' = merge
      /\ merges = 0 /\ merge = NoMerge /\ given' = given /\ merges' = merges
      /\ total' = [total EXCEPT ![b] = @ + Amount(value)]
  BY <1>1 DEF TransitionWithoutAid, MergeInv
<1>3. state' = [state EXCEPT ![b] = [leg \in LegsOf |-> Next1(leg)]]
  BY DEF TransitionWithoutAid
<1>4. given_nulls' = [given_nulls EXCEPT ![b] = [leg \in LegsOf |-> @[leg] + Unaccounted(leg)]]
  BY DEF TransitionWithoutAid
<1>5. LegsOf' = LegsOf
  BY <1>2 DEF LegsOf
<1>6. /\ aggregate \in Aggregates
      /\ state \in [Buckets -> [LegsOf -> Tracker]]
      /\ given_nulls \in [Buckets -> [LegsOf -> Int]]
      /\ total \in [Buckets -> Int]
  BY <1>1 DEF TypeOK
<1>7. ASSUME NEW leg \in LegsOf
      PROVE  Unaccounted(leg) \in Contribution /\ Unaccounted(leg) \in Int
  <2>1. LegContribution(leg, value) \in Contribution \cup {NotSeen}
    BY <1>6, LegContributionProperties
  <2>2. NotSeen \notin Int /\ IntLimit \in Nat /\ Contribution = (0 - IntLimit) .. (IntLimit - 1)
        /\ 0 \in Contribution
    BY TrackerAssumption DEF TrackerAssumption, Contribution
  <2> QED BY <2>1, <2>2 DEF Plus
<1> HIDE DEF Unaccounted
<1>8. ASSUME NEW leg \in LegsOf
      PROVE  /\ WellFormed(Next1(leg))
             /\ \A known : SumsOf(state[b][leg], known) => SumsOf(Next1(leg), known)
  <2>1. WellFormed(state[b][leg])
    BY <1>1 DEF TrackersInv
  <2> QED BY <1>7, <2>1, UnaccountedApart
<1>9. \A leg \in LegsOf : Next1(leg) \in Tracker
  BY <1>8 DEF WellFormed
<1> HIDE DEF Next1
<1>10. /\ state' \in [Buckets -> [LegsOf -> Tracker]]
       /\ \A leg \in LegsOf : state'[b][leg] = Next1(leg)
       /\ \A r \in Buckets \ {b} : state'[r] = state[r]
  BY <1>3, <1>6, <1>9
<1>11. TypeOK'
  <2>1. total' \in [Buckets -> Int]
    <3>1. Amount(value) \in Int
      BY TrackerAssumption DEF TrackerAssumption, Amount, Arguments
    <3> QED BY <1>2, <1>6, <3>1
  <2>2. given_nulls' \in [Buckets -> [LegsOf -> Int]]
    <3> DEFINE n == [leg \in LegsOf |-> given_nulls[b][leg] + Unaccounted(leg)]
    <3>1. n \in [LegsOf -> Int]
      BY <1>6, <1>7
    <3>2. given_nulls' = [given_nulls EXCEPT ![b] = n]
      BY <1>4, <1>6
    <3> HIDE DEF n
    <3> QED BY <1>6, <3>1, <3>2
  <2>3. rows' \in 0 .. MaxRows
    BY <1>1, <1>2, TrackerAssumption DEF TypeOK, TrackerAssumption
  <2> QED BY <1>1, <1>2, <1>5, <1>10, <2>1, <2>2, <2>3 DEF TypeOK
<1>12. TrackersInv'
  <2> SUFFICES ASSUME NEW r \in Buckets, NEW leg \in LegsOf
               PROVE  WellFormed(state'[r][leg]) /\ SumsOf(state'[r][leg], KnownIn(given', merge', r, leg))
    BY <1>5 DEF TrackersInv
  <2>1. WellFormed(state[r][leg]) /\ SumsOf(state[r][leg], KnownIn(given', merge', r, leg))
    BY <1>1, <1>2 DEF TrackersInv
  <2>2. CASE r = b
    BY <1>8, <1>10, <2>1, <2>2
  <2>3. CASE r # b
    BY <1>10, <2>1, <2>3
  <2> QED BY <2>2, <2>3
<1> QED BY <1>2, <1>11, <1>12 DEF IInv, MergeInv

LEMMA BeginMergeStep ==
  ASSUME IInv, NEW dst \in Buckets, NEW src \in Buckets, BeginMerge(dst, src)
  PROVE  IInv'
<1>1. TypeOK /\ MergeInv /\ TrackersInv
  BY DEF IInv
<1> DEFINE todo == Entries(state[src]["positive"])
<1>2. /\ merge = NoMerge /\ merges < MaxMerges /\ dst # src
      /\ merge' = [dst |-> dst, src |-> src, leg |-> "positive", todo |-> todo]
      /\ merges' = merges + 1
      /\ aggregate' = aggregate /\ state' = state /\ given' = given
      /\ given_nulls' = given_nulls /\ total' = total /\ rows' = rows
  BY DEF BeginMerge
<1>3. LegsOf' = LegsOf /\ "positive" \in LegsOf
  BY <1>2 DEF LegsOf, Legs
<1>4. todo \subseteq Aids
  BY DEF Entries
<1> HIDE DEF todo
<1>5. /\ merge' \in Merge /\ merge'.dst = dst /\ merge'.src = src /\ merge'.leg = "positive"
      /\ merge'.todo = todo
  BY <1>2, <1>4 DEF Merge, Legs
<1>6. merges \in 0 .. MaxMerges /\ merges' # 0 /\ merges' \in 0 .. MaxMerges
  BY <1>1, <1>2, TrackerAssumption DEF TypeOK, TrackerAssumption
<1>7. TypeOK'
  BY <1>1, <1>2, <1>3, <1>5, <1>6 DEF TypeOK
<1>8. MergeInv'
  BY <1>2, <1>3, <1>5, <1>6 DEF MergeInv, todo
<1>9. TrackersInv'
  <2> SUFFICES ASSUME NEW r \in Buckets, NEW leg \in LegsOf
               PROVE  KnownIn(given', merge', r, leg) = KnownIn(given, merge, r, leg)
    BY <1>1, <1>2, <1>3 DEF TrackersInv
  <2> SUFFICES ASSUME NEW a \in Aids, r = dst, leg = "positive", a \notin todo
               PROVE  Plus(given[r][leg][a], given[src][leg][a]) = given[r][leg][a]
    BY <1>2, <1>5 DEF KnownIn
  <2>1. state[src][leg].table[a] = NotSeen
    BY DEF todo, Entries
  <2>2. SumsOf(state[src][leg], KnownIn(given, merge, src, leg))
    BY <1>1 DEF TrackersInv
  <2>3. KnownIn(given, merge, src, leg)[a] = given[src][leg][a]
    BY <1>2 DEF KnownIn
  <2>4. given[src][leg][a] = NotSeen
    BY <2>1, <2>2, <2>3 DEF SumsOf
  <2> QED BY <2>4 DEF Plus
<1> QED BY <1>7, <1>8, <1>9 DEF IInv

LEMMA MergeEntryStep ==
  ASSUME IInv, NEW aid \in Aids, MergeEntry(aid)
  PROVE  IInv'
<1> DEFINE dst == merge.dst  src == merge.src  leg == merge.leg
           x == state[src][leg].table[aid]
           tracker == state[dst][leg]
           u == UpdateContribution(tracker, aid, x)
<1>1. TypeOK /\ MergeInv /\ TrackersInv
  BY DEF IInv
<1>2. /\ merge # NoMerge /\ aid \in merge.todo
      /\ CanUpdate(tracker.top, Updated(tracker, aid, x))
      /\ state' = [state EXCEPT ![dst][leg] = u]
      /\ merge' = [merge EXCEPT !.todo = @ \ {aid}]
      /\ aggregate' = aggregate /\ given' = given
      /\ given_nulls' = given_nulls /\ total' = total /\ rows' = rows /\ merges' = merges
  BY DEF MergeEntry
<1>3. /\ merge \in Merge
      /\ state \in [Buckets -> [LegsOf -> Tracker]]
      /\ given \in [Buckets -> [LegsOf -> Known]]
  BY <1>1, <1>2 DEF TypeOK, Known
<1>4. /\ dst \in Buckets /\ src \in Buckets /\ leg \in LegsOf /\ dst # src
      /\ merge.todo \subseteq Entries(state[src][leg]) /\ merge.todo \subseteq Aids
  BY <1>1, <1>2, <1>3 DEF Merge, MergeInv
<1>5. LegsOf' = LegsOf
  BY <1>2 DEF LegsOf
<1>6. /\ merge' \in Merge /\ merge'.dst = dst /\ merge'.src = src /\ merge'.leg = leg
      /\ merge'.todo = merge.todo \ {aid} /\ merge' # NoMerge
  BY <1>2, <1>3, NoMergeAssumption DEF Merge, NoMergeAssumption
<1>7. NotSeen \notin Int /\ Contribution \subseteq Int
  BY TrackerAssumption DEF TrackerAssumption, Contribution
<1>8. x \in Contribution
  <2>1. state[src][leg] \in Tracker
    BY <1>3, <1>4
  <2>2. state[src][leg].table \in [Aids -> Contribution \cup {NotSeen}]
    BY <2>1 DEF Tracker
  <2>3. aid \in Entries(state[src][leg])
    BY <1>2, <1>4
  <2> QED BY <2>2, <2>3 DEF Entries
<1> DEFINE s == given[src][leg][aid]
           known == KnownIn(given, merge, dst, leg)
           more == KnownIn(given', merge', dst, leg)
<1>9. WellFormed(tracker) /\ SumsOf(tracker, known)
  BY <1>1, <1>4 DEF TrackersInv
<1>10. s \in Int /\ (NoSmallest => s >= 0 /\ (s < IntLimit => x = s))
  <2>1. SumsOf(state[src][leg], KnownIn(given, merge, src, leg))
    BY <1>1, <1>4 DEF TrackersInv
  <2>2. KnownIn(given, merge, src, leg)[aid] = s
    BY <1>4 DEF KnownIn
  <2>3. given[src][leg] \in Known
    BY <1>3, <1>4
  <2>4. s \in Int \cup {NotSeen}
    BY <2>3 DEF Known
  <2> HIDE DEF x, s
  <2>5. s # NotSeen
    BY <1>7, <1>8, <2>1, <2>2 DEF SumsOf, x
  <2> QED BY <2>1, <2>2, <2>4, <2>5 DEF SumsOf, x
<1>11. known \in Known
  BY <1>1, <1>4, KnownInProperties
<1>12. /\ more[aid] = Plus(known[aid], s)
       /\ \A a \in Aids \ {aid} : more[a] = known[a]
  <2>1. known[aid] = given[dst][leg][aid] /\ more[aid] = Plus(given[dst][leg][aid], s)
    BY <1>2, <1>4, <1>6 DEF KnownIn
  <2>2. ASSUME NEW a \in Aids \ {aid} PROVE more[a] = known[a]
    BY <1>2, <1>6 DEF KnownIn
  <2> QED BY <2>1, <2>2
<1>13. more \in Known
  <2>1. more[aid] \in Int \cup {NotSeen}
    <3>1. known[aid] \in Int \cup {NotSeen}
      BY <1>11 DEF Known
    <3> HIDE DEF known, more, s
    <3> QED BY <1>10, <1>12, <3>1 DEF Plus
  <2>2. more = [a \in Aids |-> more[a]]
    BY DEF KnownIn
  <2> HIDE DEF known, more
  <2>3. \A a \in Aids : more[a] \in Int \cup {NotSeen}
    BY <1>11, <1>12, <2>1 DEF Known
  <2> QED BY <2>2, <2>3 DEF Known
<1> HIDE DEF s, known, more, x, tracker
<1>14. WellFormed(u)
  BY <1>2, <1>8, <1>9, UpdateKeepsWellFormed
<1>15. SumsOf(u, more)
  BY <1>2, <1>8, <1>9, <1>10, <1>11, <1>12, <1>13, UpdateKeepsSums
<1>16. u \in Tracker
  BY <1>14 DEF WellFormed
<1> HIDE DEF u
<1>17. /\ state' \in [Buckets -> [LegsOf -> Tracker]]
       /\ state'[dst][leg] = u
       /\ \A r \in Buckets, l \in LegsOf : r # dst \/ l # leg => state'[r][l] = state[r][l]
  BY <1>2, <1>3, <1>4, <1>16, OneUpdated
<1>18. TypeOK'
  BY <1>1, <1>2, <1>5, <1>6, <1>17 DEF TypeOK
<1>19. MergeInv'
  <2>1. state'[src][leg] = state[src][leg]
    BY <1>4, <1>17
  <2>2. merge'.todo \subseteq Entries(state'[merge'.src][merge'.leg])
    BY <1>4, <1>6, <2>1
  <2>3. merges # 0
    BY <1>1, <1>2 DEF MergeInv
  <2> QED BY <1>2, <1>4, <1>5, <1>6, <2>2, <2>3 DEF MergeInv
<1>20. TrackersInv'
  <2> SUFFICES ASSUME NEW r \in Buckets, NEW l \in LegsOf
               PROVE  WellFormed(state'[r][l]) /\ SumsOf(state'[r][l], KnownIn(given', merge', r, l))
    BY <1>5 DEF TrackersInv
  <2>1. CASE r = dst /\ l = leg
    BY <1>14, <1>15, <1>17, <2>1 DEF more
  <2>2. CASE r # dst \/ l # leg
    <3>1. KnownIn(given', merge', r, l) = KnownIn(given, merge, r, l)
      BY <1>2, <1>6, <2>2 DEF KnownIn
    <3> QED BY <1>1, <1>17, <2>2, <3>1 DEF TrackersInv
  <2> QED BY <2>1, <2>2
<1> QED BY <1>18, <1>19, <1>20 DEF IInv

LEMMA EndMergeStep == ASSUME IInv, EndMerge PROVE IInv'
<1> DEFINE dst == merge.dst  src == merge.src  leg == merge.leg
           last == leg = "negative" \/ aggregate = "count"
           u == [state[dst][leg] EXCEPT !.unaccounted = Combine(@, state[src][leg].unaccounted)]
           more == [a \in Aids |-> Plus(given[dst][leg][a], given[src][leg][a])]
<1>1. TypeOK /\ MergeInv /\ TrackersInv
  BY DEF IInv
<1>2. /\ merge # NoMerge /\ merge.todo = {}
      /\ aggregate' = aggregate /\ rows' = rows /\ merges' = merges
      /\ given_nulls' = [given_nulls EXCEPT ![dst][leg] = @ + given_nulls[src][leg]]
      /\ total' = IF last THEN [total EXCEPT ![dst] = @ + total[src]] ELSE total
      /\ merge' = IF last THEN NoMerge
                  ELSE [merge EXCEPT !.leg = "negative", !.todo = Entries(state[src]["negative"])]
      /\ given' = [given EXCEPT ![dst][leg] = more]
  BY DEF EndMerge
<1>3. state' = [state EXCEPT ![dst][leg].unaccounted = Combine(@, state[src][leg].unaccounted)]
  BY DEF EndMerge
<1>4. /\ merge \in Merge
      /\ state \in [Buckets -> [LegsOf -> Tracker]]
      /\ given \in [Buckets -> [LegsOf -> Known]]
      /\ given_nulls \in [Buckets -> [LegsOf -> Int]] /\ total \in [Buckets -> Int]
  BY <1>1, <1>2 DEF TypeOK, Known
<1>5. dst \in Buckets /\ src \in Buckets /\ leg \in LegsOf /\ dst # src /\ leg \in Legs
  BY <1>1, <1>2, <1>4 DEF Merge, MergeInv
<1>6. LegsOf' = LegsOf
  BY <1>2 DEF LegsOf
<1>7. more = KnownIn(given, merge, dst, leg) /\ more \in Known
  <2>1. more = KnownIn(given, merge, dst, leg)
    BY <1>2 DEF KnownIn
  <2> HIDE DEF more
  <2> QED BY <1>1, <1>5, <2>1, KnownInProperties
<1>8. /\ WellFormed(u) /\ Entries(u) = Entries(state[dst][leg])
      /\ \A known : SumsOf(state[dst][leg], known) => SumsOf(u, known)
  <2>1. WellFormed(state[dst][leg])
    BY <1>1, <1>5 DEF TrackersInv
  <2>2. state[src][leg].unaccounted \in Contribution
    <3>1. state[src][leg] \in Tracker
      BY <1>4, <1>5
    <3> QED BY <3>1 DEF Tracker
  <2> QED BY <2>1, <2>2, UnaccountedApart
<1>9. state' = [state EXCEPT ![dst][leg] = u]
  BY <1>3, <1>4, <1>5
<1>10. u \in Tracker
  BY <1>8 DEF WellFormed
<1> HIDE DEF u, more
<1>11. /\ state' \in [Buckets -> [LegsOf -> Tracker]] /\ state'[dst][leg] = u
       /\ \A r \in Buckets, l \in LegsOf : r # dst \/ l # leg => state'[r][l] = state[r][l]
  BY <1>4, <1>5, <1>9, <1>10, OneUpdated
<1>12. /\ given' \in [Buckets -> [LegsOf -> Known]] /\ given'[dst][leg] = more
       /\ \A r \in Buckets, l \in LegsOf : r # dst \/ l # leg => given'[r][l] = given[r][l]
  BY <1>2, <1>4, <1>5, <1>7, OneUpdated
<1>13. ASSUME ~ last
       PROVE  /\ merge' \in Merge /\ merge' # NoMerge /\ merge'.dst = dst /\ merge'.src = src
              /\ merge'.leg = "negative" /\ leg = "positive" /\ "negative" \in LegsOf
              /\ merge'.todo = Entries(state[src]["negative"])
  <2> DEFINE todo == Entries(state[src]["negative"])
  <2>1. todo \subseteq Aids
    BY DEF Entries
  <2> HIDE DEF todo
  <2>2. merge' = [merge EXCEPT !.leg = "negative", !.todo = todo]
    BY <1>2, <1>13 DEF todo
  <2>3. /\ merge' \in Merge /\ merge'.dst = dst /\ merge'.src = src
        /\ merge'.leg = "negative" /\ merge'.todo = todo
    BY <1>4, <2>1, <2>2 DEF Merge, Legs
  <2>4. merge' # NoMerge
    BY <2>3, NoMergeAssumption DEF NoMergeAssumption
  <2>5. leg = "positive" /\ "negative" \in LegsOf
    <3>1. leg = "positive" /\ aggregate # "count"
      BY <1>5, <1>13 DEF Legs
    <3>2. aggregate = "sum"
      BY <1>1, <3>1, TrackerAssumption DEF TypeOK, TrackerAssumption
    <3> QED BY <3>1, <3>2 DEF LegsOf, Legs
  <2> QED BY <2>3, <2>4, <2>5 DEF todo
<1>14. TypeOK'
  <2>1. merge' \in Merge \cup {NoMerge}
    BY <1>2, <1>13
  <2>2. given_nulls' \in [Buckets -> [LegsOf -> Int]]
    <3>1. given_nulls[dst][leg] + given_nulls[src][leg] \in Int
      BY <1>4, <1>5
    <3> QED BY <1>2, <1>4, <1>5, <3>1
  <2>3. total' \in [Buckets -> Int]
    <3>1. total[dst] + total[src] \in Int
      BY <1>4, <1>5
    <3> QED BY <1>2, <1>4, <1>5, <3>1
  <2> QED BY <1>1, <1>2, <1>6, <1>11, <1>12, <2>1, <2>2, <2>3 DEF TypeOK, Known
<1>15. MergeInv'
  <2> SUFFICES ASSUME merge' # NoMerge
               PROVE  /\ merge'.leg \in LegsOf /\ merge'.dst # merge'.src /\ merges # 0
                      /\ merge'.todo \subseteq Entries(state'[merge'.src][merge'.leg])
    BY <1>2, <1>6 DEF MergeInv
  <2>1. ~ last
    BY <1>2
  <2>2. state'[src]["negative"] = state[src]["negative"]
    BY <1>5, <1>11, <1>13, <2>1
  <2>3. merges # 0
    BY <1>1, <1>2 DEF MergeInv
  <2> QED BY <1>5, <1>13, <2>1, <2>2, <2>3
<1>16. TrackersInv'
  <2> SUFFICES ASSUME NEW r \in Buckets, NEW l \in LegsOf
               PROVE  WellFormed(state'[r][l]) /\ SumsOf(state'[r][l], KnownIn(given', merge', r, l))
    BY <1>6 DEF TrackersInv
  <2>1. WellFormed(state[r][l]) /\ SumsOf(state[r][l], KnownIn(given, merge, r, l))
    BY <1>1 DEF TrackersInv
  <2>2. WellFormed(state'[r][l]) /\ SumsOf(state'[r][l], KnownIn(given, merge, r, l))
    BY <1>8, <1>11, <2>1
  <2>3. KnownIn(given', merge', r, l) = KnownIn(given, merge, r, l)
    <3>1. given'[r][l] \in Known
      BY <1>12
    <3>2. KnownIn(given', merge', r, l) = given'[r][l]
      <4>1. CASE last
        BY <1>2, <3>1, <4>1 DEF KnownIn, Known
      <4>2. CASE ~ last
        <5>1. ASSUME NEW a \in Aids, r = dst, l = "negative", a \notin merge'.todo
              PROVE  Plus(given'[r][l][a], given'[src][l][a]) = given'[r][l][a]
          <6>1. given'[src][l] = given[src][l] /\ state[src][l].table[a] = NotSeen
            BY <1>5, <1>12, <1>13, <4>2, <5>1 DEF Entries
          <6>2. KnownIn(given, merge, src, l)[a] = given[src][l][a]
            BY <1>5 DEF KnownIn
          <6>3. SumsOf(state[src][l], KnownIn(given, merge, src, l))
            BY <1>1, <1>5 DEF TrackersInv
          <6>4. given[src][l][a] = NotSeen
            BY <6>1, <6>2, <6>3 DEF SumsOf
          <6> QED BY <6>1, <6>4 DEF Plus
        <5>2. KnownIn(given', merge', r, l) = [a \in Aids |-> given'[r][l][a]]
          BY <1>13, <4>2, <5>1 DEF KnownIn
        <5> QED BY <3>1, <5>2 DEF Known
      <4> QED BY <4>1, <4>2
    <3>3. KnownIn(given, merge, r, l) = given'[r][l]
      <4>1. CASE r = dst /\ l = leg
        BY <1>7, <1>12, <4>1
      <4>2. CASE r # dst \/ l # leg
        <5>1. KnownIn(given, merge, r, l) = [a \in Aids |-> given[r][l][a]]
          BY <4>2 DEF KnownIn
        <5>2. given'[r][l] = given[r][l] /\ given[r][l] \in Known
          BY <1>4, <1>12, <4>2
        <5> QED BY <5>1, <5>2 DEF Known
      <4> QED BY <4>1, <4>2
    <3> QED BY <3>2, <3>3
  <2> QED BY <2>2, <2>3
<1> QED BY <1>14, <1>15, <1>16 DEF IInv

(* The invariant holds of every behaviour: of counts and of sums, whatever    *)
(* the order of rows, merges and entries of the hash table.                   *)
THEOREM Invariance == Spec => []IInv
<1>1. Init => IInv
  BY Initially
<1>2. IInv /\ [Next]_vars => IInv'
  <2> SUFFICES ASSUME IInv, [Next]_vars PROVE IInv'
    OBVIOUS
  <2>1. CASE \E b \in Buckets, aid \in Aids, value \in Arguments : Transition(b, aid, value)
    BY <2>1, TransitionStep
  <2>2. CASE \E b \in Buckets, value \in Arguments : TransitionWithoutAid(b, value)
    BY <2>2, TransitionWithoutAidStep
  <2>3. CASE \E dst, src \in Buckets : BeginMerge(dst, src)
    BY <2>3, BeginMergeStep
  <2>4. CASE \E aid \in Aids : MergeEntry(aid)
    BY <2>4, MergeEntryStep
  <2>5. CASE EndMerge
    BY <2>5, EndMergeStep
  <2>6. CASE UNCHANGED vars
    <3>1. /\ aggregate' = aggregate /\ state' = state /\ merge' = merge /\ given' = given
          /\ given_nulls' = given_nulls /\ total' = total /\ rows' = rows /\ merges' = merges
      BY <2>6 DEF vars
    <3>2. LegsOf' = LegsOf
      BY <3>1 DEF LegsOf
    <3> QED BY <3>1, <3>2 DEF IInv, TypeOK, MergeInv, TrackersInv
  <2> QED BY <2>1, <2>2, <2>3, <2>4, <2>5, <2>6 DEF Next
<1> QED BY <1>1, <1>2, PTL DEF Spec

(* Contributions stay within the width of the integers, and the trackers keep *)
(* their shape.                                                               *)
THEOREM TypeCorrect == Spec => []TypeOK
<1>1. IInv => TypeOK
  BY DEF IInv
<1> QED BY <1>1, Invariance, PTL

(* The list of top contributors is sorted, without repetition and as long as  *)
(* it can be, also in the middle of a merge and after a sum has wrapped.      *)
THEOREM ListsWellFormed == Spec => []TopWellFormed
<1>1. IInv => TopWellFormed
  <2> SUFFICES ASSUME IInv, NEW b \in Buckets, NEW leg \in LegsOf
               PROVE  LET tracker == state[b][leg]
                          top     == tracker.top
                      IN  /\ \A i, j \in DOMAIN top :
                               i < j => Greater(top[i], top[j]) /\ top[i].aid # top[j].aid
                          /\ \A i \in DOMAIN top : tracker.table[top[i].aid] # NotSeen
                          /\ Len(top) = IF tracker.distinct < tracker.capacity THEN tracker.distinct
                                        ELSE tracker.capacity
    BY DEF TopWellFormed
  <2> DEFINE tracker == state[b][leg]  top == tracker.top
  <2>1. WellFormed(tracker)
    BY DEF IInv, TrackersInv
  <2> HIDE DEF tracker
  <2>2. Sorted(top) /\ Len(top) = IF tracker.distinct < tracker.capacity THEN tracker.distinct
                                  ELSE tracker.capacity
    BY <2>1 DEF WellFormed
  <2>3. \A i \in DOMAIN top : tracker.table[top[i].aid] # NotSeen
    <3>1. \A a : InTop(top, a) => a \in Entries(tracker)
      BY <2>1 DEF WellFormed
    <3> QED BY <3>1 DEF InTop, Entries
  <2> QED BY <2>2, <2>3 DEF Sorted, tracker
<1> QED BY <1>1, Invariance, PTL

(* Whatever the order of rows, merges and hash tables, a tracker only depends *)
(* on the rows it stands for, as long as no sum of an AID wraps.              *)
THEOREM DependsOnRowsOnly == Spec => []TrackerIsSumOfRows
<1>1. IInv => TrackerIsSumOfRows
  <2> SUFFICES ASSUME IInv, NEW b \in Buckets, NEW leg \in LegsOf,
                      ~ Merging(b, leg), NeverWrapped(b, leg)
               PROVE  LET tracker == state[b][leg]
                          known   == given[b][leg]
                          seen    == Seen(known)
                          all     == {[aid |-> a, contribution |-> known[a]] : a \in seen}
                      IN  /\ tracker.table = known
                          /\ tracker.seed = seen
                          /\ tracker.distinct = Cardinality(seen)
                          /\ \A i \in DOMAIN tracker.top :
                               /\ tracker.top[i] \in all
                               /\ \A c \in all : Greater(c, tracker.top[i]) =>
                                                   \E j \in 1 .. (i - 1) : tracker.top[j] = c
    BY DEF TrackerIsSumOfRows
  <2> DEFINE tracker == state[b][leg]
             known   == given[b][leg]
             seen    == Seen(known)
             all     == {[aid |-> a, contribution |-> known[a]] : a \in seen}
             top     == tracker.top
  <2>1. WellFormed(tracker) /\ SumsOf(tracker, KnownIn(given, merge, b, leg)) /\ known \in Known
    BY DEF IInv, TrackersInv, TypeOK, Known
  <2>2. KnownIn(given, merge, b, leg) = known
    BY <2>1 DEF KnownIn, Merging, Known
  <2>3. NoSmallest /\ BelowLimit(known)
    BY DEF NeverWrapped, NoSmallest, BelowLimit
  <2> HIDE DEF tracker, known
  <2>4. /\ \A a \in Aids : known[a] = NotSeen <=> tracker.table[a] = NotSeen
        /\ \A a \in Aids : known[a] # NotSeen => tracker.table[a] = known[a]
        /\ Faithful(tracker)
    BY <2>1, <2>2, <2>3 DEF SumsOf, BelowLimit
  <2>5. /\ tracker \in Tracker /\ tracker.seed = Entries(tracker)
        /\ tracker.distinct = Cardinality(Entries(tracker)) /\ Sorted(top)
        /\ \A a : InTop(top, a) => a \in Entries(tracker)
    BY <2>1 DEF WellFormed
  <2>6. tracker.table = known
    <3>1. tracker.table \in [Aids -> Contribution \cup {NotSeen}]
      BY <2>5 DEF Tracker
    <3>2. \A a \in Aids : tracker.table[a] = known[a]
      BY <2>4
    <3> QED BY <2>1, <3>1, <3>2 DEF Known
  <2>7. Entries(tracker) = seen
    BY <2>6 DEF Entries, Seen
  <2>8. all = {InTable(tracker, a) : a \in Entries(tracker)}
    BY <2>6, <2>7 DEF InTable
  <2>9. ASSUME NEW i \in DOMAIN top
        PROVE  /\ top[i] \in all
               /\ \A c \in all : Greater(c, top[i]) => \E j \in 1 .. (i - 1) : top[j] = c
    <3>0. top \in Seq(Contributor)
      BY <2>5 DEF Tracker
    <3>1. Listed(top, top[i]) /\ InTop(top, top[i].aid) /\ top[i] \in Entry /\ i \in Nat
      <4>1. i \in 1 .. Len(top) /\ Len(top) \in Nat
        BY <3>0, LenProperties
      <4> QED BY <3>0, <4>1, ContributorIsEntry, ElementOfSeq DEF Listed, InTop
    <3>2. top[i] = InTable(tracker, top[i].aid) /\ top[i].aid \in Entries(tracker)
      BY <2>4, <2>5, <3>1 DEF Faithful
    <3>3. top[i] \in all
      BY <2>8, <3>2
    <3>4. ASSUME NEW c \in all, Greater(c, top[i]) PROVE \E j \in 1 .. (i - 1) : top[j] = c
      <4>1. PICK a \in Entries(tracker) : c = InTable(tracker, a)
        BY <2>8
      <4>2. c \in Entry
        <5>1. a \in Aids /\ known[a] \in Int /\ c = [aid |-> a, contribution |-> known[a]]
          BY <2>1, <2>6, <2>7, <4>1 DEF InTable, Known, Entries
        <5> QED BY <5>1, TrackerAssumption DEF TrackerAssumption, Entry
      <4>3. InTop(top, a)
        <5>1. ~ InTop(top, a) => Greater(top[i], c)
          BY <2>4, <3>1, <4>1 DEF Faithful
        <5> QED BY <3>1, <3>4, <4>2, <5>1, GreaterOrder
      <4>4. PICK j \in DOMAIN top : top[j].aid = a
        BY <4>3 DEF InTop
      <4>5. top[j] = c
        <5>1. Listed(top, top[j])
          BY DEF Listed
        <5> QED BY <2>4, <4>1, <4>4, <5>1 DEF Faithful
      <4>6. j \in 1 .. Len(top) /\ i \in 1 .. Len(top) /\ Len(top) \in Nat
        BY <3>0, LenProperties
      <4>7. ~ (i < j) /\ i # j
        <5>1. i < j => Greater(top[i], top[j])
          BY <2>5 DEF Sorted
        <5> QED BY <3>1, <3>4, <4>2, <4>5, <5>1, GreaterOrder
      <4>8. j \in 1 .. (i - 1)
        BY <4>6, <4>7
      <4> QED BY <4>5, <4>8
    <3> QED BY <3>3, <3>4
  <2> HIDE DEF all
  <2> QED BY <2>5, <2>6, <2>7, <2>9 DEF tracker, known, all
<1> QED BY <1>1, Invariance, PTL

-----------------------------------------------------------------------------
(* Sums of the contributions of finitely many AIDs.                        *)

\* An arbitrary AID of a set, and what a fold over the set does.
Some(S) == CHOOSE a \in S : TRUE

Folded(known, iter, S) == IF S = {} THEN 0 ELSE iter[S \ {Some(S)}] + known[Some(S)]

IsFold(known, T, iter) == iter = [S \in SUBSET T |-> Folded(known, iter, S)]

SumOver(known, T) == FoldSet(LAMBDA a, sum : sum + known[a], 0, T)

(* Taking an element out of a finite set makes it smaller. *)
LEMMA SomeTaken ==
  ASSUME NEW S, IsFiniteSet(S), S # {}
  PROVE  /\ Some(S) \in S
         /\ IsFiniteSet(S \ {Some(S)})
         /\ Cardinality(S) \in Nat /\ Cardinality(S \ {Some(S)}) = Cardinality(S) - 1
<1>1. Some(S) \in S
  BY DEF Some
<1> QED BY <1>1, FS_RemoveElement, FS_CardinalityType

(* The recursive function a fold is defined by exists, as the set is finite. *)
LEMMA FoldExists ==
  ASSUME NEW T, IsFiniteSet(T), NEW known
  PROVE  \E iter : IsFold(known, T, iter)
<1> DEFINE IsUpTo(f, n) == \A S \in SUBSET T : Cardinality(S) < n => f[S] = Folded(known, f, S)
           P == {n \in Nat : \E f : IsUpTo(f, n)}
           Step(f) == [S \in SUBSET T |-> Folded(known, f, S)]
<1>1. \A S \in SUBSET T : IsFiniteSet(S) /\ Cardinality(S) \in Nat
  BY FS_Subset, FS_CardinalityType
<1>2. ASSUME NEW S \in SUBSET T, NEW f, NEW h, S # {} => f[S \ {Some(S)}] = h[S \ {Some(S)}]
      PROVE  Folded(known, f, S) = Folded(known, h, S)
  BY <1>2 DEF Folded
<1>3. 0 \in P
  <2>1. IsUpTo([S \in {} |-> 0], 0)
    BY <1>1
  <2> QED BY <2>1
<1>4. ASSUME NEW n \in Nat, n \in P PROVE n + 1 \in P
  <2>1. PICK f : IsUpTo(f, n)
    BY <1>4
  <2> DEFINE h == Step(f)
  <2>2. \A S \in SUBSET T : h[S] = Folded(known, f, S)
    OBVIOUS
  <2> HIDE DEF h
  <2>3. ASSUME NEW S \in SUBSET T, Cardinality(S) < n + 1 PROVE h[S] = Folded(known, h, S)
    <3>1. ASSUME S # {} PROVE f[S \ {Some(S)}] = h[S \ {Some(S)}]
      <4> DEFINE R == S \ {Some(S)}
      <4>1. R \in SUBSET T /\ Cardinality(R) < n
        BY <1>1, <2>3, <3>1, SomeTaken
      <4> QED BY <2>1, <2>2, <4>1
    <3> QED BY <1>2, <2>2, <3>1
  <2>4. IsUpTo(h, n + 1)
    BY <2>3
  <2> QED BY <2>4
<1> HIDE DEF P
<1>5. Nat \subseteq P
  BY <1>3, <1>4, SetInduction
<1>6. Cardinality(T) + 1 \in P
  BY <1>1, <1>5
<1>7. PICK f : IsUpTo(f, Cardinality(T) + 1)
  BY <1>6 DEF P
<1> DEFINE g == [S \in SUBSET T |-> f[S]]
<1>8. ASSUME NEW S \in SUBSET T PROVE g[S] = Folded(known, g, S)
  <2>1. Cardinality(S) < Cardinality(T) + 1
    BY <1>1, FS_Subset
  <2>2. f[S] = Folded(known, f, S)
    BY <1>7, <2>1
  <2>3. S \ {Some(S)} \in SUBSET T
    OBVIOUS
  <2>4. Folded(known, f, S) = Folded(known, g, S)
    BY <2>3 DEF Folded
  <2> QED BY <2>2, <2>4
<1>9. g = Step(g)
  BY <1>8
<1> HIDE DEF g
<1> QED BY <1>9 DEF IsFold

(* Folds over a set and over its subsets agree. *)
LEMMA FoldsAgree ==
  ASSUME NEW T, IsFiniteSet(T), NEW U \in SUBSET T, NEW known,
         NEW f, IsFold(known, T, f), NEW g, IsFold(known, U, g)
  PROVE  \A S \in SUBSET U : f[S] = g[S]
<1> DEFINE P == {n \in Nat : \A S \in SUBSET U : Cardinality(S) = n => f[S] = g[S]}
<1>1. \A S \in SUBSET U : IsFiniteSet(S) /\ Cardinality(S) \in Nat
  BY FS_Subset, FS_CardinalityType
<1>2. \A S \in SUBSET U : f[S] = Folded(known, f, S) /\ g[S] = Folded(known, g, S)
  <2>1. SUBSET U \subseteq SUBSET T
    OBVIOUS
  <2> QED BY <2>1, Zenon DEF IsFold
<1>3. 0 \in P
  <2> SUFFICES ASSUME NEW S \in SUBSET U, Cardinality(S) = 0 PROVE f[S] = g[S]
    OBVIOUS
  <2>1. S = {}
    BY <1>1, FS_EmptySet
  <2> QED BY <1>2, <2>1 DEF Folded
<1>4. ASSUME NEW n \in Nat, n \in P PROVE n + 1 \in P
  <2> SUFFICES ASSUME NEW S \in SUBSET U, Cardinality(S) = n + 1 PROVE f[S] = g[S]
    OBVIOUS
  <2> DEFINE R == S \ {Some(S)}
  <2>1. S # {}
    BY FS_EmptySet
  <2>2. R \in SUBSET U /\ Cardinality(R) = n
    BY <1>1, <2>1, SomeTaken
  <2>3. f[R] = g[R]
    BY <1>4, <2>2
  <2> QED BY <1>2, <2>1, <2>3 DEF Folded
<1> HIDE DEF P
<1>5. Nat \subseteq P
  BY <1>3, <1>4, SetInduction
<1> QED BY <1>1, <1>5 DEF P

(* One turn of the fold. *)
LEMMA SumUnfolds ==
  ASSUME NEW S, IsFiniteSet(S), NEW known
  PROVE  SumOver(known, S) = IF S = {} THEN 0 ELSE SumOver(known, S \ {Some(S)}) + known[Some(S)]
<1> DEFINE F(T) == CHOOSE iter : IsFold(known, T, iter)
<1>1. \A T : IsFiniteSet(T) => IsFold(known, T, F(T))
  BY FoldExists
<1>2. \A T : SumOver(known, T) = F(T)[T]
  BY DEF SumOver, FoldSet, MapThenFoldSet, IsFold, Folded, Some
<1> HIDE DEF F
<1>3. F(S)[S] = Folded(known, F(S), S)
  BY <1>1, Zenon DEF IsFold
<1>4. CASE S # {}
  <2> DEFINE R == S \ {Some(S)}
  <2>1. IsFiniteSet(R) /\ R \in SUBSET S
    BY <1>4, SomeTaken
  <2>2. F(S)[R] = F(R)[R]
    BY <1>1, <2>1, FoldsAgree
  <2> QED BY <1>2, <1>3, <1>4, <2>2 DEF Folded
<1>5. CASE S = {}
  BY <1>2, <1>3, <1>5 DEF Folded
<1> QED BY <1>4, <1>5

(* Integers add up to one. *)
LEMMA SumIsInteger ==
  ASSUME NEW S, IsFiniteSet(S), NEW known, \A a \in S : known[a] \in Int
  PROVE  SumOver(known, S) \in Int
<1> DEFINE P == {n \in Nat : \A T \in SUBSET S : Cardinality(T) = n => SumOver(known, T) \in Int}
<1>1. \A T \in SUBSET S : IsFiniteSet(T) /\ Cardinality(T) \in Nat
  BY FS_Subset, FS_CardinalityType
<1>2. 0 \in P
  <2> SUFFICES ASSUME NEW T \in SUBSET S, Cardinality(T) = 0 PROVE SumOver(known, T) \in Int
    OBVIOUS
  <2>1. T = {}
    BY <1>1, FS_EmptySet
  <2> QED BY <1>1, <2>1, SumUnfolds
<1>3. ASSUME NEW n \in Nat, n \in P PROVE n + 1 \in P
  <2> SUFFICES ASSUME NEW T \in SUBSET S, Cardinality(T) = n + 1 PROVE SumOver(known, T) \in Int
    OBVIOUS
  <2> DEFINE R == T \ {Some(T)}
  <2>1. T # {}
    BY FS_EmptySet
  <2>2. R \in SUBSET S /\ Cardinality(R) = n /\ Some(T) \in S
    BY <1>1, <2>1, SomeTaken
  <2>3. SumOver(known, R) \in Int /\ known[Some(T)] \in Int
    BY <1>3, <2>2
  <2>4. SumOver(known, T) = SumOver(known, R) + known[Some(T)]
    BY <1>1, <2>1, SumUnfolds
  <2> QED BY <2>3, <2>4
<1> HIDE DEF P
<1>4. Nat \subseteq P
  BY <1>2, <1>3, SetInduction
<1> QED BY <1>1, <1>4 DEF P

(* Any element may be taken out of a sum, not only the one the fold chooses. *)
LEMMA SumWithout ==
  ASSUME NEW S, IsFiniteSet(S), NEW known, \A a \in S : known[a] \in Int, NEW x \in S
  PROVE  SumOver(known, S) = SumOver(known, S \ {x}) + known[x]
<1> DEFINE Splits(T) == \A y \in T : SumOver(known, T) = SumOver(known, T \ {y}) + known[y]
           P == {n \in Nat : \A T \in SUBSET S : Cardinality(T) = n => Splits(T)}
<1>1. \A T \in SUBSET S : IsFiniteSet(T) /\ Cardinality(T) \in Nat /\ SumOver(known, T) \in Int
  <2> SUFFICES ASSUME NEW T \in SUBSET S
               PROVE  IsFiniteSet(T) /\ Cardinality(T) \in Nat /\ SumOver(known, T) \in Int
    OBVIOUS
  <2>1. IsFiniteSet(T) /\ Cardinality(T) \in Nat
    BY FS_Subset, FS_CardinalityType
  <2> QED BY <2>1, SumIsInteger
<1>2. 0 \in P
  <2> SUFFICES ASSUME NEW T \in SUBSET S, Cardinality(T) = 0 PROVE T = {}
    OBVIOUS
  <2> QED BY <1>1, FS_EmptySet
<1>3. ASSUME NEW n \in Nat, n \in P PROVE n + 1 \in P
  <2> SUFFICES ASSUME NEW T \in SUBSET S, Cardinality(T) = n + 1, NEW y \in T
               PROVE  SumOver(known, T) = SumOver(known, T \ {y}) + known[y]
    OBVIOUS
  <2> DEFINE z == Some(T)
  <2>1. z \in T /\ Cardinality(T \ {z}) = n
    BY <1>1, SomeTaken
  <2>2. SumOver(known, T) = SumOver(known, T \ {z}) + known[z]
    BY <1>1, SumUnfolds
  <2> HIDE DEF z
  <2>3. CASE y = z
    BY <2>2, <2>3
  <2>4. CASE y # z
    <3>1. Splits(T \ {z})
      BY <1>3, <2>1
    <3>2. SumOver(known, T \ {z}) = SumOver(known, (T \ {z}) \ {y}) + known[y]
      BY <2>4, <3>1
    <3>3. Cardinality(T \ {y}) = n /\ z \in T \ {y}
      BY <1>1, <2>1, <2>4, FS_RemoveElement
    <3>4. Splits(T \ {y})
      BY <1>3, <3>3
    <3>5. SumOver(known, T \ {y}) = SumOver(known, (T \ {y}) \ {z}) + known[z]
      BY <3>3, <3>4
    <3>6. (T \ {y}) \ {z} = (T \ {z}) \ {y}
      OBVIOUS
    <3> DEFINE rest == SumOver(known, (T \ {z}) \ {y})
    <3>7. rest \in Int /\ known[y] \in Int /\ known[z] \in Int
      BY <1>1, <2>1
    <3> HIDE DEF rest
    <3>8. SumOver(known, T) = (rest + known[y]) + known[z] /\ SumOver(known, T \ {y}) = rest + known[z]
      BY <2>2, <3>2, <3>5, <3>6 DEF rest
    <3> QED BY <3>7, <3>8
  <2> QED BY <2>3, <2>4
<1> HIDE DEF P
<1>4. Nat \subseteq P
  BY <1>2, <1>3, SetInduction
<1>5. Splits(S)
  BY <1>1, <1>4 DEF P
<1> QED BY <1>5

(* A sum depends on the contributions of its AIDs only. *)
LEMMA SumsAgree ==
  ASSUME NEW S, IsFiniteSet(S), NEW known, NEW more, \A a \in S : known[a] = more[a]
  PROVE  SumOver(known, S) = SumOver(more, S)
<1> DEFINE P == {n \in Nat : \A T \in SUBSET S : Cardinality(T) = n => SumOver(known, T) = SumOver(more, T)}
<1>1. \A T \in SUBSET S : IsFiniteSet(T) /\ Cardinality(T) \in Nat
  BY FS_Subset, FS_CardinalityType
<1>2. 0 \in P
  <2> SUFFICES ASSUME NEW T \in SUBSET S, Cardinality(T) = 0 PROVE SumOver(known, T) = SumOver(more, T)
    OBVIOUS
  <2>1. T = {}
    BY <1>1, FS_EmptySet
  <2> QED BY <1>1, <2>1, SumUnfolds
<1>3. ASSUME NEW n \in Nat, n \in P PROVE n + 1 \in P
  <2> SUFFICES ASSUME NEW T \in SUBSET S, Cardinality(T) = n + 1 PROVE SumOver(known, T) = SumOver(more, T)
    OBVIOUS
  <2> DEFINE z == Some(T)
  <2>1. T # {}
    BY FS_EmptySet
  <2>2. T \ {z} \in SUBSET S /\ Cardinality(T \ {z}) = n /\ z \in S
    BY <1>1, <2>1, SomeTaken
  <2>3. SumOver(known, T \ {z}) = SumOver(more, T \ {z}) /\ known[z] = more[z]
    BY <1>3, <2>2
  <2>4. /\ SumOver(known, T) = SumOver(known, T \ {z}) + known[z]
        /\ SumOver(more, T) = SumOver(more, T \ {z}) + more[z]
    BY <1>1, <2>1, SumUnfolds
  <2> QED BY <2>3, <2>4
<1> HIDE DEF P
<1>4. Nat \subseteq P
  BY <1>2, <1>3, SetInduction
<1> QED BY <1>1, <1>4 DEF P

(* AllOf is such a sum. *)
LEMMA AllOfIsSum ==
  ASSUME NEW known
  PROVE  AllOf(known) = SumOver(known, Seen(known))
BY DEF AllOf, SumOver

(* Nobody has contributed anything. *)
LEMMA AllOfNothing ==
  ASSUME NEW known, \A a \in Aids : known[a] = NotSeen
  PROVE  AllOf(known) = 0 /\ Seen(known) = {}
<1>1. Seen(known) = {} /\ IsFiniteSet({})
  BY FS_EmptySet DEF Seen
<1> QED BY <1>1, AllOfIsSum, SumUnfolds

(* The contributions of finitely many AIDs add up to an integer. *)
LEMMA AllOfIsInteger ==
  ASSUME NEW known \in Known, IsFiniteSet(Seen(known))
  PROVE  AllOf(known) \in Int
<1>1. \A a \in Seen(known) : known[a] \in Int
  BY DEF Seen, Known
<1> QED BY <1>1, AllOfIsSum, SumIsInteger

(* What one AID contributes in addition is added to the contributions of all. *)
LEMMA AllOfGrows ==
  ASSUME NEW known \in Known, IsFiniteSet(Seen(known)), NEW aid \in Aids, NEW s \in Int \cup {NotSeen},
         NEW more \in Known, more[aid] = Plus(known[aid], s),
         \A a \in Aids \ {aid} : more[a] = known[a]
  PROVE  /\ IsFiniteSet(Seen(more))
         /\ AllOf(more) = AllOf(known) + Plus(0, s)
<1>1. NotSeen \notin Int
  BY TrackerAssumption DEF TrackerAssumption
<1>2. \A a \in Aids : known[a] \in Int \cup {NotSeen} /\ more[a] \in Int \cup {NotSeen}
  BY DEF Known
<1>3. AllOf(known) \in Int
  BY AllOfIsInteger
<1>4. CASE s = NotSeen
  <2>1. \A a \in Aids : more[a] = known[a]
    BY <1>1, <1>2, <1>4 DEF Plus
  <2>2. more = known
    BY <2>1 DEF Known
  <2> QED BY <1>1, <1>3, <1>4, <2>2 DEF Plus
<1>5. CASE s # NotSeen
  <2> DEFINE S == Seen(known) \cup {aid}
  <2>1. more[aid] = (IF known[aid] = NotSeen THEN s ELSE known[aid] + s) /\ Plus(0, s) = s /\ s \in Int
    BY <1>1, <1>2, <1>5 DEF Plus
  <2>2. Seen(more) = S
    BY <1>1, <1>2, <2>1 DEF Seen
  <2>3. IsFiniteSet(S) /\ IsFiniteSet(S \ {aid})
    BY FS_AddElement, FS_Subset
  <2>4. \A a \in S : more[a] \in Int
    BY <1>2, <2>2 DEF Seen
  <2> DEFINE rest == SumOver(known, S \ {aid})
  <2>5. SumOver(more, S) = SumOver(more, S \ {aid}) + more[aid]
    BY <2>3, <2>4, SumWithout
  <2>6. SumOver(more, S \ {aid}) = rest
    <3>1. \A a \in S \ {aid} : more[a] = known[a]
      BY DEF Seen
    <3> HIDE DEF S
    <3> QED BY <2>3, <3>1, SumsAgree
  <2>7. rest \in Int
    <3>1. \A a \in S \ {aid} : known[a] \in Int
      BY <1>2 DEF Seen
    <3> HIDE DEF S
    <3> QED BY <2>3, <3>1, SumIsInteger
  <2>8. AllOf(known) = IF known[aid] = NotSeen THEN rest ELSE rest + known[aid]
    <3>1. CASE known[aid] = NotSeen
      <4>1. S \ {aid} = Seen(known)
        BY <3>1 DEF Seen
      <4> QED BY <3>1, <4>1, AllOfIsSum
    <3>2. CASE known[aid] # NotSeen
      <4>1. S = Seen(known) /\ aid \in Seen(known) /\ \A a \in Seen(known) : known[a] \in Int
        BY <1>2, <3>2 DEF Seen
      <4> QED BY <3>2, <4>1, AllOfIsSum, SumWithout
    <3> QED BY <3>1, <3>2
  <2>9. AllOf(more) = rest + more[aid]
    BY <2>2, <2>5, <2>6, AllOfIsSum
  <2>10. known[aid] \in Int \cup {NotSeen}
    BY <1>2
  <2> HIDE DEF rest, S
  <2>11. AllOf(more) = AllOf(known) + s
    BY <2>1, <2>7, <2>8, <2>9, <2>10
  <2> QED BY <2>1, <2>2, <2>3, <2>11
<1> QED BY <1>4, <1>5

(* The contributions of all AIDs to two trackers. *)
LEMMA AllOfBoth ==
  ASSUME NEW f \in Known, NEW g \in Known, IsFiniteSet(Seen(f)), IsFiniteSet(Seen(g)),
         NEW both \in Known, \A a \in Aids : both[a] = Plus(f[a], g[a])
  PROVE  AllOf(both) = AllOf(f) + AllOf(g) /\ IsFiniteSet(Seen(both))
<1> DEFINE Adds(h) == \A sum \in Known : (\A a \in Aids : sum[a] = Plus(f[a], h[a])) =>
                        IsFiniteSet(Seen(sum)) /\ AllOf(sum) = AllOf(f) + AllOf(h)
           P == {n \in Nat : \A h \in Known : IsFiniteSet(Seen(h)) /\ Cardinality(Seen(h)) = n => Adds(h)}
<1>1. NotSeen \notin Int
  BY TrackerAssumption DEF TrackerAssumption
<1>2. AllOf(f) \in Int
  BY AllOfIsInteger
<1>3. 0 \in P
  <2> SUFFICES ASSUME NEW h \in Known, IsFiniteSet(Seen(h)), Cardinality(Seen(h)) = 0,
                      NEW sum \in Known, \A a \in Aids : sum[a] = Plus(f[a], h[a])
               PROVE  IsFiniteSet(Seen(sum)) /\ AllOf(sum) = AllOf(f) + AllOf(h)
    OBVIOUS
  <2>1. \A a \in Aids : h[a] = NotSeen
    BY FS_EmptySet DEF Seen
  <2>2. AllOf(h) = 0
    BY <2>1, AllOfNothing
  <2>3. sum = f
    <3>1. \A a \in Aids : sum[a] = f[a]
      BY <2>1 DEF Plus, Known
    <3> QED BY <3>1 DEF Known
  <2> QED BY <1>2, <2>2, <2>3
<1>4. ASSUME NEW n \in Nat, n \in P PROVE n + 1 \in P
  <2> SUFFICES ASSUME NEW h \in Known, IsFiniteSet(Seen(h)), Cardinality(Seen(h)) = n + 1,
                      NEW sum \in Known, \A a \in Aids : sum[a] = Plus(f[a], h[a])
               PROVE  IsFiniteSet(Seen(sum)) /\ AllOf(sum) = AllOf(f) + AllOf(h)
    OBVIOUS
  <2>1. PICK x \in Seen(h) : TRUE
    BY FS_EmptySet
  <2>2. x \in Aids /\ h[x] \in Int
    BY <2>1 DEF Seen, Known
  <2> DEFINE less == [a \in Aids |-> IF a = x THEN NotSeen ELSE h[a]]
             part == [a \in Aids |-> IF a = x THEN f[x] ELSE sum[a]]
  <2>3. /\ less \in Known /\ less[x] = NotSeen
        /\ \A a \in Aids \ {x} : less[a] = h[a]
    BY <2>2 DEF Known
  <2>4. /\ part \in Known /\ part[x] = f[x]
        /\ \A a \in Aids \ {x} : part[a] = sum[a]
    BY <2>2 DEF Known
  <2> HIDE DEF less, part
  <2>5. Seen(less) = Seen(h) \ {x}
    BY <2>3 DEF Seen
  <2>6. IsFiniteSet(Seen(less)) /\ Cardinality(Seen(less)) = n
    <3>1. IsFiniteSet(Seen(h) \ {x}) /\ Cardinality(Seen(h) \ {x}) = Cardinality(Seen(h)) - 1
      BY <2>1, FS_RemoveElement
    <3> QED BY <2>5, <3>1
  <2>7. Adds(less)
    BY <1>4, <2>3, <2>6
  <2>8. \A a \in Aids : part[a] = Plus(f[a], less[a])
    <3>1. part[x] = Plus(f[x], less[x])
      BY <2>3, <2>4 DEF Plus
    <3> QED BY <2>3, <2>4, <3>1
  <2>9. IsFiniteSet(Seen(part)) /\ AllOf(part) = AllOf(f) + AllOf(less)
    BY <2>4, <2>7, <2>8
  <2>10. AllOf(h) = AllOf(less) + h[x]
    <3>1. h[x] = Plus(less[x], h[x]) /\ Plus(0, h[x]) = h[x]
      BY <1>1, <2>2, <2>3 DEF Plus
    <3> QED BY <2>2, <2>3, <2>6, <3>1, AllOfGrows
  <2>11. IsFiniteSet(Seen(sum)) /\ AllOf(sum) = AllOf(part) + h[x]
    <3>1. sum[x] = Plus(part[x], h[x]) /\ Plus(0, h[x]) = h[x]
      BY <1>1, <2>2, <2>4 DEF Plus
    <3> QED BY <2>2, <2>4, <2>9, <3>1, AllOfGrows
  <2>12. AllOf(less) \in Int
    BY <2>3, <2>6, AllOfIsInteger
  <2> QED BY <1>2, <2>2, <2>9, <2>10, <2>11, <2>12
<1> HIDE DEF P
<1>5. Nat \subseteq P
  BY <1>3, <1>4, SetInduction
<1>6. Cardinality(Seen(g)) \in P
  BY <1>5, FS_CardinalityType
<1>7. Adds(g)
  BY <1>6 DEF P
<1> QED BY <1>7

-----------------------------------------------------------------------------
(* Integers that wrap around.                                              *)

\* Equal but for whole turns.
Congruent(x, y) == \E turns \in Int : x = y + turns * (2 * IntLimit)

(* Congruence is an equivalence. *)
LEMMA CongruentIsEquivalence ==
  ASSUME NEW x \in Int, NEW y \in Int, NEW z \in Int
  PROVE  /\ Congruent(x, x)
         /\ Congruent(x, y) => Congruent(y, x)
         /\ Congruent(x, y) /\ Congruent(y, z) => Congruent(x, z)
<1>1. IntLimit \in Int
  BY TrackerAssumption DEF TrackerAssumption
<1> DEFINE n == 2 * IntLimit
<1>2. n \in Int
  BY <1>1
<1> HIDE DEF n
<1>3. Congruent(x, x)
  <2>1. x = x + 0 * n
    BY <1>2
  <2> QED BY <2>1 DEF Congruent, n
<1>4. ASSUME Congruent(x, y) PROVE Congruent(y, x)
  <2>1. PICK k \in Int : x = y + k * n
    BY <1>4 DEF Congruent, n
  <2>2. y = x + (0 - k) * n /\ 0 - k \in Int
    BY <1>2, <2>1
  <2> QED BY <2>2 DEF Congruent, n
<1>5. ASSUME Congruent(x, y), Congruent(y, z) PROVE Congruent(x, z)
  <2>1. PICK k \in Int : x = y + k * n
    BY <1>5 DEF Congruent, n
  <2>2. PICK l \in Int : y = z + l * n
    BY <1>5 DEF Congruent, n
  <2>3. x = z + (k + l) * n /\ k + l \in Int
    BY <1>2, <2>1, <2>2
  <2> QED BY <2>3 DEF Congruent, n
<1> QED BY <1>3, <1>4, <1>5

(* Sums and differences keep it. *)
LEMMA CongruentSums ==
  ASSUME NEW x \in Int, NEW y \in Int, NEW v \in Int, NEW w \in Int,
         Congruent(x, y), Congruent(v, w)
  PROVE  Congruent(x + v, y + w) /\ Congruent(x - v, y - w)
<1> DEFINE n == 2 * IntLimit
<1>1. n \in Int
  BY TrackerAssumption DEF TrackerAssumption
<1> HIDE DEF n
<1>2. PICK k \in Int : x = y + k * n
  BY DEF Congruent, n
<1>3. PICK l \in Int : v = w + l * n
  BY DEF Congruent, n
<1>4. /\ x + v = (y + w) + (k + l) * n /\ k + l \in Int
      /\ x - v = (y - w) + (k - l) * n /\ k - l \in Int
  BY <1>1, <1>2, <1>3
<1> QED BY <1>4 DEF Congruent, n

(* integer_contribution_combine adds, but for whole turns. *)
LEMMA CombineIsSum ==
  ASSUME NEW x \in Int, NEW y \in Int
  PROVE  Combine(x, y) \in Contribution /\ Congruent(Combine(x, y), x + y)
<1> DEFINE n == 2 * IntLimit
           z == x + y + IntLimit
<1>1. IntLimit \in Nat \ {0, 1}
  BY TrackerAssumption DEF TrackerAssumption
<1>2. n \in Nat \ {0} /\ z \in Int
  BY <1>1
<1> HIDE DEF n, z
<1>3. z % n \in 0 .. n - 1 /\ z \div n \in Int /\ z = n * (z \div n) + (z % n)
  BY <1>2
<1>4. Combine(x, y) = (z % n) - IntLimit
  BY DEF Combine, n, z
<1>5. Combine(x, y) \in Contribution
  BY <1>1, <1>3, <1>4 DEF Contribution, n
<1>6. Combine(x, y) = (x + y) + (0 - (z \div n)) * n /\ 0 - (z \div n) \in Int
  <2>1. z = x + y + IntLimit
    BY DEF z
  <2> QED BY <1>1, <1>2, <1>3, <1>4, <2>1
<1> QED BY <1>5, <1>6 DEF Congruent, n

(* So what is combined stays congruent to what is added. *)
LEMMA CombineIsCongruent ==
  ASSUME NEW x \in Int, NEW y \in Int, NEW v \in Int, NEW w \in Int,
         Congruent(x, y), Congruent(v, w)
  PROVE  Combine(x, v) \in Contribution /\ Congruent(Combine(x, v), y + w)
<1> DEFINE c == Combine(x, v)  sum == x + v  total_ == y + w
<1>1. c \in Contribution /\ Congruent(c, sum)
  BY CombineIsSum
<1>2. Congruent(sum, total_)
  BY CongruentSums
<1>3. c \in Int /\ sum \in Int /\ total_ \in Int
  BY <1>1, TrackerAssumption DEF TrackerAssumption, Contribution
<1> HIDE DEF c, sum, total_
<1>4. Congruent(c, total_)
  BY <1>1, <1>2, <1>3, CongruentIsEquivalence
<1> QED BY <1>1, <1>4 DEF c, total_

(* Congruent contributions are equal. *)
LEMMA CongruentIsEqual ==
  ASSUME NEW x \in Contribution, NEW y \in Contribution, Congruent(x, y)
  PROVE  x = y
<1> DEFINE n == 2 * IntLimit
<1>1. IntLimit \in Nat \ {0, 1}
  BY TrackerAssumption DEF TrackerAssumption
<1>2. PICK k \in Int : x = y + k * n
  BY DEF Congruent
<1>3. x \in Int /\ y \in Int /\ 0 - n < x - y /\ x - y < n /\ n \in Nat \ {0}
  BY <1>1 DEF Contribution
<1> HIDE DEF n
<1>4. ~ (k >= 1) /\ ~ (k <= -1)
  <2>1. k >= 1 => k * n >= n
    BY <1>3
  <2>2. k <= -1 => k * n <= 0 - n
    BY <1>3
  <2>3. k * n \in Int
    BY <1>3
  <2> QED BY <1>2, <1>3, <2>1, <2>2, <2>3
<1>5. k = 0
  BY <1>4
<1> QED BY <1>2, <1>3, <1>5

(* Wrapping picks the contribution that is congruent. *)
LEMMA WrappedProperties ==
  ASSUME NEW x \in Int, NEW y \in Int
  PROVE  /\ Wrapped(x) \in Contribution
         /\ Congruent(x, y) => Wrapped(x) = Wrapped(y)
         /\ x \in Contribution /\ Congruent(x, y) => x = Wrapped(y)
<1>1. Contribution \subseteq Int
  BY TrackerAssumption DEF TrackerAssumption, Contribution
<1>2. /\ Wrapped(x) \in Contribution /\ Wrapped(y) \in Contribution
      /\ Congruent(Wrapped(x), x) /\ Congruent(Wrapped(y), y)
  BY CombineIsSum DEF Wrapped
<1> HIDE DEF Contribution
<1>3. ASSUME Congruent(x, y) PROVE Wrapped(x) = Wrapped(y)
  <2>1. Congruent(Wrapped(x), y) /\ Congruent(y, Wrapped(y))
    BY <1>1, <1>2, <1>3, CongruentIsEquivalence
  <2>2. Congruent(Wrapped(x), Wrapped(y))
    BY <1>1, <1>2, <2>1, CongruentIsEquivalence
  <2> QED BY <1>2, <2>2, CongruentIsEqual
<1>4. ASSUME x \in Contribution, Congruent(x, y) PROVE x = Wrapped(y)
  <2>1. Congruent(x, Wrapped(y))
    BY <1>1, <1>2, <1>4, CongruentIsEquivalence
  <2> QED BY <1>2, <1>4, <2>1, CongruentIsEqual
<1> QED BY <1>2, <1>3, <1>4

-----------------------------------------------------------------------------
(* Every row is accounted for.                                             *)

\* What is known of its rows is in the sums of a tracker, but for whole turns.
Accounted(tracker, known, nulls) ==
  /\ \A a \in Entries(tracker) : Congruent(tracker.table[a], known[a])
  /\ Congruent(tracker.overall, AllOf(known))
  /\ Congruent(tracker.unaccounted, nulls)

\* The rows of a leg, with and without AIDs.
RowsIn(legs, given_, nulls_, b, leg) ==
  IF leg \in legs THEN AllOf(given_[b][leg]) + nulls_[b][leg] ELSE 0

\* The legs of a sum are merged one after the other: what a bucket is ahead in
\* between.
Ahead(legs, given_, nulls_, merge_, b) ==
  IF merge_ # NoMerge /\ merge_.leg = "negative" /\ merge_.dst = b
  THEN RowsIn(legs, given_, nulls_, merge_.src, "positive") ELSE 0

Balanced(legs, given_, nulls_, merge_, sum, b) ==
  Congruent(RowsIn(legs, given_, nulls_, b, "positive") - RowsIn(legs, given_, nulls_, b, "negative"),
            sum + Ahead(legs, given_, nulls_, merge_, b))

AccountInv ==
  /\ \A b \in Buckets, leg \in LegsOf :
       Accounted(state[b][leg], KnownIn(given, merge, b, leg), given_nulls[b][leg])
  /\ \A b \in Buckets : Balanced(LegsOf, given, given_nulls, merge, total[b], b)

\* What a row adds to a leg.
Share(leg, value) == IF leg \in LegsOf THEN Plus(0, LegContribution(leg, value)) ELSE 0

(* A row adds its value to one leg, a zero to both, a NULL to none.  The       *)
(* smallest integer has no absolute value: it is a whole turn away.           *)
LEMMA LegsMakeUpTheRow ==
  ASSUME aggregate \in Aggregates, NEW value \in Arguments
  PROVE  /\ Share("positive", value) \in Int /\ Share("negative", value) \in Int
         /\ Amount(value) \in Int
         /\ Congruent(Share("positive", value) - Share("negative", value), Amount(value))
<1>1. /\ Summands \subseteq (0 - IntLimit) .. (IntLimit - 1) /\ IntLimit \in Nat \ {0, 1}
      /\ NullValue \notin Int /\ aggregate \in {"count", "sum"} /\ NotSeen \notin Int
  BY TrackerAssumption DEF TrackerAssumption
<1>2. CASE aggregate = "count"
  <2>1. LegsOf = {"positive"} /\ value \in {1, NullValue}
    BY <1>2 DEF LegsOf, Arguments
  <2>2. Share("positive", value) = Amount(value) /\ Share("negative", value) = 0
    BY <1>1, <1>2, <2>1 DEF Share, Plus, LegContribution, Amount
  <2>3. Amount(value) \in Int
    BY <1>1, <2>1 DEF Amount
  <2> QED BY <2>2, <2>3, CongruentIsEquivalence
<1>3. CASE aggregate = "sum"
  <2>1. LegsOf = {"positive", "negative"} /\ value \in Summands \cup {NullValue}
    BY <1>3 DEF LegsOf, Legs, Arguments
  <2>2. CASE value = NullValue
    <3>1. Share("positive", value) = 0 /\ Share("negative", value) = 0 /\ Amount(value) = 0
      BY <1>1, <1>3, <2>1, <2>2 DEF Share, Plus, LegContribution, Amount
    <3> QED BY <3>1, CongruentIsEquivalence
  <2>3. CASE value # NullValue
    <3>1. value \in Int /\ Amount(value) = value /\ value >= 0 - IntLimit
      BY <1>1, <2>1, <2>3 DEF Amount
    <3>2. Abs(value) \in Int /\ Abs(value) # NotSeen
      BY <1>1, <3>1 DEF Abs
    <3>3. /\ Share("positive", value) = IF value >= 0 THEN Abs(value) ELSE 0
          /\ Share("negative", value) = IF value <= 0 THEN Abs(value) ELSE 0
      BY <1>1, <1>3, <2>1, <2>3, <3>1, <3>2 DEF Share, Plus, LegContribution
    <3>4. CASE value = 0 - IntLimit
      <4>1. /\ Share("positive", value) = 0 /\ Share("negative", value) = 0 - IntLimit
            /\ 0 - (0 - IntLimit) = (0 - IntLimit) + 1 * (2 * IntLimit)
        BY <1>1, <3>1, <3>3, <3>4 DEF Abs
      <4> QED BY <1>1, <3>1, <3>4, <4>1 DEF Congruent
    <3>5. CASE value # 0 - IntLimit
      <4>1. Share("positive", value) - Share("negative", value) = value
        BY <1>1, <3>1, <3>3, <3>5 DEF Abs
      <4> QED BY <3>1, <3>2, <3>3, <4>1, CongruentIsEquivalence
    <3> QED BY <3>4, <3>5
  <2> QED BY <2>2, <2>3
<1> QED BY <1>1, <1>2, <1>3

(* contribution_tracker_update_contribution: s in truth, x as it wraps. *)
LEMMA UpdateAccounts ==
  ASSUME NEW tracker \in Tracker, NEW known \in Known, NEW nulls, Accounted(tracker, known, nulls),
         IsFiniteSet(Entries(tracker)), Seen(known) = Entries(tracker),
         NEW aid \in Aids, NEW x \in Contribution, NEW s \in Int, Congruent(x, s),
         NEW more \in Known, more[aid] = Plus(known[aid], s),
         \A a \in Aids \ {aid} : more[a] = known[a]
  PROVE  Accounted(UpdateContribution(tracker, aid, x), more, nulls)
<1> DEFINE c == Updated(tracker, aid, x)  u == UpdateContribution(tracker, aid, x)
<1>1. /\ c.contribution = IF tracker.table[aid] = NotSeen THEN x ELSE Combine(tracker.table[aid], x)
      /\ u.overall = Combine(tracker.overall, x)
      /\ u.table[aid] = c.contribution
      /\ \A a \in Aids \ {aid} : u.table[a] = tracker.table[a]
      /\ u.unaccounted = tracker.unaccounted
      /\ Entries(u) = Entries(tracker) \cup {aid}
  BY UpdateFields
<1> HIDE DEF c, u
<1>2. NotSeen \notin Int /\ Contribution \subseteq Int
  BY TrackerAssumption DEF TrackerAssumption, Contribution
<1>3. tracker.table \in [Aids -> Contribution \cup {NotSeen}] /\ tracker.overall \in Contribution
  BY DEF Tracker
<1>4. \A a \in Aids : /\ known[a] \in Int \cup {NotSeen}
                      /\ known[a] = NotSeen <=> tracker.table[a] = NotSeen
  BY DEF Known, Seen, Entries
<1>5. /\ \A a \in Entries(tracker) : Congruent(tracker.table[a], known[a])
      /\ Congruent(tracker.overall, AllOf(known))
      /\ Congruent(tracker.unaccounted, nulls)
  BY DEF Accounted
<1> HIDE DEF Contribution
<1>6. Congruent(u.table[aid], more[aid])
  <2>1. CASE known[aid] = NotSeen
    <3>1. u.table[aid] = x /\ more[aid] = s
      BY <1>1, <1>2, <1>4, <2>1 DEF Plus
    <3> QED BY <3>1
  <2>2. CASE known[aid] # NotSeen
    <3> DEFINE t == tracker.table[aid]
    <3>1. aid \in Entries(tracker) /\ t \in Contribution /\ known[aid] \in Int /\ t \in Int /\ x \in Int
      BY <1>2, <1>3, <1>4, <2>2 DEF Entries
    <3>2. u.table[aid] = Combine(t, x) /\ more[aid] = known[aid] + s
      BY <1>1, <1>2, <1>4, <2>2, <3>1 DEF Plus
    <3>3. Congruent(t, known[aid])
      BY <1>5, <3>1
    <3> HIDE DEF t
    <3>4. Congruent(Combine(t, x), known[aid] + s)
      BY <3>1, <3>3, CombineIsCongruent
    <3> QED BY <3>2, <3>4
  <2> QED BY <2>1, <2>2
<1>7. Congruent(u.overall, AllOf(more))
  <2>1. AllOf(more) = AllOf(known) + s
    <3>1. AllOf(more) = AllOf(known) + Plus(0, s)
      BY AllOfGrows
    <3> QED BY <1>2, <3>1 DEF Plus
  <2>2. AllOf(known) \in Int /\ tracker.overall \in Int /\ x \in Int
    BY <1>2, <1>3, AllOfIsInteger
  <2>3. Congruent(Combine(tracker.overall, x), AllOf(known) + s)
    BY <1>5, <2>2, CombineIsCongruent
  <2> QED BY <1>1, <2>1, <2>3
<1>8. \A a \in Entries(u) : Congruent(u.table[a], more[a])
  <2>1. Entries(tracker) \subseteq Aids
    BY DEF Entries
  <2> QED BY <1>1, <1>5, <1>6, <2>1
<1> QED BY <1>1, <1>5, <1>7, <1>8 DEF Accounted, u

(* What the invariant says of the sums that are taken here. *)
LEMMA TrackerFacts ==
  ASSUME IInv, NEW b \in Buckets, NEW leg \in LegsOf
  PROVE  /\ state[b][leg] \in Tracker
         /\ IsFiniteSet(Entries(state[b][leg]))
         /\ state[b][leg].overall \in Int /\ state[b][leg].unaccounted \in Int
         /\ \A a \in Entries(state[b][leg]) : state[b][leg].table[a] \in Contribution
         /\ given[b][leg] \in Known /\ IsFiniteSet(Seen(given[b][leg]))
         /\ AllOf(given[b][leg]) \in Int
         /\ given_nulls[b][leg] \in Int
         /\ KnownIn(given, merge, b, leg) \in Known
         /\ Seen(KnownIn(given, merge, b, leg)) = Entries(state[b][leg])
<1>1. TypeOK /\ MergeInv /\ TrackersInv
  BY DEF IInv
<1> DEFINE tracker == state[b][leg]  known == KnownIn(given, merge, b, leg)
<1>2. NotSeen \notin Int /\ Contribution \subseteq Int
  BY TrackerAssumption DEF TrackerAssumption, Contribution
<1>3. tracker \in Tracker /\ given[b][leg] \in Known /\ given_nulls[b][leg] \in Int
  BY <1>1 DEF TypeOK, Known
<1>4. WellFormed(tracker) /\ SumsOf(tracker, known)
  BY <1>1 DEF TrackersInv
<1>5. known \in Known
  BY <1>1, KnownInProperties
<1>6. \A a \in Aids : given[b][leg][a] # NotSeen => known[a] # NotSeen
  <2> SUFFICES ASSUME NEW a \in Aids, given[b][leg][a] # NotSeen PROVE known[a] # NotSeen
    OBVIOUS
  <2>1. given[b][leg][a] \in Int
    BY <1>3 DEF Known
  <2>2. CASE merge # NoMerge /\ merge.dst = b /\ merge.leg = leg /\ a \notin merge.todo
    <3>1. merge.src \in Buckets
      BY <1>1, <2>2 DEF TypeOK, Merge
    <3>2. given[merge.src][leg] \in Known
      BY <1>1, <3>1 DEF TypeOK, Known
    <3>3. given[merge.src][leg][a] \in Int \cup {NotSeen}
      BY <3>2 DEF Known
    <3>4. known[a] = Plus(given[b][leg][a], given[merge.src][leg][a])
      BY <2>2 DEF KnownIn
    <3> QED BY <1>2, <2>1, <3>3, <3>4 DEF Plus
  <2>3. CASE ~ (merge # NoMerge /\ merge.dst = b /\ merge.leg = leg /\ a \notin merge.todo)
    BY <2>1, <1>2, <2>3 DEF KnownIn
  <2> QED BY <2>2, <2>3
<1> HIDE DEF known, tracker
<1>7. Seen(known) = Entries(tracker)
  BY <1>4 DEF SumsOf, Seen, Entries
<1>8. IsFiniteSet(Entries(tracker))
  BY <1>4 DEF WellFormed
<1>9. IsFiniteSet(Seen(given[b][leg]))
  <2>1. Seen(given[b][leg]) \subseteq Seen(known)
    BY <1>6 DEF Seen
  <2> QED BY <1>7, <1>8, <2>1, FS_Subset
<1>10. AllOf(given[b][leg]) \in Int
  BY <1>3, <1>9, AllOfIsInteger
<1>11. /\ tracker.overall \in Int /\ tracker.unaccounted \in Int
       /\ \A a \in Entries(tracker) : tracker.table[a] \in Contribution
  BY <1>2, <1>3 DEF Tracker, Entries
<1> QED BY <1>3, <1>5, <1>7, <1>8, <1>9, <1>10, <1>11 DEF tracker, known

(* Outside of a merge, a tracker stands for its rows. *)
LEMMA KnownOutsideMerge ==
  ASSUME IInv, NEW b \in Buckets, NEW leg \in LegsOf, ~ Merging(b, leg)
  PROVE  KnownIn(given, merge, b, leg) = given[b][leg]
<1>1. given[b][leg] \in Known
  BY TrackerFacts
<1> QED BY <1>1 DEF KnownIn, Merging, Known

(* Nothing has been counted, and nothing given. *)
LEMMA AccountInitially == Init => AccountInv
<1> SUFFICES ASSUME Init PROVE AccountInv
  OBVIOUS
<1>1. IInv
  BY Initially
<1>2. PICK capacities \in [Buckets -> Capacities] :
        state = [b \in Buckets |-> [leg \in LegsOf |-> NewTracker(capacities[b])]]
  BY DEF Init
<1>3. /\ merge = NoMerge
      /\ given = [b \in Buckets |-> [leg \in LegsOf |-> [a \in Aids |-> NotSeen]]]
      /\ given_nulls = [b \in Buckets |-> [leg \in LegsOf |-> 0]]
      /\ total = [b \in Buckets |-> 0]
  BY DEF Init
<1>4. \A b \in Buckets, leg \in LegsOf : AllOf(given[b][leg]) = 0 /\ given_nulls[b][leg] = 0
  <2> TAKE b \in Buckets, leg \in LegsOf
  <2>1. \A a \in Aids : given[b][leg][a] = NotSeen
    BY <1>3
  <2> QED BY <1>3, <2>1, AllOfNothing
<1>5. ASSUME NEW b \in Buckets, NEW leg \in LegsOf
      PROVE  Accounted(state[b][leg], KnownIn(given, merge, b, leg), given_nulls[b][leg])
  <2>1. state[b][leg] = NewTracker(capacities[b])
    BY <1>2
  <2>2. state[b][leg].overall = 0 /\ state[b][leg].unaccounted = 0 /\ Entries(state[b][leg]) = {}
    BY <2>1 DEF NewTracker, Entries
  <2>3. KnownIn(given, merge, b, leg) = given[b][leg]
    BY <1>1, <1>3, KnownOutsideMerge DEF Merging
  <2> QED BY <1>4, <2>2, <2>3, CongruentIsEquivalence DEF Accounted
<1>6. ASSUME NEW b \in Buckets PROVE Balanced(LegsOf, given, given_nulls, merge, total[b], b)
  <2>1. \A leg : RowsIn(LegsOf, given, given_nulls, b, leg) = 0
    BY <1>4 DEF RowsIn
  <2>2. total[b] = 0 /\ Ahead(LegsOf, given, given_nulls, merge, b) = 0
    BY <1>3 DEF Ahead
  <2> QED BY <2>1, <2>2, CongruentIsEquivalence DEF Balanced
<1> QED BY <1>5, <1>6 DEF AccountInv

(* The balance is about integers. *)
LEMMA RowsInType ==
  ASSUME IInv, NEW b \in Buckets
  PROVE  /\ \A leg : RowsIn(LegsOf, given, given_nulls, b, leg) \in Int
         /\ total[b] \in Int /\ Ahead(LegsOf, given, given_nulls, merge, b) \in Int
<1>1. \A r \in Buckets, leg \in LegsOf : AllOf(given[r][leg]) \in Int /\ given_nulls[r][leg] \in Int
  BY TrackerFacts
<1>2. \A r \in Buckets : \A leg : RowsIn(LegsOf, given, given_nulls, r, leg) \in Int
  BY <1>1 DEF RowsIn
<1>3. total[b] \in Int /\ (merge # NoMerge => merge.src \in Buckets)
  BY DEF IInv, TypeOK, Merge
<1> QED BY <1>2, <1>3 DEF Ahead

(* A row moves both sides of the balance by its value. *)
LEMMA RowIsBalanced ==
  ASSUME IInv, merge = NoMerge, merge' = NoMerge,
         NEW b \in Buckets, NEW value \in Arguments, Balanced(LegsOf, given, given_nulls, merge, total[b], b),
         \A leg \in LegsOf : RowsIn(LegsOf, given', given_nulls', b, leg) = RowsIn(LegsOf, given, given_nulls, b, leg) + Share(leg, value),
         NEW sum, sum = total[b] + Amount(value)
  PROVE  Balanced(LegsOf, given', given_nulls', merge', sum, b)
<1> DEFINE R(leg) == RowsIn(LegsOf, given, given_nulls, b, leg)  S(leg) == Share(leg, value)
<1>1. /\ \A leg : R(leg) \in Int
      /\ total[b] \in Int
  BY RowsInType
<1>2. /\ S("positive") \in Int /\ S("negative") \in Int /\ Amount(value) \in Int
      /\ Congruent(S("positive") - S("negative"), Amount(value))
  BY LegsMakeUpTheRow DEF IInv, TypeOK
<1>3. Congruent(R("positive") - R("negative"), total[b])
  BY <1>1 DEF Balanced, Ahead
<1>4. \A leg : RowsIn(LegsOf, given', given_nulls', b, leg) = R(leg) + S(leg)
  <2> TAKE leg
  <2>1. CASE leg \in LegsOf
    BY <2>1
  <2>2. CASE leg \notin LegsOf
    BY <2>2 DEF RowsIn, Share
  <2> QED BY <2>1, <2>2
<1>5. Ahead(LegsOf, given', given_nulls', merge', b) = 0
  BY DEF Ahead
<1> HIDE DEF R, S
<1>6. Congruent((R("positive") - R("negative")) + (S("positive") - S("negative")), sum)
  BY <1>1, <1>2, <1>3, CongruentSums, SMTT(30)
<1>7. (R("positive") + S("positive")) - (R("negative") + S("negative"))
        = (R("positive") - R("negative")) + (S("positive") - S("negative"))
      /\ sum + 0 = sum
  BY <1>1, <1>2
<1> QED BY <1>4, <1>5, <1>6, <1>7 DEF Balanced

(* A row with an AID. *)
LEMMA AccountTransition ==
  ASSUME IInv, AccountInv, NEW b \in Buckets, NEW aid \in Aids, NEW value \in Arguments,
         Transition(b, aid, value)
  PROVE  AccountInv'
<1> DEFINE L(leg) == LegContribution(leg, value)
           Next1(leg) == IF L(leg) # NotSeen THEN UpdateContribution(state[b][leg], aid, L(leg))
                         ELSE state[b][leg]
           More(leg) == [given[b][leg] EXCEPT ![aid] = Plus(@, L(leg))]
<1>1. TypeOK /\ MergeInv
  BY DEF IInv
<1>2. /\ merge = NoMerge /\ aggregate' = aggregate /\ merge' = merge /\ given_nulls' = given_nulls
      /\ total' = [total EXCEPT ![b] = @ + Amount(value)]
      /\ state' = [state EXCEPT ![b] = [leg \in LegsOf |-> Next1(leg)]]
      /\ given' = [given EXCEPT ![b] = [leg \in LegsOf |-> More(leg)]]
  BY <1>1 DEF Transition, MergeInv
<1>3. LegsOf' = LegsOf
  BY <1>2 DEF LegsOf
<1>4. /\ aggregate \in Aggregates
      /\ state \in [Buckets -> [LegsOf -> Tracker]]
      /\ given \in [Buckets -> [LegsOf -> Known]]
      /\ total \in [Buckets -> Int]
  BY <1>1 DEF TypeOK, Known
<1>5. /\ \A leg \in LegsOf : state'[b][leg] = Next1(leg) /\ given'[b][leg] = More(leg)
      /\ \A r \in Buckets \ {b} : state'[r] = state[r] /\ given'[r] = given[r] /\ total'[r] = total[r]
      /\ total'[b] = total[b] + Amount(value)
  BY <1>2, <1>4
<1>6. \A leg \in LegsOf : L(leg) \in Contribution \cup {NotSeen}
  BY <1>4, LegContributionProperties
<1>7. \A leg \in LegsOf : L(leg) \in Int \cup {NotSeen}
  BY <1>6, TrackerAssumption DEF TrackerAssumption, Contribution
<1>8. NotSeen \notin Int
  BY TrackerAssumption DEF TrackerAssumption
<1> HIDE DEF L
<1>9. \A r \in Buckets, leg \in LegsOf : Accounted(state[r][leg], given[r][leg], given_nulls[r][leg])
  <2> TAKE r \in Buckets, leg \in LegsOf
  <2>1. KnownIn(given, merge, r, leg) = given[r][leg]
    BY <1>2, KnownOutsideMerge DEF Merging
  <2> QED BY <2>1 DEF AccountInv
<1>10. ASSUME NEW leg \in LegsOf
       PROVE  /\ Accounted(Next1(leg), More(leg), given_nulls[b][leg])
              /\ More(leg) \in Known
              /\ AllOf(More(leg)) = AllOf(given[b][leg]) + Plus(0, L(leg))
  <2> DEFINE more == More(leg)
  <2>1. /\ state[b][leg] \in Tracker /\ IsFiniteSet(Entries(state[b][leg]))
        /\ given[b][leg] \in Known /\ IsFiniteSet(Seen(given[b][leg]))
        /\ Seen(given[b][leg]) = Entries(state[b][leg])
    <3>1. KnownIn(given, merge, b, leg) = given[b][leg]
      BY <1>2, KnownOutsideMerge DEF Merging
    <3> QED BY <3>1, TrackerFacts
  <2>2. Plus(given[b][leg][aid], L(leg)) \in Int \cup {NotSeen}
    <3>1. given[b][leg][aid] \in Int \cup {NotSeen}
      BY <2>1 DEF Known
    <3> QED BY <1>7, <3>1 DEF Plus
  <2>3. /\ more \in Known /\ more[aid] = Plus(given[b][leg][aid], L(leg))
        /\ \A a \in Aids \ {aid} : more[a] = given[b][leg][a]
    BY <2>1, <2>2 DEF Known
  <2>4. L(leg) = NotSeen => more = given[b][leg]
    BY <2>1 DEF Plus, Known
  <2> DEFINE known == given[b][leg]  s == L(leg)
  <2>5. /\ known \in Known /\ IsFiniteSet(Seen(known)) /\ s \in Int \cup {NotSeen}
        /\ more \in Known /\ more[aid] = Plus(known[aid], s)
        /\ \A a \in Aids \ {aid} : more[a] = known[a]
    BY <1>7, <2>1, <2>3
  <2> HIDE DEF more, known, s
  <2>6. AllOf(more) = AllOf(known) + Plus(0, s)
    BY <2>5, AllOfGrows
  <2>7. Accounted(Next1(leg), more, given_nulls[b][leg])
    <3>1. CASE L(leg) = NotSeen
      BY <1>9, <2>4, <3>1
    <3>2. CASE L(leg) # NotSeen
      <4>1. L(leg) \in Contribution /\ L(leg) \in Int /\ Congruent(L(leg), L(leg))
        BY <1>6, <1>7, <3>2, CongruentIsEquivalence
      <4>2. Accounted(UpdateContribution(state[b][leg], aid, L(leg)), more, given_nulls[b][leg])
        BY <1>9, <2>1, <2>3, <4>1, UpdateAccounts
      <4> QED BY <3>2, <4>2
    <3> QED BY <3>1, <3>2
  <2> QED BY <2>3, <2>6, <2>7 DEF more, known, s
<1> HIDE DEF Next1, More
<1>11. ASSUME NEW r \in Buckets, NEW leg \in LegsOf
       PROVE  Accounted(state'[r][leg], KnownIn(given', merge', r, leg), given_nulls'[r][leg])
  <2>1. given'[r][leg] \in Known
    BY <1>4, <1>5, <1>10
  <2>2. KnownIn(given', merge', r, leg) = given'[r][leg]
    BY <1>2, <2>1 DEF KnownIn, Known
  <2> QED BY <1>2, <1>5, <1>9, <1>10, <2>2
<1>12. ASSUME NEW r \in Buckets PROVE Balanced(LegsOf, given', given_nulls', merge', total'[r], r)
  <2>1. Balanced(LegsOf, given, given_nulls, merge, total[r], r)
    BY DEF AccountInv
  <2>2. CASE r = b
    <3>1. ASSUME NEW leg \in LegsOf
          PROVE  RowsIn(LegsOf, given', given_nulls', b, leg) = RowsIn(LegsOf, given, given_nulls, b, leg) + Share(leg, value)
      <4>1. AllOf(given'[b][leg]) = AllOf(given[b][leg]) + Share(leg, value)
        BY <1>5, <1>10 DEF Share, L
      <4>2. AllOf(given[b][leg]) \in Int /\ given_nulls[b][leg] \in Int /\ Share(leg, value) \in Int
        <5>1. Share(leg, value) \in Int
          BY <1>7, <1>8 DEF Share, Plus, L
        <5> QED BY <5>1, TrackerFacts
      <4> QED BY <1>2, <4>1, <4>2 DEF RowsIn
    <3> QED BY <1>2, <1>5, <2>1, <2>2, <3>1, RowIsBalanced
  <2>3. CASE r # b
    <3>1. \A leg : RowsIn(LegsOf, given', given_nulls', r, leg) = RowsIn(LegsOf, given, given_nulls, r, leg)
      BY <1>2, <1>5, <2>3 DEF RowsIn
    <3>2. Ahead(LegsOf, given', given_nulls', merge', r) = Ahead(LegsOf, given, given_nulls, merge, r)
      BY <1>2 DEF Ahead
    <3> QED BY <1>5, <2>1, <2>3, <3>1, <3>2 DEF Balanced
  <2> QED BY <2>2, <2>3
<1> QED BY <1>3, <1>11, <1>12 DEF AccountInv

(* A row without one. *)
LEMMA AccountWithoutAid ==
  ASSUME IInv, AccountInv, NEW b \in Buckets, NEW value \in Arguments, TransitionWithoutAid(b, value)
  PROVE  AccountInv'
<1> DEFINE U(leg) == Plus(0, LegContribution(leg, value))
           Next1(leg) == [state[b][leg] EXCEPT !.unaccounted = Combine(@, U(leg))]
<1>1. TypeOK /\ MergeInv
  BY DEF IInv
<1>2. /\ merge = NoMerge /\ aggregate' = aggregate /\ merge' = merge /\ given' = given
      /\ total' = [total EXCEPT ![b] = @ + Amount(value)]
      /\ state' = [state EXCEPT ![b] = [leg \in LegsOf |-> Next1(leg)]]
      /\ given_nulls' = [given_nulls EXCEPT ![b] = [leg \in LegsOf |-> @[leg] + U(leg)]]
  BY <1>1 DEF TransitionWithoutAid, MergeInv
<1>3. LegsOf' = LegsOf
  BY <1>2 DEF LegsOf
<1>4. /\ aggregate \in Aggregates
      /\ state \in [Buckets -> [LegsOf -> Tracker]]
      /\ given_nulls \in [Buckets -> [LegsOf -> Int]]
      /\ total \in [Buckets -> Int]
  BY <1>1 DEF TypeOK
<1>5. /\ \A leg \in LegsOf : /\ state'[b][leg] = Next1(leg)
                             /\ given_nulls'[b][leg] = given_nulls[b][leg] + U(leg)
      /\ \A r \in Buckets \ {b} : /\ state'[r] = state[r] /\ given_nulls'[r] = given_nulls[r]
                                  /\ total'[r] = total[r]
      /\ total'[b] = total[b] + Amount(value)
  BY <1>2, <1>4
<1>6. \A leg \in LegsOf : U(leg) \in Int
  <2> TAKE leg \in LegsOf
  <2>1. LegContribution(leg, value) \in Contribution \cup {NotSeen}
    BY <1>4, LegContributionProperties
  <2> QED BY <2>1, TrackerAssumption DEF TrackerAssumption, Contribution, Plus
<1> HIDE DEF U
<1>7. ASSUME NEW leg \in LegsOf, NEW known, Accounted(state[b][leg], known, given_nulls[b][leg])
      PROVE  Accounted(Next1(leg), known, given_nulls[b][leg] + U(leg))
  <2> DEFINE t == state[b][leg]  u == Combine(t.unaccounted, U(leg))
  <2>1. t \in Tracker /\ t.unaccounted \in Int /\ given_nulls[b][leg] \in Int /\ U(leg) \in Int
    BY <1>6, TrackerFacts
  <2>2. Next1(leg) = [t EXCEPT !.unaccounted = u]
    OBVIOUS
  <2>3. Congruent(t.unaccounted, given_nulls[b][leg]) /\ Congruent(U(leg), U(leg))
    BY <1>7, <2>1, CongruentIsEquivalence DEF Accounted
  <2>4. Congruent(u, given_nulls[b][leg] + U(leg))
    BY <2>1, <2>3, CombineIsCongruent
  <2> HIDE DEF t, u, Next1
  <2>5. /\ Next1(leg).table = t.table /\ Next1(leg).overall = t.overall
        /\ Next1(leg).unaccounted = u
    BY <2>1, <2>2 DEF Tracker
  <2>6. Entries(Next1(leg)) = Entries(t)
    BY <2>5 DEF Entries
  <2> QED BY <1>7, <2>4, <2>5, <2>6 DEF Accounted, t
<1> HIDE DEF Next1
<1>8. ASSUME NEW r \in Buckets, NEW leg \in LegsOf
      PROVE  Accounted(state'[r][leg], KnownIn(given', merge', r, leg), given_nulls'[r][leg])
  <2>1. Accounted(state[r][leg], KnownIn(given', merge', r, leg), given_nulls[r][leg])
    BY <1>2 DEF AccountInv
  <2>2. CASE r = b
    BY <1>5, <1>7, <2>1, <2>2
  <2>3. CASE r # b
    BY <1>5, <2>1, <2>3
  <2> QED BY <2>2, <2>3
<1>9. ASSUME NEW r \in Buckets PROVE Balanced(LegsOf, given', given_nulls', merge', total'[r], r)
  <2>1. Balanced(LegsOf, given, given_nulls, merge, total[r], r)
    BY DEF AccountInv
  <2>2. CASE r = b
    <3>1. ASSUME NEW leg \in LegsOf
          PROVE  RowsIn(LegsOf, given', given_nulls', b, leg) = RowsIn(LegsOf, given, given_nulls, b, leg) + Share(leg, value)
      <4>1. given_nulls'[b][leg] = given_nulls[b][leg] + Share(leg, value) /\ Share(leg, value) \in Int
        BY <1>5, <1>6 DEF Share, U
      <4>2. AllOf(given[b][leg]) \in Int /\ given_nulls[b][leg] \in Int
        BY TrackerFacts
      <4> QED BY <1>2, <4>1, <4>2 DEF RowsIn
    <3> QED BY <1>2, <1>5, <2>1, <2>2, <3>1, RowIsBalanced
  <2>3. CASE r # b
    <3>1. \A leg : RowsIn(LegsOf, given', given_nulls', r, leg) = RowsIn(LegsOf, given, given_nulls, r, leg)
      BY <1>2, <1>5, <2>3 DEF RowsIn
    <3>2. Ahead(LegsOf, given', given_nulls', merge', r) = Ahead(LegsOf, given, given_nulls, merge, r)
      BY <1>2 DEF Ahead
    <3> QED BY <1>5, <2>1, <2>3, <3>1, <3>2 DEF Balanced
  <2> QED BY <2>2, <2>3
<1> QED BY <1>3, <1>8, <1>9 DEF AccountInv

(* No entry has been merged yet. *)
LEMMA AccountBeginMerge ==
  ASSUME IInv, AccountInv, NEW dst \in Buckets, NEW src \in Buckets, BeginMerge(dst, src)
  PROVE  AccountInv'
<1> DEFINE todo == Entries(state[src]["positive"])
<1>1. /\ merge = NoMerge
      /\ merge' = [dst |-> dst, src |-> src, leg |-> "positive", todo |-> todo]
      /\ aggregate' = aggregate /\ state' = state /\ given' = given
      /\ given_nulls' = given_nulls /\ total' = total
  BY DEF BeginMerge
<1>2. LegsOf' = LegsOf /\ "positive" \in LegsOf
  BY <1>1 DEF LegsOf, Legs
<1>3. merge'.dst = dst /\ merge'.src = src /\ merge'.leg = "positive" /\ merge'.todo = todo
  BY <1>1
<1>4. todo = Seen(given[src]["positive"])
  <2>1. KnownIn(given, merge, src, "positive") = given[src]["positive"]
    BY <1>1, <1>2, KnownOutsideMerge DEF Merging
  <2> QED BY <1>2, <2>1, TrackerFacts
<1> HIDE DEF todo
<1>5. ASSUME NEW r \in Buckets, NEW leg \in LegsOf
      PROVE  KnownIn(given', merge', r, leg) = KnownIn(given, merge, r, leg)
  <2> SUFFICES ASSUME NEW a \in Aids, r = dst, leg = "positive", a \notin todo
               PROVE  Plus(given[r][leg][a], given[src][leg][a]) = given[r][leg][a]
    BY <1>1, <1>3 DEF KnownIn
  <2>1. given[src][leg][a] = NotSeen
    BY <1>4 DEF Seen
  <2> QED BY <2>1 DEF Plus
<1>6. \A r : Ahead(LegsOf, given', given_nulls', merge', r) = Ahead(LegsOf, given, given_nulls, merge, r)
  BY <1>1, <1>3 DEF Ahead
<1>7. \A r, leg : RowsIn(LegsOf, given', given_nulls', r, leg) = RowsIn(LegsOf, given, given_nulls, r, leg)
  BY <1>1 DEF RowsIn
<1>8. ASSUME NEW r \in Buckets PROVE Balanced(LegsOf, given', given_nulls', merge', total'[r], r)
  BY <1>1, <1>6, <1>7 DEF AccountInv, Balanced
<1>9. ASSUME NEW r \in Buckets, NEW leg \in LegsOf
      PROVE  Accounted(state'[r][leg], KnownIn(given', merge', r, leg), given_nulls'[r][leg])
  BY <1>1, <1>5 DEF AccountInv
<1> QED BY <1>2, <1>8, <1>9 DEF AccountInv

(* An entry brings the rows of its AID, as far as the source knows them. *)
LEMMA AccountMergeEntry ==
  ASSUME IInv, AccountInv, NEW aid \in Aids, MergeEntry(aid), IInv'
  PROVE  AccountInv'
<1> DEFINE dst == merge.dst  src == merge.src  leg == merge.leg
           x == state[src][leg].table[aid]
           tracker == state[dst][leg]
           u == UpdateContribution(tracker, aid, x)
           s == given[src][leg][aid]
           known == KnownIn(given, merge, dst, leg)
           more == KnownIn(given', merge', dst, leg)
<1>1. TypeOK /\ MergeInv
  BY DEF IInv
<1>2. /\ merge # NoMerge /\ aid \in merge.todo
      /\ state' = [state EXCEPT ![dst][leg] = u]
      /\ merge' = [merge EXCEPT !.todo = @ \ {aid}]
      /\ aggregate' = aggregate /\ given' = given /\ given_nulls' = given_nulls /\ total' = total
  BY DEF MergeEntry
<1>3. /\ merge \in Merge
      /\ state \in [Buckets -> [LegsOf -> Tracker]]
  BY <1>1, <1>2 DEF TypeOK
<1>4. /\ dst \in Buckets /\ src \in Buckets /\ leg \in LegsOf /\ dst # src
      /\ merge.todo \subseteq Entries(state[src][leg]) /\ merge.todo \subseteq Aids
  BY <1>1, <1>2, <1>3 DEF Merge, MergeInv
<1>5. LegsOf' = LegsOf
  BY <1>2 DEF LegsOf
<1>6. /\ merge'.dst = dst /\ merge'.src = src /\ merge'.leg = leg
      /\ merge'.todo = merge.todo \ {aid} /\ merge' # NoMerge
  BY <1>2, <1>3, NoMergeAssumption DEF Merge, NoMergeAssumption
<1>7. /\ \A r \in Buckets, l \in LegsOf : r # dst \/ l # leg => state'[r][l] = state[r][l]
      /\ state'[dst][leg] = u
  BY <1>2, <1>3, <1>4
<1>8. /\ tracker \in Tracker /\ IsFiniteSet(Entries(tracker))
      /\ known \in Known /\ Seen(known) = Entries(tracker)
  BY <1>4, TrackerFacts
<1>9. x \in Contribution /\ s \in Int /\ Congruent(x, s)
  <2>1. KnownIn(given, merge, src, leg) = given[src][leg]
    BY <1>4, KnownOutsideMerge DEF Merging
  <2>2. Accounted(state[src][leg], given[src][leg], given_nulls[src][leg])
    BY <1>4, <2>1 DEF AccountInv
  <2>3. /\ Seen(given[src][leg]) = Entries(state[src][leg]) /\ given[src][leg] \in Known
        /\ \A a \in Entries(state[src][leg]) : state[src][leg].table[a] \in Contribution
    BY <1>4, <2>1, TrackerFacts
  <2>4. aid \in Entries(state[src][leg])
    BY <1>2, <1>4
  <2> QED BY <2>2, <2>3, <2>4 DEF Accounted, Seen, Known
<1>10. /\ more[aid] = Plus(known[aid], s)
       /\ \A a \in Aids \ {aid} : more[a] = known[a]
  <2>1. known[aid] = given[dst][leg][aid] /\ more[aid] = Plus(given[dst][leg][aid], s)
    BY <1>2, <1>4, <1>6 DEF KnownIn
  <2>2. \A a \in Aids \ {aid} : more[a] = known[a]
    BY <1>2, <1>6 DEF KnownIn
  <2> QED BY <2>1, <2>2
<1>11. more \in Known
  <2>1. known[aid] \in Int \cup {NotSeen} /\ \A a \in Aids : known[a] \in Int \cup {NotSeen}
    BY <1>8 DEF Known
  <2>2. more = [a \in Aids |-> more[a]]
    BY DEF KnownIn
  <2> HIDE DEF known, more, s
  <2>3. \A a \in Aids : more[a] \in Int \cup {NotSeen}
    BY <1>9, <1>10, <2>1 DEF Plus
  <2> QED BY <2>2, <2>3 DEF Known
<1>12. Accounted(tracker, known, given_nulls[dst][leg])
  BY <1>4 DEF AccountInv
<1> HIDE DEF s, known, more, x, tracker
<1>13. Accounted(u, more, given_nulls[dst][leg])
  BY <1>2, <1>4, <1>8, <1>9, <1>10, <1>11, <1>12, UpdateAccounts
<1> HIDE DEF u
<1>14. ASSUME NEW r \in Buckets, NEW l \in LegsOf
       PROVE  Accounted(state'[r][l], KnownIn(given', merge', r, l), given_nulls'[r][l])
  <2>1. CASE r = dst /\ l = leg
    BY <1>2, <1>7, <1>13, <2>1 DEF more
  <2>2. CASE r # dst \/ l # leg
    <3>1. KnownIn(given', merge', r, l) = KnownIn(given, merge, r, l)
      BY <1>2, <1>6, <2>2 DEF KnownIn
    <3> QED BY <1>2, <1>7, <2>2, <3>1 DEF AccountInv
  <2> QED BY <2>1, <2>2
<1>15. ASSUME NEW r \in Buckets PROVE Balanced(LegsOf, given', given_nulls', merge', total'[r], r)
  <2>1. \A q, l : RowsIn(LegsOf, given', given_nulls', q, l) = RowsIn(LegsOf, given, given_nulls, q, l)
    BY <1>2 DEF RowsIn
  <2>2. Ahead(LegsOf, given', given_nulls', merge', r) = Ahead(LegsOf, given, given_nulls, merge, r)
    BY <1>2, <1>6, <2>1 DEF Ahead
  <2> QED BY <1>2, <2>1, <2>2 DEF AccountInv, Balanced
<1> QED BY <1>5, <1>14, <1>15 DEF AccountInv

(* The end of a leg: the destination now stands for the rows of both. *)
LEMMA AccountEndMerge ==
  ASSUME IInv, AccountInv, EndMerge
  PROVE  AccountInv'
<1> DEFINE dst == merge.dst  src == merge.src  leg == merge.leg
           last == leg = "negative" \/ aggregate = "count"
           w == Combine(state[dst][leg].unaccounted, state[src][leg].unaccounted)
           u == [state[dst][leg] EXCEPT !.unaccounted = Combine(@, state[src][leg].unaccounted)]
           both == [a \in Aids |-> Plus(given[dst][leg][a], given[src][leg][a])]
           n == given_nulls[dst][leg] + given_nulls[src][leg]
           todo == Entries(state[src]["negative"])
<1>1. TypeOK /\ MergeInv
  BY DEF IInv
<1>2. /\ merge # NoMerge /\ merge.todo = {} /\ aggregate' = aggregate
      /\ given_nulls' = [given_nulls EXCEPT ![dst][leg] = @ + given_nulls[src][leg]]
      /\ total' = IF last THEN [total EXCEPT ![dst] = @ + total[src]] ELSE total
      /\ merge' = IF last THEN NoMerge ELSE [merge EXCEPT !.leg = "negative", !.todo = todo]
      /\ given' = [given EXCEPT ![dst][leg] = both]
      /\ state' = [state EXCEPT ![dst][leg].unaccounted = Combine(@, state[src][leg].unaccounted)]
  BY DEF EndMerge
<1>3. /\ merge \in Merge
      /\ state \in [Buckets -> [LegsOf -> Tracker]]
      /\ given \in [Buckets -> [LegsOf -> Known]]
      /\ given_nulls \in [Buckets -> [LegsOf -> Int]] /\ total \in [Buckets -> Int]
      /\ aggregate \in {"count", "sum"}
  BY <1>1, <1>2, TrackerAssumption DEF TypeOK, Known, TrackerAssumption
<1>4. dst \in Buckets /\ src \in Buckets /\ leg \in LegsOf /\ dst # src /\ leg \in Legs
  BY <1>1, <1>2, <1>3 DEF Merge, MergeInv
<1>5. LegsOf' = LegsOf
  BY <1>2 DEF LegsOf
<1>6. /\ state'[dst][leg] = u /\ given'[dst][leg] = both /\ given_nulls'[dst][leg] = n
      /\ \A r \in Buckets, l \in LegsOf : r # dst \/ l # leg =>
           /\ state'[r][l] = state[r][l] /\ given'[r][l] = given[r][l]
           /\ given_nulls'[r][l] = given_nulls[r][l]
      /\ total'[dst] = IF last THEN total[dst] + total[src] ELSE total[dst]
      /\ \A r \in Buckets \ {dst} : total'[r] = total[r]
  <2>1. state' = [state EXCEPT ![dst][leg] = u]
    BY <1>2, <1>3, <1>4
  <2> HIDE DEF u, both
  <2> QED BY <1>2, <1>3, <1>4, <2>1
<1>7. ~ last => /\ merge' # NoMerge /\ merge'.dst = dst /\ merge'.src = src
                /\ merge'.leg = "negative" /\ merge'.todo = todo
                /\ leg = "positive" /\ LegsOf = Legs
  <2> SUFFICES ASSUME ~ last
               PROVE  /\ merge' # NoMerge /\ merge'.dst = dst /\ merge'.src = src
                      /\ merge'.leg = "negative" /\ merge'.todo = todo
                      /\ leg = "positive" /\ LegsOf = Legs
    OBVIOUS
  <2>1. todo \subseteq Aids
    BY DEF Entries
  <2> HIDE DEF todo
  <2>2. merge' = [merge EXCEPT !.leg = "negative", !.todo = todo]
    BY <1>2
  <2>3. /\ merge' \in Merge /\ merge'.dst = dst /\ merge'.src = src
        /\ merge'.leg = "negative" /\ merge'.todo = todo
    BY <1>3, <2>1, <2>2 DEF Merge, Legs
  <2>4. merge' # NoMerge
    BY <2>3, NoMergeAssumption DEF NoMergeAssumption
  <2>5. leg = "positive" /\ aggregate = "sum"
    BY <1>3, <1>4 DEF Legs
  <2> QED BY <2>3, <2>4, <2>5 DEF LegsOf
<1>8. both \in Known /\ AllOf(both) = AllOf(given[dst][leg]) + AllOf(given[src][leg])
  <2>1. /\ given[dst][leg] \in Known /\ given[src][leg] \in Known
        /\ IsFiniteSet(Seen(given[dst][leg])) /\ IsFiniteSet(Seen(given[src][leg]))
    BY <1>4, TrackerFacts
  <2>2. \A a \in Aids : Plus(given[dst][leg][a], given[src][leg][a]) \in Int \cup {NotSeen}
    <3> TAKE a \in Aids
    <3>1. given[dst][leg][a] \in Int \cup {NotSeen} /\ given[src][leg][a] \in Int \cup {NotSeen}
      BY <2>1 DEF Known
    <3> QED BY <3>1 DEF Plus
  <2>3. both \in Known /\ \A a \in Aids : both[a] = Plus(given[dst][leg][a], given[src][leg][a])
    BY <2>2 DEF Known
  <2> HIDE DEF both
  <2> QED BY <2>1, <2>3, AllOfBoth
<1>9. both = KnownIn(given, merge, dst, leg)
  BY <1>2 DEF KnownIn
<1>10. \A r \in Buckets, l \in LegsOf : given'[r][l] \in Known
  <2> HIDE DEF u, both, n
  <2> SUFFICES ASSUME NEW r \in Buckets, NEW l \in LegsOf PROVE given'[r][l] \in Known
    OBVIOUS
  <2>1. given'[dst][leg] \in Known
    BY <1>6, <1>8
  <2>2. r # dst \/ l # leg => given'[r][l] = given[r][l] /\ given[r][l] \in Known
    BY <1>3, <1>6
  <2> QED BY <2>1, <2>2
<1>11. ASSUME NEW r \in Buckets, NEW l \in LegsOf
       PROVE  KnownIn(given, merge, r, l) = given'[r][l]
  <2>1. CASE r = dst /\ l = leg
    BY <1>6, <1>9, <2>1
  <2>2. CASE r # dst \/ l # leg
    BY <1>6, <2>2, KnownOutsideMerge DEF Merging
  <2> QED BY <2>1, <2>2
<1>12. ASSUME NEW r \in Buckets, NEW l \in LegsOf
       PROVE  KnownIn(given', merge', r, l) = given'[r][l]
  <2> HIDE DEF last, todo, dst, src, leg, both
  <2>1. CASE last
    BY <1>2, <1>10, <2>1 DEF KnownIn, Known
  <2>2. CASE ~ last
    <3>1. ASSUME NEW a \in Aids, r = dst, l = "negative", a \notin todo
          PROVE  Plus(given'[r][l][a], given'[src][l][a]) = given'[r][l][a]
      <4>1. given'[src][l] = given[src][l] /\ KnownIn(given, merge, src, l) = given[src][l]
        BY <1>4, <1>6, <1>11
      <4>2. Seen(given[src][l]) = Entries(state[src][l])
        BY <1>4, <4>1, TrackerFacts
      <4>3. given[src][l][a] = NotSeen
        BY <3>1, <4>2 DEF todo, Seen
      <4> QED BY <4>1, <4>3 DEF Plus
    <3>2. KnownIn(given', merge', r, l) = [a \in Aids |-> given'[r][l][a]]
      BY <1>7, <2>2, <3>1 DEF KnownIn
    <3> QED BY <1>10, <3>2 DEF Known
  <2> QED BY <2>1, <2>2
<1>13. ASSUME NEW known, Accounted(state[dst][leg], known, given_nulls[dst][leg])
       PROVE  Accounted(u, known, n)
  <2> DEFINE t == state[dst][leg]  v == state[src][leg].unaccounted
  <2>1. /\ t \in Tracker /\ t.unaccounted \in Int /\ v \in Int
        /\ given_nulls[dst][leg] \in Int /\ given_nulls[src][leg] \in Int
    BY <1>4, TrackerFacts
  <2>2. u = [t EXCEPT !.unaccounted = w]
    OBVIOUS
  <2>3. Congruent(t.unaccounted, given_nulls[dst][leg]) /\ Congruent(v, given_nulls[src][leg])
    BY <1>4, <1>13 DEF Accounted, AccountInv
  <2>4. Congruent(w, n)
    BY <2>1, <2>3, CombineIsCongruent
  <2> HIDE DEF u, w
  <2>5. u.table = t.table /\ u.overall = t.overall /\ u.unaccounted = w
    BY <2>1, <2>2 DEF Tracker
  <2>6. Entries(u) = Entries(t)
    BY <2>5 DEF Entries
  <2> QED BY <1>13, <2>4, <2>5, <2>6 DEF Accounted
<1> HIDE DEF u, both, w
<1>14. ASSUME NEW r \in Buckets, NEW l \in LegsOf
       PROVE  Accounted(state'[r][l], KnownIn(given', merge', r, l), given_nulls'[r][l])
  <2>1. Accounted(state[r][l], KnownIn(given', merge', r, l), given_nulls[r][l])
    BY <1>11, <1>12 DEF AccountInv
  <2>2. CASE r = dst /\ l = leg
    BY <1>6, <1>13, <2>1, <2>2
  <2>3. CASE r # dst \/ l # leg
    BY <1>6, <2>1, <2>3
  <2> QED BY <2>2, <2>3
<1> DEFINE R(r, l) == RowsIn(LegsOf, given, given_nulls, r, l)
           Rn(r, l) == RowsIn(LegsOf, given', given_nulls', r, l)
           A(r) == Ahead(LegsOf, given, given_nulls, merge, r)
           An(r) == Ahead(LegsOf, given', given_nulls', merge', r)
<1>15. /\ Rn(dst, leg) = R(dst, leg) + R(src, leg)
       /\ \A r \in Buckets : \A l : r # dst \/ l # leg => Rn(r, l) = R(r, l)
  <2>1. /\ AllOf(given[dst][leg]) \in Int /\ AllOf(given[src][leg]) \in Int
        /\ given_nulls[dst][leg] \in Int /\ given_nulls[src][leg] \in Int
    BY <1>4, TrackerFacts
  <2>2. Rn(dst, leg) = AllOf(both) + n
    BY <1>4, <1>6 DEF RowsIn
  <2>3. Rn(dst, leg) = R(dst, leg) + R(src, leg)
    BY <1>4, <1>8, <2>1, <2>2 DEF RowsIn
  <2>4. \A r \in Buckets : \A l : r # dst \/ l # leg => Rn(r, l) = R(r, l)
    BY <1>6 DEF RowsIn
  <2> QED BY <2>3, <2>4
<1>16. \A r \in Buckets : /\ total[r] \in Int /\ \A l : R(r, l) \in Int
                          /\ Congruent(R(r, "positive") - R(r, "negative"), total[r] + A(r))
  BY RowsInType DEF AccountInv, Balanced
<1>17. A(dst) = (IF leg = "negative" THEN R(src, "positive") ELSE 0) /\ \A r : r # dst => A(r) = 0
  BY <1>2 DEF Ahead
<1>18. An(dst) = (IF last THEN 0 ELSE Rn(src, "positive")) /\ \A r : r # dst => An(r) = 0
  <2> HIDE DEF Rn
  <2>1. CASE last
    BY <1>2, <2>1 DEF Ahead
  <2>2. CASE ~ last
    BY <1>7, <2>2 DEF Ahead, Rn
  <2> QED BY <2>1, <2>2
<1>19. aggregate = "count" => leg = "positive" /\ \A r : R(r, "negative") = 0
  BY <1>4 DEF LegsOf, RowsIn
<1>20. leg \in {"positive", "negative"}
  BY <1>4 DEF Legs
<1> DEFINE P == R(dst, "positive")   N == R(dst, "negative")
           Ps == R(src, "positive")  Ns == R(src, "negative")
           T == total[dst]           Ts == total[src]
<1>21. /\ P \in Int /\ N \in Int /\ Ps \in Int /\ Ns \in Int /\ T \in Int /\ Ts \in Int
       /\ Congruent(P - N, T + (IF leg = "negative" THEN Ps ELSE 0)) /\ Congruent(Ps - Ns, Ts)
  BY <1>4, <1>16, <1>17
<1>22. /\ Rn(dst, "positive") = IF leg = "positive" THEN P + Ps ELSE P
       /\ Rn(dst, "negative") = IF leg = "negative" THEN N + Ns ELSE N
       /\ An(dst) = IF last THEN 0 ELSE Ps
       /\ total'[dst] = IF last THEN T + Ts ELSE T
  BY <1>4, <1>6, <1>15, <1>18, <1>20
<1>23. aggregate = "count" => leg = "positive" /\ N = 0 /\ Ns = 0
  BY <1>19
<1> HIDE DEF R, Rn, A, An, P, N, Ps, Ns, T, Ts
<1>24. Congruent(Rn(dst, "positive") - Rn(dst, "negative"), total'[dst] + An(dst))
  <2>1. CASE leg = "positive" /\ ~ last
    <3>1. Congruent(P - N, T) /\ Congruent(Ps, Ps)
      BY <1>21, <2>1, CongruentIsEquivalence
    <3>2. Congruent((P - N) + Ps, T + Ps)
      BY <1>21, <3>1, CongruentSums
    <3>3. (P + Ps) - N = (P - N) + Ps
      BY <1>21
    <3> QED BY <1>20, <1>22, <2>1, <3>2, <3>3
  <2>2. CASE leg = "positive" /\ last
    <3>1. Congruent(P - N, T) /\ N = 0 /\ Ns = 0
      BY <1>21, <1>23, <2>2
    <3>2. Congruent((P - N) + (Ps - Ns), T + Ts)
      BY <1>21, <3>1, CongruentSums
    <3>3. (P + Ps) - N = (P - N) + (Ps - Ns) /\ (T + Ts) + 0 = T + Ts
      BY <1>21, <3>1
    <3> QED BY <1>22, <2>2, <3>2, <3>3
  <2>3. CASE leg = "negative"
    <3>1. Congruent(P - N, T + Ps) /\ Congruent(Ns, Ns) /\ Congruent(Ps, Ps)
      BY <1>21, <2>3, CongruentIsEquivalence
    <3>2. Congruent((P - N) + (Ps - Ns), (T + Ps) + Ts)
      BY <1>21, <3>1, CongruentSums
    <3>3. Congruent(((P - N) + (Ps - Ns)) - Ps, ((T + Ps) + Ts) - Ps)
      BY <1>21, <3>1, <3>2, CongruentSums
    <3>4. /\ ((P - N) + (Ps - Ns)) - Ps = P - (N + Ns)
          /\ ((T + Ps) + Ts) - Ps = (T + Ts) + 0
      BY <1>21
    <3>5. last
      BY <2>3
    <3> QED BY <1>22, <2>3, <3>3, <3>4, <3>5
  <2> QED BY <1>20, <2>1, <2>2, <2>3
<1>25. ASSUME NEW r \in Buckets PROVE Balanced(LegsOf, given', given_nulls', merge', total'[r], r)
  <2>1. CASE r = dst
    BY <1>24, <2>1 DEF Balanced, Rn, An
  <2>2. CASE r # dst
    <3>1. Congruent(Rn(r, "positive") - Rn(r, "negative"), total'[r] + An(r))
      BY <1>6, <1>15, <1>16, <1>17, <1>18, <2>2
    <3> QED BY <3>1 DEF Balanced, Rn, An
  <2> QED BY <2>1, <2>2
<1> QED BY <1>5, <1>14, <1>25 DEF AccountInv

(* A tracker accounts for every row, and the legs of a sum make it up, in     *)
(* integers that wrap around.                                                 *)
THEOREM RowsAccounted == Spec => []RowsAddUp
<1>1. Init => AccountInv
  BY AccountInitially
<1>2. IInv /\ IInv' /\ AccountInv /\ [Next]_vars => AccountInv'
  <2> SUFFICES ASSUME IInv, IInv', AccountInv, [Next]_vars PROVE AccountInv'
    OBVIOUS
  <2>1. CASE \E b \in Buckets, aid \in Aids, value \in Arguments : Transition(b, aid, value)
    BY <2>1, AccountTransition
  <2>2. CASE \E b \in Buckets, value \in Arguments : TransitionWithoutAid(b, value)
    BY <2>2, AccountWithoutAid
  <2>3. CASE \E dst, src \in Buckets : BeginMerge(dst, src)
    BY <2>3, AccountBeginMerge
  <2>4. CASE \E aid \in Aids : MergeEntry(aid)
    BY <2>4, AccountMergeEntry
  <2>5. CASE EndMerge
    BY <2>5, AccountEndMerge
  <2>6. CASE UNCHANGED vars
    <3>1. /\ aggregate' = aggregate /\ state' = state /\ merge' = merge /\ given' = given
          /\ given_nulls' = given_nulls /\ total' = total
      BY <2>6 DEF vars
    <3>2. LegsOf' = LegsOf
      BY <3>1 DEF LegsOf
    <3> QED BY <3>1, <3>2 DEF AccountInv
  <2> QED BY <2>1, <2>2, <2>3, <2>4, <2>5, <2>6 DEF Next
<1>3. IInv /\ AccountInv => RowsAddUp
  <2> SUFFICES ASSUME IInv, AccountInv PROVE RowsAddUp
    OBVIOUS
  <2>1. ASSUME NEW b \in Buckets, NEW leg \in LegsOf
        PROVE  /\ state[b][leg].overall \in Contribution /\ state[b][leg].unaccounted \in Contribution
               /\ state[b][leg].overall \in Int /\ state[b][leg].unaccounted \in Int
    <3>1. /\ state[b][leg] \in Tracker
          /\ state[b][leg].overall \in Int /\ state[b][leg].unaccounted \in Int
      BY TrackerFacts
    <3> QED BY <3>1 DEF Tracker
  <2>2. ASSUME NEW b \in Buckets, NEW leg \in LegsOf, ~ Merging(b, leg)
        PROVE  /\ Congruent(state[b][leg].overall, AllOf(given[b][leg]))
               /\ Congruent(state[b][leg].unaccounted, given_nulls[b][leg])
               /\ state[b][leg].overall = Wrapped(AllOf(given[b][leg]))
               /\ state[b][leg].unaccounted = Wrapped(given_nulls[b][leg])
    <3>1. KnownIn(given, merge, b, leg) = given[b][leg]
      BY <2>2, KnownOutsideMerge
    <3>2. /\ Congruent(state[b][leg].overall, AllOf(given[b][leg]))
          /\ Congruent(state[b][leg].unaccounted, given_nulls[b][leg])
      BY <3>1 DEF AccountInv, Accounted
    <3>3. AllOf(given[b][leg]) \in Int /\ given_nulls[b][leg] \in Int
      BY TrackerFacts
    <3> QED BY <2>1, <3>2, <3>3, WrappedProperties
  <2> DEFINE In(b, leg) == IF leg \in LegsOf THEN state[b][leg].overall + state[b][leg].unaccounted ELSE 0
  <2>3. ASSUME merge = NoMerge, NEW b \in Buckets
        PROVE  Wrapped(In(b, "positive") - In(b, "negative")) = Wrapped(total[b])
    <3> DEFINE R(leg) == RowsIn(LegsOf, given, given_nulls, b, leg)
    <3>1. \A leg : In(b, leg) \in Int /\ Congruent(In(b, leg), R(leg))
      <4> TAKE leg
      <4>1. CASE leg \in LegsOf
        <5>1. /\ Congruent(state[b][leg].overall, AllOf(given[b][leg]))
              /\ Congruent(state[b][leg].unaccounted, given_nulls[b][leg])
          BY <2>2, <2>3, <4>1 DEF Merging
        <5>2. AllOf(given[b][leg]) \in Int /\ given_nulls[b][leg] \in Int
          BY <4>1, TrackerFacts
        <5>3. Congruent(state[b][leg].overall + state[b][leg].unaccounted,
                        AllOf(given[b][leg]) + given_nulls[b][leg])
          BY <2>1, <4>1, <5>1, <5>2, CongruentSums
        <5> QED BY <2>1, <4>1, <5>3 DEF RowsIn
      <4>2. CASE leg \notin LegsOf
        BY <4>2, CongruentIsEquivalence DEF RowsIn
      <4> QED BY <4>1, <4>2
    <3>2. (\A leg : R(leg) \in Int) /\ total[b] \in Int
      BY RowsInType
    <3>3. Congruent(R("positive") - R("negative"), total[b])
      <4>1. Ahead(LegsOf, given, given_nulls, merge, b) = 0
        BY <2>3 DEF Ahead
      <4> QED BY <3>2, <4>1 DEF AccountInv, Balanced
    <3> HIDE DEF R, In
    <3>4. Congruent(In(b, "positive") - In(b, "negative"), R("positive") - R("negative"))
      BY <3>1, <3>2, CongruentSums
    <3> DEFINE i == In(b, "positive") - In(b, "negative")  r == R("positive") - R("negative")
    <3>5. i \in Int /\ r \in Int
      BY <3>1, <3>2
    <3> HIDE DEF i, r
    <3>6. Congruent(i, total[b])
      BY <3>2, <3>3, <3>4, <3>5, CongruentIsEquivalence DEF i, r
    <3>7. Wrapped(i) = Wrapped(total[b])
      BY <3>2, <3>5, <3>6, WrappedProperties
    <3> QED BY <3>7 DEF i
  <2> QED BY <2>2, <2>3 DEF RowsAddUp
<1> QED BY <1>1, <1>2, <1>3, Invariance, PTL DEF Spec
=============================================================================
