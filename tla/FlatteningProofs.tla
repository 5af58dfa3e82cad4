-------------------------- MODULE FlatteningProofs --------------------------
(***************************************************************************)
(* Proofs about Flattening for every setting of the intervals, every       *)
(* number of AID instances and every list of contributors.                 *)
(***************************************************************************)
EXTENDS Flattening, SequenceTheorems, NaturalSets, TLAPS

Config == [outlier_min : Nat, outlier_max : Nat, top_min : Nat \ {0}, top_max : Nat \ {0}]

(* determine_outlier_top_counts never reaches its internal error, valid    *)
(* settings or not, because aggregate_contributions returned earlier if    *)
(* there were too few contributors.                                        *)
LEMMA CompactPossible ==
  ASSUME NEW config \in Config, NEW total \in Nat,
         total >= config.outlier_min + config.top_min
  PROVE  Compact(config, total).possible
<1> DEFINE adjustment == config.outlier_max + config.top_max - total
           half       == adjustment \div 2
<1>1. /\ config.outlier_min \in Nat /\ config.outlier_max \in Nat
      /\ config.top_min \in Nat /\ config.top_max \in Nat
  BY DEF Config
<1>2. adjustment \in Int
  BY <1>1
<1>3. half \in Int /\ 2 * half <= adjustment /\ adjustment <= 2 * half + 1
  BY <1>2
<1> QED BY <1>1, <1>2, <1>3 DEF Compact

(* With valid settings the compacted intervals are not empty, the counts   *)
(* drawn from them do not exceed the list of top contributors, and both    *)
(* upper bounds are lowered evenly, as far as their intervals allow.       *)
LEMMA CompactFits ==
  ASSUME NEW config \in Config, NEW total \in Nat, Valid(config),
         total >= config.outlier_min + config.top_min
  PROVE  LET maxima  == Compact(config, total)
             outlier == config.outlier_max - maxima.outlier
             top     == config.top_max - maxima.top
         IN  /\ maxima.outlier \in config.outlier_min .. config.outlier_max
             /\ maxima.top \in config.top_min .. config.top_max
             /\ maxima.outlier + maxima.top <= total
             /\ maxima.outlier + maxima.top <= config.outlier_max + config.top_max
             /\ top < outlier => maxima.top = config.top_min
             /\ top > outlier + 1 => maxima.outlier = config.outlier_min
<1> DEFINE adjustment == config.outlier_max + config.top_max - total
           half       == adjustment \div 2
           orange     == config.outlier_max - config.outlier_min
           trange     == config.top_max - config.top_min
           rest       == adjustment - half
<1>1. /\ config.outlier_min \in Nat /\ config.outlier_max \in Nat
      /\ config.top_min \in Nat /\ config.top_max \in Nat
      /\ config.outlier_min <= config.outlier_max /\ config.top_min <= config.top_max
  BY DEF Config, Valid
<1>2. adjustment \in Int /\ orange \in Nat /\ trange \in Nat /\ adjustment <= orange + trange
  BY <1>1
<1>3. half \in Int /\ 2 * half <= adjustment /\ adjustment <= 2 * half + 1
  BY <1>2
<1>4. CASE adjustment <= 0
  BY <1>1, <1>2, <1>4 DEF Compact
<1>5. CASE adjustment > 0 /\ orange >= half /\ trange >= rest
  BY <1>1, <1>2, <1>3, <1>5 DEF Compact
<1>6. CASE adjustment > 0 /\ orange < half /\ trange >= rest
  BY <1>1, <1>2, <1>3, <1>6 DEF Compact
<1>7. CASE adjustment > 0 /\ orange >= half /\ trange < rest
  BY <1>1, <1>2, <1>3, <1>7 DEF Compact
<1> QED BY <1>1, <1>2, <1>3, <1>4, <1>5, <1>6, <1>7

Shorter(n, m) == IF n < m THEN n ELSE m

(* What the steps of Spec preserve: a tracker counts its contributors and  *)
(* lists as many of them as there are or as fit, settings that were not    *)
(* changed since planning are valid and those the trackers were made with, *)
(* and a result was drawn from intervals compacted for its tracker.        *)
Trackers ==
  \A i \in DOMAIN trackers :
    /\ trackers[i].distinct \in Nat
    /\ changes = 0 => Len(trackers[i].top)
                        = Shorter(trackers[i].distinct, g_config.outlier_max + g_config.top_max)

Stages ==
  /\ phase \in {"plan", "fill"} => trackers = <<>> /\ results = <<>>
  /\ phase \notin {"plan", "fill"} => DOMAIN trackers = 1 .. Instances
  /\ phase # "plan" /\ changes = 0 => Valid(g_config)

Results ==
  /\ results \in Seq({results[i] : i \in DOMAIN results})
  /\ Len(results) <= Instances
  /\ \A i \in DOMAIN results :
       ~results[i].not_enough =>
         /\ ~NotEnough(trackers[i])
         /\ results[i].maxima = Compact(g_config, trackers[i].distinct)

IInv ==
  /\ g_config \in Settings
  /\ changes \in Nat
  /\ Trackers
  /\ Stages
  /\ Results

LEMMA Initially == Init => IInv
<1> SUFFICES ASSUME Init PROVE IInv
  OBVIOUS
<1>1. trackers = <<>> /\ results = <<>> /\ phase = "plan" /\ changes = 0 /\ g_config \in Settings
  BY DEF Init
<1>2. Results
  <2>1. results \in Seq({results[i] : i \in DOMAIN results})
    BY <1>1, EmptySeq
  <2> QED BY <1>1, <2>1, FlatteningAssumption DEF Results, FlatteningAssumption
<1> QED BY <1>1, <1>2 DEF IInv, Trackers, Stages

(* A tracker over a list that Fill may choose.                             *)
LEMMA TrackerCounts ==
  ASSUME NEW list \in SortedLists, NEW unaccounted, g_config \in Settings
  PROVE  /\ Tracker(list, unaccounted).distinct \in Nat
         /\ Len(Tracker(list, unaccounted).top)
              = Shorter(Tracker(list, unaccounted).distinct, g_config.outlier_max + g_config.top_max)
<1>1. PICK n \in 0 .. MaxContributors : list \in [1 .. n -> Contributions]
  BY DEF SortedLists
<1>2. Len(list) = n /\ n \in Nat
  BY <1>1, FlatteningAssumption DEF FlatteningAssumption
<1> DEFINE capacity == g_config.outlier_max + g_config.top_max
           kept     == Shorter(n, capacity)
<1>3. capacity \in Nat
  BY FlatteningAssumption DEF FlatteningAssumption
<1>4. kept \in 0 .. n
  BY <1>2, <1>3 DEF Shorter
<1>5. Len(SubSeq(list, 1, kept)) = kept
  <2>1. \A i \in 1 .. kept : list[i] \in Contributions
    BY <1>1, <1>2, <1>4
  <2>2. Len(SubSeq(list, 1, kept)) = IF 1 <= kept THEN kept - 1 + 1 ELSE 0
    BY <1>2, <1>4, <2>1, SubSeqProperties
  <2> QED BY <1>2, <1>4, <2>2
<1> QED BY <1>2, <1>5 DEF Tracker, Shorter

(* A result appended by one iteration of count_calculate_final.            *)
LEMMA AppendResult ==
  ASSUME IInv, NEW r,
         phase = "finalize",
         Len(results) < Instances,
         ~r.not_enough =>
           /\ ~NotEnough(trackers[Len(results) + 1])
           /\ r.maxima = Compact(g_config, trackers[Len(results) + 1].distinct),
         results' = Append(results, r),
         UNCHANGED <<g_config, trackers>>
  PROVE  Results'
<1> DEFINE S == {results[i] : i \in DOMAIN results} \cup {r}
           n == Len(results)
<1>1. results \in Seq(S)
  BY DEF IInv, Results
<1>2. n \in Nat /\ DOMAIN results = 1 .. n
  BY <1>1
<1>3. /\ results' \in Seq(S) /\ Len(results') = n + 1
      /\ \A i \in 1 .. n : results'[i] = results[i]
      /\ results'[n + 1] = r
  BY <1>1, AppendProperties
<1>4. DOMAIN results' = 1 .. n + 1
  BY <1>3
<1>5. results' \in Seq({results'[i] : i \in DOMAIN results'})
  BY <1>3
<1>6. ASSUME NEW i \in DOMAIN results', ~results'[i].not_enough
      PROVE  /\ ~NotEnough(trackers[i])'
             /\ results'[i].maxima = Compact(g_config', trackers'[i].distinct)
  <2>1. CASE i \in 1 .. n
    <3>1. ~results[i].not_enough /\ i \in DOMAIN results
      BY <1>2, <1>3, <1>6, <2>1
    <3> QED BY <1>3, <2>1, <3>1 DEF IInv, Results, NotEnough
  <2>2. CASE i = n + 1
    BY <1>3, <1>6, <2>2 DEF NotEnough
  <2> QED BY <1>2, <1>4, <2>1, <2>2
<1>7. Len(results') <= Instances
  BY <1>2, <1>3, FlatteningAssumption DEF FlatteningAssumption
<1> QED BY <1>5, <1>6, <1>7 DEF Results

LEMMA Inductive == IInv /\ [Next]_vars => IInv'
<1> SUFFICES ASSUME IInv, [Next]_vars PROVE IInv'
  OBVIOUS
<1> USE DEF IInv
<1>1. CASE Plan
  BY <1>1 DEF Plan, Trackers, Stages, Results, NotEnough
<1>2. CASE Fill
  <2>1. PICK lists \in [1 .. Instances -> SortedLists], unaccounted \in [1 .. Instances -> Unaccounted] :
          trackers' = [i \in 1 .. Instances |-> Tracker(lists[i], unaccounted[i])]
    BY <1>2 DEF Fill
  <2>2. DOMAIN trackers' = 1 .. Instances
    BY <2>1
  <2>3. ASSUME NEW i \in 1 .. Instances
        PROVE  /\ trackers'[i].distinct \in Nat
               /\ Len(trackers'[i].top)
                    = Shorter(trackers'[i].distinct, g_config.outlier_max + g_config.top_max)
    <3>1. lists[i] \in SortedLists /\ trackers'[i] = Tracker(lists[i], unaccounted[i])
      BY <2>1
    <3> QED BY <3>1, TrackerCounts
  <2>4. results = <<>> /\ results' = <<>>
    BY <1>2 DEF Fill, Stages
  <2>5. Results'
    <3>1. results' \in Seq({results'[i] : i \in DOMAIN results'})
      BY <2>4, EmptySeq
    <3> QED BY <2>4, <3>1, FlatteningAssumption DEF Results, FlatteningAssumption
  <2>6. Trackers'
    BY <1>2, <2>2, <2>3 DEF Trackers, Fill
  <2>7. Stages'
    BY <1>2, <2>2 DEF Fill, Stages, Valid
  <2> QED BY <1>2, <2>5, <2>6, <2>7 DEF Fill
<1>3. CASE Change
  <2>1. changes' = changes + 1 /\ results = <<>> /\ results' = results /\ phase' = phase /\ trackers' = trackers
    BY <1>3 DEF Change
  <2>2. g_config' \in Settings
    BY <1>3 DEF Change
  <2>3. changes' \in Nat /\ changes' # 0
    BY <2>1
  <2>4. Results'
    BY <2>1 DEF Results
  <2> QED BY <2>1, <2>2, <2>3, <2>4 DEF Trackers, Stages
<1>4. CASE FinalizeNotEnough
  <2>1. /\ phase = "finalize" /\ phase' = "done" /\ Len(results) < Instances
        /\ results' = Append(results, NotEnoughResult)
        /\ UNCHANGED <<g_config, trackers, changes>>
    BY <1>4 DEF FinalizeNotEnough
  <2>2. NotEnoughResult.not_enough
    BY DEF NotEnoughResult
  <2>3. Results'
    BY <2>1, <2>2, AppendResult
  <2> QED BY <2>1, <2>3 DEF Trackers, Stages, Valid
<1>5. CASE FinalizeInstance
  <2> DEFINE tracker == trackers[Len(results) + 1]
             maxima  == Compact(g_config, tracker.distinct)
  <2>1. PICK outliers, tops, noise, garbage :
          results' = Append(results, Result(tracker, maxima, outliers, tops, noise, garbage))
    BY <1>5 DEF FinalizeInstance
  <2>2. /\ phase = "finalize" /\ Len(results) < Instances /\ ~NotEnough(tracker)
        /\ UNCHANGED <<phase, g_config, trackers, changes>>
    BY <1>5 DEF FinalizeInstance
  <2>3. Result(tracker, maxima, outliers, tops, noise, garbage).maxima = maxima
    BY DEF Result
  <2>4. Results'
    BY <2>1, <2>2, <2>3, AppendResult
  <2> QED BY <2>2, <2>4 DEF Trackers, Stages, Valid
<1>6. CASE Crash
  BY <1>6 DEF Crash, Trackers, Stages, Results, NotEnough, Valid
<1>7. CASE Finish
  BY <1>7 DEF Finish, Trackers, Stages, Results, NotEnough, Valid
<1>8. CASE UNCHANGED vars
  BY <1>8 DEF vars, Trackers, Stages, Results, NotEnough, Valid
<1> QED BY <1>1, <1>2, <1>3, <1>4, <1>5, <1>6, <1>7, <1>8 DEF Next

THEOREM Invariance == Spec => []IInv
<1> QED BY Initially, Inductive, PTL DEF Spec

(* The internal error of determine_outlier_top_counts is out of reach,     *)
(* whatever bounds are changed between planning and evaluation.            *)
THEOREM NoInternalError == Spec => []CompactingIsPossible
<1>1. IInv => CompactingIsPossible
  <2> SUFFICES ASSUME IInv, NEW i \in DOMAIN trackers, ~NotEnough(trackers[i])
               PROVE  Compact(g_config, trackers[i].distinct).possible
    BY DEF CompactingIsPossible
  <2>1. g_config \in Config /\ trackers[i].distinct \in Nat
    BY FlatteningAssumption DEF IInv, Trackers, FlatteningAssumption, Config
  <2>2. trackers[i].distinct >= g_config.outlier_min + g_config.top_min
    BY <2>1 DEF NotEnough, Config
  <2> QED BY <2>1, <2>2, CompactPossible
<1> QED BY <1>1, Invariance, PTL

(* The intervals the counts are drawn from are not empty and stay within   *)
(* the list of top contributors, for all valid settings and any number of  *)
(* contributors.                                                           *)
THEOREM DrawsFit == Spec => []IntervalsFit
<1>1. IInv => IntervalsFit
  <2> SUFFICES ASSUME IInv, changes = 0, NEW i \in DOMAIN results, ~results[i].not_enough
               PROVE  LET maxima  == results[i].maxima
                          outlier == g_config.outlier_max - maxima.outlier
                          top     == g_config.top_max - maxima.top
                      IN  /\ maxima.outlier \in g_config.outlier_min .. g_config.outlier_max
                          /\ maxima.top \in g_config.top_min .. g_config.top_max
                          /\ maxima.outlier + maxima.top <= Len(trackers[i].top)
                          /\ top < outlier => maxima.top = g_config.top_min
                          /\ top > outlier + 1 => maxima.outlier = g_config.outlier_min
    BY DEF IntervalsFit, Evaluated
  <2>1. results # <<>>
    OBVIOUS
  <2>2. phase \notin {"plan", "fill"} /\ Valid(g_config) /\ DOMAIN trackers = 1 .. Instances
    BY <2>1 DEF IInv, Stages
  <2>3. i \in 1 .. Instances
    BY FlatteningAssumption DEF IInv, Results, FlatteningAssumption
  <2>4. g_config \in Config /\ trackers[i].distinct \in Nat
    BY <2>2, <2>3, FlatteningAssumption DEF IInv, Trackers, FlatteningAssumption, Config
  <2>5. /\ trackers[i].distinct >= g_config.outlier_min + g_config.top_min
        /\ results[i].maxima = Compact(g_config, trackers[i].distinct)
    BY <2>4 DEF IInv, Results, NotEnough, Config
  <2>6. Len(trackers[i].top) = Shorter(trackers[i].distinct, g_config.outlier_max + g_config.top_max)
    BY <2>2, <2>3 DEF IInv, Trackers
  <2> DEFINE m == Compact(g_config, trackers[i].distinct)
  <2>7. /\ m.outlier \in g_config.outlier_min .. g_config.outlier_max
        /\ m.top \in g_config.top_min .. g_config.top_max
        /\ m.outlier + m.top <= trackers[i].distinct
        /\ m.outlier + m.top <= g_config.outlier_max + g_config.top_max
        /\ g_config.top_max - m.top < g_config.outlier_max - m.outlier => m.top = g_config.top_min
        /\ g_config.top_max - m.top > g_config.outlier_max - m.outlier + 1
             => m.outlier = g_config.outlier_min
    BY <2>2, <2>4, <2>5, CompactFits
  <2> HIDE DEF m
  <2>8. m.outlier + m.top <= Len(trackers[i].top)
    BY <2>6, <2>7 DEF Shorter
  <2> QED BY <2>5, <2>7, <2>8 DEF m
<1> QED BY <1>1, Invariance, PTL

-----------------------------------------------------------------------------
(* Sums of contributions.                                                  *)

(* The partial sums of a list exist, and are what they should be.          *)
LEMMA PartialSumsAddUp ==
  ASSUME NEW list \in Seq(Int)
  PROVE  /\ PartialSums(list) \in [0 .. Len(list) -> Int]
         /\ PartialSums(list)[0] = 0
         /\ \A k \in 1 .. Len(list) : PartialSums(list)[k] = PartialSums(list)[k - 1] + list[k]
<1> DEFINE n == Len(list)
           Sums(m, f) == /\ f \in [0 .. m -> Int] /\ f[0] = 0
                         /\ \A k \in 1 .. m : f[k] = f[k - 1] + list[k]
           S == {m \in Nat : m <= n => \E f : Sums(m, f)}
<1>1. n \in Nat /\ \A k \in 1 .. n : list[k] \in Int
  BY LenProperties, ElementOfSeq
<1> HIDE DEF n
<1>2. 0 \in S
  <2>1. Sums(0, [k \in 0 .. 0 |-> 0])
    OBVIOUS
  <2> QED BY <2>1
<1>3. ASSUME NEW m \in Nat, m \in S PROVE m + 1 \in S
  <2> SUFFICES ASSUME m + 1 <= n PROVE \E f : Sums(m + 1, f)
    OBVIOUS
  <2>1. PICK f : Sums(m, f)
    BY <1>1, <1>3
  <2> DEFINE g == [k \in 0 .. m + 1 |-> IF k = m + 1 THEN f[m] + list[m + 1] ELSE f[k]]
  <2>2. f[m] + list[m + 1] \in Int
    BY <1>1, <2>1
  <2>3. g \in [0 .. m + 1 -> Int] /\ g[0] = 0
    BY <2>1, <2>2
  <2>4. ASSUME NEW k \in 1 .. m + 1 PROVE g[k] = g[k - 1] + list[k]
    <3>1. CASE k = m + 1
      BY <2>1, <3>1
    <3>2. CASE k # m + 1
      BY <2>1, <3>2
    <3> QED BY <3>1, <3>2
  <2> QED BY <2>3, <2>4
<1>4. PICK f : Sums(n, f)
  <2>1. n \in S
    <3> HIDE DEF S
    <3>1. Nat \subseteq S
      BY <1>2, <1>3, SetInduction
    <3> QED BY <1>1, <3>1
  <2> HIDE DEF Sums
  <2> QED BY <1>1, <2>1
<1> DEFINE Step(g) == [k \in 0 .. Len(list) |-> IF k = 0 THEN 0 ELSE g[k - 1] + list[k]]
<1>5. f = Step(f)
  BY <1>1, <1>4 DEF n
<1>6. PartialSums(list) = CHOOSE g : g = Step(g)
  BY DEF PartialSums
<1> DEFINE p == PartialSums(list)
<1>7. p = Step(p)
  BY <1>5, <1>6
<1>8. p[0] = 0 /\ \A k \in 1 .. n : p[k] = p[k - 1] + list[k]
  BY <1>1, <1>7 DEF n
<1>8a. p = [k \in 0 .. n |-> p[k]]
  BY <1>7 DEF n
<1> HIDE DEF p
<1> DEFINE T == {m \in Nat : m <= n => p[m] \in Int}
<1>9. 0 \in T
  BY <1>8
<1>10. ASSUME NEW m \in Nat, m \in T PROVE m + 1 \in T
  <2> SUFFICES ASSUME m + 1 <= n PROVE p[m + 1] \in Int
    OBVIOUS
  <2>1. p[m] \in Int /\ m + 1 \in 1 .. n /\ m + 1 - 1 = m
    BY <1>1, <1>10
  <2>2. p[m + 1] = p[m] + list[m + 1]
    BY <1>8, <2>1
  <2> QED BY <1>1, <2>1, <2>2
<1> HIDE DEF T
<1>11. Nat \subseteq T
  BY <1>9, <1>10, SetInduction
<1>12. \A k \in 0 .. n : p[k] \in Int
  BY <1>1, <1>11 DEF T
<1>13. p \in [0 .. n -> Int]
  BY <1>8a, <1>12
<1> QED BY <1>8, <1>13 DEF p, n

LEMMA Successor == \A k, m \in Int : (k + 1) * m = k * m + m /\ k * m \in Int
OBVIOUS

(* A sum of k numbers is at least k times the least of them, and at most k  *)
(* times the greatest.                                                      *)
LEMMA PartialSumsAtLeast ==
  ASSUME NEW list \in Seq(Int), NEW m \in Int, \A k \in 1 .. Len(list) : list[k] >= m
  PROVE  \A k \in 0 .. Len(list) : PartialSums(list)[k] >= k * m
<1> DEFINE p == PartialSums(list)  n == Len(list)
           S == {k \in Nat : k <= n => p[k] >= k * m}
<1>1. /\ n \in Nat /\ p \in [0 .. n -> Int] /\ p[0] = 0
      /\ \A k \in 1 .. n : p[k] = p[k - 1] + list[k]
  BY PartialSumsAddUp
<1>2. \A k \in 1 .. n : list[k] >= m /\ list[k] \in Int
  BY ElementOfSeq
<1> HIDE DEF p, n
<1>3. 0 \in S
  BY <1>1
<1>4. ASSUME NEW k \in Nat, k \in S PROVE k + 1 \in S
  <2> SUFFICES ASSUME k + 1 <= n PROVE p[k + 1] >= (k + 1) * m
    OBVIOUS
  <2>1. p[k] >= k * m /\ p[k] \in Int /\ k + 1 \in 1 .. n /\ k + 1 - 1 = k
    BY <1>1, <1>4
  <2>2. p[k + 1] = p[k] + list[k + 1] /\ list[k + 1] >= m /\ list[k + 1] \in Int
    BY <1>1, <1>2, <2>1
  <2> DEFINE x == k * m
  <2>3. (k + 1) * m = x + m /\ x \in Int /\ p[k] >= x
    BY <2>1, Successor
  <2> HIDE DEF x
  <2>4. p[k + 1] >= x + m
    BY <2>1, <2>2, <2>3
  <2> QED BY <2>3, <2>4
<1> HIDE DEF S
<1>5. Nat \subseteq S
  BY <1>3, <1>4, SetInduction
<1> QED BY <1>1, <1>5 DEF S, p, n

LEMMA PartialSumsAtMost ==
  ASSUME NEW list \in Seq(Int), NEW m \in Int, \A k \in 1 .. Len(list) : list[k] <= m
  PROVE  \A k \in 0 .. Len(list) : PartialSums(list)[k] <= k * m
<1> DEFINE p == PartialSums(list)  n == Len(list)
           S == {k \in Nat : k <= n => p[k] <= k * m}
<1>1. /\ n \in Nat /\ p \in [0 .. n -> Int] /\ p[0] = 0
      /\ \A k \in 1 .. n : p[k] = p[k - 1] + list[k]
  BY PartialSumsAddUp
<1>2. \A k \in 1 .. n : list[k] <= m /\ list[k] \in Int
  BY ElementOfSeq
<1> HIDE DEF p, n
<1>3. 0 \in S
  BY <1>1
<1>4. ASSUME NEW k \in Nat, k \in S PROVE k + 1 \in S
  <2> SUFFICES ASSUME k + 1 <= n PROVE p[k + 1] <= (k + 1) * m
    OBVIOUS
  <2>1. p[k] <= k * m /\ p[k] \in Int /\ k + 1 \in 1 .. n /\ k + 1 - 1 = k
    BY <1>1, <1>4
  <2>2. p[k + 1] = p[k] + list[k + 1] /\ list[k + 1] <= m /\ list[k + 1] \in Int
    BY <1>1, <1>2, <2>1
  <2> DEFINE x == k * m
  <2>3. (k + 1) * m = x + m /\ x \in Int /\ p[k] <= x
    BY <2>1, Successor
  <2> HIDE DEF x
  <2>4. p[k + 1] <= x + m
    BY <2>1, <2>2, <2>3
  <2> QED BY <2>3, <2>4
<1> HIDE DEF S
<1>5. Nat \subseteq S
  BY <1>3, <1>4, SetInduction
<1> QED BY <1>1, <1>5 DEF S, p, n

(* Larger numbers have a larger sum.                                       *)
LEMMA PlusIsMonotone ==
  ASSUME NEW list \in Seq(Int), NEW larger \in Seq(Int), Len(larger) = Len(list),
         \A k \in 1 .. Len(list) : larger[k] >= list[k]
  PROVE  Plus(larger) \in Int /\ Plus(list) \in Int /\ Plus(larger) >= Plus(list)
<1> DEFINE p == PartialSums(list)  q == PartialSums(larger)  n == Len(list)
           S == {k \in Nat : k <= n => q[k] >= p[k]}
<1>1. /\ n \in Nat /\ p \in [0 .. n -> Int] /\ p[0] = 0
      /\ \A k \in 1 .. n : p[k] = p[k - 1] + list[k]
  BY PartialSumsAddUp, LenProperties
<1>2. /\ q \in [0 .. n -> Int] /\ q[0] = 0
      /\ \A k \in 1 .. n : q[k] = q[k - 1] + larger[k]
  <2>1. /\ q \in [0 .. Len(larger) -> Int] /\ q[0] = 0
        /\ \A k \in 1 .. Len(larger) : q[k] = q[k - 1] + larger[k]
    BY PartialSumsAddUp
  <2> QED BY <2>1
<1>3. \A k \in 1 .. n : larger[k] >= list[k] /\ list[k] \in Int /\ larger[k] \in Int
  BY ElementOfSeq
<1>4. Plus(list) = p[n] /\ Plus(larger) = q[n]
  BY DEF Plus
<1> HIDE DEF p, q, n
<1>5. 0 \in S
  BY <1>1, <1>2
<1>6. ASSUME NEW k \in Nat, k \in S PROVE k + 1 \in S
  <2> SUFFICES ASSUME k + 1 <= n PROVE q[k + 1] >= p[k + 1]
    OBVIOUS
  <2>1. q[k] >= p[k] /\ q[k] \in Int /\ p[k] \in Int /\ k + 1 \in 1 .. n /\ k + 1 - 1 = k
    BY <1>1, <1>2, <1>6
  <2>2. /\ p[k + 1] = p[k] + list[k + 1] /\ q[k + 1] = q[k] + larger[k + 1]
        /\ larger[k + 1] >= list[k + 1] /\ list[k + 1] \in Int /\ larger[k + 1] \in Int
    BY <1>1, <1>2, <1>3, <2>1
  <2> QED BY <2>1, <2>2
<1> HIDE DEF S
<1>7. Nat \subseteq S
  BY <1>5, <1>6, SetInduction
<1>8. n \in S
  BY <1>1, <1>7
<1> QED BY <1>1, <1>2, <1>4, <1>8 DEF S

(* Lists that begin alike have the same first partial sums. *)
LEMMA PartialSumsOfPrefix ==
  ASSUME NEW s \in Seq(Int), NEW t \in Seq(Int), NEW n \in Nat, n <= Len(s), n <= Len(t),
         \A k \in 1 .. n : s[k] = t[k]
  PROVE  \A k \in 0 .. n : PartialSums(s)[k] = PartialSums(t)[k]
<1> DEFINE p == PartialSums(s)  q == PartialSums(t)
           S == {k \in Nat : k <= n => p[k] = q[k]}
<1>1. /\ Len(s) \in Nat /\ p[0] = 0 /\ \A k \in 1 .. Len(s) : p[k] = p[k - 1] + s[k]
  BY PartialSumsAddUp
<1>2. /\ Len(t) \in Nat /\ q[0] = 0 /\ \A k \in 1 .. Len(t) : q[k] = q[k - 1] + t[k]
  BY PartialSumsAddUp
<1> HIDE DEF p, q
<1>3. 0 \in S
  BY <1>1, <1>2
<1>4. ASSUME NEW k \in Nat, k \in S PROVE k + 1 \in S
  <2> SUFFICES ASSUME k + 1 <= n PROVE p[k + 1] = q[k + 1]
    OBVIOUS
  <2>1. p[k] = q[k] /\ k + 1 \in 1 .. n /\ k + 1 - 1 = k /\ k + 1 \in 1 .. Len(s) /\ k + 1 \in 1 .. Len(t)
    BY <1>1, <1>2, <1>4
  <2> QED BY <1>1, <1>2, <2>1
<1> HIDE DEF S
<1>5. Nat \subseteq S
  BY <1>3, <1>4, SetInduction
<1> QED BY <1>5 DEF S, p, q

(* Partial sums of what is not negative do not fall. *)
LEMMA PartialSumsGrow ==
  ASSUME NEW list \in Seq(Nat), NEW k \in 0 .. Len(list)
  PROVE  0 <= PartialSums(list)[k] /\ PartialSums(list)[k] <= Plus(list) /\ list \in Seq(Int)
<1> DEFINE p == PartialSums(list)  n == Len(list)
           S == {d \in Nat : k + d <= n => p[k] <= p[k + d]}
<1>0. list \in Seq(Int)
  OBVIOUS
<1>1. /\ n \in Nat /\ p \in [0 .. n -> Int] /\ p[0] = 0
      /\ \A j \in 1 .. n : p[j] = p[j - 1] + list[j]
  BY <1>0, PartialSumsAddUp
<1>2. \A j \in 1 .. n : list[j] \in Nat
  BY ElementOfSeq
<1>3. p[k] >= 0
  <2>1. \A j \in 0 .. n : p[j] >= j * 0
    BY <1>0, <1>2, PartialSumsAtLeast
  <2>2. k * 0 = 0
    BY <1>1
  <2> QED BY <2>1, <2>2
<1> HIDE DEF p, n
<1>4. k \in 0 .. n
  BY DEF n
<1>5. 0 \in S
  BY <1>1, <1>4
<1>6. ASSUME NEW d \in Nat, d \in S PROVE d + 1 \in S
  <2> SUFFICES ASSUME k + (d + 1) <= n PROVE p[k] <= p[k + (d + 1)]
    OBVIOUS
  <2> DEFINE j == k + d + 1
  <2>1. p[k] <= p[k + d] /\ j \in 1 .. n /\ j - 1 = k + d /\ k + (d + 1) = j /\ k + d \in 0 .. n
    BY <1>1, <1>4, <1>6
  <2> HIDE DEF j
  <2>2. p[j] = p[k + d] + list[j] /\ list[j] \in Nat
    BY <1>1, <1>2, <2>1
  <2>3. p[k] \in Int /\ p[k + d] \in Int
    BY <1>1, <1>4, <2>1
  <2> QED BY <2>1, <2>2, <2>3
<1> HIDE DEF S
<1>7. Nat \subseteq S
  BY <1>5, <1>6, SetInduction
<1>8. p[k] <= p[n]
  <2>1. n - k \in Nat /\ k + (n - k) = n
    BY <1>1, <1>4
  <2>2. n - k \in S
    BY <1>7, <2>1
  <2> QED BY <1>1, <2>1, <2>2 DEF S
<1> QED BY <1>0, <1>3, <1>8 DEF Plus, p, n

-----------------------------------------------------------------------------
(* Results of AID instances.                                               *)

LEMMA Products ==
  /\ \A x, y \in Int : x * y \in Int
  /\ \A x, y, z \in Int : z >= 0 /\ x <= y => x * z <= y * z
  /\ \A x, y \in Nat : x * y \in Nat
OBVIOUS

(* An average is between what all the averaged numbers are between.        *)
LEMMA Quotient ==
  ASSUME NEW x \in Int, NEW n \in Nat \ {0}
  PROVE  /\ x \div n \in Int
         /\ x >= 0 => x \div n >= 0
         /\ \A y \in Int : x <= n * y => x \div n <= y
<1>1. x \div n \in Int /\ x >= n * (x \div n) /\ x < n * (x \div n) + n
  OBVIOUS
<1> DEFINE q == x \div n
<1>2. q \in Int /\ x >= n * q /\ x < n * q + n
  BY <1>1
<1> HIDE DEF q
<1>3. x >= 0 => q >= 0
  <2> SUFFICES ASSUME x >= 0, q <= 0 - 1 PROVE FALSE
    BY <1>2
  <2>1. q * n <= (0 - 1) * n
    BY <1>2, Products
  <2>2. (0 - 1) * n = 0 - n /\ q * n = n * q
    BY <1>2
  <2> QED BY <1>2, <2>1, <2>2
<1>4. ASSUME NEW y \in Int, x <= n * y PROVE q <= y
  <2> SUFFICES ASSUME q >= y + 1 PROVE FALSE
    BY <1>2
  <2>1. (y + 1) * n <= q * n
    BY <1>2, Products
  <2>2. (y + 1) * n = n * y + n /\ q * n = n * q
    BY <1>2
  <2>3. n * y \in Int /\ n * q \in Int
    BY <1>2
  <2> QED BY <1>2, <1>4, <2>1, <2>2, <2>3
<1> QED BY <1>2, <1>3, <1>4 DEF q

\* What Fill makes of a sorted list.
GoodTracker(tracker) ==
  /\ tracker.top \in Seq(Nat)
  /\ \A k, l \in 1 .. Len(tracker.top) : k < l => tracker.top[k] >= tracker.top[l]
  /\ tracker.distinct \in Nat /\ Len(tracker.top) <= tracker.distinct
  /\ tracker.overall \in Nat /\ Plus(tracker.top) <= tracker.overall
  /\ tracker.unaccounted \in Nat /\ tracker.capacity \in Nat

(* Sums of integers that SubSeq takes from a list.                         *)
LEMMA PlusIsInteger ==
  ASSUME NEW list \in Seq(Int), NEW m \in Nat, NEW n \in Nat, m >= 1, n <= Len(list)
  PROVE  SubSeq(list, m, n) \in Seq(Int) /\ Plus(SubSeq(list, m, n)) \in Int
<1>1. \A i \in m .. n : list[i] \in Int
  <2>1. Len(list) \in Nat
    BY LenProperties
  <2>2. \A i \in m .. n : i \in 1 .. Len(list)
    BY <2>1
  <2> QED BY <2>2, ElementOfSeq
<1>2. SubSeq(list, m, n) \in Seq(Int)
  BY <1>1
<1> DEFINE s == SubSeq(list, m, n)
<1>3. s \in Seq(Int)
  BY <1>2
<1> HIDE DEF s
<1>4. Plus(s) \in Int
  <2>1. PartialSums(s) \in [0 .. Len(s) -> Int] /\ Len(s) \in 0 .. Len(s)
    BY <1>3, PartialSumsAddUp, LenProperties
  <2> QED BY <2>1 DEF Plus
<1> QED BY <1>2, <1>4 DEF s

(* What flattening takes off is a number, not a negative one, if it is that *)
(* of integers.                                                             *)
LEMMA FlattenedIsNatural ==
  ASSUME NEW members \in Seq(Int), NEW outliers \in Nat, NEW tops \in Nat \ {0},
         outliers + tops <= Len(members)
  PROVE  /\ TopAverage(members, outliers, tops) \in Int
         /\ Flattened(members, outliers, tops) \in Nat
<1> DEFINE P == Plus(SubSeq(members, 1, outliers))
           T == Plus(SubSeq(members, outliers + 1, outliers + tops))
<1>0. Len(members) \in Nat
  BY LenProperties
<1>1. P \in Int
  BY <1>0, PlusIsInteger
<1>2. T \in Int
  <2>1. outliers + 1 \in Nat /\ outliers + 1 >= 1 /\ outliers + tops \in Nat
    OBVIOUS
  <2> QED BY <2>1, PlusIsInteger
<1> HIDE DEF P, T
<1>3. Scale \in Int
  BY FlatteningAssumption DEF FlatteningAssumption
<1>4. Scale * P \in Int /\ Scale * T \in Int
  BY <1>1, <1>2, <1>3, Products
<1>5. (Scale * T) \div tops \in Int
  BY <1>4, Quotient
<1> DEFINE A == TopAverage(members, outliers, tops)
<1>6. A = (Scale * T) \div tops /\ A \in Int
  BY <1>5 DEF TopAverage, T
<1> HIDE DEF A
<1>7. A * outliers \in Int
  BY <1>6, Products
<1>8. Flattened(members, outliers, tops) = Larger(Scale * P - A * outliers, 0)
  BY DEF Flattened, P, A
<1>9. Scale * P - A * outliers \in Int
  BY <1>4, <1>7
<1>10. Flattened(members, outliers, tops) \in Nat
  BY <1>8, <1>9 DEF Larger
<1> QED BY <1>6, <1>10 DEF A

(* The fields of a result that the accumulator compares are numbers, and    *)
(* where nothing is flattened, the sum is not negative.                     *)
LEMMA ResultIsTyped ==
  ASSUME NEW tracker, GoodTracker(tracker), NEW maxima, NEW outliers \in Nat, NEW tops \in Nat \ {0},
         NEW noise \in Int, NEW garbage \in Int, tracker.distinct # 0
  PROVE  LET r == Result(tracker, maxima, outliers, tops, noise, garbage)
         IN  /\ r.flattening \in Nat /\ r.flattened_sum \in Int
             /\ r.noise_sd \in Int /\ r.noise \in Int
             /\ r.flattening = 0 => r.flattened_sum >= 0
             /\ r.noise_sd = 0 => r.noise = 0
<1> DEFINE members == Members(tracker, outliers + tops, garbage)
           F  == Flattened(members, outliers, tops)
           A  == TopAverage(members, outliers, tops)
           sum == Scale * tracker.overall - F
           sd  == Larger(sum \div tracker.distinct, A \div 2)
           un  == FlattenedUnaccounted(tracker.unaccounted, F)
           r   == Result(tracker, maxima, outliers, tops, noise, garbage)
<1>1. /\ tracker.top \in Seq(Nat) /\ tracker.distinct \in Nat \ {0} /\ tracker.overall \in Nat
      /\ tracker.unaccounted \in Nat /\ Scale \in Nat /\ outliers + tops \in Nat
  BY FlatteningAssumption DEF GoodTracker, FlatteningAssumption
<1>2. members \in Seq(Int) /\ Len(members) = outliers + tops
  <2>1. \A k \in 1 .. Len(tracker.top) : tracker.top[k] \in Int
    BY <1>1, ElementOfSeq
  <2>2. Len(tracker.top) \in Nat
    BY <1>1, LenProperties
  <2>3. members \in [1 .. outliers + tops -> Int]
    BY <1>1, <2>1, <2>2 DEF Members
  <2> QED BY <1>1, <2>3
<1>3. r = [not_enough |-> FALSE, flattening |-> F, flattened_sum |-> sum + un, noise_sd |-> sd,
           noise |-> noise * sd, outliers |-> outliers, tops |-> tops, maxima |-> maxima]
  BY DEF Result
<1> HIDE DEF members, r
<1>4. A \in Int /\ F \in Nat
  <2>1. outliers + tops <= Len(members)
    BY <1>1, <1>2
  <2> QED BY <1>2, <2>1, FlattenedIsNatural
<1> HIDE DEF F, A
<1>5. Scale * tracker.overall \in Nat /\ Scale * tracker.unaccounted \in Nat
  BY <1>1, Products
<1>6. sum \in Int /\ (F = 0 => sum >= 0)
  BY <1>4, <1>5
<1>7. un \in Nat
  BY <1>4, <1>5 DEF FlattenedUnaccounted, Larger
<1> HIDE DEF sum, un
<1>8. sd \in Int
  <2>1. sum \div tracker.distinct \in Int /\ A \div 2 \in Int
    BY <1>1, <1>4, <1>6, Quotient
  <2> QED BY <2>1 DEF Larger
<1> HIDE DEF sd
<1>9. noise * sd \in Int /\ (sd = 0 => noise * sd = 0)
  BY <1>8, Products
<1>10. /\ r.flattening = F /\ r.flattened_sum = sum + un /\ r.noise_sd = sd /\ r.noise = noise * sd
  BY <1>3
<1> QED BY <1>4, <1>6, <1>7, <1>8, <1>9, <1>10 DEF r

(* What Fill chooses for an AID instance.                                  *)
LEMMA FilledTracker ==
  ASSUME NEW list \in SortedLists, NEW unaccounted \in Unaccounted, g_config \in Settings
  PROVE  /\ GoodTracker(Tracker(list, unaccounted))
         /\ Tracker(list, unaccounted).distinct \in 0 .. MaxContributors
<1>1. PICK n \in 0 .. MaxContributors : list \in [1 .. n -> Contributions]
  BY DEF SortedLists
<1>2. MaxContributors \in Nat /\ n \in Nat /\ Contributions \subseteq Nat /\ unaccounted \in Nat
  BY <1>1, FlatteningAssumption DEF FlatteningAssumption
<1>3. list \in Seq(Nat) /\ Len(list) = n
  <2>1. list \in [1 .. n -> Nat]
    BY <1>1, <1>2
  <2> QED BY <1>2, <2>1
<1> DEFINE capacity == g_config.outlier_max + g_config.top_max
           kept     == IF n < capacity THEN n ELSE capacity
           top      == SubSeq(list, 1, kept)
<1>4. capacity \in Nat
  BY FlatteningAssumption DEF FlatteningAssumption
<1>5. kept \in 0 .. n
  BY <1>2, <1>4
<1>6. Tracker(list, unaccounted) = [top |-> top, capacity |-> capacity, distinct |-> n,
                                    overall |-> Plus(list), unaccounted |-> unaccounted]
  BY <1>3 DEF Tracker
<1> HIDE DEF capacity, kept
<1>7. top \in Seq(Nat) /\ Len(top) = kept /\ \A k \in 1 .. kept : top[k] = list[k]
  <2>1. \A k \in 1 .. kept : list[k] \in Nat
    <3>1. \A k \in 1 .. kept : k \in 1 .. Len(list)
      BY <1>2, <1>3, <1>5
    <3> QED BY <1>3, <3>1, ElementOfSeq
  <2>2. kept \in Nat /\ kept <= n
    BY <1>2, <1>5
  <2> QED BY <2>1, <2>2
<1> HIDE DEF top
<1>8. Plus(top) <= Plus(list) /\ Plus(list) \in Nat
  <2>1. /\ 0 <= PartialSums(list)[kept] /\ PartialSums(list)[kept] <= Plus(list)
        /\ list \in Seq(Int)
    BY <1>3, <1>5, PartialSumsGrow
  <2>2. 0 <= PartialSums(list)[n] /\ PartialSums(list)[n] = Plus(list)
    BY <1>2, <1>3, PartialSumsGrow DEF Plus
  <2>3. PartialSums(list)[n] \in Int
    BY <1>2, <1>3, <2>1, PartialSumsAddUp
  <2>4. top \in Seq(Int)
    BY <1>7
  <2>5. kept \in Nat /\ kept <= Len(list) /\ kept <= Len(top) /\ kept \in 0 .. kept
    BY <1>2, <1>3, <1>5, <1>7
  <2>6. PartialSums(top)[kept] = PartialSums(list)[kept]
    BY <1>7, <2>1, <2>4, <2>5, PartialSumsOfPrefix
  <2> QED BY <1>7, <2>1, <2>2, <2>3, <2>6 DEF Plus
<1>9. ASSUME NEW k \in 1 .. kept, NEW l \in 1 .. kept, k < l PROVE top[k] >= top[l]
  <2>1. k \in DOMAIN list /\ l \in DOMAIN list
    BY <1>1, <1>2, <1>5
  <2>2. list[k] >= list[l]
    BY <1>9, <2>1 DEF SortedLists
  <2> QED BY <1>7, <2>2
<1>10. kept <= n
  BY <1>2, <1>5
<1> QED BY <1>1, <1>2, <1>4, <1>6, <1>7, <1>8, <1>9, <1>10 DEF GoodTracker

-----------------------------------------------------------------------------
(* The accumulated result.                                                 *)

\* m is the greatest key over E, and v the greatest value that goes with it.
Peak(E, key, value, m, v) ==
  /\ m \in Nat /\ v \in Int
  /\ \A i \in E : key[i] \in Nat /\ value[i] \in Int
  /\ \A i \in E : key[i] <= m /\ (key[i] = m => value[i] <= v)
  /\ \/ E = {} /\ m = 0 /\ v = 0
     \/ \E i \in E : key[i] = m /\ value[i] = v

SameOn(E, f, g) == \A i \in E : f[i] = g[i]

\* A key and its value that an accumulator of zeros would take.
NotBelowStart(k, x) == k \in Nat /\ x \in Int /\ (k = 0 => x >= 0)

\* The value that goes with the greater of two keys, and the greater of the two
\* values if the keys are equal.
GoesWith(m, v, k, x) == IF k > m THEN x ELSE IF k = m THEN Larger(v, x) ELSE v

LEMMA PeakGrows ==
  ASSUME NEW E, NEW key, NEW value, NEW m, NEW v, Peak(E, key, value, m, v),
         NEW e, NEW key2, NEW value2,
         NotBelowStart(key2[e], value2[e]),
         SameOn(E, key2, key), SameOn(E, value2, value)
  PROVE  Peak(E \cup {e}, key2, value2, Larger(m, key2[e]),
              GoesWith(m, v, key2[e], value2[e]))
<1> DEFINE k  == key2[e]
           x  == value2[e]
           m2 == Larger(m, k)
           v2 == GoesWith(m, v, k, x)
<1>0. k \in Nat /\ x \in Int /\ (k = 0 => x >= 0) /\ key2[e] = k /\ value2[e] = x
  BY DEF NotBelowStart
<1> HIDE DEF k, x
<1>1. /\ m \in Nat /\ v \in Int
      /\ \A i \in E : key2[i] \in Nat /\ value2[i] \in Int
      /\ \A i \in E : key2[i] <= m /\ (key2[i] = m => value2[i] <= v)
      /\ \/ E = {} /\ m = 0 /\ v = 0
         \/ \E i \in E : key2[i] = m /\ value2[i] = v
  BY DEF Peak, SameOn
<1>2. m2 \in Nat /\ v2 \in Int
  BY <1>0, <1>1 DEF Larger, GoesWith
<1>3. \A i \in E \cup {e} : key2[i] \in Nat /\ value2[i] \in Int
  BY <1>0, <1>1
<1>4. \A i \in E \cup {e} : key2[i] <= m2 /\ (key2[i] = m2 => value2[i] <= v2)
  BY <1>0, <1>1 DEF Larger, GoesWith
<1>5. \E i \in E \cup {e} : key2[i] = m2 /\ value2[i] = v2
  <2>1. CASE k > m
    BY <1>0, <1>1, <2>1 DEF Larger, GoesWith
  <2>2. CASE k = m /\ x >= v
    BY <1>0, <1>1, <2>2 DEF Larger, GoesWith
  <2>3. CASE k < m \/ (k = m /\ x < v)
    <3>1. E # {}
      BY <1>0, <1>1, <2>3
    <3>2. m2 = m /\ v2 = v
      BY <1>0, <1>1, <2>3 DEF Larger, GoesWith
    <3> QED BY <1>1, <3>1, <3>2
  <2> QED BY <1>0, <1>1, <2>1, <2>2, <2>3
<1>6. Peak(E \cup {e}, key2, value2, m2, v2)
  <2> HIDE DEF m2, v2
  <2> QED BY <1>2, <1>3, <1>4, <1>5 DEF Peak
<1> QED BY <1>6 DEF k, x

\* The values of a SummableResultAccumulator.
Accumulators ==
  [max_flattening : Nat, sum_for_flattening : Int, max_noise_sd : Nat, noise_with_max_sd : Int,
   not_enough : BOOLEAN]

(* One step of accumulate_result, field by field.                          *)
LEMMA AccumulateFields ==
  ASSUME NEW a \in Accumulators, NEW r, r.not_enough = FALSE,
         r.flattening \in Nat, r.flattened_sum \in Int, r.noise_sd \in Int, r.noise \in Int
  PROVE  LET b == Accumulate(a, r)
         IN  /\ b \in Accumulators
             /\ b.max_flattening = Larger(a.max_flattening, r.flattening)
             /\ b.sum_for_flattening
                  = GoesWith(a.max_flattening, a.sum_for_flattening, r.flattening, r.flattened_sum)
             /\ b.max_noise_sd = Larger(a.max_noise_sd, r.noise_sd)
             /\ Magnitude(b.noise_with_max_sd)
                  = GoesWith(a.max_noise_sd, Magnitude(a.noise_with_max_sd),
                             r.noise_sd, Magnitude(r.noise))
<1> DEFINE b == Accumulate(a, r)
           mf == Larger(a.max_flattening, r.flattening)
           sf == GoesWith(a.max_flattening, a.sum_for_flattening, r.flattening, r.flattened_sum)
           ms == Larger(a.max_noise_sd, r.noise_sd)
           ns == IF \/ r.noise_sd > a.max_noise_sd
                    \/ (r.noise_sd = a.max_noise_sd
                        /\ Magnitude(r.noise) > Magnitude(a.noise_with_max_sd))
                 THEN r.noise ELSE a.noise_with_max_sd
<1>1. /\ a.max_flattening \in Nat /\ a.sum_for_flattening \in Int
      /\ a.max_noise_sd \in Nat /\ a.noise_with_max_sd \in Int /\ a.not_enough \in BOOLEAN
  BY DEF Accumulators
<1>2. mf \in Nat /\ sf \in Int /\ ms \in Nat /\ ns \in Int
  BY <1>1 DEF Larger, GoesWith
<1>3. b = [a EXCEPT !.sum_for_flattening = sf, !.max_flattening = mf,
                    !.noise_with_max_sd = ns, !.max_noise_sd = ms]
  BY DEF Accumulate, GoesWith
<1>4. Magnitude(ns) = GoesWith(a.max_noise_sd, Magnitude(a.noise_with_max_sd),
                               r.noise_sd, Magnitude(r.noise))
  BY <1>1 DEF Magnitude, Larger, GoesWith
<1> HIDE DEF mf, sf, ms, ns, b
<1>5. b = [max_flattening |-> mf, sum_for_flattening |-> sf, max_noise_sd |-> ms,
           noise_with_max_sd |-> ns, not_enough |-> a.not_enough]
  BY <1>3 DEF Accumulators
<1>6. /\ b \in Accumulators /\ b.max_flattening = mf /\ b.sum_for_flattening = sf
      /\ b.max_noise_sd = ms /\ b.noise_with_max_sd = ns
  BY <1>1, <1>2, <1>5 DEF Accumulators
<1> QED BY <1>4, <1>6 DEF mf, sf, ms, b

-----------------------------------------------------------------------------
(* What holds besides IInv: every tracker is one that Fill may choose,     *)
(* every result is a draw from its tracker, and the accumulated values are *)
(* those of the AID instances that flatten most and have most noise.       *)
Lists ==
  \A i \in DOMAIN trackers :
    GoodTracker(trackers[i]) /\ trackers[i].distinct \in 0 .. MaxContributors

Drawn ==
  \A i \in Evaluated :
    \E outliers \in g_config.outlier_min .. results[i].maxima.outlier,
       tops \in g_config.top_min .. results[i].maxima.top, noise \in Noises, garbage \in Garbage :
      results[i] = Result(trackers[i], results[i].maxima, outliers, tops, noise, garbage)

Flattenings   == [i \in DOMAIN results |-> results[i].flattening]
FlattenedSums == [i \in DOMAIN results |-> results[i].flattened_sum]
Deviations    == [i \in DOMAIN results |-> results[i].noise_sd]
Magnitudes    == [i \in DOMAIN results |-> Magnitude(results[i].noise)]

Accumulated ==
  /\ acc \in Accumulators
  /\ Peak(Evaluated, Flattenings, FlattenedSums, acc.max_flattening, acc.sum_for_flattening)
  /\ (\A i \in Evaluated : results[i].noise_sd >= 0) =>
       Peak(Evaluated, Deviations, Magnitudes, acc.max_noise_sd, Magnitude(acc.noise_with_max_sd))

SumsInv ==
  /\ phase \in {"plan", "fill", "finalize", "done", "crashed"}
  /\ changes \in 0 .. MaxChanges
  /\ \A i \in DOMAIN results : results[i].not_enough \in BOOLEAN
  /\ \A i \in DOMAIN results : results[i].not_enough => results[i] = NotEnoughResult
  /\ Lists
  /\ Drawn
  /\ Accumulated

LEMMA SumsInitially == Init => SumsInv
<1> SUFFICES ASSUME Init PROVE SumsInv
  OBVIOUS
<1>1. /\ trackers = <<>> /\ results = <<>> /\ phase = "plan" /\ changes = 0
      /\ acc = [max_flattening |-> 0, sum_for_flattening |-> 0,
                max_noise_sd |-> 0, noise_with_max_sd |-> 0, not_enough |-> FALSE]
  BY DEF Init
<1>2. DOMAIN trackers = {} /\ DOMAIN results = {} /\ Evaluated = {}
  BY <1>1 DEF Evaluated
<1>3. acc \in Accumulators /\ Magnitude(acc.noise_with_max_sd) = 0
  BY <1>1 DEF Accumulators, Magnitude
<1>4. Accumulated
  BY <1>1, <1>2, <1>3 DEF Accumulated, Peak
<1>5. MaxChanges \in Nat
  BY FlatteningAssumption DEF FlatteningAssumption
<1> QED BY <1>1, <1>2, <1>4, <1>5 DEF SumsInv, Lists, Drawn

(* Steps that add no result.                                               *)
LEMMA SumsKept ==
  ASSUME IInv, SumsInv, UNCHANGED <<results, acc>>,
         UNCHANGED <<g_config, trackers>> \/ results = <<>>,
         phase' \in {"plan", "fill", "finalize", "done", "crashed"},
         changes' \in 0 .. MaxChanges,
         Lists'
  PROVE  SumsInv'
<1>1. results' = results /\ acc' = acc /\ Evaluated' = Evaluated
  BY DEF Evaluated
<1>2. Accumulated'
  BY <1>1 DEF SumsInv, Accumulated, Flattenings, FlattenedSums, Deviations, Magnitudes
<1>3. Drawn'
  <2>1. CASE UNCHANGED <<g_config, trackers>>
    <3>1. g_config' = g_config /\ trackers' = trackers
      BY <2>1
    <3>2. Drawn
      BY DEF SumsInv
    <3> QED BY <1>1, <3>1, <3>2 DEF Drawn
  <2>2. CASE results = <<>>
    <3>1. Evaluated' = {}
      BY <1>1, <2>2 DEF Evaluated
    <3> QED BY <3>1 DEF Drawn
  <2> QED BY <2>1, <2>2
<1> QED BY <1>1, <1>2, <1>3 DEF SumsInv

(* The numbers that are accumulated.                                       *)
LEMMA DrawIsTyped ==
  ASSUME g_config \in Settings, NEW tracker, GoodTracker(tracker), ~NotEnough(tracker),
         NEW maxima, NEW outliers \in g_config.outlier_min .. maxima.outlier,
         NEW tops \in g_config.top_min .. maxima.top, NEW noise \in Noises, NEW garbage \in Garbage
  PROVE  LET r == Result(tracker, maxima, outliers, tops, noise, garbage)
         IN  /\ r.flattening \in Nat /\ r.flattened_sum \in Int
             /\ r.noise_sd \in Int /\ r.noise \in Int
             /\ r.flattening = 0 => r.flattened_sum >= 0
             /\ r.noise_sd = 0 => r.noise = 0
<1>1. /\ g_config.outlier_min \in Nat /\ g_config.top_min \in Nat \ {0}
      /\ noise \in Int /\ garbage \in Int
  BY FlatteningAssumption DEF FlatteningAssumption
<1>2. outliers \in Nat /\ tops \in Nat \ {0}
  BY <1>1
<1>3. tracker.distinct # 0
  BY <1>1 DEF NotEnough, GoodTracker
<1> QED BY <1>1, <1>2, <1>3, ResultIsTyped

LEMMA EvaluatedIsTyped ==
  ASSUME IInv, SumsInv, NEW i \in Evaluated
  PROVE  /\ results[i].flattening \in Nat /\ results[i].flattened_sum \in Int
         /\ results[i].noise_sd \in Int /\ results[i].noise \in Int
         /\ results[i].flattening = 0 => results[i].flattened_sum >= 0
         /\ i \in DOMAIN trackers /\ GoodTracker(trackers[i])
<1>1. PICK outliers \in g_config.outlier_min .. results[i].maxima.outlier,
           tops \in g_config.top_min .. results[i].maxima.top, noise \in Noises, garbage \in Garbage :
        results[i] = Result(trackers[i], results[i].maxima, outliers, tops, noise, garbage)
  BY DEF SumsInv, Drawn
<1>2. i \in DOMAIN results /\ ~results[i].not_enough
  BY DEF Evaluated
<1>3. i \in DOMAIN trackers
  <2>1. results # <<>>
    BY <1>2
  <2>2. DOMAIN trackers = 1 .. Instances
    BY <2>1 DEF IInv, Stages
  <2>3. DOMAIN results = 1 .. Len(results) /\ Len(results) <= Instances /\ Len(results) \in Nat
    BY DEF IInv, Results
  <2> QED BY <1>2, <2>2, <2>3, FlatteningAssumption DEF FlatteningAssumption
<1>4. GoodTracker(trackers[i]) /\ ~NotEnough(trackers[i]) /\ g_config \in Settings
  BY <1>2, <1>3 DEF SumsInv, Lists, IInv, Results
<1> DEFINE maxima == results[i].maxima
           r == Result(trackers[i], maxima, outliers, tops, noise, garbage)
<1>5. /\ r.flattening \in Nat /\ r.flattened_sum \in Int
      /\ r.noise_sd \in Int /\ r.noise \in Int
      /\ r.flattening = 0 => r.flattened_sum >= 0
  BY <1>4, DrawIsTyped
<1>6. results[i] = r
  BY <1>1
<1> HIDE DEF r
<1> QED BY <1>3, <1>4, <1>5, <1>6

(* An AID instance with enough contributors is accumulated.                *)
LEMMA SumsGrow ==
  ASSUME IInv, SumsInv, FinalizeInstance
  PROVE  SumsInv'
<1> DEFINE n       == Len(results)
           tracker == trackers[n + 1]
           maxima  == Compact(g_config, tracker.distinct)
<1>1. PICK outliers \in g_config.outlier_min .. maxima.outlier,
           tops \in g_config.top_min .. maxima.top, noise \in Noises, garbage \in Garbage :
        /\ results' = Append(results, Result(tracker, maxima, outliers, tops, noise, garbage))
        /\ acc' = Accumulate(acc, Result(tracker, maxima, outliers, tops, noise, garbage))
  BY DEF FinalizeInstance
<1> DEFINE r == Result(tracker, maxima, outliers, tops, noise, garbage)
<1>2. /\ phase = "finalize" /\ n < Instances /\ ~NotEnough(tracker)
      /\ phase' = phase /\ g_config' = g_config /\ trackers' = trackers /\ changes' = changes
  BY DEF FinalizeInstance
<1>3. n \in Nat /\ DOMAIN results = 1 .. n
  BY DEF IInv, Results
<1>4. n + 1 \in DOMAIN trackers
  <2>1. DOMAIN trackers = 1 .. Instances
    BY <1>2 DEF IInv, Stages
  <2> QED BY <1>2, <1>3, <2>1, FlatteningAssumption DEF FlatteningAssumption
<1>5. GoodTracker(tracker) /\ g_config \in Settings
  BY <1>4 DEF SumsInv, Lists, IInv
<1>6. /\ r.flattening \in Nat /\ r.flattened_sum \in Int
      /\ r.noise_sd \in Int /\ r.noise \in Int
      /\ r.flattening = 0 => r.flattened_sum >= 0
      /\ r.noise_sd = 0 => r.noise = 0
      /\ r.not_enough = FALSE
  <2>1. r.not_enough = FALSE
    BY DEF Result
  <2> HIDE DEF tracker, maxima
  <2> QED BY <1>2, <1>5, <2>1, DrawIsTyped
<1>7. /\ results' = Append(results, r) /\ acc' = Accumulate(acc, r)
      /\ r.maxima = maxima
  BY <1>1 DEF Result
<1>8. r = Result(trackers[n + 1], r.maxima, outliers, tops, noise, garbage)
  BY <1>7
<1> HIDE DEF r, tracker
<1>9. /\ DOMAIN results' = 1 .. n + 1 /\ results'[n + 1] = r
      /\ \A i \in 1 .. n : results'[i] = results[i]
  BY <1>3, <1>7, AppendProperties DEF IInv, Results
<1>10. Evaluated' = Evaluated \cup {n + 1} /\ \A i \in Evaluated : i \in 1 .. n
  BY <1>3, <1>6, <1>9 DEF Evaluated
<1>11. Drawn'
  <2> SUFFICES ASSUME NEW i \in Evaluated'
               PROVE  \E o \in g_config.outlier_min .. results'[i].maxima.outlier,
                         t \in g_config.top_min .. results'[i].maxima.top, z \in Noises, x \in Garbage :
                        results'[i] = Result(trackers[i], results'[i].maxima, o, t, z, x)
    BY <1>2 DEF Drawn
  <2>1. CASE i \in Evaluated
    BY <1>9, <1>10, <2>1 DEF SumsInv, Drawn
  <2>2. CASE i = n + 1
    <3>1. outliers \in g_config.outlier_min .. r.maxima.outlier /\ tops \in g_config.top_min .. r.maxima.top
      BY <1>7
    <3> QED BY <1>8, <1>9, <2>2, <3>1
  <2> QED BY <1>10, <2>1, <2>2
<1>12. Lists'
  BY <1>2 DEF SumsInv, Lists
<1>13. Accumulated'
  <2>1. /\ acc \in Accumulators
        /\ Peak(Evaluated, Flattenings, FlattenedSums, acc.max_flattening, acc.sum_for_flattening)
        /\ (\A i \in Evaluated : results[i].noise_sd >= 0) =>
             Peak(Evaluated, Deviations, Magnitudes, acc.max_noise_sd, Magnitude(acc.noise_with_max_sd))
    BY DEF SumsInv, Accumulated
  <2>2. /\ acc' \in Accumulators
        /\ acc'.max_flattening = Larger(acc.max_flattening, r.flattening)
        /\ acc'.sum_for_flattening
             = GoesWith(acc.max_flattening, acc.sum_for_flattening, r.flattening, r.flattened_sum)
        /\ acc'.max_noise_sd = Larger(acc.max_noise_sd, r.noise_sd)
        /\ Magnitude(acc'.noise_with_max_sd)
             = GoesWith(acc.max_noise_sd, Magnitude(acc.noise_with_max_sd),
                        r.noise_sd, Magnitude(r.noise))
    BY <1>6, <1>7, <2>1, AccumulateFields
  <2>3. ASSUME NEW i \in Evaluated
        PROVE  /\ Flattenings'[i] = Flattenings[i] /\ FlattenedSums'[i] = FlattenedSums[i]
               /\ Deviations'[i] = Deviations[i] /\ Magnitudes'[i] = Magnitudes[i]
    <3>1. i \in DOMAIN results /\ i \in DOMAIN results' /\ results'[i] = results[i]
      BY <1>3, <1>9, <1>10
    <3> QED BY <3>1 DEF Flattenings, FlattenedSums, Deviations, Magnitudes
  <2>4. /\ Flattenings'[n + 1] = r.flattening /\ FlattenedSums'[n + 1] = r.flattened_sum
        /\ Deviations'[n + 1] = r.noise_sd /\ Magnitudes'[n + 1] = Magnitude(r.noise)
    <3>1. n + 1 \in DOMAIN results' /\ results'[n + 1] = r
      BY <1>3, <1>9
    <3> QED BY <3>1 DEF Flattenings, FlattenedSums, Deviations, Magnitudes
  <2> DEFINE e == n + 1
             E == Evaluated         E2 == Evaluated'
             F == Flattenings       F2 == Flattenings'
             S == FlattenedSums     S2 == FlattenedSums'
             D == Deviations        D2 == Deviations'
             M == Magnitudes        M2 == Magnitudes'
  <2>5. /\ E2 = E \cup {e}
        /\ \A i \in E : F2[i] = F[i] /\ S2[i] = S[i] /\ D2[i] = D[i] /\ M2[i] = M[i]
        /\ F2[e] = r.flattening /\ S2[e] = r.flattened_sum
        /\ D2[e] = r.noise_sd /\ M2[e] = Magnitude(r.noise)
        /\ Peak(E, F, S, acc.max_flattening, acc.sum_for_flattening)
        /\ (\A i \in E : results[i].noise_sd >= 0) =>
             Peak(E, D, M, acc.max_noise_sd, Magnitude(acc.noise_with_max_sd))
    BY <1>10, <2>1, <2>3, <2>4
  <2> HIDE DEF e, E, E2, F, F2, S, S2, D, D2, M, M2
  <2>6. Peak(E2, F2, S2, acc'.max_flattening, acc'.sum_for_flattening)
    <3>1. Peak(E \cup {e}, F2, S2, Larger(acc.max_flattening, F2[e]),
               GoesWith(acc.max_flattening, acc.sum_for_flattening, F2[e], S2[e]))
      <4>1. NotBelowStart(F2[e], S2[e])
        BY <1>6, <2>5 DEF NotBelowStart
      <4>2. SameOn(E, F2, F) /\ SameOn(E, S2, S)
        BY <2>5 DEF SameOn
      <4> QED BY <2>5, <4>1, <4>2, PeakGrows
    <3> QED BY <2>2, <2>5, <3>1
  <2>7. ASSUME \A i \in Evaluated' : results'[i].noise_sd >= 0
        PROVE  Peak(E2, D2, M2, acc'.max_noise_sd, Magnitude(acc'.noise_with_max_sd))
    <3>1. \A i \in E : results[i].noise_sd >= 0
      BY <1>9, <1>10, <2>7 DEF E
    <3>2. r.noise_sd \in Nat
      BY <1>6, <1>9, <1>10, <2>7
    <3>3. Magnitude(r.noise) \in Int /\ Magnitude(r.noise) >= 0
      BY <1>6 DEF Magnitude
    <3>4. NotBelowStart(D2[e], M2[e])
      BY <2>5, <3>2, <3>3 DEF NotBelowStart
    <3>5. SameOn(E, D2, D) /\ SameOn(E, M2, M)
      BY <2>5 DEF SameOn
    <3>6. Peak(E \cup {e}, D2, M2, Larger(acc.max_noise_sd, D2[e]),
               GoesWith(acc.max_noise_sd, Magnitude(acc.noise_with_max_sd), D2[e], M2[e]))
      BY <2>5, <3>1, <3>4, <3>5, PeakGrows
    <3> QED BY <2>2, <2>5, <3>6
  <2> QED BY <2>2, <2>6, <2>7 DEF Accumulated, E2, F2, S2, D2, M2
<1>14. \A i \in DOMAIN results' :
         /\ results'[i].not_enough \in BOOLEAN
         /\ results'[i].not_enough => results'[i] = NotEnoughResult
  <2>1. \A i \in 1 .. n : /\ results'[i].not_enough \in BOOLEAN
                          /\ results'[i].not_enough => results'[i] = NotEnoughResult
    BY <1>3, <1>9 DEF SumsInv
  <2>2. results'[n + 1].not_enough = FALSE
    BY <1>6, <1>9
  <2>3. \A i \in 1 .. n + 1 : i \in 1 .. n \/ i = n + 1
    BY <1>3
  <2> HIDE DEF n
  <2> QED BY <1>9, <2>1, <2>2, <2>3
<1> QED BY <1>2, <1>11, <1>12, <1>13, <1>14 DEF SumsInv

(* Too few contributors are only noted.                                    *)
LEMMA SumsNotEnough ==
  ASSUME IInv, SumsInv, FinalizeNotEnough
  PROVE  SumsInv'
<1> DEFINE n == Len(results)
           r == NotEnoughResult
<1>1. /\ phase' = "done" /\ g_config' = g_config /\ trackers' = trackers /\ changes' = changes
      /\ results' = Append(results, r) /\ acc' = Accumulate(acc, r)
  BY DEF FinalizeNotEnough
<1>2. r.not_enough = TRUE
  BY DEF NotEnoughResult
<1>3. n \in Nat /\ DOMAIN results = 1 .. n
  BY DEF IInv, Results
<1> HIDE DEF r
<1>4. /\ DOMAIN results' = 1 .. n + 1 /\ results'[n + 1] = r
      /\ \A i \in 1 .. n : results'[i] = results[i]
  BY <1>1, <1>3, AppendProperties DEF IInv, Results
<1>5. Evaluated' = Evaluated /\ \A i \in Evaluated : i \in 1 .. n
  BY <1>2, <1>3, <1>4 DEF Evaluated
<1>6. ASSUME NEW i \in Evaluated
      PROVE  i \in DOMAIN results /\ i \in DOMAIN results' /\ results'[i] = results[i]
  BY <1>3, <1>4, <1>5
<1>7. Drawn'
  BY <1>1, <1>5, <1>6 DEF SumsInv, Drawn
<1>8. Lists'
  BY <1>1 DEF SumsInv, Lists
<1>9. acc' = [acc EXCEPT !.not_enough = TRUE]
  BY <1>1, <1>2 DEF Accumulate
<1>10. acc \in Accumulators
  BY DEF SumsInv, Accumulated
<1>11. /\ acc' \in Accumulators
       /\ acc'.max_flattening = acc.max_flattening
       /\ acc'.sum_for_flattening = acc.sum_for_flattening
       /\ acc'.max_noise_sd = acc.max_noise_sd
       /\ acc'.noise_with_max_sd = acc.noise_with_max_sd
  BY <1>9, <1>10 DEF Accumulators
<1>12. ASSUME NEW i \in Evaluated
       PROVE  /\ Flattenings'[i] = Flattenings[i] /\ FlattenedSums'[i] = FlattenedSums[i]
              /\ Deviations'[i] = Deviations[i] /\ Magnitudes'[i] = Magnitudes[i]
  BY <1>6 DEF Flattenings, FlattenedSums, Deviations, Magnitudes
<1>13. Accumulated'
  <2>1. /\ Peak(Evaluated, Flattenings, FlattenedSums, acc.max_flattening, acc.sum_for_flattening)
        /\ (\A i \in Evaluated : results[i].noise_sd >= 0) =>
             Peak(Evaluated, Deviations, Magnitudes, acc.max_noise_sd, Magnitude(acc.noise_with_max_sd))
    BY DEF SumsInv, Accumulated
  <2> DEFINE E == Evaluated
             F == Flattenings       F2 == Flattenings'
             S == FlattenedSums     S2 == FlattenedSums'
             D == Deviations        D2 == Deviations'
             M == Magnitudes        M2 == Magnitudes'
  <2>2. \A i \in E : F2[i] = F[i] /\ S2[i] = S[i] /\ D2[i] = D[i] /\ M2[i] = M[i]
    BY <1>12
  <2> HIDE DEF E, F, F2, S, S2, D, D2, M, M2
  <2>3. ASSUME NEW m, NEW v, Peak(E, F, S, m, v) PROVE Peak(E, F2, S2, m, v)
    BY <2>2, <2>3 DEF Peak
  <2>4. ASSUME NEW m, NEW v, Peak(E, D, M, m, v) PROVE Peak(E, D2, M2, m, v)
    BY <2>2, <2>4 DEF Peak
  <2>5. Peak(E, F2, S2, acc'.max_flattening, acc'.sum_for_flattening)
    BY <1>11, <2>1, <2>3 DEF E, F, S
  <2>6. ASSUME \A i \in Evaluated' : results'[i].noise_sd >= 0
        PROVE  Peak(E, D2, M2, acc'.max_noise_sd, Magnitude(acc'.noise_with_max_sd))
    <3>1. \A i \in Evaluated : results[i].noise_sd >= 0
      BY <1>5, <1>6, <2>6
    <3>2. Peak(E, D, M, acc.max_noise_sd, Magnitude(acc.noise_with_max_sd))
      BY <2>1, <3>1 DEF E, D, M
    <3> QED BY <1>11, <2>4, <3>2
  <2> QED BY <1>5, <1>11, <2>5, <2>6 DEF Accumulated, E, F2, S2, D2, M2
<1>14. \A i \in DOMAIN results' :
         /\ results'[i].not_enough \in BOOLEAN
         /\ results'[i].not_enough => results'[i] = NotEnoughResult
  <2>1. \A i \in 1 .. n : /\ results'[i].not_enough \in BOOLEAN
                          /\ results'[i].not_enough => results'[i] = NotEnoughResult
    BY <1>3, <1>4 DEF SumsInv
  <2>2. results'[n + 1].not_enough = TRUE /\ results'[n + 1] = NotEnoughResult
    BY <1>2, <1>4 DEF r
  <2>3. \A i \in 1 .. n + 1 : i \in 1 .. n \/ i = n + 1
    BY <1>3
  <2> HIDE DEF n
  <2> QED BY <1>4, <2>1, <2>2, <2>3
<1> QED BY <1>1, <1>7, <1>8, <1>13, <1>14 DEF SumsInv

LEMMA SumsInductive == IInv /\ SumsInv /\ [Next]_vars => SumsInv'
<1> SUFFICES ASSUME IInv, SumsInv, [Next]_vars PROVE SumsInv'
  OBVIOUS
<1>1. CASE Plan
  BY <1>1, SumsKept DEF Plan, SumsInv, Lists
<1>2. CASE Fill
  <2>1. PICK lists \in [1 .. Instances -> SortedLists], unaccounted \in [1 .. Instances -> Unaccounted] :
          trackers' = [i \in 1 .. Instances |-> Tracker(lists[i], unaccounted[i])]
    BY <1>2 DEF Fill
  <2>2. ASSUME NEW i \in DOMAIN trackers'
        PROVE  GoodTracker(trackers'[i]) /\ trackers'[i].distinct \in 0 .. MaxContributors
    <3>1. /\ lists[i] \in SortedLists /\ unaccounted[i] \in Unaccounted
          /\ trackers'[i] = Tracker(lists[i], unaccounted[i])
      BY <2>1, <2>2
    <3> QED BY <3>1, FilledTracker DEF IInv
  <2>3. Lists'
    BY <2>2 DEF Lists
  <2>4. /\ results = <<>> /\ UNCHANGED <<results, acc>>
        /\ phase' = "finalize" /\ changes' = changes
    BY <1>2 DEF Fill, IInv, Stages
  <2> QED BY <2>3, <2>4, SumsKept DEF SumsInv
<1>3. CASE Change
  <2>1. /\ results = <<>> /\ UNCHANGED <<phase, results, acc, trackers>>
        /\ changes' = changes + 1 /\ changes < MaxChanges
    BY <1>3 DEF Change
  <2>2. changes' \in 0 .. MaxChanges
    BY <2>1, FlatteningAssumption DEF SumsInv, FlatteningAssumption
  <2>3. Lists'
    BY <2>1 DEF SumsInv, Lists
  <2> QED BY <2>1, <2>2, <2>3, SumsKept DEF SumsInv
<1>4. CASE FinalizeNotEnough
  BY <1>4, SumsNotEnough
<1>5. CASE FinalizeInstance
  BY <1>5, SumsGrow
<1>6. CASE Crash
  BY <1>6, SumsKept DEF Crash, SumsInv, Lists
<1>7. CASE Finish
  BY <1>7, SumsKept DEF Finish, SumsInv, Lists
<1>8. CASE UNCHANGED vars
  BY <1>8, SumsKept DEF vars, SumsInv, Lists
<1> QED BY <1>1, <1>2, <1>3, <1>4, <1>5, <1>6, <1>7, <1>8 DEF Next

THEOREM SumsInvariance == Spec => []SumsInv
<1> QED BY Invariance, SumsInitially, SumsInductive, PTL DEF Spec

-----------------------------------------------------------------------------

(* An accumulator that holds a peak holds the largest of the best.         *)
LEMMA PeakIsLargest ==
  ASSUME NEW E, NEW key, NEW value, NEW m, NEW v, Peak(E, key, value, m, v), E # {}
  PROVE  LET best == {i \in E : \A j \in E : key[i] >= key[j]}
         IN  /\ \A i \in best : m = key[i]
             /\ v = Max({value[i] : i \in best})
<1> DEFINE best == {i \in E : \A j \in E : key[i] >= key[j]}
           V    == {value[i] : i \in best}
<1>1. /\ m \in Nat /\ v \in Int
      /\ \A i \in E : key[i] \in Nat /\ value[i] \in Int
      /\ \A i \in E : key[i] <= m /\ (key[i] = m => value[i] <= v)
  BY DEF Peak
<1>2. PICK p \in E : key[p] = m /\ value[p] = v
  BY DEF Peak
<1>3. p \in best /\ \A i \in best : m = key[i]
  BY <1>1, <1>2
<1>4. v \in V /\ \A y \in V : v >= y /\ y \in Int
  BY <1>1, <1>2, <1>3
<1>5. Max(V) = CHOOSE x \in V : \A y \in V : x >= y
  BY DEF Max
<1> HIDE DEF V
<1>6. Max(V) \in V /\ Max(V) >= v
  BY <1>4, <1>5
<1>7. Max(V) = v
  <2> DEFINE x == Max(V)
  <2>1. x \in Int /\ v >= x /\ x >= v
    BY <1>4, <1>6
  <2> HIDE DEF x
  <2>2. x = v
    BY <1>1, <2>1
  <2> QED BY <2>2 DEF x
<1> QED BY <1>3, <1>7 DEF V

(* Whatever the order of the AID instances, the sum is that of one that    *)
(* flattens most, and the noise that of one with most noise.               *)
THEOREM LargestAccumulated == Spec => []LargestIsAccumulated
<1>1. SumsInv => LargestIsAccumulated
  <2> SUFFICES ASSUME SumsInv, Evaluated # {} PROVE LargestIsAccumulated
    BY DEF LargestIsAccumulated
  <2> DEFINE flattest == {i \in Evaluated :
                            \A j \in Evaluated : results[i].flattening >= results[j].flattening}
             noisiest == {i \in Evaluated :
                            \A j \in Evaluated : results[i].noise_sd >= results[j].noise_sd}
             E == Evaluated
             F == Flattenings
             S == FlattenedSums
             D == Deviations
             M == Magnitudes
             flattest2 == {i \in E : \A j \in E : F[i] >= F[j]}
             noisiest2 == {i \in E : \A j \in E : D[i] >= D[j]}
  <2>1. \A i \in Evaluated : /\ F[i] = results[i].flattening /\ S[i] = results[i].flattened_sum
                             /\ D[i] = results[i].noise_sd /\ M[i] = Magnitude(results[i].noise)
    BY DEF Evaluated, Flattenings, FlattenedSums, Deviations, Magnitudes
  <2>2. /\ Peak(E, F, S, acc.max_flattening, acc.sum_for_flattening)
        /\ (\A i \in Evaluated : results[i].noise_sd >= 0) =>
             Peak(E, D, M, acc.max_noise_sd, Magnitude(acc.noise_with_max_sd))
    BY DEF SumsInv, Accumulated
  <2> HIDE DEF F, S, D, M
  <2>3. flattest2 = flattest /\ noisiest2 = noisiest
    BY <2>1
  <2>4. /\ {S[i] : i \in flattest} = {results[i].flattened_sum : i \in flattest}
        /\ {M[i] : i \in noisiest} = {Magnitude(results[i].noise) : i \in noisiest}
    BY <2>1
  <2>5. /\ \A i \in flattest : acc.max_flattening = results[i].flattening
        /\ acc.sum_for_flattening = Max({results[i].flattened_sum : i \in flattest})
    <3>1. /\ \A i \in flattest2 : acc.max_flattening = F[i]
          /\ acc.sum_for_flattening = Max({S[i] : i \in flattest2})
      BY <2>2, PeakIsLargest
    <3> QED BY <2>1, <2>3, <2>4, <3>1
  <2>6. ASSUME \A i \in Evaluated : results[i].noise_sd >= 0
        PROVE  /\ \A i \in noisiest : acc.max_noise_sd = results[i].noise_sd
               /\ Magnitude(acc.noise_with_max_sd) = Max({Magnitude(results[i].noise) : i \in noisiest})
    <3>1. /\ \A i \in noisiest2 : acc.max_noise_sd = D[i]
          /\ Magnitude(acc.noise_with_max_sd) = Max({M[i] : i \in noisiest2})
      BY <2>2, <2>6, PeakIsLargest
    <3> QED BY <2>1, <2>3, <2>4, <3>1
  <2> QED BY <2>5, <2>6 DEF LargestIsAccumulated
<1> QED BY <1>1, SumsInvariance, PTL

-----------------------------------------------------------------------------
(* A draw that stays within the list of top contributors.                  *)

(* The average of the top group is not above the least of the outliers, so *)
(* that as many averages do not exceed what the outliers contributed.      *)
LEMMA OutliersAreAbove ==
  ASSUME NEW top \in Seq(Nat), \A k, l \in 1 .. Len(top) : k < l => top[k] >= top[l],
         NEW outliers \in Nat, NEW tops \in Nat \ {0}, outliers + tops <= Len(top)
  PROVE  LET P == Plus(SubSeq(top, 1, outliers))
             A == TopAverage(top, outliers, tops)
         IN  /\ P \in Nat /\ P <= Plus(top)
             /\ A \in Nat
             /\ A * outliers \in Nat /\ A * outliers <= Scale * P
<1> DEFINE s == SubSeq(top, 1, outliers)
           t == SubSeq(top, outliers + 1, outliers + tops)
           P == Plus(s)
           T == Plus(t)
           A == TopAverage(top, outliers, tops)
<1>1. Len(top) \in Nat /\ top \in Seq(Int) /\ \A k \in 1 .. Len(top) : top[k] \in Nat
  <2>1. top \in Seq(Int)
    OBVIOUS
  <2> QED BY <2>1, LenProperties, ElementOfSeq
<1>2. /\ s \in Seq(Nat) /\ Len(s) = outliers
      /\ \A k \in 1 .. outliers : s[k] = top[k]
  <2>1. outliers <= Len(top)
    BY <1>1
  <2>2. \A k \in 1 .. outliers : top[k] \in Nat
    BY <1>1, <2>1
  <2> QED BY <2>1, <2>2
<1>3. /\ t \in Seq(Nat) /\ Len(t) = tops
      /\ \A k \in 1 .. tops : t[k] = top[k + outliers]
  <2>1. \A k \in outliers + 1 .. outliers + tops : top[k] \in Nat
    BY <1>1
  <2>2. outliers + 1 \in Nat /\ outliers + tops \in Nat
    OBVIOUS
  <2> QED BY <2>1, <2>2
<1> HIDE DEF s, t
<1>4. s \in Seq(Int) /\ t \in Seq(Int)
  BY <1>2, <1>3
<1>5. P \in Nat /\ T \in Nat /\ P <= Plus(top)
  <2>1. 0 <= PartialSums(s)[outliers] /\ 0 <= PartialSums(t)[tops]
    <3>1. outliers \in 0 .. Len(s) /\ tops \in 0 .. Len(t)
      BY <1>2, <1>3
    <3> QED BY <1>2, <1>3, <3>1, PartialSumsGrow
  <2>2. PartialSums(s)[outliers] \in Int /\ PartialSums(t)[tops] \in Int
    <3>1. outliers \in 0 .. Len(s) /\ tops \in 0 .. Len(t)
      BY <1>2, <1>3
    <3> QED BY <1>4, <3>1, PartialSumsAddUp
  <2>3. PartialSums(top)[outliers] <= Plus(top)
    <3>1. outliers \in 0 .. Len(top)
      BY <1>1
    <3> QED BY <3>1, PartialSumsGrow
  <2>4. PartialSums(s)[outliers] = PartialSums(top)[outliers]
    <3>1. outliers <= Len(s) /\ outliers <= Len(top) /\ outliers \in 0 .. outliers
      BY <1>1, <1>2
    <3> QED BY <1>1, <1>2, <1>4, <3>1, PartialSumsOfPrefix
  <2> QED BY <1>2, <1>3, <2>1, <2>2, <2>3, <2>4 DEF Plus
<1>6. Scale \in Nat /\ Scale \in Int
  BY FlatteningAssumption DEF FlatteningAssumption
<1>7. A = (Scale * T) \div tops
  BY DEF TopAverage, t
<1> HIDE DEF P, T, A
<1>8. Scale * T \in Nat /\ Scale * P \in Nat
  BY <1>5, <1>6, Products
<1>9. A \in Nat
  <2> DEFINE x == Scale * T
  <2>1. x \in Int /\ x >= 0 /\ A = x \div tops
    BY <1>7, <1>8
  <2> HIDE DEF x
  <2>2. A \in Int /\ A >= 0
    BY <2>1, Quotient
  <2> QED BY <2>2
<1>10. A * outliers \in Nat
  BY <1>9, Products
<1>11. A * outliers <= Scale * P
  <2>1. CASE outliers = 0
    <3>1. A * 0 = 0
      BY <1>9
    <3> QED BY <1>8, <2>1, <3>1
  <2>2. CASE outliers # 0
    <3> DEFINE m == top[outliers]
    <3>1. m \in Nat
      BY <1>1, <2>2
    <3>2. \A k \in 1 .. Len(s) : s[k] >= m
      <4> SUFFICES ASSUME NEW k \in 1 .. outliers PROVE top[k] >= m
        BY <1>2
      <4>1. k \in 1 .. Len(top) /\ outliers \in 1 .. Len(top)
        BY <1>1
      <4>2. CASE k = outliers
        BY <3>1, <4>2
      <4>3. CASE k < outliers
        BY <4>1, <4>3
      <4> QED BY <4>2, <4>3
    <3>3. \A k \in 1 .. Len(t) : t[k] <= m
      <4> SUFFICES ASSUME NEW k \in 1 .. tops PROVE top[k + outliers] <= m
        BY <1>3
      <4>1. k + outliers \in 1 .. Len(top) /\ outliers \in 1 .. Len(top) /\ outliers < k + outliers
        BY <1>1, <2>2
      <4> QED BY <4>1
    <3> HIDE DEF m
    <3>4. P >= outliers * m
      <4>1. m \in Int
        BY <3>1
      <4>2. \A k \in 0 .. Len(s) : PartialSums(s)[k] >= k * m
        BY <1>4, <3>2, <4>1, PartialSumsAtLeast
      <4>3. Len(s) \in 0 .. Len(s) /\ Len(s) = outliers /\ P = PartialSums(s)[Len(s)]
        BY <1>2 DEF P, Plus
      <4> QED BY <4>2, <4>3
    <3>5. T <= tops * m
      <4>1. m \in Int
        BY <3>1
      <4>2. \A k \in 0 .. Len(t) : PartialSums(t)[k] <= k * m
        BY <1>4, <3>3, <4>1, PartialSumsAtMost
      <4>3. Len(t) \in 0 .. Len(t) /\ Len(t) = tops /\ T = PartialSums(t)[Len(t)]
        BY <1>3 DEF T, Plus
      <4> QED BY <4>2, <4>3
    <3> DEFINE u  == Scale * m
               om == outliers * m
               tm == tops * m
               st == Scale * T
    <3>6. u \in Nat /\ om \in Nat /\ tm \in Nat /\ st \in Nat
      BY <1>6, <1>8, <3>1, Products
    <3>7. T * Scale = st /\ tm * Scale = tops * u /\ u * outliers = om * Scale /\ P * Scale = Scale * P
      BY <1>5, <1>6, <3>1
    <3>8. P >= om /\ T <= tm /\ A = st \div tops
      BY <1>7, <3>4, <3>5
    <3> HIDE DEF u, om, tm, st
    <3>9. st <= tops * u
      <4>1. T * Scale <= tm * Scale
        <5>1. T \in Int /\ tm \in Int /\ Scale \in Int /\ Scale >= 0
          BY <1>5, <1>6, <3>6
        <5> QED BY <3>8, <5>1, Products
      <4> QED BY <3>7, <4>1
    <3>10. A <= u
      <4>1. st \in Int /\ u \in Int
        BY <3>6
      <4> QED BY <3>8, <3>9, <4>1, Quotient
    <3>11. A * outliers <= u * outliers
      <4>1. A \in Int /\ u \in Int /\ outliers \in Int /\ outliers >= 0
        BY <1>9, <3>6
      <4> QED BY <3>10, <4>1, Products
    <3>12. om * Scale <= P * Scale /\ om * Scale \in Int
      <4>1. om \in Int /\ P \in Int /\ Scale \in Int /\ Scale >= 0
        BY <1>5, <1>6, <3>6
      <4> QED BY <3>8, <4>1, Products
    <3> QED BY <1>8, <1>10, <3>7, <3>11, <3>12
  <2> QED BY <2>1, <2>2
<1> QED BY <1>5, <1>9, <1>10, <1>11 DEF P, A, s

LEMMA Distribution == \A x, y, z \in Int : x * (y - z) = x * y - x * z
OBVIOUS

(* What a draw within the list makes of any contributions of the outliers  *)
(* that are not less than as many averages: the sum is that of the others, *)
(* with the average of the top group in place of every outlier.            *)
LEMMA FittingResult ==
  ASSUME NEW tracker, NEW maxima, NEW noise, NEW garbage,
         tracker.top \in Seq(Nat), tracker.distinct \in Nat \ {0},
         tracker.overall \in Nat, tracker.unaccounted \in Nat,
         NEW outliers \in Nat, NEW tops \in Nat \ {0}, outliers + tops <= Len(tracker.top),
         LET P == Plus(SubSeq(tracker.top, 1, outliers))
             A == TopAverage(tracker.top, outliers, tops)
         IN  P \in Nat /\ P <= tracker.overall /\ A \in Nat /\ A * outliers \in Nat /\ A * outliers <= Scale * P
  PROVE  LET r   == Result(tracker, maxima, outliers, tops, noise, garbage)
             P   == Plus(SubSeq(tracker.top, 1, outliers))
             A   == TopAverage(tracker.top, outliers, tops)
             F   == Scale * P - A * outliers
             sum == Scale * (tracker.overall - P) + A * outliers
         IN  /\ r.outliers = outliers /\ r.tops = tops /\ r.maxima = maxima
             /\ F \in Nat /\ sum \in Nat
             /\ r.flattened_sum = sum + Larger(Scale * tracker.unaccounted - F, 0)
             /\ r.noise_sd = Larger(sum \div tracker.distinct, A \div 2)
             /\ r.noise_sd >= 0
<1> DEFINE top     == tracker.top
           members == Members(tracker, outliers + tops, garbage)
           P  == Plus(SubSeq(top, 1, outliers))
           A  == TopAverage(top, outliers, tops)
           F  == Flattened(members, outliers, tops)
           sum == Scale * tracker.overall - F
           sd  == Larger(sum \div tracker.distinct, A \div 2)
           un  == FlattenedUnaccounted(tracker.unaccounted, F)
           r   == Result(tracker, maxima, outliers, tops, noise, garbage)
<1>1. P \in Nat /\ P <= tracker.overall /\ A \in Nat /\ A * outliers \in Nat /\ A * outliers <= Scale * P
  OBVIOUS
<1>2. Scale \in Nat /\ Len(top) \in Nat
  BY LenProperties, FlatteningAssumption DEF FlatteningAssumption
<1>4. members = [k \in 1 .. outliers + tops |-> top[k]]
  <2>1. \A k \in 1 .. outliers + tops : k <= Len(tracker.top)
    BY <1>2
  <2> QED BY <2>1 DEF Members
<1>5. /\ SubSeq(members, 1, outliers) = SubSeq(top, 1, outliers)
      /\ SubSeq(members, outliers + 1, outliers + tops) = SubSeq(top, outliers + 1, outliers + tops)
  <2> HIDE DEF members, top
  <2> QED BY <1>4
<1>6. A = TopAverage(members, outliers, tops)
  BY <1>5 DEF TopAverage
<1>7. F = Larger(Scale * P - A * outliers, 0)
  BY <1>5, <1>6 DEF Flattened
<1>8. r = [not_enough |-> FALSE, flattening |-> F, flattened_sum |-> sum + un, noise_sd |-> sd,
           noise |-> noise * sd, outliers |-> outliers, tops |-> tops, maxima |-> maxima]
  BY <1>6 DEF Result
<1> HIDE DEF members, r, F, P, A
<1>9. Scale * P \in Nat /\ Scale * tracker.overall \in Nat /\ Scale * tracker.unaccounted \in Nat
  BY <1>1, <1>2, Products
<1>10. F = Scale * P - A * outliers /\ F \in Nat
  <2> DEFINE x == Scale * P  y == A * outliers
  <2>1. x \in Nat /\ y \in Nat /\ y <= x /\ F = Larger(x - y, 0)
    BY <1>1, <1>7, <1>9
  <2> HIDE DEF x, y
  <2>2. F = x - y /\ F \in Nat
    BY <2>1 DEF Larger
  <2> QED BY <2>2 DEF x, y
<1>11. Scale * P <= Scale * tracker.overall
  <2>2. P * Scale <= tracker.overall * Scale
    <3>1. P \in Int /\ tracker.overall \in Int /\ Scale \in Int /\ Scale >= 0
      BY <1>1, <1>2
    <3> QED BY <1>1, <3>1, Products
  <2>3. P * Scale = Scale * P /\ tracker.overall * Scale = Scale * tracker.overall
    BY <1>1, <1>2
  <2> QED BY <2>2, <2>3
<1>12. sum \in Nat
  <2> DEFINE x == Scale * P  y == A * outliers  z == Scale * tracker.overall
  <2>1. x \in Nat /\ y \in Nat /\ z \in Nat /\ x <= z /\ F = x - y /\ sum = z - F
    BY <1>1, <1>9, <1>10, <1>11
  <2> HIDE DEF x, y, z, sum
  <2> QED BY <2>1
<1>13. un = Larger(Scale * tracker.unaccounted - F, 0)
  BY DEF FlattenedUnaccounted
<1>14. sum = Scale * (tracker.overall - P) + A * outliers
  <2>1. Scale * (tracker.overall - P) = Scale * tracker.overall - Scale * P
    BY <1>1, <1>2, Distribution
  <2> QED BY <1>1, <1>9, <1>10, <2>1
<1> HIDE DEF sum, un
<1>15. sd >= 0
  <2>1. sum \div tracker.distinct \in Int /\ sum \div tracker.distinct >= 0
    <3>1. sum \in Int /\ sum >= 0
      BY <1>12
    <3> QED BY <3>1, Quotient
  <2>2. A \div 2 \in Int
    BY <1>1, Quotient
  <2> QED BY <2>1, <2>2 DEF Larger
<1>16. /\ r.outliers = outliers /\ r.tops = tops /\ r.maxima = maxima
       /\ r.flattened_sum = sum + un /\ r.noise_sd = sd
  BY <1>8
<1> QED BY <1>10, <1>12, <1>13, <1>14, <1>15, <1>16 DEF r, P, A

LEMMA FittingDraw ==
  ASSUME NEW tracker, GoodTracker(tracker), tracker.distinct # 0, NEW maxima,
         NEW outliers \in Nat, NEW tops \in Nat \ {0}, outliers + tops <= Len(tracker.top),
         NEW noise, NEW garbage
  PROVE  LET r == Result(tracker, maxima, outliers, tops, noise, garbage)
         IN  /\ r.outliers = outliers /\ r.tops = tops /\ r.maxima = maxima
             /\ r.flattened_sum >= 0 /\ r.noise_sd >= 0
             /\ \A larger \in Raised(tracker.top, outliers) :
                  LET other == Result(WithOutliers(tracker, larger, outliers), maxima, outliers, tops, 0, 0)
                      unaccounted == Scale * tracker.unaccounted
                  IN  /\ other.noise_sd = r.noise_sd
                      /\ other.flattened_sum \in r.flattened_sum - unaccounted .. r.flattened_sum
<1> DEFINE top == tracker.top
           P   == Plus(SubSeq(top, 1, outliers))
           A   == TopAverage(top, outliers, tops)
           F   == Scale * P - A * outliers
           sum == Scale * (tracker.overall - P) + A * outliers
           un  == Larger(Scale * tracker.unaccounted - F, 0)
           r   == Result(tracker, maxima, outliers, tops, noise, garbage)
<1>1. /\ top \in Seq(Nat) /\ \A k, l \in 1 .. Len(top) : k < l => top[k] >= top[l]
      /\ tracker.distinct \in Nat \ {0} /\ tracker.overall \in Nat /\ Plus(top) <= tracker.overall
      /\ tracker.unaccounted \in Nat
  BY DEF GoodTracker
<1>2. Scale \in Nat /\ Len(top) \in Nat
  BY <1>1, LenProperties, FlatteningAssumption DEF FlatteningAssumption
<1>3. /\ P \in Nat /\ P <= Plus(top) /\ A \in Nat
      /\ A * outliers \in Nat /\ A * outliers <= Scale * P
  BY <1>1, OutliersAreAbove
<1>4. P <= tracker.overall
  <2>1. Plus(top) \in Int
    <3>1. top \in Seq(Int)
      BY <1>1
    <3>2. Len(top) \in 0 .. Len(top)
      BY <1>2
    <3> QED BY <3>1, <3>2, PartialSumsAddUp DEF Plus
  <2> QED BY <1>1, <1>3, <2>1
<1>5. /\ r.outliers = outliers /\ r.tops = tops /\ r.maxima = maxima
      /\ F \in Nat /\ sum \in Nat
      /\ r.flattened_sum = sum + un
      /\ r.noise_sd = Larger(sum \div tracker.distinct, A \div 2)
      /\ r.noise_sd >= 0
  <2>1. tracker.top \in Seq(Nat) /\ outliers + tops <= Len(tracker.top)
    BY <1>1
  <2>2. LET P2 == Plus(SubSeq(tracker.top, 1, outliers))
            A2 == TopAverage(tracker.top, outliers, tops)
        IN  /\ P2 \in Nat /\ P2 <= tracker.overall /\ A2 \in Nat
            /\ A2 * outliers \in Nat /\ A2 * outliers <= Scale * P2
    BY <1>3, <1>4
  <2> HIDE DEF F, sum, un, r, P, A, top
  <2>3. LET r2   == Result(tracker, maxima, outliers, tops, noise, garbage)
            P2   == Plus(SubSeq(tracker.top, 1, outliers))
            A2   == TopAverage(tracker.top, outliers, tops)
            F2   == Scale * P2 - A2 * outliers
            sum2 == Scale * (tracker.overall - P2) + A2 * outliers
        IN  /\ r2.outliers = outliers /\ r2.tops = tops /\ r2.maxima = maxima
            /\ F2 \in Nat /\ sum2 \in Nat
            /\ r2.flattened_sum = sum2 + Larger(Scale * tracker.unaccounted - F2, 0)
            /\ r2.noise_sd = Larger(sum2 \div tracker.distinct, A2 \div 2)
            /\ r2.noise_sd >= 0
    BY <1>1, <2>1, <2>2, FittingResult
  <2> QED BY <2>3 DEF F, sum, un, r, P, A, top
<1>6. Scale * tracker.unaccounted \in Nat
  BY <1>1, <1>2, Products
<1>7. ASSUME NEW larger \in Raised(top, outliers)
      PROVE  LET other == Result(WithOutliers(tracker, larger, outliers), maxima, outliers, tops, 0, 0)
             IN  /\ other.noise_sd = r.noise_sd
                 /\ other.flattened_sum \in r.flattened_sum - Scale * tracker.unaccounted .. r.flattened_sum
  <2> DEFINE s2 == SubSeq(larger, 1, outliers)
             P2 == Plus(s2)
             tracker2 == WithOutliers(tracker, larger, outliers)
             F2 == Scale * P2 - A * outliers
             un2 == Larger(Scale * tracker.unaccounted - F2, 0)
             other == Result(tracker2, maxima, outliers, tops, 0, 0)
  <2>1. /\ larger \in Seq(Nat) /\ Len(larger) = Len(top)
        /\ \A k \in 1 .. Len(top) : larger[k] >= top[k] /\ (k > outliers => larger[k] = top[k])
    <3>1. DOMAIN top = 1 .. Len(top)
      BY <1>1, LenProperties
    <3>2. /\ larger \in [1 .. Len(top) -> Nat]
          /\ \A k \in 1 .. Len(top) : larger[k] >= top[k] /\ (k > outliers => larger[k] = top[k])
      BY <3>1, FlatteningAssumption DEF Raised, FlatteningAssumption
    <3>3. larger \in Seq(Nat)
      BY <1>2, <3>2, IsASeq
    <3> QED BY <1>2, <3>2, <3>3, LenProperties
  <2>2. /\ SubSeq(top, 1, outliers) \in Seq(Int) /\ s2 \in Seq(Int) /\ Len(s2) = Len(SubSeq(top, 1, outliers))
        /\ \A k \in 1 .. Len(SubSeq(top, 1, outliers)) : s2[k] >= SubSeq(top, 1, outliers)[k]
    <3>1. /\ SubSeq(top, 1, outliers) = [k \in 1 .. outliers |-> top[k]]
          /\ s2 = [k \in 1 .. outliers |-> larger[k]]
      <4> HIDE DEF top
      <4> QED BY <1>1, <1>2, <2>1
    <3>2. \A k \in 1 .. outliers : k \in 1 .. Len(top)
      BY <1>2
    <3>3. \A k \in 1 .. outliers : top[k] \in Int /\ larger[k] \in Int
      BY <1>1, <2>1, <3>2, ElementOfSeq
    <3>4. \A f \in [1 .. outliers -> Int] : f \in Seq(Int) /\ Len(f) = outliers
      BY IsASeq, LenProperties
    <3>5. SubSeq(top, 1, outliers) \in [1 .. outliers -> Int] /\ s2 \in [1 .. outliers -> Int]
      BY <3>1, <3>3
    <3> HIDE DEF top, s2
    <3> QED BY <2>1, <3>1, <3>2, <3>4, <3>5
  <2>3. P2 \in Nat /\ P2 >= P
    <3>1. P2 \in Int /\ P2 >= P
      BY <2>2, PlusIsMonotone
    <3> QED BY <1>3, <3>1
  <2>4. SubSeq(larger, outliers + 1, outliers + tops) = SubSeq(top, outliers + 1, outliers + tops)
    <3>1. \A k \in outliers + 1 .. outliers + tops : larger[k] = top[k]
      BY <1>2, <2>1
    <3> HIDE DEF top
    <3> QED BY <1>1, <1>2, <2>1, <3>1
  <2>5. A = TopAverage(larger, outliers, tops)
    BY <2>4 DEF TopAverage
  <2> HIDE DEF P, A, P2
  <2>6. /\ tracker2.top = larger /\ tracker2.distinct = tracker.distinct
        /\ tracker2.unaccounted = tracker.unaccounted /\ tracker2.overall = tracker.overall + P2 - P
    BY DEF WithOutliers, GoodTracker, P, P2
  <2>7. tracker2.overall \in Nat /\ P2 <= tracker2.overall /\ tracker2.overall - P2 = tracker.overall - P
    BY <1>1, <1>3, <1>4, <2>3, <2>6
  <2>8. Scale * P <= Scale * P2 /\ Scale * P \in Nat /\ Scale * P2 \in Nat
    <3>1. P * Scale <= P2 * Scale
      <4>1. P \in Int /\ P2 \in Int /\ Scale \in Int /\ Scale >= 0
        BY <1>2, <1>3, <2>3
      <4> QED BY <2>3, <4>1, Products
    <3>2. P * Scale = Scale * P /\ P2 * Scale = Scale * P2
      BY <1>2, <1>3, <2>3
    <3> QED BY <1>2, <1>3, <2>3, <3>1, <3>2, Products
  <2>9. /\ other.flattened_sum = sum + un2
        /\ other.noise_sd = Larger(sum \div tracker.distinct, A \div 2)
    <3>1. A * outliers \in Nat /\ A * outliers <= Scale * P2 /\ A \in Nat
      BY <1>3, <2>8
    <3>2. P2 = Plus(SubSeq(tracker2.top, 1, outliers)) /\ A = TopAverage(tracker2.top, outliers, tops)
      BY <2>5, <2>6 DEF P2
    <3>3. tracker2.top \in Seq(Nat) /\ outliers + tops <= Len(tracker2.top)
      BY <2>1, <2>6
    <3>4. tracker2.distinct \in Nat \ {0} /\ tracker2.unaccounted \in Nat
      BY <1>1, <2>6
    <3>6. tracker2.overall \in Nat /\ P2 <= tracker2.overall /\ P2 \in Nat
      BY <2>3, <2>7
    <3>7. other = Result(tracker2, maxima, outliers, tops, 0, 0)
      OBVIOUS
    <3> HIDE DEF tracker2, other
    <3>8. LET P3 == Plus(SubSeq(tracker2.top, 1, outliers))
              A3 == TopAverage(tracker2.top, outliers, tops)
          IN  /\ P3 \in Nat /\ P3 <= tracker2.overall /\ A3 \in Nat
              /\ A3 * outliers \in Nat /\ A3 * outliers <= Scale * P3
      BY <3>6, <3>1, <3>2
    <3>9. LET r3   == Result(tracker2, maxima, outliers, tops, 0, 0)
              P3   == Plus(SubSeq(tracker2.top, 1, outliers))
              A3   == TopAverage(tracker2.top, outliers, tops)
              F3   == Scale * P3 - A3 * outliers
              sum3 == Scale * (tracker2.overall - P3) + A3 * outliers
          IN  /\ r3.outliers = outliers /\ r3.tops = tops /\ r3.maxima = maxima
              /\ F3 \in Nat /\ sum3 \in Nat
              /\ r3.flattened_sum = sum3 + Larger(Scale * tracker2.unaccounted - F3, 0)
              /\ r3.noise_sd = Larger(sum3 \div tracker2.distinct, A3 \div 2)
              /\ r3.noise_sd >= 0
      <4>1. tracker2.overall \in Nat
        BY <3>6
      <4> QED BY <4>1, <3>3, <3>4, <3>8, FittingResult
    <3>5. LET sum2 == Scale * (tracker2.overall - P2) + A * outliers
          IN  /\ other.flattened_sum = sum2 + Larger(Scale * tracker2.unaccounted - (Scale * P2 - A * outliers), 0)
              /\ other.noise_sd = Larger(sum2 \div tracker2.distinct, A \div 2)
      BY <3>7, <3>2, <3>9
    <3> QED BY <2>6, <2>7, <3>5
  <2>10. un2 \in 0 .. un /\ un <= Scale * tracker.unaccounted /\ un \in Nat
    <3>1. F \in Nat /\ F2 \in Int /\ F2 >= F
      BY <1>3, <1>5, <2>8
    <3> HIDE DEF F, F2
    <3> QED BY <1>6, <3>1 DEF Larger
  <2> DEFINE unaccounted == Scale * tracker.unaccounted
  <2>11. /\ unaccounted \in Nat /\ un <= unaccounted /\ un \in Nat /\ un2 \in 0 .. un
         /\ sum \in Nat /\ r.flattened_sum = sum + un /\ other.flattened_sum = sum + un2
    BY <1>5, <1>6, <2>9, <2>10
  <2> HIDE DEF sum, un, un2, other, r, unaccounted
  <2>12. other.flattened_sum \in r.flattened_sum - unaccounted .. r.flattened_sum
    BY <2>11
  <2>13. other.noise_sd = r.noise_sd
    BY <1>5, <2>9 DEF r
  <2> QED BY <2>12, <2>13 DEF other, unaccounted
<1> HIDE DEF sum
<1>8. r.flattened_sum >= 0
  <2>1. un >= 0 /\ un \in Int
    BY <1>5, <1>6 DEF Larger
  <2> HIDE DEF un
  <2> QED BY <1>5, <2>1
<1> QED BY <1>5, <1>7, <1>8 DEF r, top

(* Unless a setting was changed, every draw stays within the list.         *)
LEMMA EvaluatedFits ==
  ASSUME IInv, SumsInv, IntervalsFit, changes = 0, NEW i \in Evaluated
  PROVE  LET r == results[i]
         IN  /\ r.flattened_sum >= 0 /\ r.noise_sd >= 0
             /\ \A larger \in Raised(trackers[i].top, r.outliers) :
                  LET other == Result(WithOutliers(trackers[i], larger, r.outliers),
                                      r.maxima, r.outliers, r.tops, 0, 0)
                      unaccounted == Scale * trackers[i].unaccounted
                  IN  /\ other.noise_sd = r.noise_sd
                      /\ other.flattened_sum \in r.flattened_sum - unaccounted .. r.flattened_sum
<1> DEFINE maxima == results[i].maxima
<1>1. PICK outliers \in g_config.outlier_min .. maxima.outlier,
           tops \in g_config.top_min .. maxima.top, noise \in Noises, garbage \in Garbage :
        results[i] = Result(trackers[i], maxima, outliers, tops, noise, garbage)
  BY DEF SumsInv, Drawn
<1>2. g_config.outlier_min \in Nat /\ g_config.top_min \in Nat \ {0}
  BY FlatteningAssumption DEF IInv, FlatteningAssumption
<1>3. /\ maxima.outlier + maxima.top <= Len(trackers[i].top)
      /\ maxima.outlier \in Int /\ maxima.top \in Int
  BY <1>2 DEF IntervalsFit
<1>4. GoodTracker(trackers[i]) /\ i \in DOMAIN trackers
  BY EvaluatedIsTyped
<1>5. trackers[i].distinct # 0
  <2>1. ~NotEnough(trackers[i])
    BY DEF IInv, Results, Evaluated
  <2> QED BY <1>2, <1>4, <2>1 DEF NotEnough, GoodTracker
<1>6. Len(trackers[i].top) \in Nat
  BY <1>4, LenProperties DEF GoodTracker
<1>7. outliers \in Nat /\ tops \in Nat \ {0} /\ outliers + tops <= Len(trackers[i].top)
  <2> DEFINE o == maxima.outlier  t == maxima.top  n == Len(trackers[i].top)
  <2>1. o \in Int /\ t \in Int /\ n \in Nat /\ o + t <= n
    BY <1>3, <1>6
  <2>2. /\ outliers \in Int /\ g_config.outlier_min <= outliers /\ outliers <= o
        /\ tops \in Int /\ g_config.top_min <= tops /\ tops <= t
    OBVIOUS
  <2> HIDE DEF o, t, n
  <2>3. outliers \in Nat /\ tops \in Nat \ {0} /\ outliers + tops <= n
    BY <1>2, <2>1, <2>2
  <2> QED BY <2>3 DEF n
<1> DEFINE r == Result(trackers[i], maxima, outliers, tops, noise, garbage)
<1>8. /\ r.outliers = outliers /\ r.tops = tops /\ r.maxima = maxima
      /\ r.flattened_sum >= 0 /\ r.noise_sd >= 0
      /\ \A larger \in Raised(trackers[i].top, outliers) :
           LET other == Result(WithOutliers(trackers[i], larger, outliers), maxima, outliers, tops, 0, 0)
               unaccounted == Scale * trackers[i].unaccounted
           IN  /\ other.noise_sd = r.noise_sd
               /\ other.flattened_sum \in r.flattened_sum - unaccounted .. r.flattened_sum
  <2> HIDE DEF maxima
  <2> QED BY <1>4, <1>5, <1>7, FittingDraw
<1>9. results[i] = r
  BY <1>1
<1> HIDE DEF r, maxima
<1> QED BY <1>8, <1>9

(* For all valid settings, any list of contributors and every draw, larger *)
(* outliers change nothing but what is left of rows without AID.           *)
THEOREM OutliersHidden == Spec => []OutliersAreHidden
<1>1. IInv /\ SumsInv /\ IntervalsFit => OutliersAreHidden
  BY EvaluatedFits DEF OutliersAreHidden
<1> QED BY <1>1, Invariance, SumsInvariance, DrawsFit, PTL

(* The state stays what the code takes it for: sums, deviations and what   *)
(* is flattened are not negative, unless a setting was changed.            *)
THEOREM TypeCorrect == Spec => []TypeOK
<1>1. IInv /\ SumsInv /\ IntervalsFit => TypeOK
  <2> SUFFICES ASSUME IInv, SumsInv, IntervalsFit PROVE TypeOK
    OBVIOUS
  <2>1. \A i \in DOMAIN trackers :
          /\ Len(trackers[i].top) <= trackers[i].distinct
          /\ trackers[i].distinct \in 0 .. MaxContributors
    BY DEF SumsInv, Lists, GoodTracker
  <2>2. ASSUME NEW i \in DOMAIN results
        PROVE  /\ results[i].flattening \in Nat /\ results[i].flattened_sum \in Int
               /\ results[i].noise_sd \in Int
               /\ changes = 0 => results[i].flattened_sum >= 0 /\ results[i].noise_sd >= 0
    <3>1. CASE i \in Evaluated
      BY <3>1, EvaluatedIsTyped, EvaluatedFits
    <3>2. CASE i \notin Evaluated
      <4>1. results[i] = NotEnoughResult
        BY <2>2, <3>2 DEF SumsInv, Evaluated
      <4> QED BY <4>1 DEF NotEnoughResult
    <3> QED BY <3>1, <3>2
  <2>3. /\ acc.max_flattening \in Nat /\ acc.sum_for_flattening \in Int /\ acc.max_noise_sd \in Nat
    BY DEF SumsInv, Accumulated, Accumulators
  <2>4. Len(results) <= Instances
    BY DEF IInv, Results
  <2> QED BY <2>1, <2>2, <2>3, <2>4 DEF TypeOK, SumsInv, IInv
<1> QED BY <1>1, Invariance, SumsInvariance, DrawsFit, PTL
=============================================================================
