----------------------------- MODULE Flattening -----------------------------
(***************************************************************************)
(* The evaluation of the summable aggregates (src/aggregation/summable.c,  *)
(* count_calculate_final of count.c): for every AID instance the largest   *)
(* contributors (the outliers) are flattened to the average of the next    *)
(* ones (the top group), and the results are combined.  How many outliers  *)
(* and top contributors there are is drawn from the intervals of the       *)
(* settings, compacted when there are few contributors.                    *)
(*                                                                         *)
(* The settings are read when the query is planned (config_validate), when *)
(* the contribution trackers are created, and when the aggregate is        *)
(* evaluated (with a cursor, bucket after bucket as they are fetched); a    *)
(* superuser may change them in between, one by one.  Strict mode is off.   *)
(*                                                                         *)
(* A double is represented by the integer Scale times as large.            *)
(***************************************************************************)
EXTENDS Integers, Sequences, FiniteSets, FiniteSetsExt, SequencesExt

CONSTANTS
  Instances,       (* Number of AID instances.                              *)
  Contributions,   (* What a contributor contributes in total.              *)
  Unaccounted,     (* What rows without AID may contribute in total.        *)
  MaxContributors, (* Bound on the contributors.                            *)
  Settings,        (* The settings of the four interval bounds.             *)
  Noises,          (* Values of the noise, in standard deviations.          *)
  Garbage,         (* What may lie behind the array of top contributors.    *)
  Scale,           (* Divisible by every denominator that occurs.           *)
  MaxChanges       (* Bound on the changes of settings.                     *)

ASSUME FlatteningAssumption ==
  /\ Instances \in Nat /\ MaxContributors \in Nat /\ MaxChanges \in Nat
  /\ Contributions \subseteq Nat /\ Unaccounted \subseteq Nat
  /\ Settings \subseteq [outlier_min : Nat, outlier_max : Nat, top_min : Nat \ {0}, top_max : Nat \ {0}]
  /\ Noises \subseteq Int /\ Garbage \subseteq Int
  /\ Scale \in Nat \ {0}

VARIABLES
  phase,     (* "plan", "fill", "finalize", "done" or "crashed"             *)
  g_config,  (* The current settings.                                       *)
  trackers,  (* One contribution tracker for each AID instance.             *)
  results,   (* The SummableResults so far, one for each AID instance.      *)
  acc,       (* SummableResultAccumulator                                   *)
  changes    (* Bounded counter of the changes of settings.                 *)

vars == <<phase, g_config, trackers, results, acc, changes>>

-----------------------------------------------------------------------------
(* Compacting the intervals.                                               *)

\* config_validate, with strict mode off.
Valid(config) ==
  config.top_min <= config.top_max /\ config.outlier_min <= config.outlier_max

\* Mutant: half of the adjustment, not its rest, is compared with the top range.
CompactHalf(config, total) ==
  LET adjustment == config.outlier_max + config.top_max - total
      half       == adjustment \div 2
      Maxima(o, t) == [possible |-> TRUE, outlier |-> o, top |-> t]
  IN  IF adjustment <= 0 THEN Maxima(config.outlier_max, config.top_max)
      ELSE IF config.outlier_max - config.outlier_min < half
           THEN Maxima(config.outlier_min,
                       config.top_max - (adjustment - (config.outlier_max - config.outlier_min)))
           ELSE IF config.top_max - config.top_min < half
                THEN Maxima(config.outlier_max - (adjustment - (config.top_max - config.top_min)), config.top_min)
                ELSE Maxima(config.outlier_max - half, config.top_max - half)

\* determine_outlier_top_counts: the upper bounds of both intervals are lowered
\* until they add up to the number of contributors.  FALSE stands for the
\* internal error at the end.
Compact(config, total) ==
  LET adjustment         == config.outlier_max + config.top_max - total
      outlier_range      == config.outlier_max - config.outlier_min
      top_range          == config.top_max - config.top_min
      outlier_adjustment == adjustment \div 2
      top_adjustment     == adjustment - outlier_adjustment
      Maxima(o, t)       == [possible |-> TRUE, outlier |-> o, top |-> t]
  IN  IF adjustment <= 0
      THEN Maxima(config.outlier_max, config.top_max)
      ELSE IF outlier_range >= outlier_adjustment /\ top_range >= top_adjustment
      THEN Maxima(config.outlier_max - outlier_adjustment, config.top_max - top_adjustment)
      ELSE IF outlier_range < outlier_adjustment /\ top_range >= top_adjustment
      THEN Maxima(config.outlier_min, config.top_max - (adjustment - outlier_range))
      ELSE IF outlier_range >= outlier_adjustment /\ top_range < top_adjustment
      THEN Maxima(config.outlier_max - (adjustment - top_range), config.top_min)
      ELSE [possible |-> FALSE, outlier |-> 0, top |-> 0]

-----------------------------------------------------------------------------
(* One AID instance.                                                       *)

\* The sums of the first members of a list.
PartialSums(list) ==
  LET sum[k \in 0 .. Len(list)] == IF k = 0 THEN 0 ELSE sum[k - 1] + list[k] IN sum

Plus(list) == PartialSums(list)[Len(list)]

Larger(x, y) == IF x > y THEN x ELSE y

\* A tracker over contributors with the given, sorted contributions.
Tracker(list, unaccounted) ==
  LET capacity == g_config.outlier_max + g_config.top_max
  IN  [top         |-> SubSeq(list, 1, IF Len(list) < capacity THEN Len(list) ELSE capacity),
       capacity    |-> capacity,
       distinct    |-> Len(list),
       overall     |-> Plus(list),
       unaccounted |-> unaccounted]

\* The members of the list of top contributors with indexes 1 to count, whatever
\* its length: the array was zeroed up to its capacity.
Members(tracker, count, garbage) ==
  [k \in 1 .. count |-> IF k <= Len(tracker.top) THEN tracker.top[k]
                        ELSE IF k <= tracker.capacity THEN 0 ELSE garbage]

\* Mutant: the outliers are forgotten.
NotEnoughTop(tracker) == tracker.distinct < g_config.top_min

\* aggregate_contributions, too few contributors.
NotEnough(tracker) == tracker.distinct < g_config.outlier_min + g_config.top_min

\* Mutant: the last outlier is taken for one of the top group.
TopAverageFromLast(members, outliers, tops) ==
  (Scale * Plus(SubSeq(members, Larger(outliers, 1), outliers + tops - 1))) \div tops

TopAverage(members, outliers, tops) ==
  (Scale * Plus(SubSeq(members, outliers + 1, outliers + tops))) \div tops

\* What flattening removes: the outliers, less as many average top contributors.
Flattened(members, outliers, tops) ==
  Larger(Scale * Plus(SubSeq(members, 1, outliers)) - TopAverage(members, outliers, tops) * outliers, 0)

\* Mutant: rows without AID may count negatively.
UnaccountedNegative(unaccounted, flattening) == Scale * unaccounted - flattening

\* Rows without AID might all belong to an outlier.
FlattenedUnaccounted(unaccounted, flattening) == Larger(Scale * unaccounted - flattening, 0)

\* The rest of aggregate_contributions, for the drawn counts and noise.
Result(tracker, maxima, outliers, tops, noise, garbage) ==
  LET members     == Members(tracker, outliers + tops, garbage)
      flattening  == Flattened(members, outliers, tops)
      sum         == Scale * tracker.overall - flattening
      noise_sd    == Larger(sum \div tracker.distinct, TopAverage(members, outliers, tops) \div 2)
  IN  [not_enough    |-> FALSE,
       flattening    |-> flattening,
       flattened_sum |-> sum + FlattenedUnaccounted(tracker.unaccounted, flattening),
       noise_sd      |-> noise_sd,
       noise         |-> noise * noise_sd,
       outliers      |-> outliers,
       tops          |-> tops,
       maxima        |-> maxima]

NotEnoughResult ==
  [not_enough |-> TRUE, flattening |-> 0, flattened_sum |-> 0, noise_sd |-> 0, noise |-> 0,
   outliers |-> 0, tops |-> 0, maxima |-> [possible |-> TRUE, outlier |-> 0, top |-> 0]]

Magnitude(x) == IF x < 0 THEN 0 - x ELSE x

\* Mutant: a draw is resolved in favour of the later AID instance.
AccumulateLast(a, result) ==
  IF result.not_enough THEN [a EXCEPT !.not_enough = TRUE]
  ELSE [a EXCEPT
          !.sum_for_flattening =
            IF result.flattening >= a.max_flattening THEN result.flattened_sum ELSE @,
          !.max_flattening = Larger(@, result.flattening),
          !.noise_with_max_sd = IF result.noise_sd >= a.max_noise_sd THEN result.noise ELSE @,
          !.max_noise_sd = Larger(@, result.noise_sd)]

\* accumulate_result
Accumulate(a, result) ==
  IF result.not_enough THEN [a EXCEPT !.not_enough = TRUE]
  ELSE [a EXCEPT
          !.sum_for_flattening =
            IF result.flattening > a.max_flattening THEN result.flattened_sum
            ELSE IF result.flattening = a.max_flattening THEN Larger(@, result.flattened_sum)
            ELSE @,
          !.max_flattening = Larger(@, result.flattening),
          !.noise_with_max_sd =
            IF \/ result.noise_sd > a.max_noise_sd
               \/ result.noise_sd = a.max_noise_sd /\ Magnitude(result.noise) > Magnitude(@)
            THEN result.noise ELSE @,
          !.max_noise_sd = Larger(@, result.noise_sd)]

-----------------------------------------------------------------------------

SortedLists ==
  {list \in UNION {[1 .. n -> Contributions] : n \in 0 .. MaxContributors} :
     \A k, l \in DOMAIN list : k < l => list[k] >= list[l]}

Init ==
  /\ phase = "plan"
  /\ g_config \in Settings
  /\ trackers = <<>>
  /\ results = <<>>
  /\ acc = [max_flattening |-> 0, sum_for_flattening |-> 0,
            max_noise_sd |-> 0, noise_with_max_sd |-> 0, not_enough |-> FALSE]
  /\ changes = 0

\* The query is planned: prepare_query validates the settings.
Plan ==
  /\ phase = "plan"
  /\ Valid(g_config)
  /\ phase' = "fill"
  /\ UNCHANGED <<g_config, trackers, results, acc, changes>>

\* The query is executed up to the last row of the bucket.
Fill ==
  /\ phase = "fill"
  /\ \E lists \in [1 .. Instances -> SortedLists], unaccounted \in [1 .. Instances -> Unaccounted] :
       trackers' = [i \in 1 .. Instances |-> Tracker(lists[i], unaccounted[i])]
  /\ phase' = "finalize"
  /\ UNCHANGED <<g_config, results, acc, changes>>

\* SET of one bound, between two statements: interval_check_hook warns of a
\* bound that crosses the other one, and accepts it.
Change ==
  /\ phase \in {"plan", "fill", "finalize"}
  /\ changes < MaxChanges
  /\ results = <<>>
  /\ \E config \in Settings, bound \in DOMAIN g_config :
       /\ config = [g_config EXCEPT ![bound] = config[bound]]
       /\ config # g_config
       /\ g_config' = config
  /\ changes' = changes + 1
  /\ UNCHANGED <<phase, trackers, results, acc>>

\* count_calculate_final, one iteration: too few contributors end the loop.
FinalizeNotEnough ==
  /\ phase = "finalize"
  /\ Len(results) < Instances
  /\ NotEnough(trackers[Len(results) + 1])
  /\ results' = Append(results, NotEnoughResult)
  /\ acc' = Accumulate(acc, NotEnoughResult)
  /\ phase' = "done"
  /\ UNCHANGED <<g_config, trackers, changes>>

\* count_calculate_final, one iteration.
FinalizeInstance ==
  /\ phase = "finalize"
  /\ Len(results) < Instances
  /\ LET tracker == trackers[Len(results) + 1]
         maxima  == Compact(g_config, tracker.distinct)
     IN  /\ ~NotEnough(tracker)
         /\ maxima.possible
         /\ \E outliers \in g_config.outlier_min .. maxima.outlier,
               tops \in g_config.top_min .. maxima.top,
               noise \in Noises, garbage \in Garbage :
              LET result == Result(tracker, maxima, outliers, tops, noise, garbage)
              IN  /\ results' = Append(results, result)
                  /\ acc' = Accumulate(acc, result)
  /\ UNCHANGED <<phase, g_config, trackers, changes>>

\* generate_uniform_noise, with an empty interval: its assertion fails, or the
\* process divides by zero or reads far behind the array.
Crash ==
  /\ phase = "finalize"
  /\ Len(results) < Instances
  /\ LET tracker == trackers[Len(results) + 1]
         maxima  == Compact(g_config, tracker.distinct)
     IN  /\ ~NotEnough(tracker)
         /\ maxima.possible
         /\ maxima.outlier < g_config.outlier_min \/ maxima.top < g_config.top_min
  /\ phase' = "crashed"
  /\ UNCHANGED <<g_config, trackers, results, acc, changes>>

Finish ==
  /\ phase = "finalize"
  /\ Len(results) = Instances
  /\ phase' = "done"
  /\ UNCHANGED <<g_config, trackers, results, acc, changes>>

Next == Plan \/ Fill \/ Change \/ FinalizeNotEnough \/ FinalizeInstance \/ Crash \/ Finish

Spec == Init /\ [][Next]_vars
-----------------------------------------------------------------------------
(* Properties.                                                             *)

Evaluated == {i \in DOMAIN results : ~results[i].not_enough}

TypeOK ==
  /\ phase \in {"plan", "fill", "finalize", "done", "crashed"}
  /\ g_config \in Settings
  /\ \A i \in DOMAIN trackers :
       /\ Len(trackers[i].top) <= trackers[i].distinct
       /\ trackers[i].distinct \in 0 .. MaxContributors
  /\ Len(results) <= Instances
  /\ \A i \in DOMAIN results :
       LET r == results[i]
       IN  /\ r.flattening \in Nat /\ r.flattened_sum \in Int /\ r.noise_sd \in Int
           /\ changes = 0 => r.flattened_sum >= 0 /\ r.noise_sd >= 0
  /\ acc.max_flattening \in Nat /\ acc.sum_for_flattening \in Int /\ acc.max_noise_sd \in Nat
  /\ changes \in 0 .. MaxChanges

\* Whatever the settings and the number of contributors, the compacted
\* intervals are not empty, every contributor they may pick is in the list of
\* top contributors (contributors_seed and the sums read it that far), and
\* both were lowered evenly: by at most one more at the top, unless the other
\* interval was used up.  A setting changed on the way would break it.
IntervalsFit == changes = 0 =>
  \A i \in Evaluated :
    LET maxima  == results[i].maxima
        outlier == g_config.outlier_max - maxima.outlier
        top     == g_config.top_max - maxima.top
    IN  /\ maxima.outlier \in g_config.outlier_min .. g_config.outlier_max
        /\ maxima.top \in g_config.top_min .. g_config.top_max
        /\ maxima.outlier + maxima.top <= Len(trackers[i].top)
        /\ top < outlier => maxima.top = g_config.top_min
        /\ top > outlier + 1 => maxima.outlier = g_config.outlier_min

\* A tracker whose first contributors contributed more, as larger has it.
WithOutliers(tracker, larger, outliers) ==
  [tracker EXCEPT !.top = larger,
                  !.overall = @ + Plus(SubSeq(larger, 1, outliers)) - Plus(SubSeq(tracker.top, 1, outliers))]

\* Lists in which the first contributors contributed as much or more.
Raised(list, outliers) ==
  {larger \in [DOMAIN list -> Contributions] :
     \A k \in DOMAIN list : larger[k] >= list[k] /\ (k > outliers => larger[k] = list[k])}

\* How much the outliers contributed does not show: had they contributed more,
\* and were the same counts drawn, the noise would be of the same size, and
\* the flattened sum the same, but for rows without AID.  Of those, flattening
\* takes off what an outlier might have contributed to them, so that the sum
\* may get smaller, by what they contributed at most.  Unless a setting was
\* changed on the way.
OutliersAreHidden == changes = 0 =>
  \A i \in Evaluated : \A larger \in Raised(trackers[i].top, results[i].outliers) :
    LET r           == results[i]
        other       == Result(WithOutliers(trackers[i], larger, r.outliers), r.maxima, r.outliers, r.tops, 0, 0)
        unaccounted == Scale * trackers[i].unaccounted
    IN  /\ other.noise_sd = r.noise_sd
        /\ other.flattened_sum \in r.flattened_sum - unaccounted .. r.flattened_sum

\* The accumulated sum is the largest among the AID instances that flatten
\* most, and the noise the largest among those with most noise, whatever the
\* order in which the instances are accumulated.  Noise is not compared when a
\* setting was changed on the way and what was read behind the array made it
\* negative.
LargestIsAccumulated == Evaluated # {} =>
  LET flattest == {i \in Evaluated :
                     \A j \in Evaluated : results[i].flattening >= results[j].flattening}
      noisiest == {i \in Evaluated :
                     \A j \in Evaluated : results[i].noise_sd >= results[j].noise_sd}
  IN  /\ \A i \in flattest : acc.max_flattening = results[i].flattening
      /\ acc.sum_for_flattening = Max({results[i].flattened_sum : i \in flattest})
      /\ (\A i \in Evaluated : results[i].noise_sd >= 0) =>
           /\ \A i \in noisiest : acc.max_noise_sd = results[i].noise_sd
           /\ Magnitude(acc.noise_with_max_sd) = Max({Magnitude(results[i].noise) : i \in noisiest})

\* The branch of determine_outlier_top_counts that summable.c calls "Not
\* possible." is not taken, however the settings were changed on the way.
CompactingIsPossible ==
  phase \in {"finalize", "done"} =>
    \A i \in DOMAIN trackers :
      ~NotEnough(trackers[i]) => Compact(g_config, trackers[i].distinct).possible
=============================================================================
