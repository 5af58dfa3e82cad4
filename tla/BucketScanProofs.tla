-------------------------- MODULE BucketScanProofs --------------------------
(***************************************************************************)
(* Proofs about BucketScan for every set of groups, AIDs and AID           *)
(* instances, every threshold function and every order of the buckets.     *)
(***************************************************************************)
EXTENDS BucketScanCursor, NaturalSets, SequenceTheorems, FiniteSetTheorems, TLAPS

(* merge_bucket yields a bucket. *)
LEMMA MergeBucketType ==
  ASSUME NEW dst \in Bucket, NEW src \in Bucket, NEW times \in Nat
  PROVE  /\ MergeBucket(dst, src, times) \in Bucket
         /\ MergeBucket(dst, src, times).labels = dst.labels
         /\ MergeBucket(dst, src, times).low_count = dst.low_count
         /\ MergeBucket(dst, src, times).merged = dst.merged
<1> DEFINE aids  == [i \in AidInstances |-> dst.aids[i] \cup src.aids[i]]
           parts == [g \in Groups |-> dst.parts[g] + times * src.parts[g]]
<1>1. aids \in [AidInstances -> SUBSET Aids]
  BY DEF Bucket
<1>2. parts \in [Groups -> Nat]
  <2> SUFFICES ASSUME NEW g \in Groups PROVE dst.parts[g] + times * src.parts[g] \in Nat
    OBVIOUS
  <2>1. dst.parts[g] \in Nat /\ src.parts[g] \in Nat
    BY DEF Bucket
  <2> QED BY <2>1
<1> HIDE DEF aids, parts
<1>3. MergeBucket(dst, src, times) = [dst EXCEPT !.aids = aids, !.parts = parts]
  BY DEF MergeBucket, aids, parts
<1> QED BY <1>1, <1>2, <1>3 DEF Bucket

(* The low count test is a Boolean, as the flag it is stored in. *)
LEMMA EvalLowCountType == \A b : EvalLowCount(b) \in BOOLEAN
  BY DEF EvalLowCount

(* Bucket types of the two constructors. *)
LEMMA NewBucketType ==
  /\ EmptyStarBucket \in Bucket
  /\ \A g \in Groups, aids \in [AidInstances -> SUBSET Aids] : BucketOf(g, aids) \in Bucket
<1>1. [g \in Groups |-> 0] \in [Groups -> Nat]
  OBVIOUS
<1>2. [i \in AidInstances |-> {}] \in [AidInstances -> SUBSET Aids]
  OBVIOUS
<1>3. ASSUME NEW g \in Groups, NEW aids \in [AidInstances -> SUBSET Aids]
      PROVE  BucketOf(g, aids) \in Bucket
  BY DEF BucketOf, NewBucket, Bucket
<1> QED BY <1>1, <1>2, <1>3 DEF EmptyStarBucket, NewBucket, Bucket

(* The number of columns that stage a target is a natural number. *)
LEMMA ColumnsFinite == \A S \in SUBSET Columns : IsFiniteSet(S) /\ Cardinality(S) \in Nat
<1> SUFFICES ASSUME NEW S \in SUBSET Columns
             PROVE  IsFiniteSet(S) /\ Cardinality(S) \in Nat
  OBVIOUS
<1>1. IsFiniteSet(Columns)
  <2>1. 1 \in Int /\ NumLabels \in Int
    BY ConstantsAssumption DEF ConstantsAssumption
  <2> QED BY <2>1, FS_Interval DEF Columns
<1>2. IsFiniteSet(S)
  BY <1>1, FS_Subset
<1> QED BY <1>2, FS_CardinalityType

LEMMA TimesMergedType == \A b, j : TimesMerged(b, j) \in Nat
  BY ColumnsFinite DEF TimesMerged

(* One iteration of the LED loop keeps the list of buckets a list of buckets *)
(* of the same length, with the same labels and low count flags.             *)
LEMMA LedMergeType ==
  ASSUME buckets \in Seq(Bucket), NEW b \in DOMAIN buckets
  PROVE  /\ LedMerge(b) \in Seq(Bucket)
         /\ DOMAIN LedMerge(b) = DOMAIN buckets
         /\ \A j \in DOMAIN buckets : /\ LedMerge(b)[j].low_count = buckets[j].low_count
                                      /\ LedMerge(b)[j].labels = buckets[j].labels
<1> DEFINE e(j) == IF j \in MergeTargets(b)
                   THEN MergeBucket(buckets[j], buckets[b], TimesMerged(b, j))
                   ELSE IF j = b /\ MergeTargets(b) # {}
                        THEN [buckets[j] EXCEPT !.merged = TRUE]
                        ELSE buckets[j]
<1>1. DOMAIN buckets = 1 .. Len(buckets) /\ Len(buckets) \in Nat
  OBVIOUS
<1>2. ASSUME NEW j \in 1 .. Len(buckets)
      PROVE  /\ e(j) \in Bucket
             /\ e(j).low_count = buckets[j].low_count
             /\ e(j).labels = buckets[j].labels
  <2>1. buckets[j] \in Bucket /\ buckets[b] \in Bucket
    BY <1>1
  <2>2. CASE j \in MergeTargets(b)
    <3>1. TimesMerged(b, j) \in Nat
      BY TimesMergedType
    <3>2. LET m == MergeBucket(buckets[j], buckets[b], TimesMerged(b, j))
          IN  m \in Bucket /\ m.low_count = buckets[j].low_count /\ m.labels = buckets[j].labels
      BY <2>1, <3>1, MergeBucketType
    <3> QED BY <2>2, <3>2
  <2>3. CASE j \notin MergeTargets(b)
    BY <2>1, <2>3 DEF Bucket
  <2> QED BY <2>2, <2>3
<1>3. LedMerge(b) = [j \in 1 .. Len(buckets) |-> e(j)]
  BY <1>1 DEF LedMerge
<1> HIDE DEF e
<1>4. LedMerge(b) \in Seq(Bucket)
  BY <1>1, <1>2, <1>3, IsASeq
<1> QED BY <1>1, <1>2, <1>3, <1>4

(* So does the loop over the merge targets, flags apart. *)
LEMMA RecomputeLowCountType ==
  ASSUME buckets \in Seq(Bucket)
  PROVE  /\ RecomputeLowCount \in Seq(Bucket)
         /\ DOMAIN RecomputeLowCount = DOMAIN buckets
<1> DEFINE e(j) == IF j \in targets
                   THEN [buckets[j] EXCEPT !.low_count = EvalLowCount(buckets[j])]
                   ELSE buckets[j]
<1>1. DOMAIN buckets = 1 .. Len(buckets) /\ Len(buckets) \in Nat
  OBVIOUS
<1>2. ASSUME NEW j \in 1 .. Len(buckets)
      PROVE  e(j) \in Bucket
  <2>1. buckets[j] \in Bucket
    BY <1>1
  <2>2. EvalLowCount(buckets[j]) \in BOOLEAN
    BY EvalLowCountType
  <2> QED BY <2>1, <2>2, Zenon DEF Bucket
<1>3. RecomputeLowCount = [j \in 1 .. Len(buckets) |-> e(j)]
  BY <1>1 DEF RecomputeLowCount
<1> HIDE DEF e
<1>4. RecomputeLowCount \in Seq(Bucket)
  BY <1>1, <1>2, <1>3, IsASeq
<1> QED BY <1>1, <1>3, <1>4
(* A merge target is a high count bucket other than the one merged into it, *)
(* which is low count.                                                      *)
LEMMA TargetsHighCount ==
  ASSUME NEW b, NEW j \in MergeTargets(b)
  PROVE  j # b /\ ~buckets[j].low_count /\ buckets[b].low_count
<1> DEFINE columns == {c \in Columns : IsolatingColumn(b, c) /\ j \in Siblings(b, c) \ {b}}
<1>1. TimesMerged(b, j) > 0
  BY DEF MergeTargets
<1>2. buckets[b].low_count /\ TimesMerged(b, j) = Cardinality(columns)
  BY <1>1 DEF TimesMerged
<1>3. columns # {}
  BY <1>1, <1>2, FS_EmptySet
<1>4. PICK c \in Columns : IsolatingColumn(b, c) /\ j \in Siblings(b, c) \ {b}
  BY <1>3
<1> QED BY <1>2, <1>4 DEF IsolatingColumn

(* What one iteration of the LED loop does to the bucket in slot j. *)
LEMMA LedMergeEffect ==
  ASSUME buckets \in Seq(Bucket), NEW b \in DOMAIN buckets, NEW j \in DOMAIN buckets
  PROVE  /\ j \notin MergeTargets(b) =>
              /\ LedMerge(b)[j].aids = buckets[j].aids
              /\ LedMerge(b)[j].parts = buckets[j].parts
              /\ LedMerge(b)[j].merged = (buckets[j].merged \/ (j = b /\ MergeTargets(b) # {}))
         /\ j \in MergeTargets(b) => LedMerge(b)[j].merged = buckets[j].merged
<1>1. buckets[j] \in Bucket /\ buckets[b] \in Bucket
  OBVIOUS
<1>2. CASE j \in MergeTargets(b)
  <2>1. TimesMerged(b, j) \in Nat
    BY TimesMergedType
  <2>2. MergeBucket(buckets[j], buckets[b], TimesMerged(b, j)).merged = buckets[j].merged
    BY <1>1, <2>1, MergeBucketType
  <2> QED BY <1>2, <2>2 DEF LedMerge
<1>3. CASE j \notin MergeTargets(b)
  <2>1. CASE j = b /\ MergeTargets(b) # {}
    BY <1>1, <1>3, <2>1 DEF LedMerge, Bucket
  <2>2. CASE ~(j = b /\ MergeTargets(b) # {})
    BY <1>1, <1>3, <2>2 DEF LedMerge, Bucket
  <2> QED BY <2>1, <2>2
<1> QED BY <1>2, <1>3

-----------------------------------------------------------------------------
(* The inductive invariant.                                                *)

(* Where a call stands determines what the node holds: nothing is emitted   *)
(* before the hooks are over, and slot 0 is only visited if it is in use.   *)
Stages ==
  /\ phase = "fill" => ~input_done
  /\ phase \in {"led", "led_done", "star", "emit"} => input_done
  /\ phase # "led" => targets = {}
  /\ phase = "star" => staged \in Bucket
  /\ phase \in {"fill", "led", "led_done", "star"} \/ ~input_done
       => /\ out = <<>>
          /\ star = NoBucket
          /\ next = 1
          /\ repeat = 0
  /\ phase = "idle" /\ ~input_done => buckets = <<>>
  /\ next = 0 => star # NoBucket
  /\ repeat > 0 => out # <<>>

(* During the LED loop the flag of every bucket that is not a merge target  *)
(* agrees with its AIDs, while the targets still count as high count;       *)
(* outside of it all flags agree.                                           *)
FlagsAgree ==
  /\ \A i \in DOMAIN buckets :
       IF phase = "led" /\ i \in targets
       THEN ~buckets[i].low_count
       ELSE buckets[i].low_count = EvalLowCount(buckets[i])
  /\ star # NoBucket => ~EvalLowCount(star)

(* Only slots of buckets that are neither low count nor merged were emitted. *)
RowsShown ==
  \A k \in DOMAIN out :
    /\ out[k] \in 0 .. Len(buckets)
    /\ out[k] = 0 => star # NoBucket
    /\ out[k] # 0 => ~buckets[out[k]].low_count /\ ~buckets[out[k]].merged

\* Bucket i holds the rows of its own group, once, and no others.
OwnRows(i) ==
  \A g \in Groups : buckets[i].parts[g] = IF g = buckets[i].labels THEN 1 ELSE 0

(* A merged bucket is one whose flag was low count when LED came by; as     *)
(* targets are high count then, it has never been a target.                 *)
Origins ==
  \A i \in DOMAIN buckets :
    /\ phase = "fill" => ~buckets[i].merged
    /\ phase = "led" /\ i \notin targets => OwnRows(i)
    /\ phase = "fill" => OwnRows(i)
    /\ buckets[i].merged => OwnRows(i) /\ (phase = "led" => buckets[i].low_count)

IInv == TypeOK /\ Stages /\ FlagsAgree /\ RowsShown /\ Origins

-----------------------------------------------------------------------------
(* Type correctness.  It needs Stages: what a step may look at depends on   *)
(* where the call stands.                                                   *)

LEMMA InitIInv == Init => IInv
<1> SUFFICES ASSUME Init PROVE IInv
  OBVIOUS
<1>1. TypeOK
  <2>1. buckets \in Seq(Bucket) /\ fetched \in Seq(ChildTuples) /\ out \in Seq(Nat)
    BY EmptySeq DEF Init
  <2>2. rescans \in 0 .. MaxRescans
    BY ConstantsAssumption DEF Init, ConstantsAssumption
  <2>3. star \in Bucket \cup {NoBucket} /\ staged \in Bucket \cup {NoBucket}
    BY DEF Init
  <2>4. targets \subseteq DOMAIN buckets
    BY DEF Init
  <2>5. staged_merges \in Nat /\ cursor \in Nat \ {0} /\ next \in Nat /\ repeat \in Nat
    BY DEF Init
  <2> QED BY <2>1, <2>2, <2>3, <2>4, <2>5, Zenon DEF Init, TypeOK
<1>2. Stages /\ FlagsAgree /\ RowsShown /\ Origins
  BY DEF Init, Stages, FlagsAgree, RowsShown, Origins
<1> QED BY <1>1, <1>2 DEF IInv

(* The rows a bucket stands for are counted by a natural number. *)
LEMMA RowCountType == \A b \in Bucket : RowCount(b) \in Nat
  BY ConstantsAssumption DEF RowCount, Bucket, ConstantsAssumption

(* The slot a call looks at holds a bucket. *)
LEMMA BucketAtType ==
  ASSUME TypeOK, NEW i \in 0 .. Len(buckets), i = 0 => star # NoBucket
  PROVE  BucketAt(i) \in Bucket
  BY DEF TypeOK, BucketAt

LEMMA TypeStep == IInv /\ [Next]_vars => TypeOK'
<1> SUFFICES ASSUME IInv, [Next]_vars PROVE TypeOK'
  OBVIOUS
<1> USE DEF IInv, TypeOK, scan_vars, hook_vars, hist_vars
<1>1. CASE ExecScan
  BY <1>1 DEF ExecScan
<1>2. ASSUME NEW tuple \in ChildTuples, FetchBucket(tuple) PROVE TypeOK'
  <2> DEFINE b == BucketOf(tuple.labels, tuple.aids)
             n == [b EXCEPT !.low_count = EvalLowCount(b)]
  <2>1. tuple.labels \in Groups /\ tuple.aids \in [AidInstances -> SUBSET Aids]
    BY ConstantsAssumption DEF ConstantsAssumption
  <2>2. b \in Bucket
    BY <2>1, NewBucketType
  <2>3. n \in Bucket
    <3> HIDE DEF b
    <3>1. EvalLowCount(b) \in BOOLEAN
      BY EvalLowCountType
    <3> QED BY <2>2, <3>1, Zenon DEF Bucket
  <2>4. buckets' = Append(buckets, n)
    BY <1>2 DEF FetchBucket
  <2> HIDE DEF n
  <2>5. buckets' \in Seq(Bucket) /\ DOMAIN buckets \subseteq DOMAIN buckets'
    BY <2>3, <2>4
  <2>6. fetched' \in Seq(ChildTuples)
    BY <1>2 DEF FetchBucket
  <2> QED BY <1>2, <2>5, <2>6 DEF FetchBucket
<1>3. CASE EndOfInput
  <2>1. phase' \in {"led", "led_done", "emit"}
    BY <1>3, ConstantsAssumption DEF EndOfInput, ConstantsAssumption
  <2>2. targets' \subseteq DOMAIN buckets'
    BY <1>3 DEF EndOfInput
  <2>3. cursor' \in Nat \ {0}
    BY <1>3 DEF EndOfInput
  <2>4. phase' \in {"idle", "fill", "led", "led_done", "star", "emit"}
    BY <2>1
  <2> QED BY <1>3, <2>2, <2>3, <2>4 DEF EndOfInput
<1>4. CASE LedStep
  <2>1. cursor \in DOMAIN buckets
    BY <1>4 DEF LedStep
  <2>2. buckets' \in Seq(Bucket) /\ DOMAIN buckets' = DOMAIN buckets
    BY <1>4, <2>1, LedMergeType DEF LedStep
  <2>3. targets' \subseteq DOMAIN buckets'
    BY <1>4, <2>2 DEF LedStep, MergeTargets
  <2> QED BY <1>4, <2>2, <2>3 DEF LedStep
<1>5. CASE LedDone
  <2>1. buckets' \in Seq(Bucket) /\ DOMAIN buckets' = DOMAIN buckets
    BY <1>5, RecomputeLowCountType DEF LedDone
  <2> QED BY <1>5, <2>1 DEF LedDone
<1>6. ASSUME NEW compute_suppress_bin \in BOOLEAN, StartStarBucket(compute_suppress_bin)
      PROVE  TypeOK'
  BY <1>6, NewBucketType DEF StartStarBucket
<1>7. CASE StarStep
  <2>1. staged \in Bucket /\ buckets[cursor] \in Bucket
    BY <1>7 DEF StarStep, Stages
  <2>2. MergeBucket(staged, buckets[cursor], 1) \in Bucket
    BY <2>1, MergeBucketType
  <2>3. staged' \in Bucket /\ staged_merges' \in Nat
    BY <1>7, <2>1, <2>2 DEF StarStep
  <2> QED BY <1>7, <2>3 DEF StarStep
<1>8. CASE StarDone
  BY <1>8 DEF StarDone, Stages
<1>9. CASE RepeatRow
  <2>1. out' \in Seq(Nat)
    BY <1>9 DEF RepeatRow, Stages
  <2> QED BY <1>9, <2>1 DEF RepeatRow
<1>10. CASE ReturnEof
  BY <1>10 DEF ReturnEof
<1>11. CASE SkipBucket
  BY <1>11 DEF SkipBucket
<1>12. CASE EmitBucket
  <2>1. BucketAt(next) \in Bucket
    BY <1>12, BucketAtType DEF EmitBucket, Stages
  <2>2. Repetitions(BucketAt(next)) \in Nat
    BY <1>12, <2>1, RowCountType DEF EmitBucket, Repetitions
  <2>3. out' \in Seq(Nat)
    BY <1>12 DEF EmitBucket
  <2> QED BY <1>12, <2>2, <2>3 DEF EmitBucket
<1>13. CASE RescanEmpty
  BY <1>13, ConstantsAssumption DEF RescanEmpty, ConstantsAssumption
<1>14. CASE RescanBuckets
  <2>1. out' \in Seq(Nat)
    BY <1>14, EmptySeq DEF RescanBuckets
  <2>2. rescans' \in 0 .. MaxRescans
    BY <1>14, ConstantsAssumption DEF RescanBuckets, ConstantsAssumption
  <2> QED BY <1>14, <2>1, <2>2 DEF RescanBuckets
<1>15. CASE RescanInput
  <2>1. targets' = {}
    BY <1>15 DEF RescanInput, Stages
  <2>2. rescans' \in 0 .. MaxRescans
    BY <1>15, ConstantsAssumption DEF RescanInput, ConstantsAssumption
  <2>3. buckets' \in Seq(Bucket) /\ fetched' \in Seq(ChildTuples) /\ out' \in Seq(Nat)
    BY <1>15, EmptySeq DEF RescanInput
  <2> QED BY <1>15, <2>1, <2>2, <2>3 DEF RescanInput
<1>16. CASE UNCHANGED vars
  BY <1>16 DEF vars
<1> QED
  BY <1>1, <1>2, <1>3, <1>4, <1>5, <1>6, <1>7, <1>8, <1>9, <1>10, <1>11, <1>12, <1>13,
     <1>14, <1>15, <1>16 DEF Next, CallStep

-----------------------------------------------------------------------------
(* The other parts of the invariant.                                        *)

LEMMA StagesStep == IInv /\ [Next]_vars => Stages'
<1> SUFFICES ASSUME IInv, [Next]_vars PROVE Stages'
  OBVIOUS
<1> USE DEF IInv, Stages, scan_vars, hook_vars, hist_vars
<1>1. CASE ExecScan
  BY <1>1 DEF ExecScan
<1>2. ASSUME NEW tuple \in ChildTuples, FetchBucket(tuple) PROVE Stages'
  BY <1>2 DEF FetchBucket
<1>3. CASE EndOfInput
  <2>1. phase' \in {"led", "led_done", "emit"}
    BY <1>3, ConstantsAssumption DEF EndOfInput, ConstantsAssumption
  <2> QED BY <1>3, <2>1 DEF EndOfInput
<1>4. CASE LedStep
  BY <1>4 DEF LedStep
<1>5. CASE LedDone
  BY <1>5 DEF LedDone
<1>6. ASSUME NEW compute_suppress_bin \in BOOLEAN, StartStarBucket(compute_suppress_bin)
      PROVE  Stages'
  BY <1>6, NewBucketType DEF StartStarBucket
<1>7. CASE StarStep
  <2>1. staged \in Bucket /\ buckets[cursor] \in Bucket
    BY <1>7 DEF StarStep, TypeOK
  <2>2. MergeBucket(staged, buckets[cursor], 1) \in Bucket
    BY <2>1, MergeBucketType
  <2>3. staged' \in Bucket
    BY <1>7, <2>1, <2>2 DEF StarStep
  <2> QED BY <1>7, <2>3 DEF StarStep
<1>8. CASE StarDone
  BY <1>8, NoBucketAssumption DEF StarDone
<1>9. CASE RepeatRow
  <2>1. out[Len(out)] \in Nat /\ out \in Seq(Nat)
    BY <1>9 DEF RepeatRow, TypeOK
  <2>2. out' # <<>>
    BY <1>9, <2>1, AppendProperties DEF RepeatRow
  <2> QED BY <1>9, <2>2 DEF RepeatRow, TypeOK
<1>10. CASE ReturnEof
  BY <1>10 DEF ReturnEof
<1>11. CASE SkipBucket
  BY <1>11 DEF SkipBucket, TypeOK
<1>12. CASE EmitBucket
  <2>1. out' # <<>>
    BY <1>12 DEF EmitBucket, TypeOK
  <2> QED BY <1>12, <2>1 DEF EmitBucket, TypeOK
<1>13. CASE RescanEmpty
  BY <1>13 DEF RescanEmpty
<1>14. CASE RescanBuckets
  BY <1>14 DEF RescanBuckets
<1>15. CASE RescanInput
  BY <1>15 DEF RescanInput
<1>16. CASE UNCHANGED vars
  BY <1>16 DEF vars
<1> QED
  BY <1>1, <1>2, <1>3, <1>4, <1>5, <1>6, <1>7, <1>8, <1>9, <1>10, <1>11, <1>12, <1>13,
     <1>14, <1>15, <1>16 DEF Next, CallStep

LEMMA FlagsStep == IInv /\ [Next]_vars => FlagsAgree'
<1> SUFFICES ASSUME IInv, [Next]_vars PROVE FlagsAgree'
  OBVIOUS
<1> USE DEF IInv, scan_vars
<1>1. ASSUME UNCHANGED <<buckets, star, targets>>, phase # "led", phase' # "led"
      PROVE  FlagsAgree'
  BY <1>1 DEF FlagsAgree
<1>2. ASSUME NEW tuple \in ChildTuples, FetchBucket(tuple) PROVE FlagsAgree'
  <2> DEFINE b == BucketOf(tuple.labels, tuple.aids)
             n == [b EXCEPT !.low_count = EvalLowCount(b)]
  <2>1. n.low_count = EvalLowCount(b) /\ n.aids = b.aids
    BY DEF BucketOf, NewBucket
  <2>2. n.low_count = EvalLowCount(n)
    BY <2>1 DEF EvalLowCount
  <2>3. n \in Bucket
    <3>1. tuple.labels \in Groups /\ tuple.aids \in [AidInstances -> SUBSET Aids]
      BY ConstantsAssumption DEF ConstantsAssumption
    <3>2. b \in Bucket /\ EvalLowCount(b) \in BOOLEAN
      BY <3>1, NewBucketType, EvalLowCountType
    <3> HIDE DEF b
    <3> QED BY <3>2, Zenon DEF Bucket
  <2>4. buckets' = Append(buckets, n) /\ star' = star /\ phase = "fill" /\ phase' = "fill"
    BY <1>2 DEF FetchBucket
  <2> HIDE DEF n
  <2>5. \A i \in DOMAIN buckets' : buckets'[i] = IF i \in DOMAIN buckets THEN buckets[i] ELSE n
    BY <2>3, <2>4 DEF TypeOK
  <2> QED BY <2>2, <2>4, <2>5 DEF FlagsAgree, EvalLowCount
<1>3. CASE EndOfInput
  BY <1>3 DEF EndOfInput, FlagsAgree
<1>4. CASE LedStep
  <2>1. cursor \in DOMAIN buckets /\ buckets \in Seq(Bucket)
    BY <1>4 DEF LedStep, TypeOK
  <2>2. DOMAIN buckets' = DOMAIN buckets
    BY <1>4, <2>1, LedMergeType DEF LedStep
  <2>3. ASSUME NEW i \in DOMAIN buckets', i \in targets' PROVE ~buckets'[i].low_count
    <3>1. buckets'[i].low_count = buckets[i].low_count
      BY <1>4, <2>1, <2>2, LedMergeType DEF LedStep
    <3>2. i \in targets \/ i \in MergeTargets(cursor)
      BY <1>4, <2>3 DEF LedStep
    <3> QED BY <1>4, <2>2, <3>1, <3>2, TargetsHighCount DEF LedStep, FlagsAgree
  <2>4. ASSUME NEW i \in DOMAIN buckets', i \notin targets'
        PROVE  buckets'[i].low_count = EvalLowCount(buckets'[i])
    <3>1. i \notin targets /\ i \notin MergeTargets(cursor) /\ i \in DOMAIN buckets
      BY <1>4, <2>2, <2>4 DEF LedStep
    <3>2. buckets'[i].low_count = buckets[i].low_count
      BY <1>4, <2>1, <3>1, LedMergeType DEF LedStep
    <3>3. buckets'[i].aids = buckets[i].aids
      BY <1>4, <2>1, <3>1, LedMergeEffect DEF LedStep
    <3> QED BY <1>4, <3>1, <3>2, <3>3 DEF FlagsAgree, EvalLowCount, LedStep
  <2>5. star' = star /\ phase' = "led"
    BY <1>4 DEF LedStep
  <2> QED BY <2>3, <2>4, <2>5 DEF FlagsAgree, EvalLowCount
<1>5. CASE LedDone
  <2>1. DOMAIN buckets' = DOMAIN buckets /\ buckets \in Seq(Bucket)
    BY <1>5, RecomputeLowCountType DEF LedDone, TypeOK
  <2>2. ASSUME NEW i \in DOMAIN buckets'
        PROVE  buckets'[i].low_count = EvalLowCount(buckets'[i])
    <3>1. buckets[i] \in Bucket
      BY <2>1
    <3>2. CASE i \in targets
      <4>1. buckets'[i] = [buckets[i] EXCEPT !.low_count = EvalLowCount(buckets[i])]
        BY <1>5, <2>1, <3>2 DEF LedDone, RecomputeLowCount
      <4>2. buckets'[i].low_count = EvalLowCount(buckets[i]) /\ buckets'[i].aids = buckets[i].aids
        BY <3>1, <4>1 DEF Bucket
      <4> QED BY <4>2 DEF EvalLowCount
    <3>3. CASE i \notin targets
      <4>1. buckets'[i] = buckets[i]
        BY <1>5, <2>1, <3>3 DEF LedDone, RecomputeLowCount
      <4> QED BY <2>1, <3>3, <4>1 DEF FlagsAgree, EvalLowCount
    <3> QED BY <3>2, <3>3
  <2> QED BY <1>5, <2>2 DEF LedDone, FlagsAgree, EvalLowCount
<1>6. ASSUME NEW compute_suppress_bin \in BOOLEAN, StartStarBucket(compute_suppress_bin)
      PROVE  FlagsAgree'
  BY <1>6 DEF StartStarBucket, FlagsAgree
<1>7. CASE StarDone
  BY <1>7 DEF StarDone, FlagsAgree, EvalLowCount
<1>8. CASE RescanInput
  <2>1. DOMAIN buckets' = {} /\ star' = NoBucket
    BY <1>8 DEF RescanInput
  <2> QED BY <2>1 DEF FlagsAgree
<1>9. CASE UNCHANGED vars
  BY <1>9 DEF FlagsAgree, vars, hook_vars, EvalLowCount
<1>10. CASE ExecScan \/ StarStep \/ RepeatRow \/ ReturnEof \/ SkipBucket \/ EmitBucket
            \/ RescanEmpty \/ RescanBuckets
  BY <1>1, <1>10 DEF ExecScan, StarStep, RepeatRow, ReturnEof, SkipBucket, EmitBucket,
     RescanEmpty, RescanBuckets, hook_vars
<1> QED
  BY <1>2, <1>3, <1>4, <1>5, <1>6, <1>7, <1>8, <1>9, <1>10 DEF Next, CallStep

LEMMA RowsShownStep == IInv /\ [Next]_vars => RowsShown'
<1> SUFFICES ASSUME IInv, [Next]_vars PROVE RowsShown'
  OBVIOUS
<1> USE DEF IInv, scan_vars, hook_vars, hist_vars
<1>1. ASSUME UNCHANGED <<buckets, star, out>> PROVE RowsShown'
  BY <1>1 DEF RowsShown
<1>2. ASSUME out' = <<>> PROVE RowsShown'
  <2>1. DOMAIN out' = {}
    BY <1>2
  <2> QED BY <2>1 DEF RowsShown
<1>3. CASE StarDone
  BY <1>2, <1>3 DEF StarDone, Stages
<1>4. CASE RepeatRow
  <2>1. out \in Seq(Nat) /\ Len(out) \in DOMAIN out
    BY <1>4 DEF RepeatRow, TypeOK, Stages
  <2>2. \A k \in DOMAIN out' : \E l \in DOMAIN out : out'[k] = out[l]
    BY <1>4, <2>1 DEF RepeatRow
  <2> QED BY <1>4, <2>2 DEF RepeatRow, RowsShown
<1>5. CASE EmitBucket
  <2>1. BucketAt(next) \in Bucket
    BY <1>5, BucketAtType DEF EmitBucket, Stages, TypeOK
  <2>2. ~BucketAt(next).low_count /\ ~BucketAt(next).merged
    BY <1>5 DEF EmitBucket, RowCount
  <2>3. out \in Seq(Nat) /\ next \in 0 .. Len(buckets)
    BY <1>5 DEF EmitBucket, TypeOK
  <2>4. \A k \in DOMAIN out' : out'[k] = next \/ (k \in DOMAIN out /\ out'[k] = out[k])
    BY <1>5, <2>3 DEF EmitBucket
  <2>5. UNCHANGED <<buckets, star>>
    BY <1>5 DEF EmitBucket
  <2> QED BY <2>2, <2>3, <2>4, <2>5 DEF RowsShown, BucketAt, Stages
<1>6. CASE ExecScan \/ StarStep \/ ReturnEof \/ SkipBucket \/ RescanEmpty
           \/ (\E b \in BOOLEAN : StartStarBucket(b)) \/ EndOfInput \/ UNCHANGED vars
  BY <1>1, <1>6 DEF ExecScan, StarStep, ReturnEof, SkipBucket, RescanEmpty, StartStarBucket,
     EndOfInput, vars
<1>7. CASE LedStep \/ LedDone \/ (\E tuple \in ChildTuples : FetchBucket(tuple))
  BY <1>2, <1>7 DEF LedStep, LedDone, FetchBucket, Stages
<1>8. CASE RescanBuckets \/ RescanInput
  BY <1>2, <1>8 DEF RescanBuckets, RescanInput
<1> QED
  BY <1>3, <1>4, <1>5, <1>6, <1>7, <1>8 DEF Next, CallStep

LEMMA OriginsStep == IInv /\ [Next]_vars => Origins'
<1> SUFFICES ASSUME IInv, [Next]_vars PROVE Origins'
  OBVIOUS
<1> USE DEF IInv, scan_vars, hook_vars, hist_vars
<1>1. ASSUME UNCHANGED buckets, phase \in {"led_done", "star", "emit", "idle"},
             phase' \in {"led_done", "star", "emit", "idle"}
      PROVE  Origins'
  BY <1>1 DEF Origins, OwnRows
<1>2. ASSUME DOMAIN buckets' = {} PROVE Origins'
  BY <1>2 DEF Origins
<1>3. CASE ExecScan
  <2>1. CASE input_done
    BY <1>1, <1>3, <2>1 DEF ExecScan
  <2>2. CASE ~input_done
    BY <1>2, <1>3, <2>2 DEF ExecScan, Stages
  <2> QED BY <2>1, <2>2
<1>4. ASSUME NEW tuple \in ChildTuples, FetchBucket(tuple) PROVE Origins'
  <2> DEFINE b == BucketOf(tuple.labels, tuple.aids)
             n == [b EXCEPT !.low_count = EvalLowCount(b)]
  <2>1. /\ ~n.merged
        /\ \A g \in Groups : n.parts[g] = IF g = n.labels THEN 1 ELSE 0
    BY DEF BucketOf, NewBucket
  <2>2. buckets' = Append(buckets, n) /\ phase = "fill" /\ phase' = "fill"
    BY <1>4 DEF FetchBucket
  <2> HIDE DEF n
  <2>3. \A i \in DOMAIN buckets' : buckets'[i] = IF i \in DOMAIN buckets THEN buckets[i] ELSE n
    BY <2>2 DEF TypeOK
  <2> QED BY <2>1, <2>2, <2>3 DEF Origins, OwnRows
<1>5. CASE EndOfInput
  <2>1. phase = "fill" /\ UNCHANGED buckets /\ phase' # "fill"
    BY <1>5, ConstantsAssumption DEF EndOfInput, ConstantsAssumption
  <2> QED BY <2>1 DEF Origins, OwnRows
<1>6. CASE LedStep
  <2>1. cursor \in DOMAIN buckets /\ buckets \in Seq(Bucket) /\ phase' = "led" /\ phase = "led"
    BY <1>6 DEF LedStep, TypeOK
  <2>2. DOMAIN buckets' = DOMAIN buckets
    BY <1>6, <2>1, LedMergeType DEF LedStep
  <2>3. ASSUME NEW i \in DOMAIN buckets
        PROVE  /\ i \notin targets' => OwnRows(i)'
               /\ buckets'[i].merged => OwnRows(i)' /\ buckets'[i].low_count
    <3>1. buckets'[i].low_count = buckets[i].low_count /\ buckets'[i].labels = buckets[i].labels
      BY <1>6, <2>1, LedMergeType DEF LedStep
    <3>2. CASE i \in MergeTargets(cursor)
      <4>1. ~buckets[i].low_count /\ i \in targets'
        BY <1>6, <3>2, TargetsHighCount DEF LedStep
      <4>2. buckets'[i].merged = buckets[i].merged
        BY <1>6, <2>1, <3>2, LedMergeEffect DEF LedStep
      <4>3. ~buckets[i].merged
        BY <2>1, <4>1 DEF Origins
      <4> QED BY <4>1, <4>2, <4>3
    <3>3. CASE i \notin MergeTargets(cursor)
      <4>1. /\ buckets'[i].parts = buckets[i].parts
            /\ buckets'[i].merged = (buckets[i].merged \/ (i = cursor /\ MergeTargets(cursor) # {}))
        BY <1>6, <2>1, <3>3, LedMergeEffect DEF LedStep
      <4>2. OwnRows(i)' <=> OwnRows(i)
        BY <3>1, <4>1 DEF OwnRows
      <4>3. CASE i = cursor /\ MergeTargets(cursor) # {}
        <5>1. buckets[i].low_count
          BY <4>3, TargetsHighCount
        <5>2. i \notin targets
          BY <2>1, <5>1 DEF FlagsAgree
        <5> QED BY <2>1, <3>1, <4>2, <5>1, <5>2 DEF Origins
      <4>4. CASE ~(i = cursor /\ MergeTargets(cursor) # {})
        <5>1. i \notin targets' => i \notin targets
          BY <1>6 DEF LedStep
        <5> QED BY <2>1, <3>1, <4>1, <4>2, <4>4, <5>1 DEF Origins
      <4> QED BY <4>3, <4>4
    <3> QED BY <3>2, <3>3
  <2> QED BY <2>1, <2>2, <2>3 DEF Origins
<1>7. CASE LedDone
  <2>1. DOMAIN buckets' = DOMAIN buckets /\ buckets \in Seq(Bucket)
    BY <1>7, RecomputeLowCountType DEF LedDone, TypeOK
  <2>2. ASSUME NEW i \in DOMAIN buckets, buckets'[i].merged PROVE OwnRows(i)'
    <3>1. buckets[i] \in Bucket
      BY <2>1
    <3>2. /\ buckets'[i].merged = buckets[i].merged
          /\ buckets'[i].parts = buckets[i].parts
          /\ buckets'[i].labels = buckets[i].labels
      BY <1>7, <2>1, <3>1 DEF LedDone, RecomputeLowCount, Bucket
    <3> QED BY <1>7, <2>2, <3>2 DEF Origins, OwnRows
  <2> QED BY <1>7, <2>1, <2>2 DEF Origins, LedDone
<1>8. CASE RescanInput
  BY <1>2, <1>8 DEF RescanInput
<1>9. CASE RescanEmpty
  BY <1>9 DEF RescanEmpty, Origins, OwnRows
<1>10. CASE UNCHANGED vars
  BY <1>10 DEF Origins, OwnRows, vars
<1>11. CASE (\E b \in BOOLEAN : StartStarBucket(b)) \/ StarStep \/ StarDone \/ RepeatRow
            \/ ReturnEof \/ SkipBucket \/ EmitBucket \/ RescanBuckets
  BY <1>1, <1>11 DEF StartStarBucket, StarStep, StarDone, RepeatRow, ReturnEof, SkipBucket,
     EmitBucket, RescanBuckets
<1> QED
  BY <1>3, <1>4, <1>5, <1>6, <1>7, <1>8, <1>9, <1>10, <1>11 DEF Next, CallStep

THEOREM Invariance == Spec => []IInv
<1>1. IInv /\ [Next]_vars => IInv'
  BY TypeStep, StagesStep, FlagsStep, RowsShownStep, OriginsStep DEF IInv
<1> QED BY <1>1, InitIInv, PTL DEF Spec

-----------------------------------------------------------------------------
(* The results.                                                             *)

(* The state of the node keeps its type, whatever the child returns. *)
THEOREM TypeCorrectness == Spec => []TypeOK
<1>1. IInv => TypeOK
  BY DEF IInv
<1> QED BY <1>1, Invariance, PTL

(* bucket_exec_scan never returns a row of a bucket whose AIDs, merges       *)
(* included, fall short of the threshold.                                    *)
THEOREM NoLowCountRow == Spec => []EmittedHighCount
<1>1. IInv => EmittedHighCount
  <2> SUFFICES ASSUME IInv, HasLowCount, NEW k \in DOMAIN out
               PROVE  ~IsLowCount(BucketAt(out[k]).aids)
    BY DEF EmittedHighCount
  <2>1. CASE out[k] = 0
    BY <2>1 DEF IInv, RowsShown, FlagsAgree, BucketAt, EvalLowCount
  <2>2. CASE out[k] # 0
    <3>1. phase # "led"
      BY DEF IInv, Stages
    <3>2. out[k] \in DOMAIN buckets /\ ~buckets[out[k]].low_count
      BY <2>2 DEF IInv, RowsShown, TypeOK
    <3> QED BY <2>2, <3>1, <3>2 DEF IInv, FlagsAgree, BucketAt, EvalLowCount
  <2> QED BY <2>1, <2>2
<1> QED BY <1>1, Invariance, PTL

(* led_hook never merges away a bucket that took in another one's rows. *)
THEOREM NoChains == Spec => []NoMergeChains
<1>1. IInv => NoMergeChains
  BY DEF IInv, Origins, OwnRows, NoMergeChains
<1> QED BY <1>1, Invariance, PTL

-----------------------------------------------------------------------------
(* The two hooks.  Whatever the order of the buckets, the loop of led_hook *)
(* with its lists of at most three siblings per column leaves the buckets   *)
(* as LedReference says, and the loop of star_bucket_hook takes in what is *)
(* suppressed then.                                                        *)

-----------------------------------------------------------------------------
(* Siblings.                                                               *)

\* The slots whose labels agree with those of slot b outside of column c: the
\* list of siblings before it is cut off.
SameLabels(b, c) ==
  {j \in DOMAIN buckets : SameExcept(buckets[b].labels, buckets[j].labels, c)}

(* Cutting the list off after three siblings does not matter to the question *)
(* whether there are one or two.                                             *)
LEMMA CutOff ==
  ASSUME buckets \in Seq(Bucket), NEW b \in DOMAIN buckets, NEW c
  PROVE  /\ IsFiniteSet(SameLabels(b, c)) /\ b \in SameLabels(b, c)
         /\ Cardinality(Siblings(b, c)) \in {1, 2} <=> Cardinality(SameLabels(b, c)) \in {1, 2}
         /\ Cardinality(Siblings(b, c)) \in {1, 2} => Siblings(b, c) = SameLabels(b, c)
<1> DEFINE same     == SameLabels(b, c)
           below(j) == {k \in same : k < j}
<1>1. same \subseteq Nat /\ IsFiniteSet(same) /\ b \in same
  <2>1. DOMAIN buckets = 1 .. Len(buckets) /\ Len(buckets) \in Nat
    OBVIOUS
  <2>2. same \subseteq 1 .. Len(buckets)
    BY <2>1 DEF SameLabels
  <2>3. IsFiniteSet(1 .. Len(buckets))
    BY <2>1, FS_Interval
  <2>4. b \in same
    BY DEF SameLabels, SameExcept
  <2> QED BY <2>2, <2>3, <2>4, FS_Subset
<1>2. Siblings(b, c) = {j \in same : Cardinality(below(j)) < 3}
  BY DEF Siblings, SameLabels
<1>3. /\ \A S \in SUBSET same : IsFiniteSet(S) /\ Cardinality(S) \in Nat
      /\ \A S, T \in SUBSET same : S \subseteq T => Cardinality(S) <= Cardinality(T)
  <2>1. \A S \in SUBSET same : IsFiniteSet(S) /\ Cardinality(S) \in Nat
    BY <1>1, FS_Subset, FS_CardinalityType
  <2> HIDE DEF same
  <2>2. ASSUME NEW S \in SUBSET same, NEW T \in SUBSET same, S \subseteq T
        PROVE  Cardinality(S) <= Cardinality(T)
    BY <2>1, <2>2, FS_Subset
  <2> QED BY <2>1, <2>2
<1>4. Siblings(b, c) \in SUBSET same /\ \A j : below(j) \in SUBSET same
  BY <1>2
<1>5. ASSUME Cardinality(Siblings(b, c)) < 3 PROVE Siblings(b, c) = same
  <2> SUFFICES ASSUME same \ Siblings(b, c) # {} PROVE FALSE
    BY <1>4
  <2>1. PICK j \in same \ Siblings(b, c) : \A k \in same \ Siblings(b, c) : j <= k
    <3>1. same \ Siblings(b, c) \in SUBSET Nat
      BY <1>1
    <3> HIDE DEF same
    <3> QED BY <3>1, LeastElement
  <2>2. below(j) \subseteq Siblings(b, c)
    BY <1>1, <2>1
  <2>3. Cardinality(below(j)) >= 3
    BY <1>2, <1>3, <1>4, <2>1
  <2> HIDE DEF same, below
  <2> QED BY <1>3, <1>4, <1>5, <2>2, <2>3
<1>6. ASSUME Cardinality(same) < 3 PROVE Siblings(b, c) = same
  <2>1. \A j \in same : Cardinality(below(j)) < 3
    <3> TAKE j \in same
    <3> HIDE DEF same
    <3>1. Cardinality(below(j)) <= Cardinality(same) /\ Cardinality(below(j)) \in Nat
             /\ Cardinality(same) \in Nat
      BY <1>3, <1>4
    <3> HIDE DEF below
    <3> QED BY <1>6, <3>1
  <2> QED BY <1>2, <2>1
<1>7. Cardinality(Siblings(b, c)) \in Nat /\ Cardinality(same) \in Nat
  BY <1>3, <1>4
<1> HIDE DEF same
<1> QED BY <1>1, <1>5, <1>6, <1>7 DEF same

-----------------------------------------------------------------------------
(* Merge targets.                                                          *)

\* The buckets are those of the fetched tuples, one for each tuple of labels.
OneBucketPerGroup ==
  /\ Len(buckets) = Len(fetched)
  /\ \A i \in DOMAIN buckets : buckets[i].labels = fetched[i].labels
  /\ \A i, j \in DOMAIN fetched : fetched[i].labels = fetched[j].labels => i = j

(* The fetched tuples have labels for every column. *)
LEMMA FetchedType ==
  ASSUME TypeOK, OneBucketPerGroup
  PROVE  /\ DOMAIN fetched = DOMAIN buckets /\ DOMAIN buckets = 1 .. Len(buckets)
         /\ Len(buckets) \in Nat
         /\ \A i \in DOMAIN fetched :
              /\ fetched[i].labels \in Groups
              /\ fetched[i].labels = [c \in Columns |-> fetched[i].labels[c]]
              /\ fetched[i].aids \in [AidInstances -> SUBSET Aids]
<1>1. /\ fetched \in Seq(ChildTuples) /\ buckets \in Seq(Bucket)
      /\ Len(fetched) = Len(buckets)
  BY DEF TypeOK, OneBucketPerGroup
<1>2. \A i \in DOMAIN fetched : fetched[i] \in ChildTuples
  BY <1>1
<1>3. \A t \in ChildTuples : t.labels \in Groups /\ t.aids \in [AidInstances -> SUBSET Aids]
  BY ConstantsAssumption DEF ConstantsAssumption
<1>4. \A g \in Groups : g = [c \in Columns |-> g[c]]
  BY ConstantsAssumption DEF ConstantsAssumption
<1>5. \A i \in DOMAIN fetched : fetched[i].labels \in Groups /\ fetched[i].aids \in [AidInstances -> SUBSET Aids]
  BY <1>2, <1>3
<1>6. \A i \in DOMAIN fetched : fetched[i].labels = [c \in Columns |-> fetched[i].labels[c]]
  BY <1>4, <1>5
<1>7. DOMAIN fetched = DOMAIN buckets /\ DOMAIN buckets = 1 .. Len(buckets) /\ Len(buckets) \in Nat
  BY <1>1
<1> QED BY <1>5, <1>6, <1>7

(* Two different buckets are siblings in one column at most: if they agreed  *)
(* outside of two columns, they would agree.                                 *)
LEMMA OneColumn ==
  ASSUME TypeOK, OneBucketPerGroup, NEW i \in DOMAIN fetched, NEW j \in DOMAIN fetched,
         NEW c \in Columns, NEW d \in Columns, i # j,
         SameExcept(fetched[i].labels, fetched[j].labels, c),
         SameExcept(fetched[i].labels, fetched[j].labels, d)
  PROVE  c = d
<1> SUFFICES ASSUME c # d PROVE FALSE
  OBVIOUS
<1> DEFINE g == fetched[i].labels
           h == fetched[j].labels
<1>1. g = [x \in Columns |-> g[x]] /\ h = [x \in Columns |-> h[x]]
  BY FetchedType
<1>2. \A x \in Columns : g[x] = h[x]
  BY DEF SameExcept
<1>3. g # h
  BY DEF OneBucketPerGroup
<1> HIDE DEF g, h
<1>4. g = h
  BY <1>1, <1>2, Zenon
<1> QED BY <1>3, <1>4

(* The code's questions about the list of siblings, put to the fetched tuples. *)
LEMMA SiblingsFetched ==
  ASSUME TypeOK, OneBucketPerGroup, NEW b \in DOMAIN buckets, NEW c \in Columns
  PROVE  /\ SameLabels(b, c) = OthersAlong(b, c) \cup {b}
         /\ b \notin OthersAlong(b, c)
         /\ UnknownColumn(b, c) <=> OthersAlong(b, c) = {}
         /\ Cardinality(Siblings(b, c)) = 2 <=> \E t : OthersAlong(b, c) = {t}
         /\ Cardinality(Siblings(b, c)) = 2 => Siblings(b, c) = OthersAlong(b, c) \cup {b}
<1>1. buckets \in Seq(Bucket) /\ DOMAIN fetched = DOMAIN buckets
  BY FetchedType DEF TypeOK
<1>2. SameLabels(b, c) = OthersAlong(b, c) \cup {b}
  <2>1. \A i \in DOMAIN buckets : buckets[i].labels = fetched[i].labels
    BY DEF OneBucketPerGroup
  <2> QED BY <1>1, <2>1 DEF SameLabels, OthersAlong, SameExcept
<1>3. b \notin OthersAlong(b, c)
  BY DEF OthersAlong
<1>4. IsFiniteSet(SameLabels(b, c)) /\ IsFiniteSet(OthersAlong(b, c))
  <2>1. IsFiniteSet(SameLabels(b, c))
    BY <1>1, CutOff
  <2> QED BY <1>2, <2>1, FS_Subset
<1>5. /\ Cardinality(OthersAlong(b, c)) \in Nat
      /\ Cardinality(SameLabels(b, c)) = Cardinality(OthersAlong(b, c)) + 1
  BY <1>2, <1>3, <1>4, FS_AddElement, FS_CardinalityType
<1>6. /\ Cardinality(OthersAlong(b, c)) = 0 <=> OthersAlong(b, c) = {}
      /\ Cardinality(OthersAlong(b, c)) = 1 <=> \E t : OthersAlong(b, c) = {t}
  BY <1>4, FS_EmptySet, FS_Singleton
<1>7. /\ Cardinality(Siblings(b, c)) \in {1, 2} <=> Cardinality(SameLabels(b, c)) \in {1, 2}
      /\ Cardinality(Siblings(b, c)) \in {1, 2} => Siblings(b, c) = SameLabels(b, c)
  BY <1>1, CutOff
<1>8. Cardinality(Siblings(b, c)) = 1 <=> Cardinality(SameLabels(b, c)) = 1
  BY <1>7
<1>9. Cardinality(Siblings(b, c)) = 2 <=> Cardinality(SameLabels(b, c)) = 2
  BY <1>7
<1>10. Cardinality(Siblings(b, c)) = 1 <=> Cardinality(OthersAlong(b, c)) = 0
  BY <1>5, <1>8
<1>11. Cardinality(Siblings(b, c)) = 2 <=> Cardinality(OthersAlong(b, c)) = 1
  BY <1>5, <1>9
<1>12. UnknownColumn(b, c) <=> OthersAlong(b, c) = {}
  BY <1>6, <1>10 DEF UnknownColumn
<1>13. Cardinality(Siblings(b, c)) = 2 <=> \E t : OthersAlong(b, c) = {t}
  BY <1>6, <1>11
<1>14. Cardinality(Siblings(b, c)) = 2 => Siblings(b, c) = OthersAlong(b, c) \cup {b}
  BY <1>2, <1>7
<1> QED BY <1>2, <1>3, <1>12, <1>13, <1>14

(* led_hook stages a bucket once for each target of the reference, and for   *)
(* no other bucket.                                                          *)
LEMMA MergedOnce ==
  ASSUME TypeOK, OneBucketPerGroup, NumLabels > 2,
         \A i \in DOMAIN buckets : buckets[i].low_count <=> FetchedLow(i),
         NEW b \in DOMAIN buckets, NEW j \in DOMAIN buckets
  PROVE  TimesMerged(b, j) = IF LedSends(b, j) THEN 1 ELSE 0
<1> DEFINE staging == {c \in Columns : IsolatingColumn(b, c) /\ j \in Siblings(b, c) \ {b}}
<1>1. DOMAIN fetched = DOMAIN buckets
  BY FetchedType
<1>2. staging = {c \in Columns : OthersAlong(b, c) = {j} /\ ~FetchedLow(j)}
  <2>1. ASSUME NEW c \in Columns
        PROVE  IsolatingColumn(b, c) /\ j \in Siblings(b, c) \ {b}
                 <=> OthersAlong(b, c) = {j} /\ ~FetchedLow(j)
    <3>1. /\ b \notin OthersAlong(b, c)
          /\ Cardinality(Siblings(b, c)) = 2 <=> \E t : OthersAlong(b, c) = {t}
          /\ Cardinality(Siblings(b, c)) = 2 => Siblings(b, c) = OthersAlong(b, c) \cup {b}
      BY SiblingsFetched
    <3>2. Cardinality(Siblings(b, c)) = 2 => Siblings(b, c) \ {b} = OthersAlong(b, c)
      BY <3>1
    <3>3. OthersAlong(b, c) \subseteq DOMAIN buckets
      BY <1>1 DEF OthersAlong
    <3>4. \A k \in OthersAlong(b, c) : buckets[k].low_count <=> FetchedLow(k)
      BY <3>3
    <3> HIDE DEF staging
    <3>5. ASSUME IsolatingColumn(b, c), j \in Siblings(b, c) \ {b}
          PROVE  OthersAlong(b, c) = {j} /\ ~FetchedLow(j)
      BY <3>1, <3>2, <3>4, <3>5 DEF IsolatingColumn
    <3>6. ASSUME OthersAlong(b, c) = {j}, ~FetchedLow(j)
          PROVE  IsolatingColumn(b, c) /\ j \in Siblings(b, c) \ {b}
      BY <3>1, <3>2, <3>4, <3>6 DEF IsolatingColumn
    <3> QED BY <3>5, <3>6
  <2> QED BY <2>1
<1>3. \A c, d \in staging : c = d
  <2> TAKE c, d \in staging
  <2>1. OthersAlong(b, c) = {j} /\ OthersAlong(b, d) = {j}
    BY <1>2
  <2>2. /\ j # b
        /\ SameExcept(fetched[b].labels, fetched[j].labels, c)
        /\ SameExcept(fetched[b].labels, fetched[j].labels, d)
    BY <2>1 DEF OthersAlong
  <2> QED BY <1>1, <2>2, OneColumn
<1>4. Cardinality(staging) = IF staging = {} THEN 0 ELSE 1
  <2>1. CASE staging = {}
    BY <2>1, FS_EmptySet
  <2>2. ASSUME NEW c \in staging PROVE Cardinality(staging) = 1
    <3>1. staging = {c}
      BY <1>3
    <3> QED BY <3>1, FS_Singleton
  <2> QED BY <2>1, <2>2
<1>5. (\E c \in Columns : UnknownColumn(b, c)) <=> (\E c \in Columns : OthersAlong(b, c) = {})
  BY SiblingsFetched
<1>6. LedSends(b, j) <=> /\ buckets[b].low_count
                         /\ \E c \in Columns : UnknownColumn(b, c)
                         /\ staging # {}
  BY <1>2, <1>5 DEF LedSends
<1>7. TimesMerged(b, j) = IF buckets[b].low_count /\ \E c \in Columns : UnknownColumn(b, c)
                          THEN Cardinality(staging) ELSE 0
  BY DEF TimesMerged
<1> HIDE DEF staging
<1> QED BY <1>4, <1>6, <1>7

-----------------------------------------------------------------------------
(* The loop.                                                               *)

\* The buckets that were merged into bucket t before the loop reached slot n.
SourcesBefore(t, n) == {i \in SourcesOf(t) : i < n}

\* Bucket t as the loop leaves it when it has reached slot n.
MergedUpTo(t, n) ==
  /\ buckets[t].aids = AidsFrom(t, SourcesBefore(t, n))
  /\ buckets[t].parts = PartsFrom(t, SourcesBefore(t, n))
  /\ buckets[t].merged <=> (t < n /\ \E j \in DOMAIN fetched : LedSends(t, j))

\* Bucket t as it was fetched.
NothingMerged(t) ==
  /\ buckets[t].aids = fetched[t].aids
  /\ buckets[t].parts = PartsFrom(t, {})
  /\ ~buckets[t].merged
  /\ buckets[t].low_count <=> FetchedLow(t)

(* The invariant: the loop is where its cursor says, and the flags it reads  *)
(* are those of the fetched tuples; outside of the loop there is nothing     *)
(* merged yet, or everything.                                                *)
LedInv ==
  /\ OneBucketPerGroup
  /\ ~input_done => \A t \in DOMAIN buckets : NothingMerged(t)
  /\ phase = "led" =>
       /\ NumLabels > 2
       /\ \A t \in DOMAIN buckets : MergedUpTo(t, cursor) /\ (buckets[t].low_count <=> FetchedLow(t))
  /\ input_done /\ phase # "led" => \A t \in DOMAIN buckets : buckets[t] = LedReference(t)

(* Equivalent truth values are equal. *)
LEMMA BooleanEqual == \A x, y \in BOOLEAN : (x <=> y) => x = y
OBVIOUS

(* A bucket is the record of its fields. *)
LEMMA BucketFields ==
  ASSUME NEW b \in Bucket
  PROVE  /\ b = [labels |-> b.labels, aids |-> b.aids, parts |-> b.parts,
                 low_count |-> b.low_count, merged |-> b.merged]
         /\ b.low_count \in BOOLEAN /\ b.merged \in BOOLEAN
BY DEF Bucket

(* What the reference says depends on the fetched tuples only. *)
LEMMA SameReference ==
  ASSUME fetched' = fetched
  PROVE  /\ \A t : LedReference(t)' = LedReference(t) /\ FetchedLow(t)' = FetchedLow(t)
         /\ \A i, t : LedSends(i, t)' = LedSends(i, t)
         /\ \A t, S : AidsFrom(t, S)' = AidsFrom(t, S) /\ PartsFrom(t, S)' = PartsFrom(t, S)
         /\ \A t, n : SourcesBefore(t, n)' = SourcesBefore(t, n)
<1>1. \A i, t : LedSends(i, t)' = LedSends(i, t)
  BY DEF LedSends, FetchedLow, OthersAlong
<1>2. \A t, S : AidsFrom(t, S)' = AidsFrom(t, S) /\ PartsFrom(t, S)' = PartsFrom(t, S)
  BY DEF AidsFrom, PartsFrom
<1>3. \A t : SourcesOf(t)' = SourcesOf(t)
  BY <1>1 DEF SourcesOf
<1>4. \A t : FetchedLow(t)' = FetchedLow(t)
  BY DEF FetchedLow
<1>5. \A t, n : SourcesBefore(t, n)' = SourcesBefore(t, n)
  BY <1>3 DEF SourcesBefore
<1>6. \A t : LedReference(t)' = LedReference(t)
  BY <1>1, <1>2, <1>3 DEF LedReference
<1> QED BY <1>1, <1>2, <1>4, <1>5, <1>6

(* The rows and AIDs of a bucket alone, and with one more source. *)
LEMMA FromNone ==
  ASSUME TypeOK, OneBucketPerGroup, NEW t \in DOMAIN fetched
  PROVE  AidsFrom(t, {}) = fetched[t].aids
<1>1. fetched[t].aids = [n \in AidInstances |-> fetched[t].aids[n]]
  BY FetchedType
<1>2. \A n : fetched[t].aids[n] \cup UNION {fetched[i].aids[n] : i \in {}} = fetched[t].aids[n]
  OBVIOUS
<1> QED BY <1>1, <1>2 DEF AidsFrom

LEMMA FromOneMore ==
  ASSUME TypeOK, OneBucketPerGroup, NEW t \in DOMAIN fetched, NEW b \in DOMAIN fetched,
         NEW S \in SUBSET DOMAIN fetched, b \notin S \cup {t}
  PROVE  /\ AidsFrom(t, S \cup {b}) =
              [n \in AidInstances |-> AidsFrom(t, S)[n] \cup fetched[b].aids[n]]
         /\ PartsFrom(t, S \cup {b}) =
              [g \in Groups |-> PartsFrom(t, S)[g] + 1 * PartsFrom(b, {})[g]]
<1>1. AidsFrom(t, S \cup {b}) =
        [n \in AidInstances |-> AidsFrom(t, S)[n] \cup fetched[b].aids[n]]
  <2>1. ASSUME NEW n \in AidInstances
        PROVE  fetched[t].aids[n] \cup UNION {fetched[i].aids[n] : i \in S \cup {b}}
                 = AidsFrom(t, S)[n] \cup fetched[b].aids[n]
    BY DEF AidsFrom
  <2> QED BY <2>1 DEF AidsFrom
<1>2. ASSUME NEW g \in Groups
      PROVE  PartsFrom(t, S \cup {b})[g] = PartsFrom(t, S)[g] + 1 * PartsFrom(b, {})[g]
  <2>1. \A i \in S \cup {t} : fetched[i].labels # fetched[b].labels
    BY DEF OneBucketPerGroup
  <2>2. PartsFrom(b, {})[g] = IF fetched[b].labels = g THEN 1 ELSE 0
    BY DEF PartsFrom
  <2>3. PartsFrom(t, S)[g] = IF \E i \in S \cup {t} : fetched[i].labels = g THEN 1 ELSE 0
    BY DEF PartsFrom
  <2>4. PartsFrom(t, S \cup {b})[g] =
          IF \E i \in S \cup {b} \cup {t} : fetched[i].labels = g THEN 1 ELSE 0
    BY DEF PartsFrom
  <2> QED BY <2>1, <2>2, <2>3, <2>4
<1>3. PartsFrom(t, S \cup {b}) = [g \in Groups |-> PartsFrom(t, S \cup {b})[g]]
  BY DEF PartsFrom
<1> QED BY <1>1, <1>2, <1>3

(* Nothing is ever merged into a bucket that is merged into another one. *)
LEMMA SourcesAreLow ==
  ASSUME NEW b, FetchedLow(b)
  PROVE  SourcesOf(b) = {} /\ \A n : SourcesBefore(b, n) = {}
BY DEF SourcesOf, LedSends, SourcesBefore

-----------------------------------------------------------------------------
(* Its steps.                                                              *)

LEMMA LedInvUnchanged ==
  ASSUME LedInv, UNCHANGED <<buckets, fetched, input_done>>, phase # "led", phase' # "led"
  PROVE  LedInv'
<1>1. OneBucketPerGroup'
  BY DEF LedInv, OneBucketPerGroup
<1>2. \A t : NothingMerged(t)' <=> NothingMerged(t)
  BY SameReference DEF NothingMerged
<1>3. \A t : LedReference(t)' = LedReference(t)
  BY SameReference
<1> QED BY <1>1, <1>2, <1>3 DEF LedInv

LEMMA FetchKeeps ==
  ASSUME IInv, IInv', LedInv, NEW tuple \in ChildTuples, FetchBucket(tuple)
  PROVE  LedInv'
<1> DEFINE b == BucketOf(tuple.labels, tuple.aids)
           n == [b EXCEPT !.low_count = EvalLowCount(b)]
           last == Len(buckets) + 1
<1>1. /\ buckets' = Append(buckets, n) /\ fetched' = Append(fetched, tuple)
      /\ phase' = "fill" /\ ~input_done /\ ~input_done'
      /\ \A i \in DOMAIN buckets : buckets[i].labels # tuple.labels
  BY DEF FetchBucket, IInv, Stages
<1>2. /\ buckets \in Seq(Bucket) /\ fetched \in Seq(ChildTuples) /\ Len(buckets) = Len(fetched)
      /\ Len(buckets) \in Nat
  BY DEF IInv, TypeOK, LedInv, OneBucketPerGroup
<1>3. /\ n.labels = tuple.labels /\ n.aids = tuple.aids /\ n.merged = FALSE
      /\ n.parts = [h \in Groups |-> IF h = tuple.labels THEN 1 ELSE 0]
      /\ n.low_count = EvalLowCount(b) /\ b.aids = tuple.aids
  BY DEF BucketOf, NewBucket
<1>4. n \in Bucket
  <2>1. tuple.labels \in Groups /\ tuple.aids \in [AidInstances -> SUBSET Aids]
    BY ConstantsAssumption DEF ConstantsAssumption
  <2>2. b \in Bucket /\ EvalLowCount(b) \in BOOLEAN
    BY <2>1, NewBucketType, EvalLowCountType
  <2> HIDE DEF b
  <2> QED BY <2>2, Zenon DEF Bucket
<1> HIDE DEF n
<1>5. /\ DOMAIN buckets' = DOMAIN buckets \cup {last} /\ last \notin DOMAIN buckets
      /\ DOMAIN fetched' = DOMAIN buckets'
      /\ Len(buckets') = Len(fetched')
      /\ \A i \in DOMAIN buckets : buckets'[i] = buckets[i] /\ fetched'[i] = fetched[i]
      /\ buckets'[last] = n /\ fetched'[last] = tuple
      /\ DOMAIN fetched = DOMAIN buckets
  BY <1>1, <1>2, <1>4, AppendProperties
<1> HIDE DEF last
<1>6. OneBucketPerGroup'
  BY <1>1, <1>3, <1>5 DEF LedInv, OneBucketPerGroup
<1>7. ASSUME NEW t \in DOMAIN buckets' PROVE NothingMerged(t)'
  <2>1. CASE t \in DOMAIN buckets
    <3>1. NothingMerged(t)
      BY <1>1, <2>1 DEF LedInv
    <3> QED BY <1>5, <2>1, <3>1 DEF NothingMerged, PartsFrom, FetchedLow
  <2>2. CASE t = last
    <3>1. (buckets[t].aids = fetched[t].aids)'
      BY <1>3, <1>5, <2>2
    <3>2. (buckets[t].parts = PartsFrom(t, {}))'
      BY <1>3, <1>5, <2>2 DEF PartsFrom
    <3>3. ~(buckets[t].merged)'
      BY <1>3, <1>5, <2>2
    <3>4. (buckets[t].low_count <=> FetchedLow(t))'
      BY <1>3, <1>5, <2>2 DEF FetchedLow, EvalLowCount
    <3> QED BY <3>1, <3>2, <3>3, <3>4 DEF NothingMerged
  <2> QED BY <1>5, <2>1, <2>2
<1> QED BY <1>1, <1>6, <1>7 DEF LedInv

LEMMA EndOfInputKeeps ==
  ASSUME IInv, IInv', LedInv, EndOfInput
  PROVE  LedInv'
<1>1. /\ UNCHANGED <<buckets, fetched>> /\ phase = "fill" /\ ~input_done /\ cursor' = 1
      /\ phase' = "led" <=> HasLowCount /\ NumLabels > 2
  <2>1. NumLabels \in Nat
    BY ConstantsAssumption DEF ConstantsAssumption
  <2>2. /\ ~HasLowCount => phase' = "emit"
        /\ HasLowCount /\ NumLabels <= 2 => phase' = "led_done"
        /\ HasLowCount /\ NumLabels > 2 => phase' = "led"
    BY <2>1 DEF EndOfInput
  <2>3. UNCHANGED <<buckets, fetched>> /\ phase = "fill" /\ ~input_done /\ cursor' = 1
    BY DEF EndOfInput, IInv, Stages, hist_vars
  <2> QED BY <2>1, <2>2, <2>3
<1>2. OneBucketPerGroup /\ OneBucketPerGroup'
  BY <1>1 DEF LedInv, OneBucketPerGroup
<1>3. DOMAIN fetched = DOMAIN buckets /\ DOMAIN buckets = 1 .. Len(buckets) /\ Len(buckets) \in Nat
  BY <1>2, FetchedType DEF IInv
<1>4. ASSUME NEW t \in DOMAIN buckets
      PROVE  NothingMerged(t) /\ AidsFrom(t, {}) = fetched[t].aids
  BY <1>1, <1>2, <1>3, FromNone DEF LedInv, IInv
<1>5. CASE phase' = "led"
  <2>1. ASSUME NEW t \in DOMAIN buckets PROVE MergedUpTo(t, 1)
    <3>1. SourcesBefore(t, 1) = {}
      BY <1>3 DEF SourcesBefore, SourcesOf
    <3>2. ~(t < 1)
      BY <1>3
    <3> QED BY <1>4, <3>1, <3>2 DEF MergedUpTo, NothingMerged
  <2>2. ASSUME NEW t \in DOMAIN buckets
        PROVE  (MergedUpTo(t, cursor) /\ (buckets[t].low_count <=> FetchedLow(t)))'
    BY <1>1, <1>4, <2>1, SameReference DEF MergedUpTo, NothingMerged
  <2>3. NumLabels > 2 /\ input_done'
    BY <1>1, <1>5 DEF EndOfInput
  <2> QED BY <1>1, <1>2, <1>5, <2>2, <2>3 DEF LedInv
<1>6. CASE phase' # "led"
  <2>1. ~HasLowCount \/ ~(NumLabels > 2)
    BY <1>1, <1>6
  <2>2. \A i, t : ~LedSends(i, t)
    BY <2>1 DEF LedSends, FetchedLow
  <2>3. ASSUME NEW t \in DOMAIN buckets PROVE buckets[t] = LedReference(t)
    <3>1. SourcesOf(t) = {}
      BY <2>2 DEF SourcesOf
    <3>2. buckets[t] \in Bucket
      BY DEF IInv, TypeOK
    <3>3. LedReference(t) = [labels |-> fetched[t].labels, aids |-> fetched[t].aids,
                             parts |-> PartsFrom(t, {}), low_count |-> FetchedLow(t),
                             merged |-> FALSE]
      BY <1>4, <2>2, <3>1 DEF LedReference, FetchedLow
    <3>4. /\ buckets[t].labels = fetched[t].labels
          /\ buckets[t].aids = fetched[t].aids
          /\ buckets[t].parts = PartsFrom(t, {})
          /\ buckets[t].low_count <=> FetchedLow(t)
          /\ buckets[t].merged <=> FALSE
      BY <1>2, <1>4 DEF OneBucketPerGroup, NothingMerged
    <3>5. FetchedLow(t) \in BOOLEAN
      BY DEF FetchedLow
    <3>6. buckets[t].low_count = FetchedLow(t) /\ buckets[t].merged = FALSE
      <4>1. buckets[t].low_count \in BOOLEAN /\ buckets[t].merged \in BOOLEAN
        BY <3>2, BucketFields
      <4>2. buckets[t].low_count = FetchedLow(t)
        BY <3>4, <3>5, <4>1, BooleanEqual, Zenon
      <4>3. buckets[t].merged = FALSE
        BY <3>4, <4>1
      <4> QED BY <4>2, <4>3
    <3>7. buckets[t] = [labels |-> buckets[t].labels, aids |-> buckets[t].aids,
                        parts |-> buckets[t].parts, low_count |-> buckets[t].low_count,
                        merged |-> buckets[t].merged]
      BY <3>2, BucketFields, Zenon
    <3> QED BY <3>3, <3>4, <3>6, <3>7, Zenon
  <2> QED BY <1>1, <1>2, <1>6, <2>3, SameReference DEF LedInv, EndOfInput
<1> QED BY <1>5, <1>6

(* The fields merge_bucket changes. *)
LEMMA MergeBucketFields ==
  ASSUME NEW dst \in Bucket, NEW src, NEW times
  PROVE  /\ MergeBucket(dst, src, times).aids = [i \in AidInstances |-> dst.aids[i] \cup src.aids[i]]
         /\ MergeBucket(dst, src, times).parts =
              [g \in Groups |-> dst.parts[g] + times * src.parts[g]]
BY DEF MergeBucket, Bucket

LEMMA LedStepKeeps ==
  ASSUME IInv, IInv', LedInv, LedStep
  PROVE  LedInv'
<1> DEFINE b == cursor
<1>1. /\ b \in DOMAIN buckets /\ b \in Nat /\ phase = "led" /\ phase' = "led"
      /\ buckets \in Seq(Bucket) /\ buckets' = LedMerge(b)
      /\ fetched' = fetched /\ cursor' = b + 1 /\ input_done /\ input_done'
  BY DEF LedStep, IInv, TypeOK, Stages, hist_vars
<1>2. /\ OneBucketPerGroup /\ NumLabels > 2
      /\ \A t \in DOMAIN buckets : MergedUpTo(t, b) /\ (buckets[t].low_count <=> FetchedLow(t))
  BY <1>1 DEF LedInv
<1>3. DOMAIN fetched = DOMAIN buckets /\ DOMAIN buckets = 1 .. Len(buckets)
  BY <1>2, FetchedType DEF IInv
<1>4. \A t \in DOMAIN buckets : TimesMerged(b, t) = IF LedSends(b, t) THEN 1 ELSE 0
  BY <1>1, <1>2, MergedOnce DEF IInv
<1>5. MergeTargets(b) = {t \in DOMAIN buckets : LedSends(b, t)}
  BY <1>4 DEF MergeTargets
<1>6. /\ DOMAIN buckets' = DOMAIN buckets /\ Len(buckets') = Len(buckets)
      /\ \A t \in DOMAIN buckets : /\ buckets'[t].low_count = buckets[t].low_count
                                  /\ buckets'[t].labels = buckets[t].labels
  <2>1. /\ LedMerge(b) \in Seq(Bucket)
        /\ DOMAIN LedMerge(b) = DOMAIN buckets
        /\ \A j \in DOMAIN buckets : /\ LedMerge(b)[j].low_count = buckets[j].low_count
                                     /\ LedMerge(b)[j].labels = buckets[j].labels
    BY <1>1, LedMergeType
  <2> QED BY <1>1, <2>1
<1>7. OneBucketPerGroup'
  BY <1>1, <1>2, <1>3, <1>6 DEF OneBucketPerGroup
<1>8. ASSUME NEW t \in DOMAIN buckets
      PROVE  /\ buckets'[t].aids = AidsFrom(t, SourcesBefore(t, b + 1))
             /\ buckets'[t].parts = PartsFrom(t, SourcesBefore(t, b + 1))
             /\ buckets'[t].merged <=> (t < b + 1 /\ \E j \in DOMAIN fetched : LedSends(t, j))
  <2>1. t \in Nat /\ b \in Nat /\ \A i \in DOMAIN fetched : i \in Nat
    BY <1>1, <1>3
  <2>2. CASE LedSends(b, t)
    <3>1. t \in MergeTargets(b) /\ TimesMerged(b, t) = 1
      BY <1>4, <1>5, <2>2
    <3>2. FetchedLow(b) /\ ~FetchedLow(t) /\ t # b /\ \A j : ~LedSends(t, j)
      BY <2>2 DEF LedSends
    <3>3. buckets'[t] = MergeBucket(buckets[t], buckets[b], 1)
      BY <1>1, <3>1 DEF LedMerge
    <3>4. /\ buckets[b].aids = fetched[b].aids
          /\ buckets[b].parts = PartsFrom(b, {})
      BY <1>1, <1>2, <1>3, <3>2, SourcesAreLow, FromNone DEF MergedUpTo, IInv
    <3>5. SourcesBefore(t, b + 1) = SourcesBefore(t, b) \cup {b}
      BY <1>1, <1>3, <2>1, <2>2 DEF SourcesBefore, SourcesOf
    <3>6. b \notin SourcesBefore(t, b) \cup {t} /\ SourcesBefore(t, b) \in SUBSET DOMAIN fetched
      BY <2>1, <3>2 DEF SourcesBefore, SourcesOf
    <3>7. /\ AidsFrom(t, SourcesBefore(t, b) \cup {b}) =
               [n \in AidInstances |-> AidsFrom(t, SourcesBefore(t, b))[n] \cup fetched[b].aids[n]]
          /\ PartsFrom(t, SourcesBefore(t, b) \cup {b}) =
               [g \in Groups |-> PartsFrom(t, SourcesBefore(t, b))[g] + 1 * PartsFrom(b, {})[g]]
      <4>1. t \in DOMAIN fetched /\ b \in DOMAIN fetched /\ TypeOK /\ OneBucketPerGroup
        BY <1>1, <1>2, <1>3 DEF IInv
      <4> DEFINE S == SourcesBefore(t, b)
      <4>2. S \in SUBSET DOMAIN fetched /\ b \notin S \cup {t}
        BY <3>6
      <4> HIDE DEF S, b
      <4>3. /\ AidsFrom(t, S \cup {b}) =
                 [n \in AidInstances |-> AidsFrom(t, S)[n] \cup fetched[b].aids[n]]
            /\ PartsFrom(t, S \cup {b}) =
                 [g \in Groups |-> PartsFrom(t, S)[g] + 1 * PartsFrom(b, {})[g]]
        BY <4>1, <4>2, FromOneMore
      <4> QED BY <4>3 DEF S
    <3>8. /\ buckets[t].aids = AidsFrom(t, SourcesBefore(t, b))
          /\ buckets[t].parts = PartsFrom(t, SourcesBefore(t, b))
          /\ ~buckets[t].merged
      BY <1>2, <3>2 DEF MergedUpTo
    <3>9. /\ buckets'[t].aids = [n \in AidInstances |-> buckets[t].aids[n] \cup buckets[b].aids[n]]
          /\ buckets'[t].parts = [g \in Groups |-> buckets[t].parts[g] + 1 * buckets[b].parts[g]]
      BY <1>1, <3>3, MergeBucketFields
    <3>10. buckets'[t].merged = buckets[t].merged
      BY <1>1, <3>1, LedMergeEffect
    <3> QED BY <3>2, <3>4, <3>5, <3>7, <3>8, <3>9, <3>10
  <2>3. CASE ~LedSends(b, t)
    <3>1. /\ t \notin MergeTargets(b)
          /\ MergeTargets(b) # {} <=> \E j \in DOMAIN fetched : LedSends(b, j)
      BY <1>3, <1>5, <2>3
    <3>2. /\ buckets'[t].aids = buckets[t].aids
          /\ buckets'[t].parts = buckets[t].parts
          /\ buckets'[t].merged = (buckets[t].merged \/ (t = b /\ MergeTargets(b) # {}))
      BY <1>1, <3>1, LedMergeEffect
    <3>3. SourcesBefore(t, b + 1) = SourcesBefore(t, b)
      BY <2>1, <2>3 DEF SourcesBefore, SourcesOf
    <3>4. t < b + 1 <=> t < b \/ t = b
      BY <2>1
    <3>5. ~(b < b)
      BY <2>1
    <3> QED BY <1>2, <3>1, <3>2, <3>3, <3>4, <3>5 DEF MergedUpTo
  <2> QED BY <2>2, <2>3
<1>9. ASSUME NEW t \in DOMAIN buckets'
      PROVE  (MergedUpTo(t, cursor) /\ (buckets[t].low_count <=> FetchedLow(t)))'
  <2>1. t \in DOMAIN buckets
    BY <1>6
  <2>2. (buckets[t].low_count <=> FetchedLow(t))'
    BY <1>1, <1>2, <1>6, <2>1, SameReference
  <2>3. MergedUpTo(t, cursor)'
    BY <1>1, <1>8, <2>1, SameReference DEF MergedUpTo
  <2> QED BY <2>2, <2>3
<1> QED BY <1>1, <1>2, <1>7, <1>9 DEF LedInv

LEMMA LedDoneKeeps ==
  ASSUME IInv, IInv', LedInv, LedDone
  PROVE  LedInv'
<1>1. /\ phase = "led" /\ phase' = "led_done" /\ cursor > Len(buckets)
      /\ buckets' = RecomputeLowCount /\ fetched' = fetched /\ input_done'
      /\ buckets \in Seq(Bucket) /\ cursor \in Nat
  BY DEF LedDone, IInv, TypeOK, Stages, hist_vars
<1>2. OneBucketPerGroup /\ \A t \in DOMAIN buckets : MergedUpTo(t, cursor)
  BY <1>1 DEF LedInv
<1>3. DOMAIN fetched = DOMAIN buckets /\ DOMAIN buckets = 1 .. Len(buckets) /\ Len(buckets) \in Nat
  BY <1>2, FetchedType DEF IInv
<1>4. buckets' \in Seq(Bucket) /\ DOMAIN buckets' = DOMAIN buckets /\ Len(buckets') = Len(buckets)
  BY <1>1, RecomputeLowCountType
<1>5. ASSUME NEW t \in DOMAIN buckets
      PROVE  /\ buckets'[t].labels = buckets[t].labels
             /\ buckets'[t].aids = buckets[t].aids
             /\ buckets'[t].parts = buckets[t].parts
             /\ buckets'[t].merged = buckets[t].merged
  <2>1. buckets[t] \in Bucket
    BY <1>1
  <2>2. CASE t \in targets
    BY <1>1, <2>1, <2>2 DEF RecomputeLowCount, Bucket
  <2>3. CASE t \notin targets
    BY <1>1, <2>3 DEF RecomputeLowCount
  <2> QED BY <2>2, <2>3
<1>6. OneBucketPerGroup'
  BY <1>1, <1>2, <1>4, <1>5 DEF OneBucketPerGroup
<1>7. ASSUME NEW t \in DOMAIN buckets PROVE buckets'[t] = LedReference(t)
  <2> DEFINE low == HasLowCount /\ IsLowCount(AidsFrom(t, SourcesOf(t)))
             merged == \E j \in DOMAIN fetched : LedSends(t, j)
  <2>1. SourcesBefore(t, cursor) = SourcesOf(t) /\ t < cursor
    BY <1>1, <1>3 DEF SourcesBefore, SourcesOf
  <2>2. /\ buckets'[t].labels = fetched[t].labels
        /\ buckets'[t].aids = AidsFrom(t, SourcesOf(t))
        /\ buckets'[t].parts = PartsFrom(t, SourcesOf(t))
        /\ buckets'[t].merged <=> merged
    BY <1>2, <1>5, <2>1 DEF MergedUpTo, OneBucketPerGroup
  <2>3. buckets'[t].low_count <=> low
    <3>1. buckets'[t].low_count = EvalLowCount(buckets[t])'
      BY <1>1, <1>4 DEF IInv, FlagsAgree
    <3> QED BY <2>2, <3>1 DEF EvalLowCount
  <2>4. /\ buckets'[t] = [labels |-> buckets'[t].labels, aids |-> buckets'[t].aids,
                          parts |-> buckets'[t].parts, low_count |-> buckets'[t].low_count,
                          merged |-> buckets'[t].merged]
        /\ buckets'[t].low_count \in BOOLEAN /\ buckets'[t].merged \in BOOLEAN
    BY <1>4, BucketFields
  <2>5. low \in BOOLEAN /\ merged \in BOOLEAN
    OBVIOUS
  <2> HIDE DEF low, merged
  <2>6. buckets'[t].low_count = low /\ buckets'[t].merged = merged
    <3>1. buckets'[t].low_count = low
      BY <2>3, <2>4, <2>5, BooleanEqual, Zenon
    <3>2. buckets'[t].merged = merged
      BY <2>2, <2>4, <2>5, BooleanEqual, Zenon
    <3> QED BY <3>1, <3>2
  <2>7. LedReference(t) = [labels |-> fetched[t].labels, aids |-> AidsFrom(t, SourcesOf(t)),
                           parts |-> PartsFrom(t, SourcesOf(t)), low_count |-> low,
                           merged |-> merged]
    BY Zenon DEF LedReference, low, merged
  <2> QED BY <2>2, <2>4, <2>6, <2>7, Zenon
<1> QED BY <1>1, <1>4, <1>6, <1>7, SameReference DEF LedInv

LEMMA LedInvInit == Init => LedInv
BY DEF Init, LedInv, OneBucketPerGroup

LEMMA LedInvStep == IInv /\ IInv' /\ LedInv /\ [Next]_vars => LedInv'
<1> SUFFICES ASSUME IInv, IInv', LedInv, [Next]_vars PROVE LedInv'
  OBVIOUS
<1>1. ASSUME NEW tuple \in ChildTuples, FetchBucket(tuple) PROVE LedInv'
  BY <1>1, FetchKeeps
<1>2. CASE EndOfInput \/ LedStep \/ LedDone
  BY <1>2, EndOfInputKeeps, LedStepKeeps, LedDoneKeeps
<1>3. CASE ExecScan \/ (\E b \in BOOLEAN : StartStarBucket(b)) \/ StarStep \/ StarDone
           \/ RepeatRow \/ ReturnEof \/ SkipBucket \/ EmitBucket \/ RescanEmpty \/ RescanBuckets
  BY <1>3, LedInvUnchanged DEF ExecScan, StartStarBucket, StarStep, StarDone, RepeatRow, ReturnEof,
     SkipBucket, EmitBucket, RescanEmpty, RescanBuckets, scan_vars, hist_vars
<1>4. CASE RescanInput
  <2>1. /\ buckets' = <<>> /\ fetched' = <<>> /\ DOMAIN buckets' = {} /\ DOMAIN fetched' = {}
        /\ ~input_done' /\ phase' = "idle"
    BY <1>4 DEF RescanInput
  <2> QED BY <2>1 DEF LedInv, OneBucketPerGroup
<1>5. CASE UNCHANGED vars
  <2>1. UNCHANGED <<buckets, fetched, input_done, phase, cursor>>
    BY <1>5 DEF vars, scan_vars, hist_vars, hook_vars
  <2>2. CASE phase # "led"
    BY <2>1, <2>2, LedInvUnchanged
  <2>3. CASE phase = "led"
    <3>1. \A t, n : MergedUpTo(t, n)' <=> MergedUpTo(t, n)
      BY <2>1, SameReference DEF MergedUpTo
    <3>2. OneBucketPerGroup' <=> OneBucketPerGroup
      BY <2>1 DEF OneBucketPerGroup
    <3>3. \A t : NothingMerged(t)' <=> NothingMerged(t)
      BY <2>1, SameReference DEF NothingMerged
    <3> QED BY <2>1, <2>3, <3>1, <3>2, <3>3, SameReference DEF LedInv
  <2> QED BY <2>2, <2>3
<1> QED
  BY <1>1, <1>2, <1>3, <1>4, <1>5 DEF Next, CallStep

THEOREM LedInvariance == Spec => []LedInv
<1> QED BY Invariance, LedInvInit, LedInvStep, PTL DEF Spec

(* Rows are in a bucket of the child once, whatever was merged so far.       *)
LEMMA NoRowsTwice == IInv /\ LedInv => NoDoubleCount
<1> SUFFICES ASSUME IInv, LedInv, NEW i \in DOMAIN buckets, NEW g \in Groups
             PROVE  buckets[i].parts[g] <= 1
  BY DEF NoDoubleCount
<1>1. \A S : PartsFrom(i, S)[g] <= 1
  BY DEF PartsFrom
<1>2. \E S : buckets[i].parts = PartsFrom(i, S)
  <2>1. CASE ~input_done
    BY <2>1 DEF LedInv, NothingMerged
  <2>2. CASE phase = "led"
    BY <2>2 DEF LedInv, MergedUpTo
  <2>3. CASE input_done /\ phase # "led"
    <3>1. buckets[i] = LedReference(i)
      BY <2>3 DEF LedInv
    <3>2. LedReference(i).parts = PartsFrom(i, SourcesOf(i))
      BY DEF LedReference
    <3> QED BY <3>1, <3>2
  <2> QED BY <2>1, <2>2, <2>3
<1> QED BY <1>1, <1>2

-----------------------------------------------------------------------------
(* The star bucket.                                                        *)

\* The buckets before slot n that star_bucket_hook takes in and that hold group g.
SuppressedBefore(n, g) ==
  {i \in DOMAIN buckets : i < n /\ GoesToStar(buckets[i]) /\ buckets[i].parts[g] > 0}

LEMMA SuppressedIsFinite ==
  ASSUME buckets \in Seq(Bucket), NEW n, NEW g
  PROVE  IsFiniteSet(SuppressedBefore(n, g))
<1>1. DOMAIN buckets = 1 .. Len(buckets) /\ Len(buckets) \in Nat
  OBVIOUS
<1>2. IsFiniteSet(1 .. Len(buckets))
  BY <1>1, FS_Interval
<1> QED BY <1>1, <1>2, FS_Subset DEF SuppressedBefore

(* The invariant: while the loop runs, the staged bucket has counted a group *)
(* once for each suppressed bucket before the cursor that holds it.          *)
StarInv ==
  /\ phase = "star" => \A g \in Groups : staged.parts[g] = Cardinality(SuppressedBefore(cursor, g))
  /\ StarCoversSuppressed

LEMMA StarStepKeeps ==
  ASSUME IInv, NoDoubleCount, StarInv, StarStep
  PROVE  StarInv'
<1>1. /\ UNCHANGED <<buckets, star>> /\ phase = "star" /\ cursor' = cursor + 1
      /\ cursor \in DOMAIN buckets /\ DOMAIN buckets = 1 .. Len(buckets) /\ cursor \in Nat
      /\ staged \in Bucket /\ buckets[cursor] \in Bucket
  BY DEF StarStep, IInv, TypeOK, Stages, scan_vars
<1>2. ASSUME NEW g \in Groups
      PROVE  staged'.parts[g] = Cardinality(SuppressedBefore(cursor + 1, g))
  <2>1. staged.parts[g] = Cardinality(SuppressedBefore(cursor, g))
    BY <1>1 DEF StarInv
  <2>2. IsFiniteSet(SuppressedBefore(cursor, g))
    BY SuppressedIsFinite DEF IInv, TypeOK
  <2>3. \A i \in DOMAIN buckets : i < cursor + 1 <=> i < cursor \/ i = cursor
    BY <1>1
  <2>4. buckets[cursor].parts[g] \in {0, 1} /\ staged.parts[g] \in Nat
    <3>1. buckets[cursor].parts[g] \in Nat /\ staged.parts[g] \in Nat
      BY <1>1 DEF Bucket
    <3>2. buckets[cursor].parts[g] <= 1
      BY <1>1 DEF NoDoubleCount
    <3> QED BY <3>1, <3>2
  <2>5. CASE GoesToStar(buckets[cursor])
    <3>1. staged' = MergeBucket(staged, buckets[cursor], 1)
      BY <2>5 DEF StarStep
    <3>2. staged'.parts[g] = staged.parts[g] + buckets[cursor].parts[g]
      <4>1. MergeBucket(staged, buckets[cursor], 1).parts =
              [h \in Groups |-> staged.parts[h] + 1 * buckets[cursor].parts[h]]
        BY <1>1 DEF MergeBucket, Bucket
      <4> QED BY <3>1, <4>1, <2>4
    <3>3. CASE buckets[cursor].parts[g] = 0
      <4>1. SuppressedBefore(cursor + 1, g) = SuppressedBefore(cursor, g)
        BY <2>3, <3>3 DEF SuppressedBefore
      <4> QED BY <2>1, <2>4, <3>2, <3>3, <4>1
    <3>4. CASE buckets[cursor].parts[g] = 1
      <4>1. SuppressedBefore(cursor + 1, g) = SuppressedBefore(cursor, g) \cup {cursor}
        BY <1>1, <2>3, <2>5, <3>4 DEF SuppressedBefore
      <4>2. cursor \notin SuppressedBefore(cursor, g)
        BY <1>1 DEF SuppressedBefore
      <4>3. Cardinality(SuppressedBefore(cursor, g) \cup {cursor}) =
              Cardinality(SuppressedBefore(cursor, g)) + 1
        BY <2>2, <4>2, FS_AddElement
      <4> QED BY <2>1, <3>2, <3>4, <4>1, <4>3
    <3> QED BY <2>4, <3>3, <3>4
  <2>6. CASE ~GoesToStar(buckets[cursor])
    <3>1. SuppressedBefore(cursor + 1, g) = SuppressedBefore(cursor, g)
      BY <2>3, <2>6 DEF SuppressedBefore
    <3>2. staged' = staged
      BY <2>6 DEF StarStep
    <3> QED BY <2>1, <3>1, <3>2
  <2> QED BY <2>5, <2>6
<1>3. \A n, g : SuppressedBefore(n, g)' = SuppressedBefore(n, g)
  BY <1>1 DEF SuppressedBefore, GoesToStar
<1>4. StarCoversSuppressed'
  BY <1>1 DEF StarInv, StarCoversSuppressed, SuppressedWith
<1> QED BY <1>1, <1>2, <1>3, <1>4 DEF StarInv

LEMMA StarInvStep == IInv /\ IInv' /\ NoDoubleCount /\ StarInv /\ [Next]_vars => StarInv'
<1> SUFFICES ASSUME IInv, IInv', NoDoubleCount, StarInv, [Next]_vars PROVE StarInv'
  OBVIOUS
<1>1. ASSUME star' = NoBucket, phase' # "star" PROVE StarInv'
  BY <1>1 DEF StarInv, StarCoversSuppressed
<1>2. ASSUME UNCHANGED <<buckets, star>>, phase' # "star" PROVE StarInv'
  BY <1>2 DEF StarInv, StarCoversSuppressed, SuppressedWith
<1>3. CASE (\E tuple \in ChildTuples : FetchBucket(tuple)) \/ EndOfInput \/ LedStep \/ LedDone
           \/ RescanInput
  <2>1. star' = NoBucket
    BY <1>3 DEF FetchBucket, EndOfInput, LedStep, LedDone, RescanInput, IInv, Stages
  <2>2. phase' # "star"
    <3>1. EndOfInput => phase' \in {"led", "led_done", "emit"}
      BY ConstantsAssumption DEF EndOfInput, ConstantsAssumption
    <3> QED BY <1>3, <3>1 DEF FetchBucket, LedStep, LedDone, RescanInput
  <2> QED BY <1>1, <2>1, <2>2
<1>4. ASSUME NEW compute_suppress_bin \in BOOLEAN, StartStarBucket(compute_suppress_bin)
      PROVE  StarInv'
  <2>1. UNCHANGED <<buckets, star>> /\ cursor' = 1
    BY <1>4 DEF StartStarBucket, scan_vars
  <2>2. CASE compute_suppress_bin
    <3>1. \A g \in Groups : staged'.parts[g] = 0
      BY <1>4, <2>2 DEF StartStarBucket, EmptyStarBucket, NewBucket
    <3>2. \A g : SuppressedBefore(cursor, g)' = {}
      <4>1. DOMAIN buckets' = 1 .. Len(buckets')
        BY DEF IInv, TypeOK
      <4> QED BY <2>1, <4>1 DEF SuppressedBefore
    <3>3. \A g : Cardinality(SuppressedBefore(cursor, g))' = 0
      BY <3>2, FS_EmptySet
    <3>4. StarCoversSuppressed'
      BY <2>1 DEF StarInv, StarCoversSuppressed, SuppressedWith
    <3> QED BY <3>1, <3>3, <3>4 DEF StarInv
  <2>3. CASE ~compute_suppress_bin
    BY <1>2, <1>4, <2>1, <2>3 DEF StartStarBucket
  <2> QED BY <2>2, <2>3
<1>5. CASE StarStep
  BY <1>5, StarStepKeeps
<1>6. CASE StarDone
  <2>1. UNCHANGED buckets /\ phase = "star" /\ phase' = "emit" /\ cursor > Len(buckets)
        /\ cursor \in Nat /\ DOMAIN buckets = 1 .. Len(buckets) /\ Len(buckets) \in Nat
    BY <1>6 DEF StarDone, IInv, TypeOK
  <2>2. CASE star' = star
    BY <1>2, <2>1, <2>2
  <2>3. CASE star' = staged
    <3>1. \A i \in DOMAIN buckets : i < cursor
      BY <2>1
    <3>2. \A g : SuppressedWith(g)' = SuppressedBefore(cursor, g)
      BY <2>1, <3>1 DEF SuppressedWith, SuppressedBefore, GoesToStar
    <3>3. \A g \in Groups : staged.parts[g] = Cardinality(SuppressedBefore(cursor, g))
      BY <2>1 DEF StarInv
    <3> QED BY <2>1, <2>3, <3>2, <3>3 DEF StarInv, StarCoversSuppressed
  <2> QED BY <1>6, <2>2, <2>3 DEF StarDone
<1>7. CASE ExecScan \/ RepeatRow \/ ReturnEof \/ SkipBucket \/ EmitBucket \/ RescanEmpty
           \/ RescanBuckets
  <2>1. phase' # "star" /\ UNCHANGED <<buckets, star>>
    BY <1>7 DEF ExecScan, RepeatRow, ReturnEof, SkipBucket, EmitBucket, RescanEmpty,
       RescanBuckets, scan_vars
  <2> QED BY <1>2, <2>1
<1>8. CASE UNCHANGED vars
  BY <1>8 DEF vars, scan_vars, hook_vars, StarInv, StarCoversSuppressed, SuppressedWith, SuppressedBefore, GoesToStar
<1> QED
  BY <1>3, <1>4, <1>5, <1>6, <1>7, <1>8 DEF Next, CallStep

THEOREM StarInvariance == Spec => []StarInv
<1>1. Init => StarInv
  BY DEF Init, StarInv, StarCoversSuppressed
<1> QED BY <1>1, NoRowsTwice, Invariance, LedInvariance, StarInvStep, PTL DEF Spec

-----------------------------------------------------------------------------
(* The results.                                                            *)

(* However the child orders its groups, led_hook leaves every bucket with    *)
(* the AIDs, rows and flags that the reference computes from the set of      *)
(* groups, from the end of the loop to the next change of parameters.        *)
THEOREM LedIsOrderless == Spec => []LedMatchesReference
<1>1. IInv /\ LedInv => LedMatchesReference
  BY DEF LedInv, OneBucketPerGroup, LedMatchesReference
<1> QED BY <1>1, Invariance, LedInvariance, PTL

(* No bucket of the child contains the rows of a group twice, not even while *)
(* the loop of led_hook is merging.  The star bucket is left out.            *)
THEOREM RowsCountOnce == Spec => []NoDoubleCount
<1> QED BY NoRowsTwice, Invariance, LedInvariance, PTL

(* The star bucket has counted a group once for each suppressed bucket that  *)
(* holds it: star_bucket_hook neither misses what LED made low count nor     *)
(* takes in what is emitted or was merged away.                              *)
THEOREM StarCovers == Spec => []StarCoversSuppressed
<1>1. StarInv => StarCoversSuppressed
  BY DEF StarInv
<1> QED BY <1>1, StarInvariance, PTL

-----------------------------------------------------------------------------
(***************************************************************************)
(* BucketScan implements ResultCursor: every step of the executor node is  *)
(* a step of the cursor, or changes nothing that can be seen of it.        *)
(***************************************************************************)
(* Lists, one after the other.                                             *)

\* The first n lists are lists over S.
AreLists(lists, n, S) == \A k \in 0 .. (n - 1) : lists[k] \in Seq(S)

\* j[k] is what the lists before number k make, one after the other.
Joins(j, lists, n, S) ==
  /\ j \in [0 .. n -> Seq(S)]
  /\ j[0] = <<>>
  /\ \A k \in 1 .. n : j[k] = j[k - 1] \o lists[k - 1]

LEMMA CanBeJoined ==
  ASSUME NEW S, NEW n \in Nat, NEW lists, AreLists(lists, n, S)
  PROVE  \E j : Joins(j, lists, n, S)
<1> DEFINE T == {m \in Nat : m <= n => \E j : Joins(j, lists, m, S)}
<1>1. 0 \in T
  <2> DEFINE e == [k \in 0 .. 0 |-> <<>>]
  <2>1. e \in [0 .. 0 -> Seq(S)] /\ e[0] = <<>>
    BY EmptySeq
  <2>2. 1 .. 0 = {}
    OBVIOUS
  <2>3. Joins(e, lists, 0, S)
    BY <2>1, <2>2 DEF Joins
  <2> QED BY <2>3
<1>2. ASSUME NEW m \in Nat, m \in T PROVE m + 1 \in T
  <2> SUFFICES ASSUME m + 1 <= n PROVE \E j : Joins(j, lists, m + 1, S)
    OBVIOUS
  <2>1. PICK f : Joins(f, lists, m, S)
    BY <1>2
  <2> DEFINE last == f[m] \o lists[m]
             g == [k \in 0 .. m + 1 |-> IF k = m + 1 THEN last ELSE f[k]]
  <2>2. /\ f \in [0 .. m -> Seq(S)] /\ f[0] = <<>>
        /\ \A k \in 1 .. m : f[k] = f[k - 1] \o lists[k - 1]
    BY <2>1 DEF Joins
  <2>3. last \in Seq(S) /\ last = f[m] \o lists[m]
    <3>1. f[m] \in Seq(S) /\ lists[m] \in Seq(S)
      BY <2>2 DEF AreLists
    <3> QED BY <3>1, ConcatProperties
  <2> HIDE DEF last
  <2>4. g \in [0 .. m + 1 -> Seq(S)] /\ g[0] = <<>>
    BY <2>2, <2>3
  <2>5. ASSUME NEW k \in 1 .. m + 1 PROVE g[k] = g[k - 1] \o lists[k - 1]
    <3>1. CASE k = m + 1
      <4>1. g[k] = last /\ g[k - 1] = f[m] /\ k - 1 = m
        BY <3>1
      <4> QED BY <2>3, <4>1
    <3>2. CASE k # m + 1
      <4>1. k \in 1 .. m /\ g[k] = f[k] /\ g[k - 1] = f[k - 1]
        BY <3>2
      <4> QED BY <2>2, <4>1
    <3> QED BY <3>1, <3>2
  <2>6. Joins(g, lists, m + 1, S)
    <3> HIDE DEF g
    <3> QED BY <2>4, <2>5 DEF Joins
  <2> QED BY <2>6
<1> HIDE DEF T
<1>3. Nat \subseteq T
  BY <1>1, <1>2, SetInduction
<1>4. n \in T
  BY <1>3
<1> QED BY <1>4 DEF T

(* Joined is what its name says, for lists over any set.                   *)
LEMMA JoinedJoins ==
  ASSUME NEW S, NEW n \in Nat, NEW lists, AreLists(lists, n, S)
  PROVE  Joins(Joined(lists, n), lists, n, S)
<1> DEFINE Step(g) == [k \in 0 .. n |-> IF k = 0 THEN <<>> ELSE g[k - 1] \o lists[k - 1]]
           j == Joined(lists, n)
<1>1. PICK f : Joins(f, lists, n, S)
  BY CanBeJoined
<1>2. f = Step(f)
  <2>1. f = [k \in 0 .. n |-> f[k]]
    BY <1>1 DEF Joins
  <2>2. f[0] = <<>> /\ \A k \in 1 .. n : f[k] = f[k - 1] \o lists[k - 1]
    BY <1>1 DEF Joins
  <2>3. \A k \in 0 .. n : k # 0 => k \in 1 .. n
    OBVIOUS
  <2>4. \A k \in 0 .. n : f[k] = IF k = 0 THEN <<>> ELSE f[k - 1] \o lists[k - 1]
    BY <2>2, <2>3, Zenon
  <2> QED BY <2>1, <2>4, Zenon
<1>3. j = CHOOSE g : g = Step(g)
  BY DEF Joined
<1>4. j = Step(j)
  BY <1>2, <1>3
<1>5. j = [k \in 0 .. n |-> j[k]]
  BY <1>4
<1>6. \A k \in 0 .. n : j[k] = IF k = 0 THEN <<>> ELSE j[k - 1] \o lists[k - 1]
  <2> HIDE DEF j
  <2> QED BY <1>4, Zenon
<1> HIDE DEF j
<1>7. j[0] = <<>> /\ \A k \in 1 .. n : j[k] = j[k - 1] \o lists[k - 1]
  <2>1. 0 \in 0 .. n /\ \A k \in 1 .. n : k \in 0 .. n /\ k # 0
    OBVIOUS
  <2> QED BY <1>6, <2>1, Zenon
<1> DEFINE U == {m \in Nat : m <= n => j[m] \in Seq(S)}
<1>8. 0 \in U
  BY <1>7, EmptySeq
<1>9. ASSUME NEW m \in Nat, m \in U PROVE m + 1 \in U
  <2> SUFFICES ASSUME m + 1 <= n PROVE j[m + 1] \in Seq(S)
    OBVIOUS
  <2>1. j[m] \in Seq(S) /\ lists[m] \in Seq(S)
    BY <1>9 DEF AreLists
  <2>2. j[m] \o lists[m] \in Seq(S)
    BY <2>1, ConcatProperties
  <2>3. m + 1 \in 1 .. n /\ (m + 1) - 1 = m
    OBVIOUS
  <2>4. j[m + 1] = j[m] \o lists[m]
    BY <1>7, <2>3
  <2> QED BY <2>2, <2>4
<1> HIDE DEF U
<1>10. Nat \subseteq U
  BY <1>8, <1>9, SetInduction
<1>11. \A k \in 0 .. n : j[k] \in Seq(S)
  BY <1>10 DEF U
<1>12. j \in [0 .. n -> Seq(S)]
  BY <1>5, <1>11
<1> QED BY <1>7, <1>12 DEF j, Joins

\* What list k adds.
Extends(j, lists, k) ==
  /\ Len(j[k]) \in Nat /\ Len(lists[k]) \in Nat
  /\ Len(j[k + 1]) = Len(j[k]) + Len(lists[k])
  /\ \A p \in 1 .. Len(j[k]) : j[k + 1][p] = j[k][p]
  /\ \A p \in 1 .. Len(lists[k]) : j[k + 1][Len(j[k]) + p] = lists[k][p]

\* s is the beginning of t.
Begins(s, t) ==
  /\ Len(s) \in Nat /\ Len(t) \in Nat
  /\ Len(s) <= Len(t)
  /\ \A p \in 1 .. Len(s) : t[p] = s[p]

\* The rows of list k are found at their place in s.
Finds(s, j, lists, k) == \A p \in 1 .. Len(lists[k]) : s[Len(j[k]) + p] = lists[k][p]

(* One list more.                                                          *)
LEMMA NextJoined ==
  ASSUME NEW S, NEW n \in Nat, NEW lists, AreLists(lists, n, S), NEW j, Joins(j, lists, n, S)
  PROVE  \A k \in 0 .. (n - 1) : Extends(j, lists, k)
<1> TAKE k \in 0 .. (n - 1)
<1>1. k + 1 \in 1 .. n /\ (k + 1) - 1 = k /\ k \in 0 .. n
  OBVIOUS
<1>2. j[k + 1] = j[k] \o lists[k] /\ j[k] \in Seq(S)
  BY <1>1 DEF Joins
<1>3. lists[k] \in Seq(S)
  BY DEF AreLists
<1> DEFINE s == j[k]  t == lists[k]  r == j[k + 1]
<1>4. r = s \o t /\ s \in Seq(S) /\ t \in Seq(S)
  BY <1>2, <1>3
<1> HIDE DEF s, t, r
<1>5. Len(s) \in Nat /\ Len(t) \in Nat
  BY <1>4, LenProperties
<1>6. /\ Len(r) = Len(s) + Len(t)
      /\ \A p \in 1 .. Len(s) + Len(t) : r[p] = IF p <= Len(s) THEN s[p] ELSE t[p - Len(s)]
  BY <1>4, ConcatProperties
<1>7. \A p \in 1 .. Len(s) : r[p] = s[p]
  BY <1>5, <1>6
<1>8. ASSUME NEW p \in 1 .. Len(t) PROVE r[Len(s) + p] = t[p]
  <2>1. /\ Len(s) + p \in 1 .. Len(s) + Len(t)
        /\ ~(Len(s) + p <= Len(s))
        /\ (Len(s) + p) - Len(s) = p
    BY <1>5
  <2> QED BY <1>6, <2>1
<1> QED BY <1>5, <1>6, <1>7, <1>8 DEF s, t, r, Extends

(* Adding lists at the end does not change what is there.                  *)
LEMMA JoinedIsPrefix ==
  ASSUME NEW S, NEW n \in Nat, NEW lists, AreLists(lists, n, S), NEW j, Joins(j, lists, n, S)
  PROVE  \A k \in 0 .. n : Begins(j[k], j[n])
<1> TAKE k \in 0 .. n
<1> DEFINE T == {d \in Nat : k + d <= n => Begins(j[k], j[k + d])}
<1>1. \A m \in 0 .. n : Len(j[m]) \in Nat
  BY LenProperties DEF Joins
<1>2. \A m \in 0 .. (n - 1) : Extends(j, lists, m)
  BY NextJoined
<1>3. 0 \in T
  <2>1. k + 0 = k /\ Len(j[k]) \in Nat
    BY <1>1
  <2> QED BY <2>1 DEF Begins
<1>4. ASSUME NEW d \in Nat, d \in T PROVE d + 1 \in T
  <2> SUFFICES ASSUME k + (d + 1) <= n PROVE Begins(j[k], j[k + (d + 1)])
    OBVIOUS
  <2>1. k + d \in 0 .. (n - 1) /\ k + (d + 1) = (k + d) + 1
    OBVIOUS
  <2>2. Begins(j[k], j[k + d])
    BY <1>4, <2>1
  <2> HIDE DEF T
  <2>3. Extends(j, lists, k + d)
    BY <1>2, <2>1
  <2> DEFINE s == j[k]  t == j[k + d]  r == j[(k + d) + 1]  l == Len(lists[k + d])
  <2>4. /\ Len(s) \in Nat /\ Len(t) \in Nat /\ l \in Nat
        /\ Len(s) <= Len(t) /\ Len(r) = Len(t) + l
        /\ \A p \in 1 .. Len(s) : t[p] = s[p]
        /\ \A p \in 1 .. Len(t) : r[p] = t[p]
    BY <2>2, <2>3 DEF Begins, Extends
  <2> HIDE DEF s, t, r, l
  <2>5. Begins(s, r)
    BY <2>4 DEF Begins
  <2> QED BY <2>1, <2>5 DEF s, r
<1> HIDE DEF T
<1>5. Nat \subseteq T
  BY <1>3, <1>4, SetInduction
<1>6. n - k \in T /\ k + (n - k) = n
  BY <1>5
<1> QED BY <1>6 DEF T

(* Where the rows of list k are.                                           *)
LEMMA JoinedHasList ==
  ASSUME NEW S, NEW n \in Nat, NEW lists, AreLists(lists, n, S), NEW j, Joins(j, lists, n, S)
  PROVE  \A k \in 0 .. (n - 1) : Finds(j[n], j, lists, k)
<1> TAKE k \in 0 .. (n - 1)
<1>1. Extends(j, lists, k)
  BY NextJoined
<1>2. k + 1 \in 0 .. n
  OBVIOUS
<1>3. Begins(j[k + 1], j[n])
  BY <1>2, JoinedIsPrefix
<1> DEFINE s == j[k]  r == j[k + 1]  t == j[n]  list == lists[k]
<1>4. /\ Len(s) \in Nat /\ Len(list) \in Nat
      /\ Len(r) = Len(s) + Len(list)
      /\ \A p \in 1 .. Len(list) : r[Len(s) + p] = list[p]
      /\ \A p \in 1 .. Len(r) : t[p] = r[p]
  BY <1>1, <1>3 DEF Extends, Begins
<1> HIDE DEF s, r, t, list
<1>5. ASSUME NEW p \in 1 .. Len(list) PROVE t[Len(s) + p] = list[p]
  <2>1. Len(s) + p \in 1 .. Len(r)
    BY <1>4
  <2> QED BY <1>4, <2>1
<1> QED BY <1>5 DEF s, t, list, Finds

-----------------------------------------------------------------------------
(* The rows of the slots.                                                  *)

PresentableRow == {row \in Row : Presentable(row)}

\* The rows of the slots below n.
RowsBelow(n) == Joined(Slots, Len(buckets) + 1)[n]

\* What the state of a call before the end of the hooks looks like.
NotYet ==
  /\ out = <<>>
  /\ star = NoBucket
  /\ next = 1
  /\ repeat = 0

LEMMA NothingYet == IInv /\ ~Materialised => NotYet /\ Delivered = <<>>
<1> SUFFICES ASSUME IInv, ~Materialised PROVE NotYet /\ Delivered = <<>>
  OBVIOUS
<1>1. NotYet
  BY DEF IInv, TypeOK, Stages, Materialised, NotYet
<1>2. DOMAIN out = {}
  BY <1>1 DEF NotYet
<1>3. Delivered = <<>>
  BY <1>2 DEF Delivered
<1> QED BY <1>1, <1>3

(* A bucket that is repeated at all stands for a row that may be shown:    *)
(* this is where the flags have to be right.                               *)
LEMMA SlotRows ==
  ASSUME IInv, Materialised, NEW i \in 0 .. Len(buckets)
  PROVE  /\ RowsOfSlot(i) \in Seq(PresentableRow)
         /\ i = 0 /\ star = NoBucket => Len(RowsOfSlot(i)) = 0
         /\ ~(i = 0 /\ star = NoBucket) =>
              /\ BucketAt(i) \in Bucket
              /\ Len(RowsOfSlot(i)) = RowCount(BucketAt(i))
              /\ \A p \in 1 .. RowCount(BucketAt(i)) : RowsOfSlot(i)[p] = RowOf(i)
<1>1. CASE i = 0 /\ star = NoBucket
  <2>1. RowsOfSlot(i) = <<>>
    BY <1>1 DEF RowsOfSlot
  <2> QED BY <1>1, <2>1, EmptySeq
<1>2. CASE ~(i = 0 /\ star = NoBucket)
  <2> DEFINE b == BucketAt(i)  n == RowCount(b)  row == RowOf(i)
  <2>1. b \in Bucket
    BY <1>2, BucketAtType DEF IInv
  <2>2. n \in Nat
    BY <2>1, RowCountType
  <2>3. ASSUME n > 0 PROVE row \in PresentableRow
    <3>1. ~b.low_count /\ Having(b.labels)
      BY <2>3 DEF RowCount
    <3>2. b.low_count = EvalLowCount(b) \/ ~EvalLowCount(b)
      <4>1. CASE i = 0
        BY <1>2, <4>1 DEF IInv, FlagsAgree, BucketAt
      <4>2. CASE i # 0
        <5>1. i \in DOMAIN buckets /\ phase # "led"
          BY <4>2 DEF IInv, TypeOK, Materialised
        <5> QED BY <4>2, <5>1 DEF IInv, FlagsAgree, BucketAt
      <4> QED BY <4>1, <4>2
    <3>3. ~(HasLowCount /\ IsLowCount(b.aids))
      BY <3>1, <3>2 DEF EvalLowCount
    <3>4. row = [labels |-> b.labels, aids |-> b.aids]
      BY DEF RowOf
    <3>5. b.labels \in Groups \cup {Star} /\ b.aids \in [AidInstances -> SUBSET Aids]
      BY <2>1 DEF Bucket
    <3> HIDE DEF row, b
    <3>6. row \in Row /\ row.labels = b.labels /\ row.aids = b.aids
      BY <3>4, <3>5 DEF Row
    <3> QED BY <3>1, <3>3, <3>6 DEF PresentableRow, Presentable
  <2>4. RowsOfSlot(i) = [k \in 1 .. n |-> row]
    BY <1>2 DEF RowsOfSlot
  <2> HIDE DEF n, row
  <2>5. \A k \in 1 .. n : row \in PresentableRow
    BY <2>2, <2>3
  <2>6. [k \in 1 .. n |-> row] \in Seq(PresentableRow)
    BY <2>2, <2>5
  <2>7. Len(RowsOfSlot(i)) = n /\ \A p \in 1 .. n : RowsOfSlot(i)[p] = row
    BY <2>2, <2>4
  <2> QED BY <1>2, <2>1, <2>4, <2>6, <2>7 DEF n, row
<1> QED BY <1>1, <1>2

LEMMA SlotsInPlace ==
  ASSUME IInv, Materialised
  PROVE  /\ AllRows \in Seq(PresentableRow)
         /\ AllRows = RowsBelow(Len(buckets) + 1)
         /\ RowsBelow(0) = <<>>
         /\ \A i \in 0 .. (Len(buckets) + 1) : Len(RowsBelow(i)) \in Nat
                                              /\ Len(RowsBelow(i)) <= Len(AllRows)
         /\ \A i \in 0 .. Len(buckets) :
              /\ Len(RowsBelow(i + 1)) = Len(RowsBelow(i)) + Len(RowsOfSlot(i))
              /\ \A p \in 1 .. Len(RowsOfSlot(i)) :
                   AllRows[Len(RowsBelow(i)) + p] = RowsOfSlot(i)[p]
<1> DEFINE n == Len(buckets) + 1
<1>1. n \in Nat /\ 0 .. (n - 1) = 0 .. Len(buckets) /\ n \in 0 .. n /\ 0 \in 0 .. n
  BY DEF IInv, TypeOK
<1>2. \A i \in 0 .. (n - 1) : Slots[i] = RowsOfSlot(i)
  BY <1>1 DEF Slots
<1>3. \A i \in 0 .. (n - 1) : Slots[i] \in Seq(PresentableRow)
  BY <1>1, <1>2, SlotRows
<1> DEFINE j == Joined(Slots, n)
<1>4. AllRows = RowsBelow(n) /\ \A i : RowsBelow(i) = j[i]
  BY DEF RowsBelow, AllRows
<1> HIDE DEF n
<1>5. AreLists(Slots, n, PresentableRow)
  BY <1>3 DEF AreLists
<1>6. Joins(j, Slots, n, PresentableRow)
  BY <1>1, <1>5, JoinedJoins
<1> HIDE DEF j
<1>7. \A i \in 0 .. n : Len(j[i]) \in Nat /\ Len(j[i]) <= Len(j[n])
  <2>1. \A i \in 0 .. n : Begins(j[i], j[n])
    BY <1>1, <1>5, <1>6, JoinedIsPrefix
  <2> QED BY <2>1 DEF Begins
<1>8. \A i \in 0 .. (n - 1) : Len(j[i + 1]) = Len(j[i]) + Len(Slots[i])
  <2>1. \A i \in 0 .. (n - 1) : Extends(j, Slots, i)
    BY <1>1, <1>5, <1>6, NextJoined
  <2> QED BY <2>1 DEF Extends
<1>9. \A i \in 0 .. (n - 1) : \A p \in 1 .. Len(Slots[i]) : j[n][Len(j[i]) + p] = Slots[i][p]
  <2>1. \A i \in 0 .. (n - 1) : Finds(j[n], j, Slots, i)
    BY <1>1, <1>5, <1>6, JoinedHasList
  <2> QED BY <2>1 DEF Finds
<1>10. j[0] = <<>> /\ j[n] \in Seq(PresentableRow)
  BY <1>1, <1>6 DEF Joins
<1>11. AllRows = j[n]
  BY <1>4
<1>12. RowsBelow(0) = <<>> /\ AllRows \in Seq(PresentableRow)
  BY <1>4, <1>10, <1>11
<1>13. \A i \in 0 .. n : Len(RowsBelow(i)) \in Nat /\ Len(RowsBelow(i)) <= Len(AllRows)
  BY <1>4, <1>7, <1>11
<1>14. \A i \in 0 .. (n - 1) : Len(RowsBelow(i + 1)) = Len(RowsBelow(i)) + Len(RowsOfSlot(i))
  BY <1>2, <1>4, <1>8
<1>15. \A i \in 0 .. (n - 1) : \A p \in 1 .. Len(RowsOfSlot(i)) :
         AllRows[Len(RowsBelow(i)) + p] = RowsOfSlot(i)[p]
  BY <1>2, <1>4, <1>9, <1>11
<1> QED BY <1>1, <1>4, <1>12, <1>13, <1>14, <1>15 DEF n

(* As long as the buckets stay, so do the rows.                            *)
LEMMA SameRows ==
  ASSUME UNCHANGED <<buckets, star>>
  PROVE  /\ AllRows' = AllRows
         /\ \A n : RowsBelow(n)' = RowsBelow(n)
         /\ \A i : RowOf(i)' = RowOf(i)
<1>1. \A i : RowsOfSlot(i)' = RowsOfSlot(i) /\ RowOf(i)' = RowOf(i)
  BY DEF RowsOfSlot, RowOf, BucketAt
<1>2. Slots' = Slots
  BY <1>1 DEF Slots
<1> QED BY <1>1, <1>2 DEF AllRows, RowsBelow

-----------------------------------------------------------------------------
(* The invariant: what was emitted is the beginning of the result, up to   *)
(* the slot to look at next, but for the repetitions that are due.         *)

CursorInv ==
  Materialised =>
    /\ next <= Len(buckets) + 1
    /\ Len(out) + repeat = Len(RowsBelow(next))
    /\ \A k \in DOMAIN out : RowOf(out[k]) = AllRows[k]
    /\ \A k \in (Len(out) + 1) .. (Len(out) + repeat) : AllRows[k] = RowOf(out[Len(out)])

(* It holds before the first row, and again after a rewind.                *)
LEMMA AtFirstRow ==
  IInv /\ Materialised /\ out = <<>> /\ repeat = 0 /\ next = (IF star # NoBucket THEN 0 ELSE 1)
    => CursorInv
<1> SUFFICES ASSUME IInv, Materialised, out = <<>>, repeat = 0,
                    next = IF star # NoBucket THEN 0 ELSE 1
             PROVE  CursorInv
  OBVIOUS
<1>1. Len(buckets) \in Nat /\ Len(out) = 0 /\ DOMAIN out = {}
  BY DEF IInv, TypeOK
<1>2. next \in {0, 1} /\ (next = 1 => star = NoBucket) /\ next <= Len(buckets) + 1
  BY <1>1
<1>3. Len(RowsBelow(0)) = 0
  BY SlotsInPlace
<1>4. star = NoBucket => Len(RowsBelow(1)) = 0
  <2> SUFFICES ASSUME star = NoBucket PROVE Len(RowsBelow(1)) = 0
    OBVIOUS
  <2>1. 0 \in 0 .. Len(buckets) /\ 0 + 1 = 1
    BY <1>1
  <2>2. Len(RowsOfSlot(0)) = 0
    BY <2>1, SlotRows
  <2>3. Len(RowsBelow(0 + 1)) = Len(RowsBelow(0)) + Len(RowsOfSlot(0))
    BY <2>1, SlotsInPlace
  <2> QED BY <1>3, <2>1, <2>2, <2>3
<1>5. Len(out) + repeat = Len(RowsBelow(next))
  BY <1>1, <1>2, <1>3, <1>4
<1>6. (Len(out) + 1) .. (Len(out) + repeat) = {}
  BY <1>1
<1> QED BY <1>1, <1>2, <1>5, <1>6 DEF CursorInv

(* The rows returned are those of the result.                              *)
LEMMA ResultIsPresentable == IInv /\ Materialised => AllRows \in Seq(PresentableRow)
  BY SlotsInPlace

(* The invariant after a step that leaves the buckets alone.               *)
LEMMA InvAfter ==
  ASSUME UNCHANGED <<buckets, star>>,
         next' <= Len(buckets) + 1,
         Len(out') + repeat' = Len(RowsBelow(next')),
         \A k \in DOMAIN out' : RowOf(out'[k]) = AllRows[k],
         \A k \in (Len(out') + 1) .. (Len(out') + repeat') : AllRows[k] = RowOf(out'[Len(out')])
  PROVE  CursorInv'
<1>1. AllRows' = AllRows /\ Slots' = Slots
  BY SameRows DEF Slots, RowsOfSlot, RowOf, BucketAt
<1>2. next' <= Len(buckets') + 1
  OBVIOUS
<1>3. (Len(out) + repeat = Len(RowsBelow(next)))'
  BY <1>1 DEF RowsBelow
<1>4. (\A k \in DOMAIN out : RowOf(out[k]) = AllRows[k])'
  BY <1>1 DEF RowOf, BucketAt
<1>5. (\A k \in (Len(out) + 1) .. (Len(out) + repeat) : AllRows[k] = RowOf(out[Len(out)]))'
  BY <1>1 DEF RowOf, BucketAt
<1> QED BY <1>2, <1>3, <1>4, <1>5 DEF CursorInv

-----------------------------------------------------------------------------
(* Steps.                                                                  *)

\* The step is one of the cursor, or none, and the invariant is kept.
Maps == CursorInv' /\ [Cursor!Next]_<<Result, Delivered, eof>>

(* Before the end of the hooks nothing is seen of a step.                  *)
LEMMA Unseen ==
  ASSUME IInv, IInv', ~Materialised, ~Materialised', UNCHANGED eof
  PROVE  Maps
<1>1. Result' = Result
  BY DEF Result
<1>2. Delivered = <<>> /\ Delivered' = <<>>
  <2>1. IInv /\ ~Materialised => NotYet /\ Delivered = <<>>
    BY NothingYet
  <2>2. (IInv /\ ~Materialised => NotYet /\ Delivered = <<>>)'
    BY NothingYet, PTL
  <2> QED BY <2>1, <2>2
<1>3. CursorInv'
  BY DEF CursorInv
<1> QED BY <1>1, <1>2, <1>3 DEF Maps

(* When the hooks are over, the result is known: Compute.                  *)
LEMMA Computed ==
  ASSUME IInv, IInv', ~Materialised, Materialised', UNCHANGED eof,
         out' = <<>>, repeat' = 0, next' = IF star' # NoBucket THEN 0 ELSE 1
  PROVE  Maps
<1>1. Result = Unknown /\ Delivered = <<>>
  BY NothingYet DEF Result
<1>2. Delivered' = <<>>
  <2>1. DOMAIN out' = {}
    OBVIOUS
  <2> QED BY <2>1 DEF Delivered
<1>3. Result' = AllRows'
  BY DEF Result
<1>4. AllRows' \in Seq(PresentableRow)
  <2>1. (IInv /\ Materialised => AllRows \in Seq(PresentableRow))'
    BY ResultIsPresentable, PTL
  <2>2. PresentableRow' = PresentableRow
    BY DEF PresentableRow
  <2> QED BY <2>1, <2>2
<1> DEFINE r == Result'
<1>5. r \in Seq(Row) /\ \A k \in DOMAIN r : Presentable(r[k])
  <2>1. r \in Seq(PresentableRow)
    BY <1>3, <1>4
  <2> HIDE DEF r
  <2>2. DOMAIN r = 1 .. Len(r) /\ r \in [1 .. Len(r) -> PresentableRow] /\ Len(r) \in Nat
    BY <2>1, LenProperties
  <2>3. \A x \in PresentableRow : x \in Row /\ Presentable(x)
    BY DEF PresentableRow
  <2> QED BY <2>1, <2>2, <2>3
<1>6. Cursor!Compute
  BY <1>1, <1>2, <1>5 DEF Cursor!Compute
<1>7. CursorInv'
  <2>1. (IInv /\ Materialised /\ out = <<>> /\ repeat = 0
           /\ next = (IF star # NoBucket THEN 0 ELSE 1) => CursorInv)'
    BY AtFirstRow, PTL
  <2> QED BY <2>1
<1> QED BY <1>6, <1>7 DEF Maps, Cursor!Next

(* The node is only asked again, or works on what it holds.                *)
LEMMA NothingNew ==
  ASSUME CursorInv, Materialised, Materialised', eof' \in {eof, FALSE},
         UNCHANGED <<buckets, star, next, repeat, out>>
  PROVE  Maps
<1>1. /\ AllRows' = AllRows
      /\ \A n : RowsBelow(n)' = RowsBelow(n)
      /\ \A i : RowOf(i)' = RowOf(i)
  BY SameRows
<1>2. Result' = Result /\ Delivered' = Delivered
  BY <1>1 DEF Result, Delivered
<1>3. CursorInv'
  BY <1>1 DEF CursorInv
<1>4. CASE eof' = eof
  BY <1>2, <1>3, <1>4 DEF Maps
<1>5. CASE eof' = FALSE
  BY <1>2, <1>3, <1>5 DEF Maps, Cursor!Next, Cursor!AskAgain
<1> QED BY <1>4, <1>5

(* What is emitted next is the next row of the result: Deliver.            *)
LEMMA Delivers ==
  ASSUME IInv, Materialised, Materialised', UNCHANGED <<buckets, star, eof>>,
         NEW slot \in Nat, out' = Append(out, slot),
         Len(out) < Len(AllRows), AllRows[Len(out) + 1] = RowOf(slot)
  PROVE  Cursor!Deliver
<1>1. AllRows' = AllRows /\ \A i : RowOf(i)' = RowOf(i)
  BY SameRows
<1>2. Result = AllRows /\ Result' = AllRows
  BY <1>1 DEF Result
<1>3. Result # Unknown
  <2>1. AllRows \in Seq(PresentableRow)
    BY SlotsInPlace
  <2>2. AllRows \in Seq(Row)
    BY <2>1 DEF PresentableRow
  <2> QED BY <1>2, <2>2, UnknownAssumption
<1>4. /\ out \in Seq(Nat) /\ Len(out) \in Nat /\ DOMAIN out = 1 .. Len(out)
      /\ DOMAIN out' = 1 .. Len(out) + 1
      /\ \A k \in 1 .. Len(out) : out'[k] = out[k]
      /\ out'[Len(out) + 1] = slot
  <2>1. out \in Seq(Nat)
    BY DEF IInv, TypeOK
  <2>2. out' \in Seq(Nat) /\ Len(out') = Len(out) + 1
    BY <2>1, AppendProperties
  <2>3. /\ \A k \in 1 .. Len(out) : out'[k] = out[k]
        /\ out'[Len(out) + 1] = slot
    BY <2>1, AppendProperties
  <2> QED BY <2>1, <2>2, <2>3, LenProperties
<1> DEFINE n == Len(out)
           S == {RowOf(out'[k]) : k \in 1 .. n + 1}
           d == Delivered
           e == [k \in 1 .. n + 1 |-> RowOf(out'[k])]
           last == RowOf(slot)
<1>5. d = [k \in 1 .. n |-> RowOf(out[k])]
  BY <1>4 DEF Delivered
<1>6. \A k \in 1 .. n : k \in 1 .. n + 1 /\ RowOf(out[k]) = RowOf(out'[k])
  BY <1>4
<1>7. /\ d \in [1 .. n -> S] /\ e \in [1 .. n + 1 -> S]
      /\ \A k \in 1 .. n : e[k] = d[k]
  BY <1>5, <1>6
<1>8. last \in S /\ e[n + 1] = last
  BY <1>4
<1>9. Delivered' = e
  BY <1>1, <1>4 DEF Delivered
<1>10. n \in Nat
  BY <1>4
<1> HIDE DEF n, S, d, e, last
<1>11. d \in Seq(S) /\ Len(d) = n
  BY <1>7, <1>10
<1>12. e = Append(d, last)
  <2>1. e \in Seq(S) /\ Len(e) = n + 1
    BY <1>7, <1>10
  <2>2. /\ Append(d, last) \in Seq(S) /\ Len(Append(d, last)) = n + 1
        /\ \A k \in 1 .. n : Append(d, last)[k] = d[k]
        /\ Append(d, last)[n + 1] = last
    BY <1>8, <1>11, AppendProperties
  <2>3. \A k \in 1 .. n + 1 : e[k] = Append(d, last)[k]
    <3> TAKE k \in 1 .. n + 1
    <3>1. CASE k = n + 1
      BY <1>8, <2>2, <3>1
    <3>2. CASE k # n + 1
      <4>1. k \in 1 .. n
        BY <1>10, <3>2
      <4> QED BY <1>7, <2>2, <4>1
    <3> QED BY <3>1, <3>2
  <2> QED BY <2>1, <2>2, <2>3, SeqEqual
<1>13. Delivered' = Append(Delivered, Result[Len(Delivered) + 1])
  BY <1>2, <1>9, <1>11, <1>12 DEF d, n, last
<1>14. Len(Delivered) < Len(Result)
  BY <1>2, <1>11 DEF d, n
<1> QED BY <1>2, <1>3, <1>13, <1>14 DEF Cursor!Deliver

(* A bucket that is not repeated at all takes no place in the result.      *)
LEMMA SkipMaps ==
  ASSUME IInv, CursorInv, SkipBucket
  PROVE  Maps
<1>1. /\ Materialised /\ Materialised' /\ UNCHANGED <<buckets, star, repeat, out, eof>>
      /\ repeat = 0 /\ next' = next + 1 /\ next \in 0 .. Len(buckets) /\ Len(buckets) \in Nat
      /\ next = 0 => star # NoBucket
      /\ RowCount(BucketAt(next)) = 0
  BY DEF SkipBucket, scan_vars, hist_vars, Materialised, IInv, TypeOK, Stages
<1>2. /\ AllRows' = AllRows
      /\ \A n : RowsBelow(n)' = RowsBelow(n)
      /\ \A k : RowOf(k)' = RowOf(k)
  BY <1>1, SameRows
<1>3. Result' = Result /\ Delivered' = Delivered
  BY <1>1, <1>2 DEF Result, Delivered
<1>4. Len(RowsBelow(next + 1)) = Len(RowsBelow(next))
  <2>1. Len(RowsOfSlot(next)) = 0
    BY <1>1, SlotRows
  <2>2. Len(RowsBelow(next + 1)) = Len(RowsBelow(next)) + Len(RowsOfSlot(next))
    BY <1>1, SlotsInPlace
  <2>3. Len(RowsBelow(next)) \in Nat
    BY <1>1, SlotsInPlace
  <2> QED BY <2>1, <2>2, <2>3
<1>5. CursorInv'
  <2>1. next' <= Len(buckets) + 1
    BY <1>1
  <2>2. Len(out') + repeat' = Len(RowsBelow(next'))
    BY <1>1, <1>4 DEF CursorInv
  <2>3. /\ \A k \in DOMAIN out' : RowOf(out'[k]) = AllRows[k]
        /\ \A k \in (Len(out') + 1) .. (Len(out') + repeat') : AllRows[k] = RowOf(out'[Len(out')])
    BY <1>1 DEF CursorInv
  <2> QED BY <1>1, <2>1, <2>2, <2>3, InvAfter
<1> QED BY <1>1, <1>3, <1>5 DEF Maps

(* A row that is repeated is the next one of the result.                   *)
LEMMA RepeatMaps ==
  ASSUME IInv, CursorInv, RepeatRow
  PROVE  Maps
<1> DEFINE n == Len(out)  slot == out[Len(out)]
<1>1. /\ Materialised /\ Materialised' /\ UNCHANGED <<buckets, star, next, eof>>
      /\ repeat \in Nat /\ repeat > 0 /\ repeat' = repeat - 1 /\ out' = Append(out, slot)
      /\ out # <<>> /\ out \in Seq(Nat) /\ next \in Nat /\ Len(buckets) \in Nat
  BY DEF RepeatRow, hist_vars, Materialised, IInv, TypeOK, Stages
<1>3. n \in Nat /\ n > 0 /\ slot \in Nat
  BY <1>1
<1>4. /\ Len(out') = n + 1 /\ DOMAIN out' = 1 .. n + 1 /\ DOMAIN out = 1 .. n
      /\ \A k \in 1 .. n : out'[k] = out[k]
      /\ out'[n + 1] = slot
  <2>1. /\ out' \in Seq(Nat) /\ Len(out') = n + 1
        /\ \A k \in 1 .. n : out'[k] = out[k]
        /\ out'[n + 1] = slot
    BY <1>1, <1>3, AppendProperties
  <2> QED BY <1>1, <2>1, LenProperties
<1>5. /\ next <= Len(buckets) + 1
      /\ n + repeat = Len(RowsBelow(next))
      /\ \A k \in 1 .. n : RowOf(out[k]) = AllRows[k]
      /\ \A k \in (n + 1) .. (n + repeat) : AllRows[k] = RowOf(slot)
  BY <1>1, <1>4 DEF CursorInv
<1>6. n + repeat <= Len(AllRows)
  <2>1. next \in 0 .. (Len(buckets) + 1)
    BY <1>1, <1>5
  <2>2. Len(RowsBelow(next)) <= Len(AllRows)
    BY <1>1, <2>1, SlotsInPlace
  <2> QED BY <1>5, <2>2
<1> HIDE DEF n, slot
<1>7. n < Len(AllRows) /\ AllRows[n + 1] = RowOf(slot)
  <2>1. Len(AllRows) \in Nat
    BY <1>1, SlotsInPlace, LenProperties
  <2>2. n + 1 \in (n + 1) .. (n + repeat)
    BY <1>1, <1>3
  <2> QED BY <1>1, <1>3, <1>5, <1>6, <2>1, <2>2
<1>8. Cursor!Deliver
  BY <1>1, <1>3, <1>7, Delivers DEF n
<1>9. CursorInv'
  <2>1. Len(out') + repeat' = Len(RowsBelow(next))
    <3>1. Len(out') = n + 1 /\ repeat' = repeat - 1 /\ repeat \in Nat
      BY <1>1, <1>4
    <3>2. (n + 1) + (repeat - 1) = n + repeat
      BY <1>3, <3>1
    <3> QED BY <1>5, <3>1, <3>2
  <2>2. ASSUME NEW k \in 1 .. n + 1 PROVE RowOf(out'[k]) = AllRows[k]
    <3>1. CASE k = n + 1
      BY <1>4, <1>7, <3>1
    <3>2. CASE k # n + 1
      <4>1. k \in 1 .. n
        BY <1>3, <3>2
      <4> QED BY <1>4, <1>5, <4>1
    <3> QED BY <3>1, <3>2
  <2>3. ASSUME NEW k \in (Len(out') + 1) .. (Len(out') + repeat')
        PROVE  AllRows[k] = RowOf(out'[Len(out')])
    <3>1. k \in (n + 1) .. (n + repeat)
      BY <1>1, <1>3, <1>4
    <3>2. out'[Len(out')] = slot
      BY <1>4
    <3> QED BY <1>5, <3>1, <3>2
  <2>4. Len(out') + repeat' = Len(RowsBelow(next')) /\ next' <= Len(buckets) + 1
    BY <1>1, <1>5, <2>1
  <2>5. \A k \in DOMAIN out' : RowOf(out'[k]) = AllRows[k]
    BY <1>4, <2>2
  <2> QED BY <1>1, <2>3, <2>4, <2>5, InvAfter
<1> QED BY <1>8, <1>9 DEF Maps, Cursor!Next

(* A bucket that is emitted is the first of its rows in the result, and    *)
(* the repetitions that are then due are the others.                       *)
LEMMA EmitMaps ==
  ASSUME IInv, CursorInv, EmitBucket
  PROVE  Maps
<1> DEFINE n == Len(out)  rows == RowCount(BucketAt(next))
<1>1. /\ Materialised /\ Materialised' /\ UNCHANGED <<buckets, star, eof>>
      /\ repeat = 0 /\ rows > 0 /\ repeat' = rows - 1 /\ out' = Append(out, next)
      /\ out \in Seq(Nat) /\ next \in Nat /\ next' = next + 1
      /\ next \in 0 .. Len(buckets) /\ Len(buckets) \in Nat
      /\ next = 0 => star # NoBucket
  BY DEF EmitBucket, Repetitions, hist_vars, Materialised, IInv, TypeOK, Stages
<1>3. n \in Nat
  BY <1>1
<1>4. /\ Len(out') = n + 1 /\ DOMAIN out' = 1 .. n + 1 /\ DOMAIN out = 1 .. n
      /\ \A k \in 1 .. n : out'[k] = out[k]
      /\ out'[n + 1] = next
  <2>1. /\ out' \in Seq(Nat) /\ Len(out') = n + 1
        /\ \A k \in 1 .. n : out'[k] = out[k]
        /\ out'[n + 1] = next
    BY <1>1, <1>3, AppendProperties
  <2> QED BY <1>1, <2>1, LenProperties
<1>5. /\ n = Len(RowsBelow(next))
      /\ \A k \in 1 .. n : RowOf(out[k]) = AllRows[k]
  BY <1>1, <1>3, <1>4 DEF CursorInv
<1>6. /\ rows \in Nat
      /\ Len(RowsOfSlot(next)) = rows
      /\ \A p \in 1 .. rows : RowsOfSlot(next)[p] = RowOf(next)
  BY <1>1, SlotRows, RowCountType
<1>7. Len(RowsBelow(next + 1)) = n + rows
  BY <1>1, <1>5, <1>6, SlotsInPlace
<1>8. \A p \in 1 .. rows : AllRows[n + p] = RowOf(next)
  <2>1. \A p \in 1 .. Len(RowsOfSlot(next)) :
          AllRows[Len(RowsBelow(next)) + p] = RowsOfSlot(next)[p]
    BY <1>1, SlotsInPlace
  <2> HIDE DEF n, rows
  <2> QED BY <1>5, <1>6, <2>1
<1>9. n + rows <= Len(AllRows) /\ Len(AllRows) \in Nat
  <2>1. next + 1 \in 0 .. (Len(buckets) + 1)
    BY <1>1
  <2>2. Len(RowsBelow(next + 1)) <= Len(AllRows)
    BY <1>1, <2>1, SlotsInPlace
  <2>3. Len(AllRows) \in Nat
    BY <1>1, SlotsInPlace, LenProperties
  <2> QED BY <1>7, <2>2, <2>3
<1> HIDE DEF n, rows
<1>10. n < Len(AllRows) /\ AllRows[n + 1] = RowOf(next)
  <2>1. 1 \in 1 .. rows
    BY <1>1, <1>6
  <2> QED BY <1>1, <1>3, <1>6, <1>8, <1>9, <2>1
<1>11. Cursor!Deliver
  BY <1>1, <1>10, Delivers DEF n
<1>12. CursorInv'
  <2>1. Len(out') + repeat' = Len(RowsBelow(next + 1))
    <3>1. Len(out') = n + 1 /\ repeat' = rows - 1
      BY <1>1, <1>4
    <3>2. (n + 1) + (rows - 1) = n + rows
      BY <1>3, <1>6
    <3> QED BY <1>7, <3>1, <3>2
  <2>2. ASSUME NEW k \in 1 .. n + 1 PROVE RowOf(out'[k]) = AllRows[k]
    <3>1. CASE k = n + 1
      BY <1>4, <1>10, <3>1
    <3>2. CASE k # n + 1
      <4>1. k \in 1 .. n
        BY <1>3, <3>2
      <4> QED BY <1>4, <1>5, <4>1
    <3> QED BY <3>1, <3>2
  <2>3. ASSUME NEW k \in (Len(out') + 1) .. (Len(out') + repeat')
        PROVE  AllRows[k] = RowOf(out'[Len(out')])
    <3>1. k - n \in 1 .. rows /\ n + (k - n) = k
      BY <1>1, <1>3, <1>4, <1>6
    <3>2. out'[Len(out')] = next
      BY <1>4
    <3>3. AllRows[n + (k - n)] = RowOf(next)
      BY <1>8, <3>1
    <3> QED BY <3>1, <3>2, <3>3
  <2>4. Len(out') + repeat' = Len(RowsBelow(next')) /\ next' <= Len(buckets) + 1
    BY <1>1, <2>1
  <2>5. \A k \in DOMAIN out' : RowOf(out'[k]) = AllRows[k]
    BY <1>4, <2>2
  <2> QED BY <1>1, <2>3, <2>4, <2>5, InvAfter
<1> QED BY <1>11, <1>12 DEF Maps, Cursor!Next

(* The end is reported when the result has been delivered: Finish.         *)
LEMMA EofMaps ==
  ASSUME IInv, CursorInv, ReturnEof
  PROVE  Maps
<1>1. /\ Materialised /\ Materialised' /\ UNCHANGED <<buckets, star, next, repeat, out>>
      /\ eof' = TRUE /\ repeat = 0 /\ next > Len(buckets) /\ next \in Nat
      /\ Len(buckets) \in Nat /\ out \in Seq(Nat)
  BY DEF ReturnEof, scan_vars, Materialised, IInv, TypeOK, Stages
<1>2. /\ AllRows' = AllRows
      /\ \A n : RowsBelow(n)' = RowsBelow(n)
      /\ \A k : RowOf(k)' = RowOf(k)
  BY <1>1, SameRows
<1>3. Result' = Result /\ Delivered' = Delivered /\ Result = AllRows
  BY <1>1, <1>2 DEF Result, Delivered
<1>4. Result # Unknown
  <2>1. AllRows \in Seq(PresentableRow)
    BY <1>1, SlotsInPlace
  <2>2. AllRows \in Seq(Row)
    BY <2>1 DEF PresentableRow
  <2> QED BY <1>3, <2>2, UnknownAssumption
<1>5. Len(out) = Len(AllRows)
  <2>1. next = Len(buckets) + 1 /\ Len(out) + repeat = Len(RowsBelow(next))
    BY <1>1 DEF CursorInv
  <2>2. AllRows = RowsBelow(Len(buckets) + 1)
    BY <1>1, SlotsInPlace
  <2> QED BY <1>1, <2>1, <2>2
<1>6. Len(Delivered) = Len(out)
  BY <1>1 DEF Delivered
<1>7. Cursor!Finish
  BY <1>1, <1>3, <1>4, <1>5, <1>6 DEF Cursor!Finish
<1>8. CursorInv'
  BY <1>1, <1>2 DEF CursorInv
<1> QED BY <1>7, <1>8 DEF Maps, Cursor!Next

(* A rewind, and the end of a result.                                      *)
LEMMA RescanMaps ==
  ASSUME IInv, IInv', CursorInv, RescanBuckets \/ RescanInput
  PROVE  Maps
<1>1. Delivered' = <<>> /\ eof' = FALSE
  <2>1. DOMAIN out' = {} /\ eof' = FALSE
    BY DEF RescanBuckets, RescanInput
  <2> QED BY <2>1 DEF Delivered
<1>2. CASE RescanBuckets
  <2>1. /\ Materialised /\ Materialised' /\ UNCHANGED <<buckets, star>>
        /\ out' = <<>> /\ repeat' = 0 /\ next' = IF star' # NoBucket THEN 0 ELSE 1
    BY <1>2 DEF RescanBuckets, Materialised
  <2>2. Result' = Result
    BY <2>1, SameRows DEF Result
  <2>3. CursorInv'
    <3>1. (IInv /\ Materialised /\ out = <<>> /\ repeat = 0
             /\ next = (IF star # NoBucket THEN 0 ELSE 1) => CursorInv)'
      BY AtFirstRow, PTL
    <3> QED BY <2>1, <3>1
  <2> QED BY <1>1, <2>2, <2>3 DEF Maps, Cursor!Next, Cursor!Rewind
<1>3. CASE RescanInput
  <2>1. ~Materialised'
    BY <1>3 DEF RescanInput, Materialised
  <2> QED BY <1>1, <2>1 DEF Maps, Cursor!Next, Cursor!Forget, CursorInv, Result
<1> QED BY <1>2, <1>3

LEMMA StepMaps == IInv /\ IInv' /\ CursorInv /\ [Next]_vars => Maps
<1> SUFFICES ASSUME IInv, IInv', CursorInv, [Next]_vars PROVE Maps
  OBVIOUS
<1>1. CASE ExecScan
  <2>1. /\ eof' = FALSE /\ UNCHANGED <<buckets, star, next, repeat, out>>
        /\ Materialised' <=> Materialised
    BY <1>1 DEF ExecScan, scan_vars, Materialised
  <2>2. CASE Materialised
    BY <2>1, <2>2, NothingNew
  <2>3. CASE ~Materialised
    <3>1. Result' = Result /\ CursorInv'
      BY <2>1, <2>3 DEF Result, CursorInv
    <3>2. Delivered = <<>> /\ Delivered' = <<>>
      <4>1. (IInv /\ ~Materialised => NotYet /\ Delivered = <<>>)'
        BY NothingYet, PTL
      <4> QED BY <2>1, <2>3, <4>1, NothingYet
    <3> QED BY <2>1, <3>1, <3>2 DEF Maps, Cursor!Next, Cursor!AskAgain
  <2> QED BY <2>2, <2>3
<1>2. CASE \/ \E tuple \in ChildTuples : FetchBucket(tuple)
           \/ LedStep
           \/ LedDone
           \/ StarStep
  <2>1. ~Materialised /\ ~Materialised' /\ UNCHANGED eof
    BY <1>2 DEF FetchBucket, LedStep, LedDone, StarStep, hist_vars, Materialised
  <2> QED BY <2>1, Unseen
<1>3. CASE EndOfInput
  <2>1. /\ ~Materialised /\ input_done' /\ UNCHANGED <<eof, out, star, next, repeat>>
        /\ phase' \in {"emit", "led", "led_done"}
    BY <1>3, ConstantsAssumption
    DEF EndOfInput, hist_vars, Materialised, IInv, Stages, ConstantsAssumption
  <2>2. NotYet
    BY <2>1, NothingYet
  <2>3. CASE phase' = "emit"
    <3>1. Materialised'
      BY <2>1, <2>3 DEF Materialised
    <3> QED BY <2>1, <2>2, <3>1, Computed DEF NotYet
  <2>4. CASE phase' # "emit"
    <3>1. ~Materialised'
      BY <2>1, <2>4 DEF Materialised
    <3> QED BY <2>1, <3>1, Unseen
  <2> QED BY <2>3, <2>4
<1>4. ASSUME NEW compute_suppress_bin \in BOOLEAN, StartStarBucket(compute_suppress_bin)
      PROVE  Maps
  <2>1. /\ ~Materialised /\ input_done' /\ UNCHANGED <<eof, out, star, next, repeat>>
        /\ phase' \in {"emit", "star"}
    BY <1>4 DEF StartStarBucket, scan_vars, hist_vars, Materialised, IInv, Stages
  <2>2. NotYet
    BY <2>1, NothingYet
  <2>3. CASE phase' = "emit"
    <3>1. Materialised'
      BY <2>1, <2>3 DEF Materialised
    <3> QED BY <2>1, <2>2, <3>1, Computed DEF NotYet
  <2>4. CASE phase' # "emit"
    <3>1. ~Materialised'
      BY <2>1, <2>4 DEF Materialised
    <3> QED BY <2>1, <3>1, Unseen
  <2> QED BY <2>3, <2>4
<1>5. CASE StarDone
  <2>1. /\ ~Materialised /\ Materialised' /\ UNCHANGED <<eof, out, repeat>>
        /\ UNCHANGED <<star, next>> \/ (star' = staged /\ next' = 0)
        /\ staged \in Bucket
    BY <1>5 DEF StarDone, hist_vars, Materialised, IInv, Stages
  <2>2. NotYet
    BY <2>1, NothingYet
  <2>3. next' = IF star' # NoBucket THEN 0 ELSE 1
    BY <2>1, <2>2, NoBucketAssumption DEF NotYet
  <2> QED BY <2>1, <2>2, <2>3, Computed DEF NotYet
<1>6. CASE RescanEmpty
  <2>1. ~Materialised /\ ~Materialised' /\ UNCHANGED eof
    BY <1>6 DEF RescanEmpty, scan_vars, Materialised
  <2> QED BY <2>1, Unseen
<1>7. CASE UNCHANGED vars
  <2>1. UNCHANGED <<buckets, star, next, repeat, out, eof, phase, input_done>>
    BY <1>7 DEF vars, scan_vars, hist_vars
  <2>2. Materialised' <=> Materialised
    BY <2>1 DEF Materialised
  <2>3. CASE Materialised
    BY <2>1, <2>2, <2>3, NothingNew
  <2>4. CASE ~Materialised
    BY <2>1, <2>2, <2>4, Unseen
  <2> QED BY <2>3, <2>4
<1> QED
  BY <1>1, <1>2, <1>3, <1>4, <1>5, <1>6, <1>7, SkipMaps, RepeatMaps, EmitMaps, EofMaps,
     RescanMaps DEF Next, CallStep

LEMMA InitMaps == Init => CursorInv /\ Cursor!Init
<1> SUFFICES ASSUME Init PROVE CursorInv /\ Cursor!Init
  OBVIOUS
<1>1. ~Materialised /\ DOMAIN out = {} /\ eof = FALSE
  BY DEF Init, Materialised
<1> QED BY <1>1 DEF CursorInv, Cursor!Init, Result, Delivered

(* BucketScan implements the cursor: whatever the child returns, whatever  *)
(* the hooks do to the buckets and whenever it is rescanned, it delivers   *)
(* one list of rows that may be shown, in its order, each row as often as  *)
(* it is repeated, and reports the end after the last one.                 *)
THEOREM ImplementsCursor == Spec => IsResultCursor
<1>1. IInv /\ IInv' /\ CursorInv /\ [Next]_vars => CursorInv' /\ [Cursor!Next]_Cursor!vars
  BY StepMaps DEF Maps, Cursor!vars
<1> QED BY <1>1, InitMaps, Invariance, PTL DEF Spec, IsResultCursor, Cursor!Spec
=============================================================================
