--------------------------- MODULE SessionProofs ---------------------------
(***************************************************************************)
(* Strict mode and access levels of a session, for any settings and values *)
(* and any number of statements.                                           *)
(*                                                                         *)
(* That the current settings are strong is not inductive: a rollback       *)
(* brings back older ones.  The invariant says it of both the current      *)
(* settings and those the transaction started with.                        *)
(***************************************************************************)
EXTENDS Session, TLAPS

Strong(config) == config.strict => \A p \in Strengths : config[p] >= MinStrict[p]

Typed(config) ==
  /\ config = [p \in DOMAIN Boot |-> config[p]]
  /\ \A p \in AccessLevels : config[p] \in Levels
  /\ config.strict \in BOOLEAN
  /\ \A p \in Strengths : config[p] \in Nat

IInv ==
  /\ Typed(g_config)
  /\ Typed(Restored(g_config, on_commit))
  /\ Typed(Restored(g_config, on_abort))
  /\ DOMAIN on_commit \subseteq DOMAIN on_abort
  /\ DOMAIN on_abort \subseteq IF in_transaction THEN Changeable ELSE {}
  /\ label \in Levels \union {NoLabel}
  /\ observed \in Levels
  /\ ~unchecked => Strong(g_config) /\ Strong(Restored(g_config, on_abort))
  /\ ~asked => g_config.session_access_level >= observed

-----------------------------------------------------------------------------
(* Lemmas.                                                                 *)

\* The names of the settings.
LEMMA Names ==
  /\ Strengths = {"noise_layer_sd", "low_count_min_threshold", "low_count_mean_gap", "low_count_layer_sd",
                  "outlier_count_min", "outlier_count_max", "top_count_min", "top_count_max"}
  /\ DOMAIN Boot = Strengths \union AccessLevels \union {"strict"}
BY DEF Strengths, MinStrict, Boot, AccessLevels

\* The settings at the start conform to strict mode.
LEMMA BootIsStrong == Typed(Boot) /\ Strong(Boot)
BY DEF Typed, Strong, Strengths, MinStrict, Boot, AccessLevels, Levels, Direct, AnonymizedTrusted, AnonymizedUntrusted

\* The values a setting may have.
Fits(p, value) ==
  value \in IF p \in AccessLevels THEN Levels ELSE IF p = "strict" THEN BOOLEAN ELSE Nat

\* Settings with one value changed.
LEMMA TypedAssign ==
  ASSUME NEW config, Typed(config), NEW p \in DOMAIN Boot, NEW value, Fits(p, value)
  PROVE  Typed([config EXCEPT ![p] = value])
BY Names DEF Typed, Fits, AccessLevels

\* Restoring nothing changes nothing.
LEMMA RestoredNothing ==
  ASSUME NEW config, Typed(config), NEW saved, DOMAIN saved = {}
  PROVE  Restored(config, saved) = config
BY DEF Restored, Typed

\* What is to be restored does not depend on a change that was kept.
LEMMA RestoredKeep ==
  ASSUME Typed(g_config), NEW saved, NEW p, NEW value
  PROVE  Restored([g_config EXCEPT ![p] = value], Keep(saved, p)) = Restored(g_config, saved)
BY DEF Restored, Keep, Typed

\* A change that is not kept is there to stay.
LEMMA RestoredDrop ==
  ASSUME Typed(g_config), NEW saved, NEW p, NEW value
  PROVE  Restored([g_config EXCEPT ![p] = value], Drop(saved, p))
           = [Restored(g_config, saved) EXCEPT ![p] = value]
BY DEF Restored, Drop, Typed

\* Each setting has either its restored or its new value.
LEMMA TypedRestored ==
  ASSUME NEW old, NEW new, NEW saved, Typed(old), Typed(new), Typed(Restored(old, saved))
  PROVE  Typed(Restored(new, saved))
<1>1. DOMAIN old = DOMAIN Boot /\ DOMAIN new = DOMAIN Boot
  BY DEF Typed
<1>2. \A p \in DOMAIN Boot : Restored(new, saved)[p] \in {Restored(old, saved)[p], new[p]}
  BY <1>1 DEF Restored
<1>3. Restored(new, saved) = [p \in DOMAIN Boot |-> Restored(new, saved)[p]]
  BY <1>1 DEF Restored
<1>4. QED
  BY <1>2, <1>3, Names DEF Typed, AccessLevels

\* Settings that agree on what strict mode is about are equally strong.
LEMMA StrongRestored ==
  ASSUME NEW old, NEW new, NEW saved, Typed(old), Typed(new),
         \A p \in Strengths \union {"strict"} : new[p] = old[p],
         Strong(Restored(old, saved))
  PROVE  Strong(Restored(new, saved))
<1>1. DOMAIN old = DOMAIN Boot /\ DOMAIN new = DOMAIN Boot
  BY DEF Typed
<1>2. \A p \in Strengths \union {"strict"} : Restored(new, saved)[p] = Restored(old, saved)[p]
  BY <1>1, Names DEF Restored
<1>3. QED
  BY <1>2 DEF Strong

\* A value the check hooks accept.
LEMMA AcceptedIsStrong ==
  ASSUME Typed(g_config), Strong(g_config), NEW p \in DOMAIN Boot, NEW value, Fits(p, value), Accepts(p, value)
  PROVE  Strong([g_config EXCEPT ![p] = value])
BY Names DEF Typed, Strong, Accepts, Conforms, Fits, AccessLevels

\* A value of the start of the session.
LEMMA ResetIsStrong ==
  ASSUME Typed(g_config), Strong(g_config), NEW p \in DOMAIN Boot, p # "strict"
  PROVE  Fits(p, Boot[p]) /\ Strong([g_config EXCEPT ![p] = Boot[p]])
<1>1. \A q \in Strengths : Boot[q] \in Nat /\ Boot[q] >= MinStrict[q]
  BY DEF Strengths, MinStrict, Boot
<1>2. \A q \in AccessLevels : Boot[q] \in Levels
  BY BootIsStrong DEF Typed
<1>3. QED
  BY <1>1, <1>2, Names DEF Typed, Strong, Fits, AccessLevels

\* What get_session_access_level leaves behind.
LEMMA LimitedLowers ==
  ASSUME IInv
  PROVE  /\ SessionLevel \in Levels
         /\ Typed(Limited)
         /\ \A p \in Strengths \union {"strict"} : Limited[p] = g_config[p]
         /\ Limited.session_access_level >= g_config.session_access_level
         /\ active => Limited.session_access_level = SessionLevel
<1>1. Typed(g_config) /\ label \in Levels \union {NoLabel}
  BY DEF IInv
<1>2. g_config.session_access_level \in Levels /\ UserLevel \in Levels
  BY <1>1 DEF Typed, UserLevel, AccessLevels
<1>3. SessionLevel \in Levels
  BY <1>2 DEF SessionLevel, Levels
<1>4. active => SessionLevel >= g_config.session_access_level
  BY <1>2 DEF SessionLevel, Levels, IsHigher, Direct, AnonymizedTrusted, AnonymizedUntrusted
<1>5. Typed(Limited)
  BY <1>1, <1>3, TypedAssign, Names DEF Limited, Fits, AccessLevels
<1>6. \A p \in Strengths \union {"strict"} : Limited[p] = g_config[p]
  BY <1>1, Names DEF Limited, Typed
<1>7. active => Limited.session_access_level = SessionLevel
  BY <1>1, Names DEF Limited, Typed, AccessLevels
<1>8. Limited.session_access_level >= g_config.session_access_level
  BY <1>2, <1>4, <1>7 DEF Limited, Levels, Direct, AnonymizedTrusted, AnonymizedUntrusted
<1>9. QED
  BY <1>3, <1>5, <1>6, <1>7, <1>8

-----------------------------------------------------------------------------
(* The invariant is inductive.                                             *)

LEMMA Initially == Init => IInv
<1> SUFFICES ASSUME Init PROVE IInv
  OBVIOUS
<1>1. DOMAIN on_commit = {} /\ DOMAIN on_abort = {}
  BY DEF Init, Nothing
<1>2. Typed(g_config) /\ Strong(g_config)
  BY BootIsStrong DEF Init
<1>3. Restored(g_config, on_commit) = g_config /\ Restored(g_config, on_abort) = g_config
  BY <1>1, <1>2, RestoredNothing
<1>4. QED
  BY <1>1, <1>2, <1>3, SessionAssumption DEF IInv, Init, Levels

\* SET and RESET: the new value is strong, or strict mode has been bypassed.
LEMMA AssignStep ==
  ASSUME IInv, NEW p \in Changeable, NEW value, Fits(p, value), Assign(p, value),
         ~unchecked' => ~unchecked /\ Strong([g_config EXCEPT ![p] = value])
  PROVE  IInv'
<1>1. p \in DOMAIN Boot /\ Typed(g_config)
  BY SessionAssumption DEF IInv
<1>2. g_config' = [g_config EXCEPT ![p] = value] /\ Typed(g_config')
  BY <1>1, TypedAssign DEF Assign
<1>3. Typed(Restored(g_config', on_commit'))
  <2> DEFINE restored == Restored(g_config, on_commit)
  <2>1. Restored([g_config EXCEPT ![p] = value], Drop(on_commit, p)) = [restored EXCEPT ![p] = value]
    BY <1>1, RestoredDrop
  <2>2. Typed(restored)
    BY DEF IInv
  <2>3. Typed([restored EXCEPT ![p] = value])
    <3> HIDE DEF restored
    <3> QED BY <1>1, <2>2, TypedAssign
  <2>4. QED
    BY <1>2, <2>1, <2>3 DEF Assign
<1>4. CASE in_transaction
  <2>1. Restored(g_config', on_abort') = Restored(g_config, on_abort)
    BY <1>1, <1>2, <1>4, RestoredKeep DEF Assign
  <2>2. DOMAIN on_commit' \subseteq DOMAIN on_abort' /\ DOMAIN on_abort' \subseteq Changeable
    BY <1>4 DEF IInv, Assign, Keep, Drop
  <2>3. ~asked' => ~asked /\ p # "session_access_level"
    BY DEF Assign, IInv
  <2>4. ~asked' => g_config'.session_access_level >= observed'
    BY <1>1, <1>2, <2>3, Names DEF Assign, IInv, Typed, AccessLevels
  <2>5. QED
    BY <1>2, <1>3, <1>4, <2>1, <2>2, <2>3, <2>4 DEF IInv, Assign
<1>5. CASE ~in_transaction
  <2>1. DOMAIN on_abort' = {} /\ DOMAIN on_commit' = {}
    BY <1>5 DEF IInv, Assign, Drop
  <2>2. Restored(g_config', on_abort') = g_config'
    BY <1>2, <2>1, RestoredNothing
  <2>3. ~asked' => ~asked /\ p # "session_access_level"
    BY DEF Assign, IInv
  <2>4. ~asked' => g_config'.session_access_level >= observed'
    BY <1>1, <1>2, <2>3, Names DEF Assign, IInv, Typed, AccessLevels
  <2>5. QED
    BY <1>2, <1>3, <1>5, <2>1, <2>2, <2>3, <2>4 DEF IInv, Assign
<1>6. QED
  BY <1>4, <1>5 DEF IInv

\* SET LOCAL: likewise, and the old value is kept for the end of the transaction.
LEMMA SetLocalStep ==
  ASSUME IInv, NEW p \in Changeable, NEW value, Fits(p, value), SetLocal(p, value)
  PROVE  IInv'
<1>1. p \in DOMAIN Boot /\ Typed(g_config)
  BY SessionAssumption DEF IInv
<1>2. g_config' = [g_config EXCEPT ![p] = value] /\ Typed(g_config')
  BY <1>1, TypedAssign DEF SetLocal
<1>3. /\ Restored(g_config', on_commit') = Restored(g_config, on_commit)
      /\ Restored(g_config', on_abort') = Restored(g_config, on_abort)
  BY <1>1, <1>2, RestoredKeep DEF SetLocal
<1>4. ~unchecked => Strong(g_config')
  BY <1>1, <1>2, AcceptedIsStrong DEF IInv, SetLocal
<1>5. DOMAIN on_commit' \subseteq DOMAIN on_abort' /\ DOMAIN on_abort' \subseteq Changeable
  BY DEF IInv, SetLocal, Keep
<1>6. ~asked' => ~asked /\ p # "session_access_level"
  BY DEF SetLocal, IInv
<1>7. ~asked' => g_config'.session_access_level >= observed'
  BY <1>1, <1>2, <1>6, Names DEF SetLocal, IInv, Typed, AccessLevels
<1>8. QED
  BY <1>2, <1>3, <1>4, <1>5, <1>6, <1>7 DEF IInv, SetLocal

\* The end of a transaction, with nothing left to restore.
LEMMA EndStep ==
  ASSUME EndTransaction, Typed(g_config'), ~unchecked' => Strong(g_config')
  PROVE  /\ Restored(g_config', on_commit') = g_config'
         /\ Restored(g_config', on_abort') = g_config'
         /\ DOMAIN on_commit' = {} /\ DOMAIN on_abort' = {} /\ in_transaction' = FALSE
<1>1. DOMAIN on_commit' = {} /\ DOMAIN on_abort' = {}
  BY DEF EndTransaction, Nothing
<1>2. QED
  BY <1>1, RestoredNothing DEF EndTransaction

LEMMA CommitStep == IInv /\ Commit => IInv'
<1> SUFFICES ASSUME IInv, Commit PROVE IInv'
  OBVIOUS
<1>1. g_config' = Restored(g_config, on_commit) /\ Typed(g_config) /\ Typed(g_config')
  BY DEF IInv, Commit
<1>2. ASSUME ~unchecked' PROVE Strong(g_config')
  <2>1. ~unchecked /\ DOMAIN on_commit \intersect (Strengths \union {"strict"}) = {}
    BY <1>2 DEF Commit
  <2>2. \A p \in Strengths \union {"strict"} : g_config'[p] = g_config[p]
    BY <1>1, <2>1, Names DEF Restored, Typed
  <2>3. QED
    BY <2>1, <2>2 DEF IInv, Strong
<1>3. ASSUME ~asked' PROVE g_config'.session_access_level >= observed'
  <2>1. ~asked /\ "session_access_level" \notin DOMAIN on_commit
    BY <1>3 DEF Commit
  <2>2. g_config'.session_access_level = g_config.session_access_level
    BY <1>1, <2>1, Names DEF Restored, Typed, AccessLevels
  <2>3. QED
    BY <2>1, <2>2 DEF IInv, Commit
<1>4. QED
  BY <1>1, <1>2, <1>3, EndStep DEF IInv, Commit

LEMMA RollbackStep == IInv /\ Rollback => IInv'
<1> SUFFICES ASSUME IInv, Rollback PROVE IInv'
  OBVIOUS
<1>1. g_config' = Restored(g_config, on_abort) /\ Typed(g_config) /\ Typed(g_config')
  BY DEF IInv, Rollback
<1>2. ~unchecked' => Strong(g_config')
  BY <1>1 DEF IInv, Rollback
<1>3. ASSUME ~asked' PROVE g_config'.session_access_level >= observed'
  <2>1. ~asked /\ "session_access_level" \notin DOMAIN on_abort
    BY <1>3 DEF Rollback
  <2>2. g_config'.session_access_level = g_config.session_access_level
    BY <1>1, <2>1, Names DEF Restored, Typed, AccessLevels
  <2>3. QED
    BY <2>1, <2>2 DEF IInv, Rollback
<1>4. QED
  BY <1>1, <1>2, <1>3, EndStep DEF IInv, Rollback

LEMMA AskStep == IInv /\ Ask => IInv'
<1> SUFFICES ASSUME IInv, Ask PROVE IInv'
  OBVIOUS
<1>1. g_config' = Limited /\ Typed(g_config) /\ Typed(g_config')
  BY LimitedLowers DEF IInv, Ask
<1>2. Typed(Restored(g_config', on_commit)) /\ Typed(Restored(g_config', on_abort))
  BY <1>1, TypedRestored DEF IInv
<1>3. ~unchecked => Strong(g_config') /\ Strong(Restored(g_config', on_abort))
  <2>1. \A p \in Strengths \union {"strict"} : g_config'[p] = g_config[p]
    BY <1>1, LimitedLowers
  <2>2. ~unchecked => Strong(g_config')
    BY <2>1 DEF IInv, Strong
  <2>3. ~unchecked => Strong(Restored(g_config', on_abort))
    BY <1>1, <2>1, StrongRestored DEF IInv
  <2>4. QED
    BY <2>2, <2>3
<1>4. observed' \in Levels
  BY LimitedLowers DEF IInv, Ask, Observed
<1>5. ~asked' => g_config'.session_access_level >= observed'
  <2>1. CASE active
    BY <1>1, <2>1, LimitedLowers DEF Ask, Observed, Levels, Direct, AnonymizedTrusted, AnonymizedUntrusted
  <2>2. CASE ~active
    BY <1>1, <2>2 DEF IInv, Ask, Observed, Limited
  <2>3. QED
    BY <2>1, <2>2
<1>6. QED
  BY <1>1, <1>2, <1>3, <1>4, <1>5 DEF IInv, Ask

LEMMA PlanFailsStep == IInv /\ PlanFails => IInv'
<1> SUFFICES ASSUME IInv, PlanFails PROVE IInv'
  OBVIOUS
<1>1. Typed(g_config) /\ Typed(Limited) /\ g_config' = Restored(Limited, on_abort)
  BY LimitedLowers DEF IInv, PlanFails
<1>2. Typed(g_config')
  BY <1>1, TypedRestored DEF IInv
<1>3. ~unchecked' => Strong(g_config')
  BY <1>1, LimitedLowers, StrongRestored DEF IInv, PlanFails
<1>4. ASSUME ~asked' PROVE g_config'.session_access_level >= observed'
  <2>1. "session_access_level" \notin DOMAIN on_abort
    BY <1>4 DEF PlanFails
  <2>2. g_config'.session_access_level = Limited.session_access_level
    BY <1>1, <2>1, Names DEF Restored, Typed, AccessLevels
  <2>3. active /\ observed' = SessionLevel
    BY DEF PlanFails, SessionLevel
  <2>4. QED
    BY <2>2, <2>3, LimitedLowers DEF Levels, Direct, AnonymizedTrusted, AnonymizedUntrusted
<1>5. observed' \in Levels
  BY LimitedLowers DEF PlanFails
<1>6. QED
  BY <1>1, <1>2, <1>3, <1>4, <1>5, EndStep DEF IInv, PlanFails

LEMMA Inductive == IInv /\ [Next]_vars => IInv'
<1> SUFFICES ASSUME IInv, [Next]_vars PROVE IInv'
  OBVIOUS
<1>1. CASE Begin
  <2>1. DOMAIN on_abort = {} /\ Typed(g_config)
    BY <1>1 DEF IInv, Begin
  <2>2. Restored(g_config, on_abort) = g_config
    BY <2>1, RestoredNothing
  <2>3. QED
    BY <1>1, <2>1, <2>2 DEF IInv, Begin
<1>2. CASE Commit
  BY <1>2, CommitStep
<1>3. CASE Rollback
  BY <1>3, RollbackStep
<1>4. ASSUME NEW p \in Changeable, Reset(p) PROVE IInv'
  <2>1. p \in DOMAIN Boot /\ Typed(g_config)
    BY SessionAssumption DEF IInv
  <2>2. Fits(p, Boot[p])
    BY <2>1, BootIsStrong, Names DEF Fits, Typed, AccessLevels
  <2>3. ~unchecked' => ~unchecked /\ Strong([g_config EXCEPT ![p] = Boot[p]])
    BY <1>4, <2>1, ResetIsStrong DEF IInv, Reset
  <2>4. Assign(p, Boot[p])
    BY <1>4 DEF IInv, Reset
  <2>5. QED
    BY <2>2, <2>3, <2>4, AssignStep
<1>5. ASSUME NEW p \in Changeable, NEW value \in Values[p], SetValue(p, value) PROVE IInv'
  <2>1. p \in DOMAIN Boot /\ Typed(g_config) /\ Fits(p, value)
    BY SessionAssumption DEF IInv, Fits
  <2>2. ~unchecked' => ~unchecked /\ Strong([g_config EXCEPT ![p] = value])
    BY <1>5, <2>1, AcceptedIsStrong DEF IInv, SetValue
  <2>3. Assign(p, value)
    BY <1>5 DEF IInv, SetValue
  <2>4. QED
    BY <2>1, <2>2, <2>3, AssignStep
<1>6. ASSUME NEW p \in Changeable, NEW value \in Values[p], SetLocal(p, value) PROVE IInv'
  BY <1>6, SetLocalStep, SessionAssumption DEF Fits
<1>7. CASE Ask
  BY <1>7, AskStep
<1>8. CASE PlanFails
  BY <1>8, PlanFailsStep
<1>9. CASE Relabel
  BY <1>9 DEF IInv, Relabel, guc_vars
<1>10. CASE Activate
  BY <1>10 DEF IInv, Activate, guc_vars
<1>11. CASE UNCHANGED vars
  BY <1>11 DEF IInv, vars, guc_vars
<1>12. QED
  BY <1>1, <1>2, <1>3, <1>4, <1>5, <1>6, <1>7, <1>8, <1>9, <1>10, <1>11 DEF Next

\* What the actions do not compute with.
Flags ==
  /\ in_transaction \in BOOLEAN /\ superuser \in BOOLEAN /\ active \in BOOLEAN
  /\ asked \in BOOLEAN /\ unchecked \in BOOLEAN
  /\ sets \in 0 .. MaxSets /\ changes \in 0 .. MaxChanges

LEMMA FlagsInductive == Flags /\ [Next]_vars => Flags'
<1> SUFFICES ASSUME Flags, [Next]_vars PROVE Flags'
  OBVIOUS
<1>1. MaxSets \in Nat /\ MaxChanges \in Nat
  BY SessionAssumption DEF SessionAssumption
<1>2. \/ in_transaction' = in_transaction \/ in_transaction' = TRUE \/ in_transaction' = FALSE
  BY DEF Next, vars, guc_vars, Begin, Commit, Rollback, Reset, SetValue, SetLocal, Assign, Ask, PlanFails,
         Relabel, Activate, EndTransaction
<1>3. superuser' = superuser /\ (active' = active \/ active' = ~active)
  BY DEF Next, vars, guc_vars, Begin, Commit, Rollback, Reset, SetValue, SetLocal, Assign, Ask, PlanFails,
         Relabel, Activate, EndTransaction
<1>4. asked' \in BOOLEAN /\ unchecked' \in BOOLEAN
  <2>1. CASE Begin \/ Relabel \/ Activate \/ UNCHANGED vars
    BY <2>1 DEF Flags, Begin, Relabel, Activate, vars
  <2>2. CASE Commit \/ Rollback
    BY <2>2, Zenon DEF Flags, Commit, Rollback
  <2>3. ASSUME NEW p \in Changeable, Reset(p) PROVE asked' \in BOOLEAN /\ unchecked' \in BOOLEAN
    BY <2>3, Zenon DEF Flags, Reset, Assign
  <2>4. ASSUME NEW p \in Changeable, NEW value \in Values[p], SetValue(p, value) \/ SetLocal(p, value)
        PROVE  asked' \in BOOLEAN /\ unchecked' \in BOOLEAN
    BY <2>4, Zenon DEF Flags, SetValue, SetLocal, Assign
  <2>5. CASE Ask
    <3>1. asked' = (asked /\ ~active) /\ unchecked' = unchecked
      BY <2>5 DEF Ask, Observed
    <3>2. QED
      BY <3>1, Zenon DEF Flags
  <2>6. CASE PlanFails
    <3> DEFINE undone == "session_access_level" \in DOMAIN on_abort
    <3>1. unchecked' = unchecked /\ asked' = undone
      BY <2>6 DEF PlanFails
    <3>2. undone \in BOOLEAN
      OBVIOUS
    <3> HIDE DEF undone
    <3>3. QED
      BY <3>1, <3>2 DEF Flags
  <2>7. QED
    BY <2>1, <2>2, <2>3, <2>4, <2>5, <2>6 DEF Next
<1>5. sets' = sets \/ (sets < MaxSets /\ sets' = sets + 1)
  BY DEF Next, vars, guc_vars, Begin, Commit, Rollback, Reset, SetValue, SetLocal, Assign, Ask, PlanFails,
         Relabel, Activate, EndTransaction
<1>6. changes' = changes \/ (changes < MaxChanges /\ changes' = changes + 1)
  BY DEF Next, vars, guc_vars, Begin, Commit, Rollback, Reset, SetValue, SetLocal, Assign, Ask, PlanFails,
         Relabel, Activate, EndTransaction
<1>7. sets' \in 0 .. MaxSets /\ changes' \in 0 .. MaxChanges
  BY <1>1, <1>5, <1>6 DEF Flags
<1>8. in_transaction' \in BOOLEAN /\ active' \in BOOLEAN
  BY <1>2, <1>3 DEF Flags
<1>9. QED
  BY <1>3, <1>4, <1>7, <1>8 DEF Flags

-----------------------------------------------------------------------------
(* Theorems.                                                               *)

\* IInv is an invariant of the session.
THEOREM Invariance == Spec => []IInv
BY Initially, Inductive, PTL DEF Spec

\* The settings keep their types, and only settings that a transaction has
\* changed are restored at its end.
THEOREM TypeCorrect == Spec => []TypeOK
<1>1. Init => Flags
  <2> SUFFICES ASSUME Init PROVE Flags
    OBVIOUS
  <2>1. /\ in_transaction \in BOOLEAN /\ superuser \in BOOLEAN /\ active \in BOOLEAN
        /\ asked \in BOOLEAN /\ unchecked \in BOOLEAN
    BY Zenon DEF Init
  <2>2. sets = 0 /\ changes = 0
    BY DEF Init
  <2>3. sets \in 0 .. MaxSets /\ changes \in 0 .. MaxChanges
    BY <2>2, SessionAssumption DEF SessionAssumption
  <2>4. QED
    BY <2>1, <2>3 DEF Flags
<1>2. Spec => []Flags
  BY <1>1, FlagsInductive, PTL DEF Spec
<1>3. IInv /\ Flags => TypeOK
  BY DEF IInv, Flags, TypeOK, Typed
<1>4. QED
  BY <1>2, <1>3, Invariance, PTL

\* Whatever is set, committed, rolled back or reset: a query planned in strict
\* mode has settings that conform to it, unless strict itself was reset or a
\* commit restored values that SET LOCAL had replaced.
THEOREM StrictModeHolds == Spec => []StrictPlansConform
<1>1. IInv => StrictPlansConform
  <2> SUFFICES ASSUME IInv, g_config.strict, Valid(g_config), ~unchecked PROVE Conforms(g_config)
    BY DEF StrictPlansConform
  <2>1. \A p \in Strengths : g_config[p] >= MinStrict[p]
    BY DEF IInv, Strong
  <2>2. QED
    BY <2>1 DEF Valid, Conforms
<1>2. QED
  BY <1>1, Invariance, PTL

\* The access level that get_session_access_level returns does not rise by
\* itself, whatever other sessions do to the label of the user.
THEOREM LevelIsKept == Spec => LevelNeverRises
<1>1. IInv /\ [Next]_vars => [asked \/ ~IsHigher(observed', observed)]_vars
  <2> SUFFICES ASSUME IInv, [Next]_vars, ~asked PROVE ~IsHigher(observed', observed)
    OBVIOUS
  <2>1. g_config.session_access_level >= observed /\ observed \in Levels
    BY DEF IInv
  <2>2. g_config.session_access_level \in Levels
    BY DEF IInv, Typed, AccessLevels
  <2>3. CASE observed' = observed
    BY <2>1, <2>3 DEF IsHigher, Levels, Direct, AnonymizedTrusted, AnonymizedUntrusted
  <2>4. CASE active /\ observed' = SessionLevel
    BY <2>1, <2>2, <2>4, LimitedLowers DEF IsHigher, Levels, Direct, AnonymizedTrusted, AnonymizedUntrusted
  <2>5. observed' = observed \/ (active /\ observed' = SessionLevel)
    <3>1. CASE Ask
      BY <3>1 DEF Ask, Observed
    <3>2. CASE PlanFails
      BY <3>2 DEF PlanFails, SessionLevel
    <3>3. CASE ~Ask /\ ~PlanFails
      BY <3>3 DEF Next, vars, guc_vars, Begin, Commit, Rollback, Reset, SetValue, SetLocal, Assign, Relabel, Activate
    <3>4. QED
      BY <3>1, <3>2, <3>3
  <2>6. QED
    BY <2>3, <2>4, <2>5
<1>2. QED
  BY <1>1, Invariance, PTL DEF Spec, LevelNeverRises
=============================================================================
