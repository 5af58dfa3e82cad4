------------------------------ MODULE Session ------------------------------
(***************************************************************************)
(* The settings of a session (src/config.c) and its access level           *)
(* (src/auth.c), as the hooks of src/hooks.c read them for each statement. *)
(*                                                                         *)
(* A setting is checked when it is SET, against the current values of the  *)
(* others.  PostgreSQL restores it without a check: by RESET, when a       *)
(* transaction that changed it is rolled back, and when one that SET it    *)
(* LOCAL ends.  The access level is besides lowered by its reader, behind  *)
(* the back of that machinery, when the label of the user allows less.     *)
(* Labels are changed by other sessions, between any two statements.       *)
(*                                                                         *)
(* Left out: values from configuration files, and savepoints.              *)
(***************************************************************************)
EXTENDS Integers

CONSTANTS
  Changeable,  (* The settings that are SET ...                             *)
  Values,      (* ... and to which values.                                  *)
  NoLabel,     (* The user has no security label.                           *)
  MaxSets,     (* Bound on the statements SET, SET LOCAL and RESET.         *)
  MaxChanges   (* Bound on what other sessions do.                          *)

\* AccessLevel, in the reverse order of privilege.
Direct              == 0
AnonymizedTrusted   == 1
AnonymizedUntrusted == 2
Levels == {Direct, AnonymizedTrusted, AnonymizedUntrusted}

\* is_higher_access_level
IsHigher(subject, target) == subject < target

\* MIN_STRICT_*, in any unit for those which are real numbers.
MinStrict ==
  [noise_layer_sd |-> 1, low_count_min_threshold |-> 2, low_count_mean_gap |-> 2, low_count_layer_sd |-> 1,
   outlier_count_min |-> 1, outlier_count_max |-> 2, top_count_min |-> 2, top_count_max |-> 3]

MinStrictIntervalSize == 1

\* The anonymization strength settings.
Strengths == DOMAIN MinStrict

AccessLevels == {"session_access_level", "default_access_level"}

\* config_init: the values at the start of a session, and after RESET.
Boot ==
  [session_access_level |-> Direct, default_access_level |-> Direct, strict |-> TRUE,
   noise_layer_sd |-> 1, low_count_min_threshold |-> 3, low_count_mean_gap |-> 2, low_count_layer_sd |-> 1,
   outlier_count_min |-> 1, outlier_count_max |-> 2, top_count_min |-> 3, top_count_max |-> 4]

ASSUME SessionAssumption ==
  /\ Changeable \subseteq DOMAIN Boot
  /\ DOMAIN Values = Changeable
  /\ \A p \in Changeable :
       Values[p] \subseteq IF p \in AccessLevels THEN Levels ELSE IF p = "strict" THEN BOOLEAN ELSE Nat
  /\ NoLabel \notin Levels
  /\ MaxSets \in Nat /\ MaxChanges \in Nat

VARIABLES
  g_config,        (* The current values.                                   *)
  in_transaction,  (* Within BEGIN ... COMMIT.                              *)
  on_commit,       (* What the end of the transaction will restore, and ... *)
  on_abort,        (* ... what its failure will: by setting, the value.     *)
  superuser,       (* Whether the user may set PGC_SUSET settings.          *)
  label,           (* The security label of the user.                       *)
  active,          (* is_pg_diffix_active: the extension is created.        *)
  observed,        (* What get_session_access_level returned last.          *)
  asked,           (* Since then, the level was set or restored.            *)
  unchecked,       (* Strength settings or strict were restored unchecked.  *)
  sets, changes    (* Bounded counters.                                     *)

guc_vars == <<g_config, in_transaction, on_commit, on_abort>>
vars == <<guc_vars, superuser, label, active, observed, asked, unchecked, sets, changes>>

-----------------------------------------------------------------------------
(* The check hooks.                                                        *)

\* strict_check_hook: not "incorrect".
Conforms(config) ==
  /\ \A p \in Strengths : config[p] >= MinStrict[p]
  /\ config.outlier_count_max - config.outlier_count_min >= MinStrictIntervalSize
  /\ config.top_count_max - config.top_count_min >= MinStrictIntervalSize

\* config_validate
Valid(config) ==
  LET Size(lower, upper) == config[upper] - config[lower]
      MinSize            == IF config.strict THEN MinStrictIntervalSize ELSE 0
  IN  /\ Size("top_count_min", "top_count_max") >= MinSize
      /\ Size("outlier_count_min", "outlier_count_max") >= MinSize

\* Mutant: levels are numbered from 1.
UserLevelFromOne == IF label = NoLabel THEN g_config.default_access_level ELSE label + 1

\* get_user_access_level
UserLevel == IF label = NoLabel THEN g_config.default_access_level ELSE label

\* Mutant: strict mode is turned on when the intervals conform to it.
AcceptsIntervals(p, value) ==
  /\ p \in Strengths /\ g_config.strict => value >= MinStrict[p]
  /\ p = "strict" /\ value => Valid([g_config EXCEPT !.strict = TRUE])
  /\ p = "session_access_level" => active /\ ~IsHigher(value, UserLevel)

\* The check hooks: those of the single settings, strict_check_hook, and
\* session_access_level_check.
Accepts(p, value) ==
  /\ p \in Strengths /\ g_config.strict => value >= MinStrict[p]
  /\ p = "strict" /\ value => Conforms(g_config)
  /\ p = "session_access_level" => active /\ ~IsHigher(value, UserLevel)

\* PGC_USERSET, PGC_SUSET
MaySet(p) == superuser \/ p = "session_access_level"

-----------------------------------------------------------------------------
(* The access level.                                                       *)

\* get_session_access_level: what it returns ...
SessionLevel ==
  IF ~active THEN Direct
  ELSE IF IsHigher(g_config.session_access_level, UserLevel) THEN UserLevel
  ELSE g_config.session_access_level

\* Mutant: the lower level is returned, but not kept.
LimitedForNow == g_config

\* ... and what it leaves behind.
Limited == IF active THEN [g_config EXCEPT !.session_access_level = SessionLevel] ELSE g_config

\* Only the answers of an active extension are recorded.
Observed ==
  /\ observed' = IF active THEN SessionLevel ELSE observed
  /\ asked' = (asked /\ ~active)

-----------------------------------------------------------------------------
(* Settings and transactions.                                              *)

(* What a transaction will restore is a function of some of the settings.  *)

Nothing == [p \in {} |-> FALSE]
Keep(saved, p) == [q \in DOMAIN saved \union {p} |-> IF q \in DOMAIN saved THEN saved[q] ELSE g_config[q]]
Drop(saved, p) == [q \in DOMAIN saved \ {p} |-> saved[q]]
Restored(config, saved) == [q \in DOMAIN config |-> IF q \in DOMAIN saved THEN saved[q] ELSE config[q]]

EndTransaction ==
  /\ in_transaction' = FALSE
  /\ on_commit' = Nothing
  /\ on_abort' = Nothing

Init ==
  /\ g_config = Boot
  /\ in_transaction = FALSE
  /\ on_commit = Nothing /\ on_abort = Nothing
  /\ superuser \in BOOLEAN
  /\ label \in IF superuser THEN {NoLabel} ELSE Levels \union {NoLabel}
  /\ active = TRUE
  /\ observed = Direct
  /\ asked = TRUE
  /\ unchecked = FALSE
  /\ sets = 0 /\ changes = 0

Begin ==
  /\ ~in_transaction
  /\ in_transaction' = TRUE
  /\ UNCHANGED <<g_config, on_commit, on_abort, superuser, label, active, observed, asked, unchecked, sets, changes>>

\* A new value for a setting, by SET or RESET.
Assign(p, value) ==
  /\ sets < MaxSets
  /\ sets' = sets + 1
  /\ g_config' = [g_config EXCEPT ![p] = value]
  /\ on_abort' = IF in_transaction THEN Keep(on_abort, p) ELSE on_abort
  /\ on_commit' = Drop(on_commit, p)
  /\ asked' = (asked \/ p = "session_access_level")
  /\ UNCHANGED <<in_transaction, superuser, label, active, observed, changes>>

\* SET p = value.  A value that is not accepted is an error: in a transaction, see Rollback.
SetValue(p, value) ==
  /\ MaySet(p) /\ Accepts(p, value)
  /\ Assign(p, value)
  /\ UNCHANGED unchecked

\* SET LOCAL p = value
SetLocal(p, value) ==
  /\ in_transaction
  /\ MaySet(p) /\ Accepts(p, value)
  /\ sets < MaxSets
  /\ sets' = sets + 1
  /\ g_config' = [g_config EXCEPT ![p] = value]
  /\ on_abort' = Keep(on_abort, p)
  /\ on_commit' = Keep(on_commit, p)
  /\ asked' = (asked \/ p = "session_access_level")
  /\ UNCHANGED <<in_transaction, superuser, label, active, observed, unchecked, changes>>

\* RESET p: no hook is called.
Reset(p) ==
  /\ MaySet(p)
  /\ Assign(p, Boot[p])
  /\ unchecked' = (unchecked \/ p = "strict")

Commit ==
  /\ in_transaction
  /\ g_config' = Restored(g_config, on_commit)
  /\ asked' = (asked \/ "session_access_level" \in DOMAIN on_commit)
  /\ unchecked' = (unchecked \/ DOMAIN on_commit \intersect (Strengths \union {"strict"}) # {})
  /\ EndTransaction
  /\ UNCHANGED <<superuser, label, active, observed, sets, changes>>

\* ROLLBACK, or an error in the transaction.
Rollback ==
  /\ in_transaction
  /\ g_config' = Restored(g_config, on_abort)
  /\ asked' = (asked \/ "session_access_level" \in DOMAIN on_abort)
  /\ EndTransaction
  /\ UNCHANGED <<superuser, label, active, observed, unchecked, sets, changes>>

-----------------------------------------------------------------------------
(* Statements that ask for the access level.                               *)

\* access_level(), ExecutorCheckPerms, EXPLAIN, and prepare_query when it
\* finds nothing to anonymize or settings that are valid.
Ask ==
  /\ g_config' = Limited
  /\ Observed
  /\ UNCHANGED <<in_transaction, on_commit, on_abort, superuser, label, active, unchecked, sets, changes>>

\* prepare_query of a query to anonymize, with invalid settings: an error,
\* which does not take back what get_session_access_level did.
PlanFails ==
  /\ SessionLevel # Direct
  /\ ~Valid(g_config)
  /\ g_config' = Restored(Limited, on_abort)
  /\ observed' = SessionLevel
  /\ asked' = ("session_access_level" \in DOMAIN on_abort)
  /\ EndTransaction
  /\ UNCHANGED <<superuser, label, active, unchecked, sets, changes>>

-----------------------------------------------------------------------------
(* Other sessions.                                                         *)

\* object_relabel of the user's role: not for superusers.
Relabel ==
  /\ ~superuser
  /\ changes < MaxChanges
  /\ \E l \in (Levels \union {NoLabel}) \ {label} : label' = l
  /\ changes' = changes + 1
  /\ UNCHANGED <<guc_vars, superuser, active, observed, asked, unchecked, sets>>

\* CREATE EXTENSION, DROP EXTENSION
Activate ==
  /\ changes < MaxChanges
  /\ active' = ~active
  /\ changes' = changes + 1
  /\ UNCHANGED <<guc_vars, superuser, label, observed, asked, unchecked, sets>>

Next ==
  \/ Begin \/ Commit \/ Rollback
  \/ \E p \in Changeable : Reset(p) \/ \E value \in Values[p] : SetValue(p, value) \/ SetLocal(p, value)
  \/ Ask \/ PlanFails
  \/ Relabel \/ Activate

Spec == Init /\ [][Next]_vars
-----------------------------------------------------------------------------
(* Properties.                                                             *)

TypeOK ==
  /\ DOMAIN g_config = DOMAIN Boot
  /\ \A p \in AccessLevels : g_config[p] \in Levels
  /\ g_config.strict \in BOOLEAN
  /\ \A p \in Strengths : g_config[p] \in Nat
  /\ in_transaction \in BOOLEAN
  /\ DOMAIN on_commit \subseteq DOMAIN on_abort
  /\ DOMAIN on_abort \subseteq IF in_transaction THEN Changeable ELSE {}
  /\ superuser \in BOOLEAN /\ label \in Levels \union {NoLabel}
  /\ observed \in Levels
  /\ asked \in BOOLEAN /\ unchecked \in BOOLEAN /\ active \in BOOLEAN
  /\ sets \in 0 .. MaxSets /\ changes \in 0 .. MaxChanges

\* With strict mode on, a query that config_validate lets pass is planned with
\* settings that conform to strict mode, although each of them is checked by
\* itself, when it is set: also after a rollback, and after a RESET of anything
\* but strict.
StrictPlansConform ==
  g_config.strict /\ Valid(g_config) /\ ~unchecked => Conforms(g_config)

\* Once the session was told to be at some level, no label and no setting of
\* the default level takes it to a higher one, until the user asks for it (or
\* has a request of theirs undone).
LevelNeverRises == [][asked \/ ~IsHigher(observed', observed)]_vars
=============================================================================
