---------------------------- MODULE Statements ----------------------------
(***************************************************************************)
(* The way of a statement through a session with anonymized access: the    *)
(* planner hook (src/hooks.c) compiles its queries one by one              *)
(* (compile_query), has PostgreSQL plan them, and puts a BucketScan over   *)
(* the aggregation of every anonymizing one (rewrite_plan).  What ties the *)
(* two halves together are the anonymization contexts, found again through *)
(* the location of the aggregates.                                         *)
(*                                                                         *)
(* A statement is the sequence of its queries, each with the way it is     *)
(* used: alone ("top"), in FROM or as an arm of a UNION ("from"), or as a  *)
(* WITH query ("cte"), and with the conditions the outer query has on it.  *)
(* Statements are submitted as they are, or prepared and executed with     *)
(* parameters: PostgreSQL plans a prepared statement anew for its first    *)
(* executions, then it may keep one plan for all parameters.               *)
(***************************************************************************)
EXTENDS Rewriting

CONSTANTS
  Statements,      (* Statements without parameters.                        *)
  Prepareds,       (* Statements to prepare.                                *)
  Params,          (* Values of the parameters: functions from their names. *)
  Values,          (* Values of columns.                                    *)
  CustomPlans,     (* Executions that are planned with their parameters.    *)
  MaxStatements    (* Bound: statements submitted or executed.              *)

VARIABLES
  level,       (* The access level of the session, not a direct one.        *)
  statement,   (* The statement in work, a sequence of queries.             *)
  params,      (* The parameters it is executed with.                       *)
  bound,       (* The parameters the planner is given, or Unbound.          *)
  copied,      (* Whether the plan goes through the plan cache.             *)
  phase,
  outcome,     (* What became of the last statement.                        *)
  compiled,    (* Its queries compiled so far.                              *)
  links,       (* aggref_links                                              *)
  plan,        (* The fragments of its plan, one for every query.           *)
  prepared,    (* The prepared statement.                                   *)
  customs,     (* num_custom_plans                                          *)
  generic,     (* The plan kept for it.                                     *)
  count,       (* Statements so far.                                        *)
  seeds        (* History: the buckets of all runs with their seeds.        *)

vars == <<level, statement, params, bound, copied, phase, outcome, compiled, links, plan,
          prepared, customs, generic, count, seeds>>

session == <<level, prepared, customs, generic, count>>
request == <<statement, params, bound, copied>>

NoParams == <<>>
NoScan == [query |-> 0]

\* The parts of a statement.
Parts == [
  via: {"top", "from", "cte"}, query: {query \in Queries : IsParsed(query)},
  conditions: Seq([target: Nat, leakproof: BOOLEAN]), parameterized: BOOLEAN]

ASSUME StatementsAssumption ==
  /\ \A s \in Statements \cup Prepareds :
       /\ s \in Seq(Parts) /\ s # <<>>
       /\ \A k \in DOMAIN s :
            /\ s[k].via = "top" => s[k].conditions = <<>>
            /\ \A j \in DOMAIN s[k].conditions : s[k].conditions[j].target \in DOMAIN s[k].query.targets
            /\ ~s[k].parameterized => \A e \in SeedExprs(s[k].query) : ParamsOf(e) = {}
  /\ Unbound \notin Params \cup {NoParams}
  /\ CustomPlans \in Nat /\ MaxStatements \in Nat

-----------------------------------------------------------------------------
(* Compilation                                                             *)

\* make_query_anonymizing and prepare_bucket_seeds, the context.  Contexts
\* are compared by address: the number of the query.
MakeContext(k, query, anon) ==
  [query         |-> k,
   expand        |-> IsSimpleSelect(query),
   grouping_cols |-> GroupingCols(anon),
   sql_seed      |-> SqlSeed(anon, bound),
   base_labels   |-> BaseLabels(anon, bound)]

IsLinked(agg) == agg.fn \in AnonymizingAggs

\* The positions of the linked aggregates: the target and the place in it.
AggAt(query, p) == query.targets[p[1]].aggs[p[2]]

LinkedPositions(query) ==
  {p \in UNION {{k} \X DOMAIN query.targets[k].aggs : k \in DOMAIN query.targets} : IsLinked(AggAt(query, p))}

\* The walk over the target list.
IsWalkedBefore(p, q) == p[1] < q[1] \/ (p[1] = q[1] /\ p[2] < q[2])

Walk(query) ==
  LET positions == LinkedPositions(query)
  IN  InOrder(positions, {pair \in positions \X positions : IsWalkedBefore(pair[1], pair[2])})

\* The links of an aggregate: its context and function.
NewLinks(query, context) ==
  LET walk == Walk(query)
  IN  [i \in DOMAIN walk |-> [context |-> context, fn |-> AggAt(query, walk[i]).fn]]

LinkIndex(query, p) == CHOOSE i \in DOMAIN Walk(query) : Walk(query)[i] = p

\* Mutant: the index in the links of this query alone.
LocationInQuery(index) == index

\* Mutant: links are counted from one too many.
LocationBehind(index) == Len(links) + index + 1

\* link_index_to_location: the index among the links of the statement.
Location(index) == Len(links) + index

\* link_anon_context.  Only aggregates in the target list are linked.
Link(query, p) ==
  IF IsLinked(AggAt(query, p)) THEN [AggAt(query, p) EXCEPT !.location = Location(LinkIndex(query, p))]
                               ELSE AggAt(query, p)

LinkAggs(query) ==
  [query EXCEPT !.targets =
     [k \in DOMAIN query.targets |->
        [query.targets[k] EXCEPT !.aggs = [j \in DOMAIN query.targets[k].aggs |-> Link(query, <<k, j>>)]]]]

\* wrap_having_qual
WrapsHaving(query) == query.having # <<>>

\* Mutant: no limit is put on subqueries.
KeepLimit(part) == part.query.limit

\* compile_query_walker: the dummy limit.
DummyLimit(part) ==
  IF part.via = "from" /\ part.query.limit = NoLimit THEN Int64Max ELSE part.query.limit

IsCompiled == Len(compiled) = Len(statement)
NextPart == statement[Len(compiled) + 1]

\* The column of a filter is cast to a Var without looking.
HasLostColumn(query) == \E k \in DOMAIN query.where : ColumnRef(query.where[k].left) = Computed

\* How the compilation of an anonymizing query ends:
\* verify_anonymization_requirements, make_query_anonymizing,
\* reject_aid_grouping, verify_bucket_expressions, prepare_bucket_seeds.
CompileVerdict(query) ==
  IF ~AcceptsQuery(query, level) THEN "rejected"
  ELSE IF HasLostColumn(query) THEN "crashed"
  ELSE IF ~CanRewrite(query) THEN "failed"
  ELSE LET anon == MakeAnonymizing(query)
       IN  IF GroupsByAid(anon) THEN "rejected"
           ELSE FirstVerdict(<<GroupsVerdict(anon, level, bound), SeedVerdict(anon, bound)>>)

End(result) ==
  /\ phase' = IF result = "crashed" THEN "crashed" ELSE "idle"
  /\ outcome' = result
  /\ UNCHANGED <<request, compiled, links, plan, session, seeds>>

SkipQuery ==
  /\ phase = "compile" /\ ~IsCompiled
  /\ ~IsAnonymizing(NextPart.query)
  /\ compiled' = Append(compiled, [part |-> NextPart, query |-> NextPart.query,
                                   wrapped |-> FALSE, barrier |-> FALSE])
  /\ UNCHANGED <<request, phase, outcome, links, plan, session, seeds>>

RejectQuery ==
  /\ phase = "compile" /\ ~IsCompiled
  /\ IsAnonymizing(NextPart.query) /\ CompileVerdict(NextPart.query) = "rejected"
  /\ End("rejected")

FailQuery ==
  /\ phase = "compile" /\ ~IsCompiled
  /\ IsAnonymizing(NextPart.query) /\ CompileVerdict(NextPart.query) = "failed"
  /\ End("failed")

CrashQuery ==
  /\ phase = "compile" /\ ~IsCompiled
  /\ IsAnonymizing(NextPart.query) /\ CompileVerdict(NextPart.query) = "crashed"
  /\ End("crashed")

\* compile_anonymizing_query
CompileQuery ==
  /\ phase = "compile" /\ ~IsCompiled
  /\ IsAnonymizing(NextPart.query) /\ CompileVerdict(NextPart.query) = "ok"
  /\ LET anon    == MakeAnonymizing(NextPart.query)
         context == MakeContext(Len(compiled) + 1, NextPart.query, anon)
     IN  /\ links' = links \o NewLinks(anon, context)
         /\ compiled' = Append(compiled,
              [part    |-> NextPart,
               query   |-> [LinkAggs(anon) EXCEPT !.limit = DummyLimit(NextPart)],
               wrapped |-> WrapsHaving(anon),
               barrier |-> NextPart.via = "from"])
  /\ UNCHANGED <<request, phase, outcome, plan, session, seeds>>

-----------------------------------------------------------------------------
(* Planning                                                                *)

\* Conditions of HAVING and of the outer query are numbered.  A condition of
\* the outer query is on a target of the query.
HavingCond(j) == <<"having", j>>
OuterCond(j) == <<"outer", j>>

\* The planner pushes conditions into a query without LIMIT and OFFSET, past
\* a security barrier only if they are leakproof.  A WITH query is first made
\* a subquery, unless the volatile function around HAVING prevents it.
IsPushedDown(c, j) ==
  /\ c.query.limit = NoLimit /\ c.query.offset = 0
  /\ c.barrier => c.part.conditions[j].leakproof
  /\ c.part.via = "cte" => ~c.wrapped

HavingQuals(c) ==
  IF c.wrapped
  THEN {[wrapped |-> TRUE, conditions |-> {HavingCond(j) : j \in DOMAIN c.query.having}, aggregates |-> TRUE]}
  ELSE {[wrapped |-> FALSE, conditions |-> {HavingCond(j)}, aggregates |-> c.query.having[j] # <<>>] :
          j \in DOMAIN c.query.having}

PushedQuals(c) ==
  {[wrapped    |-> FALSE,
    conditions |-> {OuterCond(j)},
    aggregates |-> c.query.targets[c.part.conditions[j].target].aggs # <<>>] :
     j \in {j \in DOMAIN c.part.conditions : IsPushedDown(c, j)}}

\* A condition of HAVING moves to WHERE if it has neither aggregates nor
\* volatile functions.
MovesToWhere(qual) == ~qual.wrapped /\ ~qual.aggregates

\* The targets that are evaluated after the sort.
Postponed(query, sorts) == {k \in DOMAIN query.targets : sorts /\ query.targets[k].late /\ query.targets[k].ref = 0}

PlainVars(entries) == UNION {VarsOf(entry.expr) : entry \in {entry \in entries : entry.expr # Computed}}

\* The plan of a query: Limit over Sort over Agg.  A sort is not needed if the
\* groups come in the right order.  The Agg computes the targets that are not
\* postponed, then the aggregates and the columns that the others are made of.
Fragment(c, sorts) ==
  LET quals == HavingQuals(c) \cup PushedQuals(c)
      moved == {qual \in quals : MovesToWhere(qual)}
      late  == Postponed(c.query, sorts)
      kept  == Ascending(DOMAIN c.query.targets \ late)
  IN  [tlist  |-> [k \in DOMAIN kept |-> c.query.targets[kept[k]]],
       vars   |-> PlainVars({c.query.targets[k] : k \in late}),
       groups |-> GroupingExprs(c.query),
       aggs   |-> TargetAggs(c.query),
       having |-> HavingAggs(c.query),
       below  |-> UNION {qual.conditions : qual \in moved},
       quals  |-> quals \ moved,
       sorts  |-> sorts,
       limit  |-> c.query.limit,
       offset |-> c.query.offset,
       scan   |-> NoScan]

\* The call of the planner.
PlanStatement ==
  /\ phase = "compile" /\ IsCompiled
  /\ phase' = "rewrite"
  /\ \E sorted \in SUBSET {k \in DOMAIN compiled : compiled[k].query.sorted} :
       plan' = [k \in DOMAIN compiled |-> Fragment(compiled[k], k \in sorted)]
  /\ UNCHANGED <<request, outcome, compiled, links, session, seeds>>

-----------------------------------------------------------------------------
(* Rewriting of the plan                                                   *)

\* extract_anon_context: the links of the aggregates of the target list.
LinkedAggs(f) == {agg \in f.aggs : IsLinked(agg) /\ agg.location # NoLocation}
Contexts(f) == {links[agg.location].context : agg \in LinkedAggs(f)}

IsMismatched(f) ==
  \/ \E agg \in LinkedAggs(f) : links[agg.location].fn # agg.fn
  \/ Cardinality(Contexts(f)) > 1

\* unwrap_having_qual
CanUnwrap(f) == f.quals = {} \/ \E qual \in f.quals : f.quals = {qual} /\ qual.wrapped

\* gather_aggrefs_walker: locations are not compared.
UniqueAggs(f) == {[agg EXCEPT !.location = NoLocation] : agg \in f.aggs \cup f.having}

HasAgg(f, fn) == \E agg \in UniqueAggs(f) : agg.fn = fn

\* The entries of the target list at the positions of the grouping columns.
LabelPositions(context) == Range(context.grouping_cols)

\* A target that the plan computes below the Agg.
IsVar(f, entry) == entry.expr # Computed /\ (entry.expr \in f.groups \/ entry.expr.node = "Var")

\* The labels that flatten_agg_tlist takes.
Labels(f, context) == [k \in DOMAIN context.grouping_cols |-> f.tlist[context.grouping_cols[k]].expr]

\* The Vars in the entries of a target list: groups are computed below the Agg.
AggVars(f) ==
  f.vars \cup UNION {Outermost(f.groups \cup {e \in Exprs : e.node = "Var"}, entry.expr) :
                        entry \in {entry \in Range(f.tlist) : entry.expr # Computed}}

\* flatten_agg_tlist reads past the end of the target list.
MissesLabel(f, context) == ~(LabelPositions(context) \subseteq DOMAIN f.tlist)

\* The errors of flatten_agg_tlist and rewrite_projection_mutator: what stands at the
\* position of a label is no Var, or a Var is not one of the labels.
FailsToProject(f, context) ==
  \/ MissesLabel(f, context)
  \/ \E p \in LabelPositions(context) : ~IsVar(f, f.tlist[p])
  \/ ~(AggVars(f) \subseteq Range(Labels(f, context)))

\* make_bucket_scan
MakeBucketScan(f, context) ==
  [query      |-> context.query,
   context    |-> context,
   labels     |-> Labels(f, context),
   num_labels |-> Len(context.grouping_cols),
   aggs       |-> UniqueAggs(f),
   quals      |-> UNION {qual.conditions : qual \in f.quals},
   low_count  |-> HasAgg(f, "low_count"),
   count_star |-> HasAgg(f, "anon_count_star")]

HasLimitNode(f) == f.limit # NoLimit \/ f.offset # 0

\* The Limit directly above a BucketScan is looked at.
IsLimitExamined(f) == HasLimitNode(f) /\ ~f.sorts

\* Mutant: any constant limit is skipped.
SkipAnyLimit(f) == IF IsLimitExamined(f) THEN [f EXCEPT !.limit = NoLimit, !.offset = 0] ELSE f

\* rewrite_plan, of a Limit: the whole node is skipped.
SkipDummyLimit(f) ==
  IF IsLimitExamined(f) /\ f.limit = Int64Max THEN [f EXCEPT !.limit = NoLimit, !.offset = 0] ELSE f

\* The fragments that get a scan.
Scanned == {k \in DOMAIN plan : Contexts(plan[k]) # {}}

FailsToRewrite(f) ==
  \/ IsMismatched(f)
  \/ ~CanUnwrap(f)
  \/ \E context \in Contexts(f) : \/ FailsToProject(f, context)
                                  \/ context.expand /\ ~HasAgg(f, "anon_count_star")

\* A label past the end of the target list may be anything: an error or a
\* crash.  rewrite_plan reads the type of a limitCount that is NULL if there is
\* only an OFFSET.
CrashesRewriting(f) ==
  \/ ~IsMismatched(f) /\ CanUnwrap(f) /\ \E context \in Contexts(f) : MissesLabel(f, context)
  \/ ~FailsToRewrite(f) /\ IsLimitExamined(f) /\ f.limit = NoLimit

Rewritten(f) ==
  SkipDummyLimit([f EXCEPT !.scan = MakeBucketScan(f, CHOOSE context \in Contexts(f) : TRUE)])

\* bucket_scan_data_copy: the labels of the filters are not copied.
DataCopy(context) == [context EXCEPT !.base_labels = {}]

\* BuildCachedPlan copies the plan.
CopyPlan(fragments) ==
  [k \in DOMAIN fragments |->
     LET scan == fragments[k].scan
     IN  IF scan = NoScan THEN fragments[k]
         ELSE [fragments[k] EXCEPT !.scan = [scan EXCEPT !.context = DataCopy(scan.context)]]]

FailPlan ==
  /\ phase = "rewrite"
  /\ \E k \in Scanned : FailsToRewrite(plan[k])
  /\ End("failed")

CrashPlan ==
  /\ phase = "rewrite"
  /\ \E k \in Scanned : CrashesRewriting(plan[k])
  /\ End("crashed")

RewritePlan ==
  /\ phase = "rewrite"
  /\ \A k \in Scanned : ~FailsToRewrite(plan[k]) /\ ~CrashesRewriting(plan[k])
  /\ phase' = "run"
  /\ LET fragments == [k \in DOMAIN plan |-> IF k \in Scanned THEN Rewritten(plan[k]) ELSE plan[k]]
     IN  plan' = IF copied THEN CopyPlan(fragments) ELSE fragments
  /\ generic' = IF bound = Unbound THEN plan' ELSE generic
  /\ UNCHANGED <<request, outcome, compiled, links, level, prepared, customs, count, seeds>>

-----------------------------------------------------------------------------
(* Execution                                                               *)

\* What an expression means, casts aside: the function, column and constants.
Sense(fn) == IF fn \in ExtractFunctions THEN "extract" ELSE fn

\* How values of a type are written.
Style(type) == IF type \in StyledTypes THEN type ELSE "plain"

Meaning(query, e) ==
  LET u   == UnwrapCast[e]
      col == ColumnRef(e)
  IN  [of     |-> IF u.node = "FuncExpr" THEN Sense(u.name) ELSE "column",
       column |-> <<query.rtable[col.rte], col.name>>,
       with   |-> [k \in {k \in DOMAIN u.args : IsStable(UnwrapCast[u.args[k]])} |->
                    LET arg == UnwrapCast[u.args[k]] IN <<StableValue(arg, params), Style(arg.type)>>]]

FilterMeaning(query) ==
  {LET constant == UnwrapCast[query.where[k].right]
   IN  <<Meaning(query, query.where[k].left), StableValue(constant, params), Style(constant.type)>> :
     k \in DOMAIN query.where}

GroupMeaning(query, labels, values) ==
  {<<Meaning(query, labels[k]), values[k], Style(labels[k].type)>> : k \in DOMAIN values}

\* Meanings and values, without the way the values are written.
Plain(typed) == {<<m[1], m[2]>> : m \in typed}

IsConsistent(bucket) == \A x, y \in bucket : x[1] = y[1] => x[2] = y[2]

\* The buckets of a query: its groups take every value the filters allow.
BucketsOf(k, scan) ==
  LET query == statement[k].query
      types == [j \in DOMAIN scan.labels |-> scan.labels[j].type]
      Typed(values) == GroupMeaning(query, scan.labels, values) \cup FilterMeaning(query)
  IN  {[bucket |-> Plain(Typed(values)), typed |-> Typed(values), sql |-> scan.context.sql_seed,
        labels |-> BucketLabels(values, types, scan.context), copied |-> copied] :
         values \in {v \in [1..scan.num_labels -> Values] : IsConsistent(Plain(Typed(v)))}}

\* The fragments whose rows are the bins of a BucketScan.
Runs == {k \in DOMAIN plan : plan[k].scan # NoScan}

RunPlan ==
  /\ phase = "run"
  /\ phase' = "idle"
  /\ outcome' = "done"
  /\ seeds' = seeds \cup UNION {BucketsOf(k, plan[k].scan) : k \in Runs}
  /\ UNCHANGED <<request, compiled, links, plan, session>>

-----------------------------------------------------------------------------
(* The session                                                             *)

Begin(s, p) ==
  /\ phase = "idle" /\ count < MaxStatements
  /\ count' = count + 1
  /\ statement' = s
  /\ params' = p
  /\ outcome' = "none"
  /\ compiled' = <<>>
  /\ links' = <<>>

\* The simple query protocol.
Submit(s) ==
  /\ Begin(s, NoParams)
  /\ bound' = NoParams
  /\ copied' = FALSE
  /\ phase' = "compile"
  /\ plan' = <<>>
  /\ UNCHANGED <<level, prepared, customs, generic, seeds>>

Prepare(s) ==
  /\ phase = "idle" /\ prepared = <<>>
  /\ prepared' = s
  /\ UNCHANGED <<request, phase, outcome, compiled, links, plan, level, customs, generic, count, seeds>>

IsParameterized ==
  \E k \in DOMAIN prepared : prepared[k].parameterized

\* choose_custom_plan
MayBeCustom == IsParameterized /\ (customs < CustomPlans \/ generic # <<>>)
MayBeGeneric == ~IsParameterized \/ customs >= CustomPlans

ExecuteCustom(p) ==
  /\ prepared # <<>> /\ MayBeCustom
  /\ Begin(prepared, p)
  /\ bound' = p
  /\ copied' = TRUE
  /\ phase' = "compile"
  /\ plan' = <<>>
  /\ customs' = customs + 1
  /\ UNCHANGED <<level, prepared, generic, seeds>>

\* The planner of a generic plan is given no parameters.
ExecuteGeneric(p) ==
  /\ prepared # <<>> /\ MayBeGeneric
  /\ Begin(prepared, p)
  /\ bound' = Unbound
  /\ copied' = TRUE
  /\ phase' = IF generic = <<>> THEN "compile" ELSE "run"
  /\ plan' = generic
  /\ UNCHANGED <<level, prepared, customs, generic, seeds>>

Init ==
  /\ level \in AccessLevels
  /\ statement = <<>> /\ params = NoParams /\ bound = NoParams /\ copied = FALSE
  /\ phase = "idle" /\ outcome = "none"
  /\ compiled = <<>> /\ links = <<>> /\ plan = <<>>
  /\ prepared = <<>> /\ customs = 0 /\ generic = <<>> /\ count = 0
  /\ seeds = {}

Next ==
  \/ \E s \in Statements : Submit(s)
  \/ \E s \in Prepareds : Prepare(s)
  \/ \E p \in Params : ExecuteCustom(p) \/ ExecuteGeneric(p)
  \/ SkipQuery \/ RejectQuery \/ FailQuery \/ CrashQuery \/ CompileQuery
  \/ PlanStatement
  \/ FailPlan \/ CrashPlan \/ RewritePlan
  \/ RunPlan

Spec == Init /\ [][Next]_vars

-----------------------------------------------------------------------------
(* Properties                                                              *)

Phases == {"idle", "compile", "rewrite", "run", "crashed"}
Outcomes == {"none", "done", "rejected", "failed", "crashed"}

\* The variables stay in their sets; locations of aggregates are links.
TypeOK ==
  /\ level \in AccessLevels /\ phase \in Phases /\ outcome \in Outcomes
  /\ statement \in Statements \cup Prepareds \cup {<<>>}
  /\ prepared \in Prepareds \cup {<<>>}
  /\ params \in Params \cup {NoParams} /\ bound \in {params, Unbound}
  /\ copied \in BOOLEAN
  /\ count \in 0..MaxStatements /\ customs \in 0..count
  /\ Len(compiled) <= Len(statement)
  /\ \A k \in DOMAIN compiled : \A agg \in TargetAggs(compiled[k].query) :
       agg.location \in 0..Len(links)
  /\ plan # <<>> => Len(plan) = Len(statement)

\* An anonymizing query whose target list has no aggregate to link.
AggregatesInHavingOnly(query) ==
  query.group = <<>> /\ HasAggs(query) /\ \A agg \in TargetAggs(query) : agg.fn = "is_suppress_bin"

\* Every anonymizing query of a statement is executed by a BucketScan with the
\* context it was compiled with, and no other query is: contexts are found
\* again by the location of aggregates, which PostgreSQL carries through
\* planning.  Queries with aggregates in HAVING only are left out.
OwnContext ==
  phase = "run" =>
    \A k \in DOMAIN plan :
      LET query == statement[k].query
      IN  ~AggregatesInHavingOnly(query) =>
            plan[k].scan.query = (IF IsAnonymizing(query) THEN k ELSE 0)

\* HAVING, and the conditions of an outer query on an anonymizing subquery, see
\* the bins that are published: none is evaluated on the rows below the
\* aggregation, where it would take rows from other bins.  WITH queries are
\* left out, nothing keeps the planner from moving conditions into them.
ConditionsAbove ==
  phase = "run" =>
    \A k \in Runs :
      statement[k].via # "cte" =>
        /\ plan[k].below = {}
        /\ plan[k].scan.quals = {HavingCond(j) : j \in DOMAIN statement[k].query.having}

\* LIMIT and OFFSET of a query survive the limit that is put on subqueries and
\* taken off their plans.  Left out are OFFSET without LIMIT, and a LIMIT of
\* INT64_MAX, which is taken for the one that was put on.
LimitsKept ==
  phase = "run" =>
    \A k \in Runs :
      LET query == statement[k].query
      IN  (query.limit # NoLimit \/ query.offset = 0) /\ query.limit # Int64Max =>
            /\ plan[k].offset = query.offset
            /\ plan[k].limit = query.limit \/ (plan[k].limit = Int64Max /\ plan[k].sorts)

\* "Filtering and grouping produce identical results" (test/sql/noisy.sql), as
\* far as the code has it: bins whose expressions mean the same and have the
\* same values share the SQL part of their seeds, with constants or with
\* parameters, by groups or by filters.  If the values are also written alike,
\* as those of dates and of timestamps are not, they share the labels too,
\* except in plans of the plan cache, which lose the labels of filters.
FilteringIsGrouping ==
  \A x, y \in seeds :
    x.bucket = y.bucket =>
      /\ x.sql = y.sql
      /\ x.typed = y.typed /\ ~x.copied /\ ~y.copied => x.labels = y.labels

\* A target that may be evaluated after the sort stands before a label.
ShiftsLabels(query) ==
  query.sorted /\ \E k \in Postponed(query, TRUE) : \E ref \in Range(query.group) : k < SortGroupTarget(query, ref)

\* The columns that a target is made of are no groups.
DependsOnGroups(query, entry) ==
  LET groups == GroupingExprs(query)
      IsMissing(columns) == ~(columns \subseteq groups)
  IN  /\ entry.expr # Computed
      /\ \/ IsMissing(Outermost(groups \cup {e \in Exprs : e.node = "Var"}, entry.expr))
         \/ query.sorted /\ entry.late /\ entry.ref = 0 /\ IsMissing(VarsOf(entry.expr))

\* What fails though it was accepted: avg over numeric; count_histogram of a
\* table that is not personal; personal tables without AIDs; a condition on
\* the aggregates of a WITH query; texts too long for a seed; a target that
\* is evaluated after the sort and stands before a label, or is made of columns
\* that are no groups; a column that depends on the groups.
MayFail(part) ==
  LET query   == part.query
      grouped == MakeGrouped(query)
  IN  /\ IsAnonymizing(query)
      /\ \/ GatherAidRefs(query) = <<>>
         \/ \E agg \in TargetAggs(query) \cup HavingAggs(query) :
              \/ agg.fn = "avg_numeric"
              \/ agg.fn = "count_histogram" /\ query.rtable[agg.args[1].rte] \notin Personal
         \/ part.via = "cte" /\ part.conditions # <<>>
         \/ \E e \in GroupingExprs(grouped) \cup FilteringExprs(query) :
              \E x \in StableParts(e) : ~IsUnbound(x, bound) /\ StableValue(x, bound) \in LongTexts
         \/ ShiftsLabels(grouped)
         \/ \E k \in DOMAIN grouped.targets : DependsOnGroups(grouped, grouped.targets[k])

\* What crashes though it was accepted: OFFSET without LIMIT; a generic plan
\* whose seed needs a parameter; bins of the size NULL at the untrusted level;
\* a target that is evaluated after the sort and stands before a label.
MayCrash(part) ==
  LET query   == part.query
      grouped == MakeGrouped(query)
  IN  /\ IsAnonymizing(query)
      /\ \/ part.via # "from" /\ query.offset # 0 /\ query.limit = NoLimit
         \/ bound = Unbound /\ part.parameterized
         \/ /\ level = Untrusted
            /\ \E e \in GroupingExprs(grouped) :
                 /\ IsRestricted(e) /\ RestrictedArg(e).type = "numeric"
                 /\ StableValue(RestrictedArg(e), bound) = Null
         \/ ShiftsLabels(grouped)

\* A statement that validation accepts runs: the assumptions of the rewriting of
\* queries and plans hold for what validation lets through, except for the
\* statements above.
AcceptedRuns ==
  /\ outcome = "failed" => \E k \in DOMAIN statement : MayFail(statement[k])
  /\ outcome = "crashed" => \E k \in DOMAIN statement : MayCrash(statement[k])

\* Anonymizing aggregates are given all AIDs of all personal tables of their query, and
\* count_histogram counts the AID its argument names, in joins of a table with
\* itself too.
CountsTheAids ==
  phase = "run" =>
    \A k \in Runs :
      LET query   == statement[k].query
          scan    == plan[k].scan
          counted == {agg \in TargetAggs(query) \cup HavingAggs(query) : agg.fn = "count_histogram"}
          aids    == UNION {{[rte |-> r, column |-> c] : c \in Range(AidColumns[query.rtable[r]])} :
                              r \in {r \in DOMAIN query.rtable : query.rtable[r] \in Personal}}
      IN  /\ \A agg \in scan.aggs : agg.fn \in AnonymizingAggs => Range(agg.aids) = aids
          /\ {agg.aids[agg.counted + 1] : agg \in {a \in scan.aggs : a.fn = "anon_count_histogram"}}
             = {[rte |-> agg.args[1].rte, column |-> agg.args[1].name] : agg \in counted}

\* What BucketScan relies on: bins with labels have a low count aggregate and
\* the global bin has none; bins that are expanded have a count; the labels,
\* found by their positions in the plan, are the expressions of the groups.
ScanIsUsable ==
  phase = "run" =>
    \A k \in Runs :
      LET scan == plan[k].scan
      IN  /\ scan.low_count <=> scan.num_labels > 0
          /\ scan.context.expand => scan.count_star
          /\ Range(scan.labels) = GroupingExprs(MakeGrouped(statement[k].query))

\* "Allow prepared statements" (test/sql/validation.sql): executing a
\* prepared statement never takes the server down.
NeverCrashes == phase # "crashed"

\* HAVING of an anonymizing query is post processing of its bins
\* (docs/analyst_guide.md): every anonymizing query has a BucketScan.
HavingSeesBins ==
  phase = "run" => \A k \in DOMAIN plan : IsAnonymizing(statement[k].query) => k \in Runs
=============================================================================
