----------------------------- MODULE Validation -----------------------------
(***************************************************************************)
(* Which queries may be anonymized (src/query/validation.c): expressions   *)
(* of filters and groups, aggregates, relations.  Of the lists of allowed  *)
(* casts and functions (allowed_objects.c) one representative of every     *)
(* kind stands for all of its kind.                                        *)
(*                                                                         *)
(* An expression is a record: its node type, a name (the column, constant, *)
(* parameter, function or operator), its type, arguments, and the index of *)
(* the range table entry of a Var.  Exprs holds all expressions of the     *)
(* statements and their arguments.  Checks end with a verdict: "ok", or    *)
(* how they stop the statement.                                            *)
(***************************************************************************)
EXTENDS Integers, Sequences, FiniteSets, SequencesExt, FiniteSetsExt

CONSTANTS
  Exprs,         (* All expressions.                                        *)
  Relations,     (* Tables.                                                 *)
  Personal,      (* The tables with the personal label.                     *)
  AidColumns,    (* The sequence of AID columns of every table.             *)
  NotFilterable, (* The columns of every table that are not_filterable.     *)
  MoneyRounded,     (* The values 1, 2, 5, 10, 20 ... and their fractions.  *)
  PositiveIntegers, (* The integers from 1 on.                              *)
  Unbound        (* The NULL list of parameters of a generic plan.          *)

NodeTypes == {"Var", "Const", "Param", "FuncExpr", "OpExpr", "RelabelType", "CoerceViaIO"}

\* NULL, which seeds are given as this text.
Null == "NULL"

NumericTypes == {"int4", "int8", "float8", "numeric"}

(* Expressions are finite trees.                                           *)
Height[e \in Exprs] ==
  IF e.args = <<>> THEN 0 ELSE 1 + Max({Height[e.args[k]] : k \in DOMAIN e.args})

OneArgument == {"i4tod", "dtoi4", "dround"}
TwoArguments == {"text_substr", "round_by", "timestamp_trunc", "timestamp_part", "extract_timestamp"}

ASSUME ValidationAssumption ==
  /\ Exprs \subseteq [node: NodeTypes, name: STRING, type: STRING, args: Seq(Exprs), rte: Nat]
  /\ \A e \in Exprs : /\ Height[e] \in Nat
                      /\ \A k \in DOMAIN e.args : Height[e.args[k]] < Height[e]
                      /\ e.node \in {"Var", "Const", "Param"} => e.args = <<>>
                      /\ e.node = "FuncExpr" /\ e.name \in OneArgument => Len(e.args) = 1
                      /\ e.node = "FuncExpr" /\ e.name \in TwoArguments => Len(e.args) = 2
                      /\ e.node \in {"RelabelType", "CoerceViaIO"} => Len(e.args) = 1
  /\ Personal \subseteq Relations
  /\ \A r \in Relations : AidColumns[r] \in Seq(STRING) /\ NotFilterable[r] \subseteq STRING
  /\ Null \notin MoneyRounded \cup PositiveIntegers

-----------------------------------------------------------------------------
(* allowed_objects.c and node_funcs.c                                      *)

AllowedCasts == {"i4tod"}
DecimalIntegerCasts == {"dtoi4"}
ExtractFunctions == {"timestamp_part", "extract_timestamp"}

\* g_allowed_builtins, g_allowed_builtins_extra and g_implicit_range_udfs: the
\* position of the primary argument.
AllowedFunctions == [
  dtoi4             |-> 1,
  text_substr       |-> 1,
  dround            |-> 1,
  round_by          |-> 1,
  timestamp_trunc   |-> 2,
  timestamp_part    |-> 2,
  extract_timestamp |-> 2]

\* primary_arg_index
PrimaryArg(f) == f.args[AllowedFunctions[f.name]]

\* is_allowed_cast: rounding is a cast only around the functions that extract
\* parts of a date.
IsAllowedCast(e) ==
  /\ e.node = "FuncExpr"
  /\ \/ e.name \in AllowedCasts
     \/ /\ e.name \in DecimalIntegerCasts
        /\ e.args[1].node = "FuncExpr" /\ e.args[1].name \in ExtractFunctions

IsAllowedFunction(f) == f.name \in DOMAIN AllowedFunctions

\* A CoerceViaIO that is_datetime_to_string_cast accepts.
IsDatetimeToString(e) == e.node = "CoerceViaIO" /\ e.name = "datetime"

\* Mutant: RelabelType nodes are not unwrapped.
UnwrapsNoRelabel(e) == IsAllowedCast(e) \/ IsDatetimeToString(e)

\* The nodes that unwrap_cast takes off.
IsUnwrapped(e) == IsAllowedCast(e) \/ e.node = "RelabelType" \/ IsDatetimeToString(e)

\* unwrap_cast
UnwrapCast[e \in Exprs] == IF IsUnwrapped(e) THEN UnwrapCast[e.args[1]] ELSE e

\* is_stable_expression
IsStable(e) == e.node \in {"Const", "Param"}

\* get_stable_expression_value, with the values of parameters.
StableValue(e, bound) == IF e.node = "Const" THEN e.name ELSE bound[e.name]

\* get_param_data reads the list of parameters of a generic plan.
IsUnbound(e, bound) == e.node = "Param" /\ bound = Unbound

\* expression_tree_walker, with a walker that stops at the nodes of S.
Outermost(S, e) ==
  LET found[x \in Exprs] == IF x \in S THEN {x} ELSE UNION {found[x.args[k]] : k \in DOMAIN x.args}
  IN  found[e]

StableParts(e) == Outermost({x \in Exprs : IsStable(x)}, e)

VarsOf(e) == Outermost({x \in Exprs : x.node = "Var"}, e)

\* The parameters in an expression.
ParamsOf(e) == {x \in StableParts(e) : x.node = "Param"}

FirstVerdict(verdicts) ==
  LET stopping == {k \in DOMAIN verdicts : verdicts[k] # "ok"}
  IN  IF stopping = {} THEN "ok" ELSE verdicts[Min(stopping)]

-----------------------------------------------------------------------------
(* Bucket expressions.                                                     *)

\* Mutant: the other arguments are not looked at.
AcceptsAnyArgs(f) == IsAllowedFunction(f) /\ UnwrapCast[PrimaryArg(f)].node = "Var"

\* The checks of a function that is no cast.
AcceptsFunction(f) ==
  /\ IsAllowedFunction(f)
  /\ UnwrapCast[PrimaryArg(f)].node = "Var"
  /\ \A i \in DOMAIN f.args : i # AllowedFunctions[f.name] => IsStable(UnwrapCast[f.args[i]])

\* verify_bucket_expression
AcceptsBucketExpression[e \in Exprs] ==
  \/ IsAllowedCast(e) /\ AcceptsBucketExpression[e.args[1]]
  \/ e.node = "FuncExpr" /\ ~IsAllowedCast(e) /\ AcceptsFunction(e)
  \/ e.node = "RelabelType" /\ AcceptsBucketExpression[e.args[1]]
  \/ IsDatetimeToString(e) /\ AcceptsBucketExpression[e.args[1]]
  \/ e.node = "Var" /\ e.name # "ctid"

(* The untrusted access level.  Only the outermost node is looked at.      *)

Untrusted == "anonymized_untrusted"
AccessLevels == {"anonymized_trusted", Untrusted}

SubstringBuiltins == {"text_substr"}
ImplicitRangeUdfs == {"round_by"}
ImplicitRangeBuiltins == {"dround"}

\* The functions whose second argument the untrusted level restricts.
IsRestricted(e) == e.node = "FuncExpr" /\ e.name \in SubstringBuiltins \cup ImplicitRangeUdfs

RestrictedArg(e) == UnwrapCast[e.args[2]]

\* verify_bin_size, of a constant.  A NULL is read as 0, which is rounded, or
\* through the NULL pointer of a numeric.
BinSizeVerdict(type, value) ==
  IF type \notin NumericTypes THEN "rejected"
  ELSE IF value = Null THEN (IF type = "numeric" THEN "crashed" ELSE "ok")
  ELSE IF value \in MoneyRounded THEN "ok" ELSE "rejected"

\* verify_substring and verify_bin_size, with their assertion.
ArgVerdict(name, arg, bound) ==
  IF ~IsStable(arg) \/ IsUnbound(arg, bound) THEN "crashed"
  ELSE IF name \notin SubstringBuiltins THEN BinSizeVerdict(arg.type, StableValue(arg, bound))
  ELSE IF StableValue(arg, bound) = "1" THEN "ok" ELSE "rejected"

\* verify_untrusted_bucket_expression
UntrustedVerdict(e, bound) ==
  CASE IsRestricted(e)                                             -> ArgVerdict(e.name, RestrictedArg(e), bound)
    [] e.node # "FuncExpr" \/ e.name \in ImplicitRangeBuiltins -> "ok"
    [] OTHER                                                       -> "rejected"

\* Target entries that are made of aggregates.
Computed == [node |-> "Computed", name |-> "", type |-> "", args |-> <<>>, rte |-> 0]

\* get_bucket_expression_column_ref; Computed where castNode would not hold.
ColumnRef(e) ==
  LET u == UnwrapCast[e]
  IN  IF u.node = "Var" THEN u
      ELSE IF u.node = "FuncExpr" /\ IsAllowedFunction(u) /\ UnwrapCast[PrimaryArg(u)].node = "Var"
           THEN UnwrapCast[PrimaryArg(u)]
           ELSE Computed

-----------------------------------------------------------------------------
(* Queries.  A query is a record:                                          *)
(*   rtable       the relations of its range table, in order               *)
(*   on           the conditions of the joins that are items of FROM; those*)
(*                of joins inside of joins are not looked at               *)
(*   crossJoin    whether FROM lists a plain table next to other items     *)
(*   unsupported  whether it has a clause of the list of                   *)
(*                verify_anonymization_requirements, a subquery or a       *)
(*                SubLink, or an aggregate has FILTER or ORDER BY          *)
(*   where        conditions [op, left, right]                             *)
(*   targets      target entries [expr, aggs, ref, late]; expr is a member *)
(*                of Exprs, or Computed if it is made of the aggregates    *)
(*                aggs; ref is the ressortgroupref; late is whether the    *)
(*                planner would rather evaluate it after a sort, as it is  *)
(*                volatile or expensive                                    *)
(*   group        the ressortgrouprefs of the group clause                 *)
(*   having       the aggregates of every condition of HAVING              *)
(*   limit, offset                                                         *)
(* An aggregate is a record: the function, its arguments, distinct, the    *)
(* AIDs appended to the arguments, the index of the AID count_histogram    *)
(* counts, the location.                                                   *)

\* A condition that is the constant false.
NeverTrue == [op |-> "false", left |-> Computed, right |-> Computed]

\* is_aid_column
IsAid(query, e) == e.node = "Var" /\ Contains(AidColumns[query.rtable[e.rte]], e.name)

\* is_not_filterable_column
IsNotFilterable(query, e) == e.node = "Var" /\ e.name \in NotFilterable[query.rtable[e.rte]]

\* collect_equalities_from_filters
OnlyEqualities(conditions) == \A k \in DOMAIN conditions : conditions[k].op = "="

\* The loop of verify_where, with verify_column_usage_in_filter.
AcceptsFilter(query, c, level) ==
  /\ AcceptsBucketExpression[c.left]
  /\ ~IsAid(query, ColumnRef(c.left))
  /\ level = Untrusted => ~IsNotFilterable(query, ColumnRef(c.left))
  /\ IsStable(UnwrapCast[c.right])

\* verify_where
AcceptsWhere(query, level) ==
  /\ OnlyEqualities(query.where)
  /\ \A k \in DOMAIN query.where : AcceptsFilter(query, query.where[k], level)

\* unwrap_const_int64, with the restriction of the untrusted level.
AcceptsBinSize(e, level) ==
  LET size == UnwrapCast[e]
  IN  /\ size.node = "Const" /\ size.type \in {"int4", "int8"} /\ size.name \in PositiveIntegers
      /\ level = Untrusted => size.name \in MoneyRounded

\* verify_count_histogram
AcceptsHistogram(query, agg, level) ==
  /\ agg.args[1].node = "Var" /\ IsAid(query, agg.args[1])
  /\ Len(agg.args) = 2 => AcceptsBinSize(agg.args[2], level)

ColumnAggregates == {"count_value", "sum", "avg", "avg_numeric",
                     "count_value_noise", "sum_noise", "avg_noise"}
Aggregates == ColumnAggregates \cup {"count_star", "count_star_noise", "count_histogram", "is_suppress_bin"}

\* verify_aggregator
AcceptsAggregate(query, agg, level) ==
  /\ agg.fn \in Aggregates
  /\ agg.fn \in ColumnAggregates =>
       LET arg == UnwrapCast[agg.args[1]] IN arg.node = "Var" /\ arg.name # "ctid"
  /\ agg.distinct => agg.fn \in {"count_value", "count_value_noise"}
  /\ agg.fn = "count_histogram" => AcceptsHistogram(query, agg, level)

TargetAggs(query) == UNION {Range(query.targets[k].aggs) : k \in DOMAIN query.targets}
HavingAggs(query) == UNION {Range(query.having[k]) : k \in DOMAIN query.having}

\* verify_select_targets
AcceptsFrom(query) ==
  /\ ~query.crossJoin
  /\ OnlyEqualities(query.on)
  /\ \A k \in DOMAIN query.on :
       \A e \in {query.on[k].left, query.on[k].right} : UnwrapCast[e].node = "Var"

\* verify_anonymization_requirements
AcceptsQuery(query, level) ==
  /\ ~query.unsupported
  /\ AcceptsWhere(query, level)
  /\ \A agg \in TargetAggs(query) \cup HavingAggs(query) : AcceptsAggregate(query, agg, level)
  /\ AcceptsFrom(query)

\* get_sortgroupref_tle: the first target with the reference.
SortGroupTarget(query, ref) == Min({k \in DOMAIN query.targets : query.targets[k].ref = ref})

\* get_sortgrouplist_exprs
GroupingExpr(query, ref) == query.targets[SortGroupTarget(query, ref)].expr
GroupingExprs(query) == {GroupingExpr(query, ref) : ref \in Range(query.group)}

\* The loop of verify_bucket_expressions.  Expressions made of aggregates
\* cannot be grouped by.
BucketVerdict(e, level, bound) ==
  IF ~AcceptsBucketExpression[e] THEN "rejected"
  ELSE IF level = Untrusted THEN UntrustedVerdict(e, bound) ELSE "ok"

\* verify_bucket_expressions
GroupsVerdict(query, level, bound) ==
  FirstVerdict([k \in DOMAIN query.group |-> BucketVerdict(GroupingExpr(query, query.group[k]), level, bound)])

\* reject_aid_grouping
GroupsByAid(query) == \E e \in GroupingExprs(query) : IsAid(query, e)
=============================================================================
