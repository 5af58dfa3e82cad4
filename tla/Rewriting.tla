----------------------------- MODULE Rewriting -----------------------------
(***************************************************************************)
(* The rewriting of one anonymizing query (src/query/anonymization.c):     *)
(* implicit buckets, anonymizing aggregates with the AIDs of the query,    *)
(* the low count aggregate, the material of the bucket seeds.              *)
(*                                                                         *)
(* Parameters are bound by name; Unbound is the NULL list of parameters    *)
(* that PostgreSQL plans a generic plan with.  The type of the argument of *)
(* an aggregate is abstracted, except that avg over numeric is a function  *)
(* of its own, avg_numeric.  Seeds are the sets of hashed strings they are *)
(* made of, with every string split at its separators.                     *)
(***************************************************************************)
EXTENDS Validation, Ordering

CONSTANT LongTexts    (* Values that take more than the seed material holds. *)

NoLimit == -1
Int64Max == 1000    (* Stands for INT64_MAX. *)
NoLocation == 0

-----------------------------------------------------------------------------
(* Parse trees                                                             *)

AnonymizingAggs == {
  "anon_count_star", "anon_count_value", "anon_count_distinct", "anon_sum", "anon_count_histogram",
  "anon_count_star_noise", "anon_count_value_noise", "anon_count_distinct_noise", "anon_sum_noise",
  "low_count"}

AidRefs == [rte: Nat, column: STRING]

Aggrefs == [
  fn: STRING \cup Aggregates \cup AnonymizingAggs, args: Seq(Exprs), distinct: BOOLEAN, aids: Seq(AidRefs),
  counted: Int, location: Nat]

TargetEntries == [expr: Exprs \cup {Computed}, aggs: Seq(Aggrefs), ref: Nat, late: BOOLEAN]

Conditions == [op: STRING, left: Exprs \cup {Computed}, right: Exprs \cup {Computed}]

Queries == [
  rtable: Seq(Relations), on: Seq(Conditions), crossJoin: BOOLEAN, unsupported: BOOLEAN,
  where: Seq(Conditions), targets: Seq(TargetEntries), group: Seq(Nat), having: Seq(Seq(Aggrefs)),
  sorted: BOOLEAN, limit: Nat \cup {NoLimit}, offset: Nat]

IsParsedAgg(query, agg) ==
  /\ agg.aids = <<>> /\ agg.counted = -1 /\ agg.location = NoLocation
  /\ agg.fn \in ColumnAggregates \cup {"count_histogram"} => agg.args # <<>>
  /\ \A k \in DOMAIN agg.args : agg.args[k].node = "Var" => agg.args[k].rte \in DOMAIN query.rtable

\* The parse trees that reach the planner hook.  Lists of GROUP BY with two
\* references to equal expressions are left out.
IsParsed(query) ==
  /\ query \in Queries
  /\ \A agg \in TargetAggs(query) \cup HavingAggs(query) : IsParsedAgg(query, agg)
  /\ \A k \in DOMAIN query.targets : query.targets[k].expr = Computed <=> query.targets[k].aggs # <<>>
  /\ \A i, j \in DOMAIN query.group :
       i # j => /\ query.group[i] # query.group[j]
                /\ GroupingExpr(query, query.group[i]) # GroupingExpr(query, query.group[j])
  /\ \A i \in DOMAIN query.group :
       LET grouped == {k \in DOMAIN query.targets : query.targets[k].ref = query.group[i]}
       IN  query.group[i] # 0 /\ grouped # {} /\ \A k \in grouped : query.targets[k].aggs = <<>>
  /\ \A k \in DOMAIN query.where :
       query.where[k].op = "=" => {query.where[k].left, query.where[k].right} \subseteq Exprs

\* The expressions whose parameters prepare_bucket_seeds may read.
SeedExprs(query) ==
  ({query.targets[k].expr : k \in DOMAIN query.targets} \cup
   UNION {{query.where[k].left, query.where[k].right} : k \in DOMAIN query.where}) \ {Computed}

-----------------------------------------------------------------------------
(* AIDs                                                                    *)

\* gather_relation_aids, of relations that find_relation finds
RelationAids(query, rte) ==
  LET relation == query.rtable[rte]
      columns  == IF relation \in Personal THEN AidColumns[relation] ELSE <<>>
  IN  [k \in DOMAIN columns |-> [rte |-> rte, column |-> columns[k]]]

\* gather_aid_refs
GatherAidRefs(query) ==
  FlattenSeq([rte \in DOMAIN query.rtable |-> RelationAids(query, rte)])

\* is_anonymizing_query: no rows are processed under a condition that is
\* always false.
IsAnonymizing(query) == ~Contains(query.where, NeverTrue) /\ \E k \in DOMAIN query.rtable : query.rtable[k] \in Personal

-----------------------------------------------------------------------------
(* Grouping                                                                *)

\* is_not_const, of expressions without aggregates
HasVar(e) == VarsOf(e) # {}

HasAggs(query) == TargetAggs(query) \cup HavingAggs(query) # {}

AllTargetsConstant(query) == \A k \in DOMAIN query.targets : ~HasVar(query.targets[k].expr)

\* group_implicit_buckets: the reference becomes the ordinal position.
GroupImplicitBuckets(query) ==
  LET grouped == {k \in DOMAIN query.targets : HasVar(query.targets[k].expr)}
  IN  [query EXCEPT
        !.targets = [k \in DOMAIN query.targets |->
                       IF k \in grouped THEN [query.targets[k] EXCEPT !.ref = k] ELSE query.targets[k]],
        !.group = query.group \o Ascending(grouped)]

NewAgg(fn, aids) ==
  [fn |-> fn, args |-> <<>>, distinct |-> FALSE, aids |-> aids, counted |-> -1, location |-> NoLocation]

\* add_junk_tle
AddJunk(query, agg) ==
  [query EXCEPT !.targets = Append(@, [expr |-> Computed, aggs |-> <<agg>>, ref |-> 0, late |-> FALSE])]

\* add_junk_count_star
AddJunkCountStar(query) == AddJunk(query, NewAgg("count_star", <<>>))

\* add_junk_low_count_agg
AddJunkLowCount(query, refs) == AddJunk(query, NewAgg("low_count", refs))

-----------------------------------------------------------------------------
(* Aggregates                                                              *)

\* Mutant: a column is found by its name alone.
CountedByColumn(refs, arg) == {k \in DOMAIN refs : refs[k].column = arg.name}

\* The search of rewrite_count_histogram.
CountedAid(refs, arg) == {k \in DOMAIN refs : refs[k].rte = arg.rte /\ refs[k].column = arg.name}

\* rewrite_to_anon_aggregator
ToAnon(agg, refs, fn) == [agg EXCEPT !.fn = fn, !.distinct = FALSE, !.aids = refs]

\* rewrite_to_avg_aggregator, rewrite_to_avg_noise_aggregator with
\* make_safe_anon_count_value
ToSumAndCount(agg, refs, sum) ==
  << ToAnon(agg, refs, sum), ToAnon(agg, refs, "anon_count_value") >>

BinSizeOne == [node |-> "Const", name |-> "1", type |-> "int8", args |-> <<>>, rte |-> 0]

ASSUME RewritingAssumption == BinSizeOne \in Exprs

\* rewrite_count_histogram: the index of the counted AID replaces its column.
\* The loop keeps the last match.
ToCountHistogram(agg, refs) ==
  << [ToAnon(agg, refs, "anon_count_histogram") EXCEPT
        !.args = IF Len(@) = 1 THEN <<BinSizeOne>> ELSE Tail(@),
        !.counted = Max(CountedAid(refs, agg.args[1])) - 1] >>

\* aggregate_expression_mutator.  is_suppress_bin is left as it is.
RewriteAggregate(agg, refs) ==
  CASE agg.fn = "count_star"        -> << ToAnon(agg, refs, "anon_count_star") >>
    [] agg.fn = "count_value"       -> << ToAnon(agg, refs, IF agg.distinct THEN "anon_count_distinct"
                                                                            ELSE "anon_count_value") >>
    [] agg.fn = "sum"               -> << ToAnon(agg, refs, "anon_sum") >>
    [] agg.fn = "avg"               -> ToSumAndCount(agg, refs, "anon_sum")
    [] agg.fn = "count_histogram"   -> ToCountHistogram(agg, refs)
    [] agg.fn = "count_star_noise"  -> << ToAnon(agg, refs, "anon_count_star_noise") >>
    [] agg.fn = "count_value_noise" -> << ToAnon(agg, refs, IF agg.distinct THEN "anon_count_distinct_noise"
                                                                            ELSE "anon_count_value_noise") >>
    [] agg.fn = "sum_noise"         -> << ToAnon(agg, refs, "anon_sum_noise") >>
    [] agg.fn = "avg_noise"         -> ToSumAndCount(agg, refs, "anon_sum_noise")
    [] OTHER                        -> << agg >>

RewriteAggs(aggs, refs) == FlattenSeq([k \in DOMAIN aggs |-> RewriteAggregate(aggs[k], refs)])

\* The errors of the rewriting: no personal table has AIDs,
\* rewrite_to_avg_aggregator knows no numeric argument, and
\* rewrite_count_histogram does not find the AID.
CanRewrite(query) ==
  /\ GatherAidRefs(query) # <<>>
  /\ \A agg \in TargetAggs(query) \cup HavingAggs(query) :
       /\ agg.fn # "avg_numeric"
       /\ agg.fn = "count_histogram" => CountedAid(GatherAidRefs(query), agg.args[1]) # {}

RewriteAggregates(query, refs) ==
  [query EXCEPT
     !.targets = [k \in DOMAIN query.targets |-> [query.targets[k] EXCEPT !.aggs = RewriteAggs(@, refs)]],
     !.having  = [k \in DOMAIN query.having |-> RewriteAggs(query.having[k], refs)]]

\* Only simple selects are grouped by all of their columns.
IsSimpleSelect(query) == ~HasAggs(query) /\ query.group = <<>>

\* Mutant: simple selects are not filtered.
FiltersExplicitGroups(query) == query.group # <<>>

\* Global aggregates have no low count filter.
HasLowCountFilter(query) ==
  query.group # <<>> \/ (~HasAggs(query) /\ ~AllTargetsConstant(query))

\* make_query_anonymizing, the implicit grouping
MakeGrouped(query) ==
  IF IsSimpleSelect(query) THEN AddJunkCountStar(GroupImplicitBuckets(query)) ELSE query

\* make_query_anonymizing, the query
MakeAnonymizing(query) ==
  LET refs == GatherAidRefs(query)
      anon == RewriteAggregates(MakeGrouped(query), refs)
  IN  IF HasLowCountFilter(query) THEN AddJunkLowCount(anon, refs) ELSE anon

\* extract_grouping_cols
GroupingCols(query) == [k \in DOMAIN query.group |-> SortGroupTarget(query, query.group[k])]

-----------------------------------------------------------------------------
(* Seeds                                                                   *)

\* The SQL name of a function of the catalog, and normalize_function_name.
SqlName(fn) ==
  CASE fn = "dtoi4" -> "int4"
    [] fn = "text_substr" -> "substring"
    [] fn = "dround" -> "round"
    [] fn = "timestamp_trunc" -> "date_trunc"
    [] fn = "timestamp_part" -> "date_part"
    [] fn = "extract_timestamp" -> "extract"
    [] OTHER -> fn

NormalizeFunctionName(name) == IF name = "date_part" THEN "extract" ELSE name

\* Types whose text differs between equal values of two types: dates are
\* encoded with the time or without, char(n) is padded.
StyledTypes == {"date", "timestamp", "char(n)"}

\* datum_seed_material: a value of such a type is written with its type.  Equal
\* numbers of all types are written alike.
DatumSeedMaterial(type, value) ==
  IF value # Null /\ type \in StyledTypes THEN <<value, type>> ELSE <<value>>

\* Mutant: casts add to the material.
OwnMaterialWithCasts(query, bound, e) ==
  CASE e.node = "FuncExpr" -> << <<NormalizeFunctionName(SqlName(e.name))>> >>
    [] e.node = "Var"      -> << <<query.rtable[e.rte], e.name>> >>
    [] IsStable(e)         -> << DatumSeedMaterial(e.type, StableValue(e, bound)) >>
    [] OTHER               -> <<>>

\* What collect_seed_material appends for a node.
OwnMaterial(query, bound, e) ==
  CASE e.node = "FuncExpr" /\ ~IsAllowedCast(e) -> << <<NormalizeFunctionName(SqlName(e.name))>> >>
    [] e.node = "Var"                           -> << <<query.rtable[e.rte], e.name>> >>
    [] IsStable(e)                              -> << DatumSeedMaterial(e.type, StableValue(e, bound)) >>
    [] OTHER                                    -> <<>>

\* collect_seed_material
SeedMaterial(query, bound, e) ==
  LET material[x \in Exprs] ==
        OwnMaterial(query, bound, x) \o FlattenSeq([k \in DOMAIN x.args |-> material[x.args[k]]])
  IN  material[e]

FilteringExprs(query) == {query.where[k].left : k \in DOMAIN query.where}
FilteringConsts(query) == {UnwrapCast[query.where[k].right] : k \in DOMAIN query.where}

\* Mutant: equal material of a group and of a filter cancels out.
CancellingSeed(query, bound) ==
  LET groups  == {SeedMaterial(query, bound, e) : e \in GroupingExprs(query)}
      filters == {SeedMaterial(query, bound, e) : e \in FilteringExprs(query)}
  IN  SymDiff(groups, filters)

\* prepare_bucket_seeds: the SQL part.
SqlSeed(query, bound) ==
  {SeedMaterial(query, bound, e) : e \in GroupingExprs(query) \cup FilteringExprs(query)}

\* prepare_bucket_seeds: the labels of the filters.
BaseLabels(query, bound) ==
  {DatumSeedMaterial(e.type, StableValue(e, bound)) : e \in FilteringConsts(query)}

\* collect_seed_material: parameters that are not there, and a material that
\* append_seed_material finds too long.
MaterialVerdict(e, bound) ==
  IF \E x \in StableParts(e) : IsUnbound(x, bound) THEN "crashed"
  ELSE IF \E x \in StableParts(e) : StableValue(x, bound) \in LongTexts THEN "failed" ELSE "ok"

\* prepare_bucket_seeds: how it ends, with groups before filters and their
\* constants.
SeedVerdict(query, bound) ==
  LET filters == DOMAIN query.where
  IN  FirstVerdict(<<
        FirstVerdict([k \in DOMAIN query.group |-> MaterialVerdict(GroupingExpr(query, query.group[k]), bound)]),
        FirstVerdict([k \in filters |-> MaterialVerdict(query.where[k].left, bound)]),
        IF \E e \in FilteringConsts(query) : IsUnbound(e, bound) THEN "crashed" ELSE "ok" >>)

\* compute_bucket_seed: the set of the labels of a bucket, of the given types,
\* and of the filters.
BucketLabels(values, types, context) ==
  {DatumSeedMaterial(types[k], values[k]) : k \in DOMAIN values} \cup context.base_labels
=============================================================================
