--------------------------- MODULE MCStatements ---------------------------
(***************************************************************************)
(* Statements over a table of customers with two AID columns, a table of   *)
(* purchases with one, a public table whose column is labeled an AID, and  *)
(* a personal table without AIDs.                                          *)
(***************************************************************************)
EXTENDS Statements

MCRelations == {"customers", "purchases", "products", "visits"}
MCPersonal == {"customers", "purchases", "visits"}
MCNotFilterable == [r \in MCRelations |-> IF r = "customers" THEN {"age"} ELSE {}]
MCAidColumns == [customers |-> <<"id", "ssn">>, purchases |-> <<"cid">>, products |-> <<"sku">>, visits |-> <<>>]

Node(node, name, type, args) == [node |-> node, name |-> name, type |-> type, args |-> args, rte |-> 0]
Var(name, type, rte) == [Node("Var", name, type, <<>>) EXCEPT !.rte = rte]
Const(value, type) == Node("Const", value, type, <<>>)
Fn(name, type, args) == Node("FuncExpr", name, type, args)

City == Var("city", "text", 1)
CityText == Node("RelabelType", "", "varchar", <<City>>)
ZipCode == Var("zip", "char(n)", 1)
Age == Var("age", "int4", 1)
AgeDouble == Fn("i4tod", "float8", <<Age>>)
Born == Var("born", "timestamp", 1)
Id == Var("id", "int4", 1)
Id2 == Var("id", "int4", 2)
Cid == Var("cid", "int4", 2)
Sku2 == Var("sku", "int4", 2)
Rome == Const("Rome", "text")
Two == Const("2", "int8")
One == Const("1", "int8")
Three == Const("3", "int8")
TwoNumeric == Const("2", "numeric")
NullInt == Const(Null, "int4")
NullNumeric == Const(Null, "numeric")
NotANumber == Const("2", "text")
Date == Const("2", "date")
Timestamp == Const("2", "timestamp")
ZipText == Const("2", "bpchar")
Year == Const("year", "text")
Epic == Const("epic", "text")    \* A text of more than 1024 characters.
P1 == Node("Param", "p", "text", <<>>)
RoundBy(size) == Fn("round_by", "float8", <<AgeDouble, size>>)
Rounded == RoundBy(Two)
PartOfBorn == Fn("timestamp_part", "float8", <<Year, Born>>)
ExtractOfBorn == Fn("extract_timestamp", "numeric", <<Year, Born>>)
EpicOfBorn == Fn("timestamp_trunc", "timestamp", <<Epic, Born>>)
IntOfBorn == Fn("dtoi4", "int4", <<ExtractOfBorn>>)
Initial == Fn("text_substr", "text", <<CityText, One>>)
SecondOn == Fn("text_substr", "text", <<City, Two>>)
SubstringOfCity == Fn("text_substr", "text", <<City, City>>)
Whole == Fn("dround", "float8", <<AgeDouble>>)
Upper == Fn("upper", "text", <<City>>)
Sum == Node("OpExpr", "+", "int4", <<Age, Two>>)
RoundedSum == Fn("round_by", "float8", <<Sum, Two>>)
Random == Fn("random", "float8", <<>>)
RandomCity == Node("OpExpr", "||", "text", <<Random, City>>)
RandomInitial == Node("OpExpr", "||", "text", <<Random, Initial>>)

Columns == {City, ZipCode, Age, Born, Id, Id2, Cid, Sku2}
Constants == {Rome, Two, One, Three, TwoNumeric, NullInt, NullNumeric, NotANumber, Date, Timestamp, ZipText, Year, Epic}
Sizes == {Two, Three, TwoNumeric, NullInt, NullNumeric, NotANumber, P1}
MCExprs == Columns \cup Constants \cup {RoundBy(size) : size \in Sizes} \cup
           {P1, CityText, AgeDouble, PartOfBorn, ExtractOfBorn, EpicOfBorn, IntOfBorn, Initial, SecondOn,
            SubstringOfCity, Whole, Upper, Sum, RoundedSum, Random, RandomCity, RandomInitial}

Agg(fn, args) ==
  [fn |-> fn, args |-> args, distinct |-> FALSE, aids |-> <<>>, counted |-> -1, location |-> NoLocation]
CountStar == Agg("count_star", <<>>)
CountDistinct == [Agg("count_value", <<City>>) EXCEPT !.distinct = TRUE]
HistogramOf(aid) == Agg("count_histogram", <<aid>>)
HistogramBy(aid, size) == Agg("count_histogram", <<aid, size>>)

Target(expr, ref) == [expr |-> expr, aggs |-> <<>>, ref |-> ref, late |-> FALSE]
AggTarget(agg) == [Target(Computed, 0) EXCEPT !.aggs = <<agg>>]
Equal(left, right) == [op |-> "=", left |-> left, right |-> right]

\* A query without grouping, and one that is grouped by its targets.
Select(exprs, aggs) ==
  [rtable |-> <<"customers">>, on |-> <<>>, crossJoin |-> FALSE, unsupported |-> FALSE, where |-> <<>>,
   targets |-> [k \in DOMAIN exprs |-> Target(exprs[k], 0)] \o [k \in DOMAIN aggs |-> AggTarget(aggs[k])],
   group |-> <<>>, having |-> <<>>, sorted |-> FALSE, limit |-> NoLimit, offset |-> 0]

GroupBy(exprs, aggs) ==
  [Select(exprs, aggs) EXCEPT
     !.targets = [k \in DOMAIN @ |-> IF k \in DOMAIN exprs THEN [@[k] EXCEPT !.ref = k] ELSE @[k]],
     !.group = [k \in DOMAIN exprs |-> k]]

Where(query, filters) == [query EXCEPT !.where = filters]
From(query, relations) == [query EXCEPT !.rtable = relations]
Having(query, conditions) == [query EXCEPT !.having = conditions]
Limit(query, limit, offset) == [query EXCEPT !.limit = limit, !.offset = offset]
OrderBy(query) == [query EXCEPT !.sorted = TRUE]
\* With a target that may be evaluated late, in front or at the end.
LateFirst(query, expr) == [query EXCEPT !.targets = <<[Target(expr, 0) EXCEPT !.late = TRUE]>> \o @]
LateLast(query, expr) == [query EXCEPT !.targets = Append(@, [Target(expr, 0) EXCEPT !.late = TRUE])]

Part(via, query, conditions) ==
  [via |-> via, query |-> query, conditions |-> conditions, parameterized |-> FALSE]
Top(query) == <<Part("top", query, <<>>)>>
Parameterized(query) == <<[Part("top", query, <<>>) EXCEPT !.parameterized = TRUE]>>
On(target, leakproof) == [target |-> target, leakproof |-> leakproof]

CountCities == GroupBy(<<City>>, <<CountStar>>)
SelfJoin == [From(GroupBy(<<City>>, <<HistogramOf(Id2), CountStar, HistogramOf(Id)>>), <<"customers", "customers">>)
               EXCEPT !.on = <<Equal(Id, Id2)>>]

\* Statements that run.
Running ==
  { Top(Select(<<City>>, <<>>)),
    Top(Select(<<City, City>>, <<>>)),
    Top(Select(<<Two>>, <<>>)),
    Top(Select(<<Initial, Whole>>, <<>>)),
    Top(Select(<<RoundBy(TwoNumeric)>>, <<>>)),
    Top(Select(<<City, Two, IntOfBorn>>, <<>>)),
    Top(CountCities),
    Top(LateFirst(CountCities, Random)),
    Top(OrderBy(LateLast(CountCities, RandomCity))),
    Top(OrderBy(Select(<<City, Random>>, <<>>))),
    Top(GroupBy(<<CityText>>, <<CountDistinct, Agg("is_suppress_bin", <<>>)>>)),
    Top(Where(Select(<<>>, <<CountStar>>), <<Equal(CityText, Rome)>>)),
    Top(Where(CountCities, <<Equal(City, Rome), Equal(Rounded, Two)>>)),
    Top(Where(CountCities, <<Equal(City, Rome), Equal(Rounded, TwoNumeric)>>)),
    Top(Having(GroupBy(<<Rounded, City>>, <<Agg("avg", <<Age>>)>>), <<<<>>, <<CountStar>>>>)),
    Top(GroupBy(<<PartOfBorn>>, <<Agg("sum", <<AgeDouble>>)>>)),
    Top(GroupBy(<<IntOfBorn>>, <<Agg("avg_noise", <<Age>>)>>)),
    Top(GroupBy(<<Born>>, <<CountStar>>)),
    Top(Where(Select(<<>>, <<CountStar>>), <<Equal(Born, Timestamp)>>)),
    Top(Where(Select(<<>>, <<CountStar>>), <<Equal(Born, Date)>>)),
    Top(SelfJoin),
    Top([From(GroupBy(<<City>>, <<HistogramBy(Cid, Two)>>), <<"customers", "purchases">>)
           EXCEPT !.on = <<Equal(Id, Cid)>>]),
    Top(Limit(OrderBy(CountCities), 5, 1)),
    Top(Limit(CountCities, Int64Max, 1)),
    Top(From(CountCities, <<"products">>)),
    Top(From(CountCities, <<"customers", "products">>)),
    Top(Where(Select(<<Upper>>, <<>>), <<NeverTrue>>)) }

\* Queries over anonymizing queries.
Nested ==
  { <<Part("from", CountCities, <<On(1, TRUE), On(2, FALSE)>>),
      Part("from", Select(<<>>, <<Agg("sum", <<Age>>), HistogramOf(Id)>>), <<>>)>>,
    <<Part("from", From(CountCities, <<"products">>), <<On(1, TRUE)>>),
      Part("from", Having(CountCities, <<<<>>>>), <<On(2, TRUE)>>)>>,
    <<Part("from", Limit(OrderBy(Select(<<City>>, <<>>)), NoLimit, 0), <<On(1, TRUE)>>)>>,
    <<Part("cte", CountCities, <<On(1, TRUE)>>), Part("cte", Having(CountCities, <<<<CountStar>>>>), <<On(2, TRUE)>>)>>,
    <<Part("cte", CountCities, <<On(2, TRUE)>>)>> }

\* Statements that end otherwise.
Ending ==
  { Top(Limit(CountCities, NoLimit, 1)),
    Top(Select(<<>>, <<Agg("avg_numeric", <<Age>>)>>)),
    Top(From(Select(<<>>, <<HistogramOf(Sku2)>>), <<"customers", "products">>)),
    Top(From(CountCities, <<"visits">>)),
    Top(Select(<<EpicOfBorn>>, <<>>)),
    Top(OrderBy(LateFirst(CountCities, Random))),
    Top(OrderBy(Select(<<Random, City>>, <<>>))),
    Top(OrderBy(LateLast(GroupBy(<<Initial>>, <<CountStar>>), RandomInitial))),
    Top([GroupBy(<<ZipCode>>, <<>>) EXCEPT !.targets = Append(@, Target(City, 0))]),
    Top(Select(<<RoundBy(NullNumeric)>>, <<>>)),
    Top(Select(<<RoundBy(NullInt)>>, <<>>)),
    Top(Select(<<RoundBy(NotANumber)>>, <<>>)),
    Top(Select(<<RoundBy(Three)>>, <<>>)),
    Top(Select(<<SecondOn>>, <<>>)),
    Top(Select(<<>>, <<HistogramBy(Id, Three)>>)),
    Top(Select(<<>>, <<HistogramBy(Id, NotANumber)>>)),
    Top(Select(<<Id>>, <<>>)),
    Top(Select(<<Upper>>, <<>>)),
    Top(Select(<<RoundedSum>>, <<>>)),
    Top(Select(<<SubstringOfCity>>, <<>>)),
    Top(Where(Select(<<City>>, <<>>), <<Equal(Id, Two)>>)),
    Top(Where(Select(<<City>>, <<>>), <<Equal(City, Upper)>>)),
    Top(Select(<<>>, <<HistogramOf(City)>>)) }

HavingOnly == { Top(Having(Select(<<Two>>, <<>>), <<<<CountStar>>>>)) }

MCStatements == Running \cup Nested \cup Ending \cup HavingOnly

MCPrepareds ==
  { Parameterized(Where(Select(<<>>, <<CountStar>>), <<Equal(City, P1)>>)),
    Parameterized(GroupBy(<<RoundBy(P1), City>>, <<CountStar>>)),
    Parameterized(Having(CountCities, <<<<>>>>)),
    Top(CountCities) }

MCParams == {[p |-> "2"], [p |-> "Rome"]}
=============================================================================
