-------------------------- MODULE StatementsProofs --------------------------
(***************************************************************************)
(* Proofs about Statements.                                                *)
(***************************************************************************)
EXTENDS Statements, NaturalSets, SequenceTheorems, FiniteSetTheorems, TLAPS

-----------------------------------------------------------------------------
(* Sequences of sequences                                                  *)

\* g[i] is what the first i of n lists make, one after the other.
Flattens(g, lists, n, S) ==
  /\ g \in [1 .. n -> Seq(S)]
  /\ \A i \in 1 .. n : g[i] = IF i = 1 THEN lists[i] ELSE g[i - 1] \o lists[i]

LEMMA CanBeFlattened ==
  ASSUME NEW S, NEW n \in Nat, NEW lists, \A i \in 1 .. n : lists[i] \in Seq(S)
  PROVE  \E g : Flattens(g, lists, n, S)
<1> DEFINE T == {m \in Nat : m <= n => \E g : Flattens(g, lists, m, S)}
<1>1. 0 \in T
  <2> DEFINE e == [i \in 1 .. 0 |-> <<>>]
  <2>1. 1 .. 0 = {}
    OBVIOUS
  <2>2. e \in [1 .. 0 -> Seq(S)]
    BY <2>1
  <2>3. Flattens(e, lists, 0, S)
    BY <2>1, <2>2 DEF Flattens
  <2> QED BY <2>3
<1>2. ASSUME NEW m \in Nat, m \in T PROVE m + 1 \in T
  <2> SUFFICES ASSUME m + 1 <= n PROVE \E g : Flattens(g, lists, m + 1, S)
    OBVIOUS
  <2>1. PICK f : Flattens(f, lists, m, S)
    BY <1>2
  <2> DEFINE last == IF m = 0 THEN lists[1] ELSE f[m] \o lists[m + 1]
             g == [i \in 1 .. m + 1 |-> IF i = m + 1 THEN last ELSE f[i]]
  <2>2. /\ f \in [1 .. m -> Seq(S)]
        /\ \A i \in 1 .. m : f[i] = IF i = 1 THEN lists[i] ELSE f[i - 1] \o lists[i]
    BY <2>1 DEF Flattens
  <2>3. last \in Seq(S)
    <3>1. CASE m = 0
      BY <3>1
    <3>2. CASE m # 0
      <4>1. f[m] \in Seq(S) /\ lists[m + 1] \in Seq(S)
        BY <2>2, <3>2
      <4> QED BY <3>2, <4>1, ConcatProperties
    <3> QED BY <3>1, <3>2
  <2>4. last = IF m = 0 THEN lists[1] ELSE f[m] \o lists[m + 1]
    OBVIOUS
  <2> HIDE DEF last
  <2>5. g \in [1 .. m + 1 -> Seq(S)]
    BY <2>2, <2>3
  <2>6. ASSUME NEW i \in 1 .. m + 1
        PROVE  g[i] = IF i = 1 THEN lists[i] ELSE g[i - 1] \o lists[i]
    <3>1. CASE i = m + 1
      <4>1. g[i] = last
        BY <3>1
      <4>2. CASE m = 0
        BY <2>4, <3>1, <4>1, <4>2
      <4>3. CASE m # 0
        <5>1. g[i - 1] = f[m] /\ i # 1
          BY <3>1, <4>3
        <5> QED BY <2>4, <3>1, <4>1, <4>3, <5>1
      <4> QED BY <4>2, <4>3
    <3>2. CASE i # m + 1
      <4>1. i \in 1 .. m /\ g[i] = f[i] /\ (i # 1 => g[i - 1] = f[i - 1])
        BY <3>2
      <4> QED BY <2>2, <4>1
    <3> QED BY <3>1, <3>2
  <2>7. Flattens(g, lists, m + 1, S)
    <3> HIDE DEF g
    <3> QED BY <2>5, <2>6 DEF Flattens
  <2> QED BY <2>7
<1> HIDE DEF T
<1>3. Nat \subseteq T
  BY <1>1, <1>2, SetInduction
<1>4. n \in T
  BY <1>3
<1> QED BY <1>4 DEF T

LEMMA RangeOfConcat ==
  ASSUME NEW S, NEW s \in Seq(S), NEW t \in Seq(S)
  PROVE  Range(s \o t) = Range(s) \cup Range(t)
<1>1. /\ Len(s) \in Nat /\ DOMAIN s = 1 .. Len(s)
      /\ Len(t) \in Nat /\ DOMAIN t = 1 .. Len(t)
  BY LenProperties
<1>2. s \o t \in Seq(S) /\ Len(s \o t) = Len(s) + Len(t)
  BY ConcatProperties
<1>3. \A i \in 1 .. Len(s) + Len(t) : (s \o t)[i] = IF i <= Len(s) THEN s[i] ELSE t[i - Len(s)]
  BY ConcatProperties
<1>4. DOMAIN (s \o t) = 1 .. Len(s) + Len(t)
  BY <1>2, LenProperties
<1> DEFINE u == s \o t
<1> HIDE DEF u
<1>5. /\ DOMAIN u = 1 .. Len(s) + Len(t)
      /\ \A i \in 1 .. Len(s) + Len(t) : u[i] = IF i <= Len(s) THEN s[i] ELSE t[i - Len(s)]
  BY <1>3, <1>4 DEF u
<1>6. ASSUME NEW x \in Range(u) PROVE x \in Range(s) \cup Range(t)
  <2>1. PICK i \in 1 .. Len(s) + Len(t) : x = u[i]
    BY <1>5 DEF Range
  <2>2. CASE i <= Len(s)
    BY <1>1, <1>5, <2>1, <2>2 DEF Range
  <2>3. CASE ~(i <= Len(s))
    <3>1. i - Len(s) \in DOMAIN t /\ x = t[i - Len(s)]
      BY <1>1, <1>5, <2>1, <2>3
    <3> QED BY <3>1 DEF Range
  <2> QED BY <2>2, <2>3
<1>7. ASSUME NEW x \in Range(s) PROVE x \in Range(u)
  BY <1>1, <1>5 DEF Range
<1>8. ASSUME NEW x \in Range(t) PROVE x \in Range(u)
  <2>1. PICK i \in 1 .. Len(t) : x = t[i]
    BY <1>1 DEF Range
  <2>2. i + Len(s) \in 1 .. Len(s) + Len(t) /\ ~(i + Len(s) <= Len(s)) /\ (i + Len(s)) - Len(s) = i
    BY <1>1
  <2>3. u[i + Len(s)] = t[i]
    BY <1>5, <2>2
  <2> QED BY <1>5, <2>1, <2>2, <2>3 DEF Range
<1> QED BY <1>6, <1>7, <1>8 DEF u

(* FlattenSeq makes a list of the elements of the lists.                   *)
LEMMA FlattenSeqs ==
  ASSUME NEW S, NEW seqs \in Seq(Seq(S))
  PROVE  /\ FlattenSeq(seqs) \in Seq(S)
         /\ Range(FlattenSeq(seqs)) = UNION {Range(seqs[k]) : k \in DOMAIN seqs}
<1> DEFINE n == Len(seqs)
           Step(g) == [i \in 1 .. n |-> IF i = 1 THEN seqs[i] ELSE g[i - 1] \o seqs[i]]
           j == CHOOSE g : g = Step(g)
<1>1. n \in Nat /\ DOMAIN seqs = 1 .. n /\ \A i \in 1 .. n : seqs[i] \in Seq(S)
  BY LenProperties
<1>2. CASE n = 0
  <2>1. seqs = <<>> /\ DOMAIN seqs = {} /\ FlattenSeq(seqs) = seqs
    BY <1>1, <1>2 DEF FlattenSeq
  <2> QED BY <2>1, EmptySeq DEF Range
<1>3. CASE n # 0
  <2> HIDE DEF n
  <2>1. PICK f : Flattens(f, seqs, n, S)
    BY <1>1, CanBeFlattened
  <2>2. f = Step(f)
    <3>1. f = [i \in 1 .. n |-> f[i]]
      BY <2>1 DEF Flattens
    <3>2. \A i \in 1 .. n : f[i] = IF i = 1 THEN seqs[i] ELSE f[i - 1] \o seqs[i]
      BY <2>1 DEF Flattens
    <3> QED BY <3>1, <3>2, Zenon
  <2>3. j = Step(j)
    BY <2>2
  <2>4. FlattenSeq(seqs) = j[n]
    BY <1>3 DEF FlattenSeq, n
  <2> HIDE DEF j
  <2>5. \A i \in 1 .. n : j[i] = IF i = 1 THEN seqs[i] ELSE j[i - 1] \o seqs[i]
    BY <2>3, Zenon
  <2> DEFINE U == {m \in Nat : m + 1 <= n => /\ j[m + 1] \in Seq(S)
                                              /\ Range(j[m + 1]) = UNION {Range(seqs[k]) : k \in 1 .. m + 1}}
  <2>6. 0 \in U
    <3>1. 1 \in 1 .. n /\ 1 .. (0 + 1) = {1} /\ 0 + 1 = 1
      BY <1>1, <1>3
    <3>2. j[1] = seqs[1]
      BY <2>5, <3>1
    <3> QED BY <1>1, <3>1, <3>2
  <2>7. ASSUME NEW m \in Nat, m \in U PROVE m + 1 \in U
    <3> DEFINE p == m + 1
    <3> SUFFICES ASSUME p + 1 <= n
                 PROVE  /\ j[p + 1] \in Seq(S)
                        /\ Range(j[p + 1]) = UNION {Range(seqs[k]) : k \in 1 .. p + 1}
      OBVIOUS
    <3>1. /\ p + 1 \in 1 .. n /\ p + 1 # 1 /\ (p + 1) - 1 = p
          /\ 1 .. p + 1 = (1 .. p) \cup {p + 1}
      BY <1>1
    <3>2. j[p] \in Seq(S) /\ Range(j[p]) = UNION {Range(seqs[k]) : k \in 1 .. p}
      BY <1>1, <2>7
    <3> HIDE DEF p
    <3>3. j[p + 1] = j[p] \o seqs[p + 1]
      BY <2>5, <3>1
    <3>4. seqs[p + 1] \in Seq(S)
      BY <1>1, <3>1
    <3>5. j[p + 1] \in Seq(S) /\ Range(j[p + 1]) = Range(j[p]) \cup Range(seqs[p + 1])
      BY <3>2, <3>3, <3>4, ConcatProperties, RangeOfConcat
    <3> QED BY <3>1, <3>2, <3>5
  <2> HIDE DEF U
  <2>8. Nat \subseteq U
    BY <2>6, <2>7, SetInduction
  <2>9. n - 1 \in U
    BY <1>1, <1>3, <2>8
  <2>10. (n - 1) + 1 = n
    BY <1>1
  <2>11. j[n] \in Seq(S) /\ Range(j[n]) = UNION {Range(seqs[k]) : k \in 1 .. n}
    BY <1>1, <2>9, <2>10 DEF U
  <2> QED BY <1>1, <2>4, <2>11
<1> QED BY <1>2, <1>3

-----------------------------------------------------------------------------
(* AIDs                                                                    *)

\* The AIDs of all personal tables of a query.
AidsOf(query) ==
  UNION {{[rte |-> r, column |-> c] : c \in Range(AidColumns[query.rtable[r]])} :
           r \in {r \in DOMAIN query.rtable : query.rtable[r] \in Personal}}

LEMMA AidsOfRelation ==
  ASSUME NEW query, query.rtable \in Seq(Relations), NEW r \in DOMAIN query.rtable
  PROVE  /\ RelationAids(query, r) \in Seq(AidRefs)
         /\ query.rtable[r] \in Personal =>
              Range(RelationAids(query, r)) = {[rte |-> r, column |-> c] : c \in Range(AidColumns[query.rtable[r]])}
         /\ query.rtable[r] \notin Personal => Range(RelationAids(query, r)) = {}
<1> DEFINE columns == IF query.rtable[r] \in Personal THEN AidColumns[query.rtable[r]] ELSE <<>>
           aids == RelationAids(query, r)
<1>1. columns \in Seq(STRING) /\ r \in Nat
  <2>1. query.rtable[r] \in Relations /\ r \in Nat
    BY LenProperties
  <2>2. AidColumns[query.rtable[r]] \in Seq(STRING) /\ <<>> \in Seq(STRING)
    BY <2>1, ValidationAssumption
  <2> QED BY <2>1, <2>2
<1>2. /\ query.rtable[r] \in Personal => columns = AidColumns[query.rtable[r]]
      /\ query.rtable[r] \notin Personal => DOMAIN columns = {}
  OBVIOUS
<1>3. aids = [k \in DOMAIN columns |-> [rte |-> r, column |-> columns[k]]]
  BY DEF RelationAids
<1> HIDE DEF columns, aids
<1>4. Len(columns) \in Nat /\ DOMAIN columns = 1 .. Len(columns) /\ \A k \in 1 .. Len(columns) : columns[k] \in STRING
  BY <1>1, LenProperties
<1>5. aids \in [1 .. Len(columns) -> AidRefs]
  BY <1>1, <1>3, <1>4 DEF AidRefs
<1>6. aids \in Seq(AidRefs)
  BY <1>4, <1>5
<1>7. Range(aids) = {[rte |-> r, column |-> c] : c \in Range(columns)}
  BY <1>3 DEF Range
<1>8. DOMAIN columns = {} => Range(aids) = {}
  BY <1>7 DEF Range
<1> QED BY <1>2, <1>6, <1>7, <1>8 DEF aids

(* gather_aid_refs collects the AIDs of all personal tables of the query.  *)
LEMMA AidsAreGathered ==
  ASSUME NEW query, query.rtable \in Seq(Relations)
  PROVE  GatherAidRefs(query) \in Seq(AidRefs) /\ Range(GatherAidRefs(query)) = AidsOf(query)
<1> DEFINE n == Len(query.rtable)
           lists == [rte \in DOMAIN query.rtable |-> RelationAids(query, rte)]
<1>1. n \in Nat /\ DOMAIN query.rtable = 1 .. n
  BY LenProperties
<1>2. lists \in [1 .. n -> Seq(AidRefs)] /\ DOMAIN lists = DOMAIN query.rtable
  BY <1>1, AidsOfRelation
<1>3. lists \in Seq(Seq(AidRefs))
  BY <1>1, <1>2
<1>4. \A r \in DOMAIN query.rtable :
        Range(lists[r]) = IF query.rtable[r] \in Personal
                          THEN {[rte |-> r, column |-> c] : c \in Range(AidColumns[query.rtable[r]])} ELSE {}
  BY AidsOfRelation
<1>5. GatherAidRefs(query) = FlattenSeq(lists)
  BY DEF GatherAidRefs
<1> HIDE DEF lists
<1>6. Range(GatherAidRefs(query)) = UNION {Range(lists[r]) : r \in DOMAIN query.rtable}
  BY <1>2, <1>3, <1>5, FlattenSeqs
<1>7. UNION {Range(lists[r]) : r \in DOMAIN query.rtable} = AidsOf(query)
  <2> DEFINE Named(r) == {[rte |-> r, column |-> c] : c \in Range(AidColumns[query.rtable[r]])}
  <2>1. \A r \in DOMAIN query.rtable : Range(lists[r]) = IF query.rtable[r] \in Personal THEN Named(r) ELSE {}
    BY <1>4
  <2>2. AidsOf(query) = UNION {Named(r) : r \in {r \in DOMAIN query.rtable : query.rtable[r] \in Personal}}
    BY DEF AidsOf
  <2> HIDE DEF Named
  <2> QED BY <2>1, <2>2
<1> QED BY <1>3, <1>5, <1>6, <1>7, FlattenSeqs

-----------------------------------------------------------------------------
(* Aggregates                                                              *)

LEMMA RangeOfOne ==
  ASSUME NEW S, NEW x \in S
  PROVE  <<x>> \in Seq(S) /\ Range(<<x>>) = {x}
BY DEF Range

LEMMA EmptyRange ==
  ASSUME NEW S, NEW s \in Seq(S), Range(s) = {}
  PROVE  s = <<>>
<1>1. Len(s) \in Nat /\ DOMAIN s = 1 .. Len(s)
  BY LenProperties
<1>2. Len(s) = 0
  <2>1. DOMAIN s = {}
    BY DEF Range
  <2> QED BY <1>1, <2>1
<1> QED BY <1>2

LEMMA RangeOfTwo ==
  ASSUME NEW S, NEW x \in S, NEW y \in S
  PROVE  <<x, y>> \in Seq(S) /\ Range(<<x, y>>) = {x, y}
<1>1. <<x, y>> \in Seq(S) /\ DOMAIN <<x, y>> = {1, 2} /\ <<x, y>>[1] = x /\ <<x, y>>[2] = y
  OBVIOUS
<1> QED BY <1>1 DEF Range

\* An aggregate that validation and the rewriting let through.
IsRewritable(agg, refs) ==
  /\ agg \in Aggrefs /\ agg.location = NoLocation
  /\ agg.fn \in Aggregates \ {"avg_numeric"}
  /\ agg.fn = "count_histogram" => agg.args # <<>> /\ CountedAid(refs, agg.args[1]) # {}

\* The AID that the argument of a count_histogram names.
NamedAid(agg) == [rte |-> agg.args[1].rte, column |-> agg.args[1].name]

\* What an aggregate may become, if refs are the AIDs.
IsAnonOf(anon, agg, refs) ==
  /\ anon \in Aggrefs /\ anon.location = NoLocation
  /\ anon.fn \in AnonymizingAggs \ {"low_count"} \/ (anon.fn = "is_suppress_bin" /\ agg.fn = "is_suppress_bin")
  /\ anon.fn \in AnonymizingAggs => anon.aids = refs
  /\ agg.fn = "count_star" => anon.fn = "anon_count_star"
  /\ anon.fn = "anon_count_histogram" <=> agg.fn = "count_histogram"
  /\ agg.fn = "count_histogram" => /\ anon.counted + 1 \in DOMAIN refs
                                   /\ refs[anon.counted + 1] = NamedAid(agg)

LEMMA ToAnonIsAnon ==
  ASSUME NEW refs \in Seq(AidRefs), NEW agg \in Aggrefs, NEW fn \in AnonymizingAggs
  PROVE  /\ ToAnon(agg, refs, fn) \in Aggrefs
         /\ ToAnon(agg, refs, fn).fn = fn
         /\ ToAnon(agg, refs, fn).aids = refs
         /\ ToAnon(agg, refs, fn).args = agg.args
         /\ ToAnon(agg, refs, fn).location = agg.location
BY DEF ToAnon, Aggrefs

(* rewrite_count_histogram finds the AID that its argument names.           *)
LEMMA HistogramIsAnon ==
  ASSUME NEW refs \in Seq(AidRefs), NEW agg, IsRewritable(agg, refs), agg.fn = "count_histogram"
  PROVE  \E anon \in Aggrefs : RewriteAggregate(agg, refs) = <<anon>> /\ IsAnonOf(anon, agg, refs)
<1> DEFINE found == CountedAid(refs, agg.args[1])
           m == Max(found)
           a == ToAnon(agg, refs, "anon_count_histogram")
           args == IF Len(a.args) = 1 THEN <<BinSizeOne>> ELSE Tail(a.args)
           anon == [a EXCEPT !.args = args, !.counted = m - 1]
<1>1. agg \in Aggrefs /\ agg.location = NoLocation /\ agg.args # <<>> /\ found # {} /\ agg.args \in Seq(Exprs)
  BY DEF IsRewritable, Aggrefs
<1>2. Len(refs) \in Nat /\ DOMAIN refs = 1 .. Len(refs) /\ \A k \in 1 .. Len(refs) : refs[k] \in AidRefs
  BY LenProperties
<1>3. m \in found
  <2>1. found \in SUBSET Nat /\ \A x \in found : x <= Len(refs)
    BY <1>2 DEF CountedAid
  <2>2. \E x \in found : \A y \in found : y <= x
    BY <1>1, <1>2, <2>1, GreatestElement
  <2> HIDE DEF found
  <2>3. \E x \in found : \A y \in found : x >= y
    BY <2>1, <2>2
  <2> QED BY <2>3 DEF Max
<1>4. m \in DOMAIN refs /\ refs[m].rte = agg.args[1].rte /\ refs[m].column = agg.args[1].name
  <2> HIDE DEF m
  <2> QED BY <1>3 DEF CountedAid
<1>5. m \in Nat /\ (m - 1) \in Int /\ (m - 1) + 1 = m /\ refs[m] \in AidRefs
  <2> HIDE DEF m
  <2> QED BY <1>2, <1>4
<1>6. refs[m] = NamedAid(agg)
  <2> HIDE DEF m
  <2> QED BY <1>4, <1>5 DEF NamedAid, AidRefs
<1>7. /\ a \in Aggrefs /\ a.fn = "anon_count_histogram" /\ a.aids = refs
      /\ a.args = agg.args /\ a.location = NoLocation
  <2>1. "anon_count_histogram" \in AnonymizingAggs
    BY DEF AnonymizingAggs
  <2> QED BY <1>1, <2>1, ToAnonIsAnon
<1>8. args \in Seq(Exprs)
  <2>1. Tail(a.args) \in Seq(Exprs)
    BY <1>1, <1>7, HeadTailProperties
  <2>2. <<BinSizeOne>> \in Seq(Exprs)
    BY RewritingAssumption
  <2> QED BY <2>1, <2>2
<1>9. RewriteAggregate(agg, refs) = <<anon>>
  BY DEF RewriteAggregate, ToCountHistogram
<1> HIDE DEF m, a, found, args
<1>10. /\ anon \in Aggrefs /\ anon.fn = "anon_count_histogram" /\ anon.aids = refs
       /\ anon.counted = m - 1 /\ anon.location = NoLocation
  BY <1>5, <1>7, <1>8 DEF Aggrefs
<1> HIDE DEF anon
<1>11. IsAnonOf(anon, agg, refs)
  BY <1>4, <1>5, <1>6, <1>10 DEF IsAnonOf, AnonymizingAggs
<1> QED BY <1>9, <1>10, <1>11

\* What the rewriting of an aggregate is a list of.
IsAnonList(list, agg, refs) ==
  /\ list \in Seq(Aggrefs)
  /\ Range(list) # {}
  /\ \A anon \in Range(list) : IsAnonOf(anon, agg, refs)

LEMMA OneAnon ==
  ASSUME NEW refs \in Seq(AidRefs), NEW agg, IsRewritable(agg, refs), agg.fn # "count_histogram",
         NEW fn \in AnonymizingAggs \ {"low_count", "anon_count_histogram"},
         agg.fn = "count_star" => fn = "anon_count_star"
  PROVE  IsAnonOf(ToAnon(agg, refs, fn), agg, refs)
<1>1. agg \in Aggrefs /\ agg.location = NoLocation
  BY DEF IsRewritable
<1> DEFINE a == ToAnon(agg, refs, fn)
<1>2. a \in Aggrefs /\ a.fn = fn /\ a.aids = refs /\ a.location = NoLocation
  BY <1>1, ToAnonIsAnon
<1> HIDE DEF a
<1>3. IsAnonOf(a, agg, refs)
  BY <1>2 DEF IsAnonOf
<1> QED BY <1>3 DEF a

LEMMA OneAnonList ==
  ASSUME NEW refs, NEW agg, NEW a, IsAnonOf(a, agg, refs)
  PROVE  IsAnonList(<<a>>, agg, refs)
<1>1. a \in Aggrefs
  BY DEF IsAnonOf
<1> QED BY <1>1, RangeOfOne DEF IsAnonList

LEMMA TwoAnonList ==
  ASSUME NEW refs, NEW agg, NEW a, NEW b, IsAnonOf(a, agg, refs), IsAnonOf(b, agg, refs)
  PROVE  IsAnonList(<<a, b>>, agg, refs)
<1>1. a \in Aggrefs /\ b \in Aggrefs
  BY DEF IsAnonOf
<1> QED BY <1>1, RangeOfTwo DEF IsAnonList

(* aggregate_expression_mutator makes anonymizing aggregates.               *)
LEMMA AggregateIsRewritten ==
  ASSUME NEW refs \in Seq(AidRefs), NEW agg, IsRewritable(agg, refs)
  PROVE  IsAnonList(RewriteAggregate(agg, refs), agg, refs)
<1> DEFINE Anons == AnonymizingAggs \ {"low_count", "anon_count_histogram"}
<1>1. ASSUME NEW fn \in Anons, agg.fn # "count_histogram", agg.fn = "count_star" => fn = "anon_count_star",
             RewriteAggregate(agg, refs) = <<ToAnon(agg, refs, fn)>>
      PROVE  IsAnonList(RewriteAggregate(agg, refs), agg, refs)
  BY <1>1, OneAnon, OneAnonList
<1>2. ASSUME NEW sum \in Anons, agg.fn # "count_histogram", agg.fn # "count_star",
             RewriteAggregate(agg, refs) = ToSumAndCount(agg, refs, sum)
      PROVE  IsAnonList(RewriteAggregate(agg, refs), agg, refs)
  <2>1. "anon_count_value" \in Anons
    BY DEF AnonymizingAggs
  <2>2. IsAnonOf(ToAnon(agg, refs, sum), agg, refs) /\ IsAnonOf(ToAnon(agg, refs, "anon_count_value"), agg, refs)
    BY <1>2, <2>1, OneAnon
  <2>3. IsAnonList(ToSumAndCount(agg, refs, sum), agg, refs)
    BY <2>2, TwoAnonList DEF ToSumAndCount
  <2> QED BY <1>2, <2>3
<1>3. /\ "anon_count_star" \in Anons /\ "anon_count_value" \in Anons /\ "anon_count_distinct" \in Anons
      /\ "anon_sum" \in Anons /\ "anon_count_star_noise" \in Anons /\ "anon_count_value_noise" \in Anons
      /\ "anon_count_distinct_noise" \in Anons /\ "anon_sum_noise" \in Anons
  BY DEF AnonymizingAggs
<1> HIDE DEF Anons
<1>4. agg \in Aggrefs /\ agg.location = NoLocation
      /\ agg.fn \in {"count_value", "sum", "avg", "count_value_noise", "sum_noise", "avg_noise",
                     "count_star", "count_star_noise", "count_histogram", "is_suppress_bin"}
  BY DEF IsRewritable, Aggregates, ColumnAggregates
<1>5. CASE agg.fn = "count_star"
  <2>1. RewriteAggregate(agg, refs) = <<ToAnon(agg, refs, "anon_count_star")>>
    BY <1>5 DEF RewriteAggregate
  <2> QED BY <1>1, <1>3, <1>5, <2>1
<1>6. CASE agg.fn = "count_value"
  <2>1. CASE agg.distinct
    <3>1. RewriteAggregate(agg, refs) = <<ToAnon(agg, refs, "anon_count_distinct")>>
      BY <1>6, <2>1 DEF RewriteAggregate
    <3> QED BY <1>1, <1>3, <1>6, <3>1
  <2>2. CASE ~agg.distinct
    <3>1. RewriteAggregate(agg, refs) = <<ToAnon(agg, refs, "anon_count_value")>>
      BY <1>6, <2>2 DEF RewriteAggregate
    <3> QED BY <1>1, <1>3, <1>6, <3>1
  <2> QED BY <2>1, <2>2
<1>7. CASE agg.fn = "sum"
  <2>1. RewriteAggregate(agg, refs) = <<ToAnon(agg, refs, "anon_sum")>>
    BY <1>7 DEF RewriteAggregate
  <2> QED BY <1>1, <1>3, <1>7, <2>1
<1>8. CASE agg.fn = "avg"
  <2>1. RewriteAggregate(agg, refs) = ToSumAndCount(agg, refs, "anon_sum")
    BY <1>8 DEF RewriteAggregate
  <2> QED BY <1>2, <1>3, <1>8, <2>1
<1>9. CASE agg.fn = "count_histogram"
  BY <1>9, HistogramIsAnon, OneAnonList
<1>10. CASE agg.fn = "count_star_noise"
  <2>1. RewriteAggregate(agg, refs) = <<ToAnon(agg, refs, "anon_count_star_noise")>>
    BY <1>10 DEF RewriteAggregate
  <2> QED BY <1>1, <1>3, <1>10, <2>1
<1>11. CASE agg.fn = "count_value_noise"
  <2>1. CASE agg.distinct
    <3>1. RewriteAggregate(agg, refs) = <<ToAnon(agg, refs, "anon_count_distinct_noise")>>
      BY <1>11, <2>1 DEF RewriteAggregate
    <3> QED BY <1>1, <1>3, <1>11, <3>1
  <2>2. CASE ~agg.distinct
    <3>1. RewriteAggregate(agg, refs) = <<ToAnon(agg, refs, "anon_count_value_noise")>>
      BY <1>11, <2>2 DEF RewriteAggregate
    <3> QED BY <1>1, <1>3, <1>11, <3>1
  <2> QED BY <2>1, <2>2
<1>12. CASE agg.fn = "sum_noise"
  <2>1. RewriteAggregate(agg, refs) = <<ToAnon(agg, refs, "anon_sum_noise")>>
    BY <1>12 DEF RewriteAggregate
  <2> QED BY <1>1, <1>3, <1>12, <2>1
<1>13. CASE agg.fn = "avg_noise"
  <2>1. RewriteAggregate(agg, refs) = ToSumAndCount(agg, refs, "anon_sum_noise")
    BY <1>13 DEF RewriteAggregate
  <2> QED BY <1>2, <1>3, <1>13, <2>1
<1>14. CASE agg.fn = "is_suppress_bin"
  <2>1. RewriteAggregate(agg, refs) = <<agg>>
    BY <1>14 DEF RewriteAggregate
  <2>2. IsAnonOf(agg, agg, refs)
    BY <1>4, <1>14 DEF IsAnonOf, AnonymizingAggs
  <2> QED BY <2>1, <2>2, OneAnonList
<1> QED BY <1>4, <1>5, <1>6, <1>7, <1>8, <1>9, <1>10, <1>11, <1>12, <1>13, <1>14, Zenon

-----------------------------------------------------------------------------
(* The anonymizing query                                                   *)

AllAggs(query) == TargetAggs(query) \cup HavingAggs(query)

\* The one set of aggregates is the other one, rewritten.
AreAnonOf(anons, aggs, refs) ==
  /\ \A anon \in anons : \E agg \in aggs : IsAnonOf(anon, agg, refs)
  /\ \A agg \in aggs : \E anon \in anons : IsAnonOf(anon, agg, refs)

LEMMA AggsAreRewritten ==
  ASSUME NEW refs \in Seq(AidRefs), NEW aggs \in Seq(Aggrefs),
         \A agg \in Range(aggs) : IsRewritable(agg, refs)
  PROVE  /\ RewriteAggs(aggs, refs) \in Seq(Aggrefs)
         /\ AreAnonOf(Range(RewriteAggs(aggs, refs)), Range(aggs), refs)
<1> DEFINE lists == [k \in DOMAIN aggs |-> RewriteAggregate(aggs[k], refs)]
<1>1. Len(aggs) \in Nat /\ DOMAIN aggs = 1 .. Len(aggs)
  BY LenProperties
<1>2. \A k \in DOMAIN aggs : IsAnonList(RewriteAggregate(aggs[k], refs), aggs[k], refs)
  BY AggregateIsRewritten DEF Range
<1>3. lists \in Seq(Seq(Aggrefs))
  <2>1. lists \in [1 .. Len(aggs) -> Seq(Aggrefs)]
    BY <1>1, <1>2 DEF IsAnonList
  <2> QED BY <1>1, <2>1
<1>4. DOMAIN lists = DOMAIN aggs /\ \A k \in DOMAIN aggs : IsAnonList(lists[k], aggs[k], refs)
  BY <1>2
<1>5. RewriteAggs(aggs, refs) = FlattenSeq(lists)
  BY DEF RewriteAggs
<1> HIDE DEF lists
<1> DEFINE anons == Range(RewriteAggs(aggs, refs))
<1>6. RewriteAggs(aggs, refs) \in Seq(Aggrefs) /\ anons = UNION {Range(lists[k]) : k \in DOMAIN aggs}
  BY <1>3, <1>4, <1>5, FlattenSeqs
<1> HIDE DEF anons
<1>7. ASSUME NEW anon \in anons PROVE \E agg \in Range(aggs) : IsAnonOf(anon, agg, refs)
  <2>1. PICK k \in DOMAIN aggs : anon \in Range(lists[k])
    BY <1>6
  <2>2. IsAnonOf(anon, aggs[k], refs)
    BY <1>4, <2>1 DEF IsAnonList
  <2> QED BY <2>2 DEF Range
<1>8. ASSUME NEW agg \in Range(aggs) PROVE \E anon \in anons : IsAnonOf(anon, agg, refs)
  <2>1. PICK k \in DOMAIN aggs : agg = aggs[k]
    BY DEF Range
  <2>2. PICK anon : anon \in Range(lists[k]) /\ IsAnonOf(anon, agg, refs)
    BY <1>4, <2>1 DEF IsAnonList
  <2> QED BY <1>6, <2>2
<1> QED BY <1>6, <1>7, <1>8 DEF AreAnonOf, anons

\* What the rewriting of aggregates changes, and what it leaves alone.
AggregatesOnly(anon, query) ==
  /\ anon.rtable = query.rtable /\ anon.where = query.where /\ anon.group = query.group
  /\ anon.sorted = query.sorted /\ anon.limit = query.limit /\ anon.offset = query.offset
  /\ DOMAIN anon.having = DOMAIN query.having
  /\ DOMAIN anon.targets = DOMAIN query.targets
  /\ \A k \in DOMAIN query.targets : /\ anon.targets[k].expr = query.targets[k].expr
                                      /\ anon.targets[k].ref = query.targets[k].ref
                                      /\ anon.targets[k].late = query.targets[k].late

LEMMA QueryFields ==
  ASSUME NEW query \in Queries
  PROVE  /\ query.targets \in Seq(TargetEntries) /\ query.having \in Seq(Seq(Aggrefs))
         /\ query.group \in Seq(Nat) /\ query.rtable \in Seq(Relations) /\ query.where \in Seq(Conditions)
         /\ query.limit \in Nat \cup {NoLimit} /\ query.offset \in Nat /\ query.sorted \in BOOLEAN
BY DEF Queries

LEMMA ChangeTargets ==
  ASSUME NEW query \in Queries, NEW targets \in Seq(TargetEntries),
         NEW changed, changed = [query EXCEPT !.targets = targets]
  PROVE  /\ changed \in Queries /\ changed.targets = targets
         /\ changed.rtable = query.rtable /\ changed.where = query.where /\ changed.group = query.group
         /\ changed.having = query.having
         /\ changed.sorted = query.sorted /\ changed.limit = query.limit /\ changed.offset = query.offset
BY DEF Queries

(* RewriteAggregates rewrites the aggregates of targets and of HAVING.      *)
LEMMA AggregatesAreRewritten ==
  ASSUME NEW refs \in Seq(AidRefs), NEW query \in Queries,
         \A agg \in AllAggs(query) : IsRewritable(agg, refs)
  PROVE  LET anon == RewriteAggregates(query, refs)
         IN  /\ anon \in Queries /\ AggregatesOnly(anon, query)
             /\ AreAnonOf(TargetAggs(anon), TargetAggs(query), refs)
             /\ AreAnonOf(HavingAggs(anon), HavingAggs(query), refs)
<1> DEFINE targets == [k \in DOMAIN query.targets |->
                         [query.targets[k] EXCEPT !.aggs = RewriteAggs(query.targets[k].aggs, refs)]]
           having == [k \in DOMAIN query.having |-> RewriteAggs(query.having[k], refs)]
           anon == RewriteAggregates(query, refs)
<1>1. anon = [query EXCEPT !.targets = targets, !.having = having]
  BY DEF RewriteAggregates
<1>2. /\ query.targets \in Seq(TargetEntries) /\ query.having \in Seq(Seq(Aggrefs))
      /\ Len(query.targets) \in Nat /\ DOMAIN query.targets = 1 .. Len(query.targets)
      /\ Len(query.having) \in Nat /\ DOMAIN query.having = 1 .. Len(query.having)
  BY QueryFields, LenProperties
<1>3. ASSUME NEW k \in DOMAIN query.targets
      PROVE  /\ query.targets[k] \in TargetEntries
             /\ RewriteAggs(query.targets[k].aggs, refs) \in Seq(Aggrefs)
             /\ AreAnonOf(Range(RewriteAggs(query.targets[k].aggs, refs)), Range(query.targets[k].aggs), refs)
  <2> HIDE DEF targets, having, anon
  <2>1. query.targets[k] \in TargetEntries
    BY <1>2
  <2>3. query.targets[k].aggs \in Seq(Aggrefs)
    BY <2>1 DEF TargetEntries
  <2>2. \A agg \in Range(query.targets[k].aggs) : IsRewritable(agg, refs)
    BY DEF AllAggs, TargetAggs
  <2> QED BY <2>1, <2>2, <2>3, AggsAreRewritten
<1>4. ASSUME NEW k \in DOMAIN query.having
      PROVE  /\ RewriteAggs(query.having[k], refs) \in Seq(Aggrefs)
             /\ AreAnonOf(Range(RewriteAggs(query.having[k], refs)), Range(query.having[k]), refs)
  <2>1. query.having[k] \in Seq(Aggrefs)
    BY <1>2
  <2>2. \A agg \in Range(query.having[k]) : IsRewritable(agg, refs)
    BY DEF AllAggs, HavingAggs
  <2> QED BY <2>1, <2>2, AggsAreRewritten
<1>5. \A k \in DOMAIN query.targets :
        /\ targets[k] \in TargetEntries
        /\ targets[k].expr = query.targets[k].expr /\ targets[k].ref = query.targets[k].ref
        /\ targets[k].late = query.targets[k].late
        /\ targets[k].aggs = RewriteAggs(query.targets[k].aggs, refs)
  BY <1>3 DEF TargetEntries
<1>6. DOMAIN targets = DOMAIN query.targets /\ DOMAIN having = DOMAIN query.having
  OBVIOUS
<1>7. targets \in Seq(TargetEntries)
  <2>1. targets \in [1 .. Len(query.targets) -> TargetEntries]
    BY <1>2, <1>5
  <2> QED BY <1>2, <2>1
<1>8. having \in Seq(Seq(Aggrefs)) /\ \A k \in DOMAIN query.having : having[k] = RewriteAggs(query.having[k], refs)
  <2>1. having \in [1 .. Len(query.having) -> Seq(Aggrefs)]
    BY <1>2, <1>4
  <2> QED BY <1>2, <2>1
<1> HIDE DEF targets, having, anon
<1>13. having \in Seq(Seq(Aggrefs))
  BY <1>8
<1>9. /\ anon \in Queries /\ anon.targets = targets /\ anon.having = having
      /\ anon.rtable = query.rtable /\ anon.where = query.where /\ anon.group = query.group
      /\ anon.sorted = query.sorted /\ anon.limit = query.limit /\ anon.offset = query.offset
  BY <1>1, <1>7, <1>13 DEF Queries
<1>10. AggregatesOnly(anon, query)
  BY <1>5, <1>6, <1>9 DEF AggregatesOnly
<1>11. AreAnonOf(TargetAggs(anon), TargetAggs(query), refs)
  <2>1. ASSUME NEW a \in TargetAggs(anon) PROVE \E agg \in TargetAggs(query) : IsAnonOf(a, agg, refs)
    <3>1. PICK k \in DOMAIN query.targets : a \in Range(RewriteAggs(query.targets[k].aggs, refs))
      BY <1>5, <1>6, <1>9 DEF TargetAggs
    <3>2. PICK agg \in Range(query.targets[k].aggs) : IsAnonOf(a, agg, refs)
      BY <1>3, <3>1 DEF AreAnonOf
    <3> QED BY <3>2 DEF TargetAggs
  <2>2. ASSUME NEW agg \in TargetAggs(query) PROVE \E a \in TargetAggs(anon) : IsAnonOf(a, agg, refs)
    <3>1. PICK k \in DOMAIN query.targets : agg \in Range(query.targets[k].aggs)
      BY DEF TargetAggs
    <3>2. PICK a \in Range(RewriteAggs(query.targets[k].aggs, refs)) : IsAnonOf(a, agg, refs)
      BY <1>3, <3>1 DEF AreAnonOf
    <3>3. a \in Range(anon.targets[k].aggs) /\ k \in DOMAIN anon.targets
      BY <1>5, <1>6, <1>9, <3>2
    <3> QED BY <3>2, <3>3 DEF TargetAggs
  <2> QED BY <2>1, <2>2 DEF AreAnonOf
<1>12. AreAnonOf(HavingAggs(anon), HavingAggs(query), refs)
  <2>1. ASSUME NEW a \in HavingAggs(anon) PROVE \E agg \in HavingAggs(query) : IsAnonOf(a, agg, refs)
    <3>1. PICK k \in DOMAIN query.having : a \in Range(RewriteAggs(query.having[k], refs))
      BY <1>6, <1>8, <1>9 DEF HavingAggs
    <3>2. PICK agg \in Range(query.having[k]) : IsAnonOf(a, agg, refs)
      BY <1>4, <3>1 DEF AreAnonOf
    <3> QED BY <3>2 DEF HavingAggs
  <2>2. ASSUME NEW agg \in HavingAggs(query) PROVE \E a \in HavingAggs(anon) : IsAnonOf(a, agg, refs)
    <3>1. PICK k \in DOMAIN query.having : agg \in Range(query.having[k])
      BY DEF HavingAggs
    <3>2. PICK a \in Range(RewriteAggs(query.having[k], refs)) : IsAnonOf(a, agg, refs)
      BY <1>4, <3>1 DEF AreAnonOf
    <3>3. a \in Range(anon.having[k]) /\ k \in DOMAIN anon.having
      BY <1>6, <1>8, <1>9, <3>2
    <3> QED BY <3>2, <3>3 DEF HavingAggs
  <2> QED BY <2>1, <2>2 DEF AreAnonOf
<1> QED BY <1>9, <1>10, <1>11, <1>12 DEF anon

(* A junk target entry with one aggregate.                                  *)
LEMMA JunkIsAdded ==
  ASSUME NEW query \in Queries, NEW agg \in Aggrefs
  PROVE  LET more == AddJunk(query, agg)
         IN  /\ more \in Queries /\ TargetAggs(more) = TargetAggs(query) \cup {agg}
             /\ DOMAIN more.targets = 1 .. Len(query.targets) + 1
             /\ \A k \in DOMAIN query.targets : more.targets[k] = query.targets[k]
             /\ more.targets[Len(query.targets) + 1] = [expr |-> Computed, aggs |-> <<agg>>, ref |-> 0, late |-> FALSE]
             /\ more.having = query.having
             /\ more.rtable = query.rtable /\ more.where = query.where /\ more.group = query.group
             /\ more.sorted = query.sorted /\ more.limit = query.limit /\ more.offset = query.offset
<1> DEFINE junk == [expr |-> Computed, aggs |-> <<agg>>, ref |-> 0, late |-> FALSE]
           targets == Append(query.targets, junk)
           more == AddJunk(query, agg)
           n == Len(query.targets)
<1>1. more = [query EXCEPT !.targets = targets]
  BY DEF AddJunk
<1>2. junk \in TargetEntries /\ junk.aggs = <<agg>> /\ Range(<<agg>>) = {agg}
  <2>1. <<agg>> \in Seq(Aggrefs) /\ Range(<<agg>>) = {agg}
    BY RangeOfOne
  <2> QED BY <2>1 DEF TargetEntries
<1>3. query.targets \in Seq(TargetEntries) /\ n \in Nat /\ DOMAIN query.targets = 1 .. n
  BY QueryFields, LenProperties
<1> HIDE DEF junk
<1>4. /\ targets \in Seq(TargetEntries) /\ DOMAIN targets = 1 .. n + 1
      /\ \A k \in 1 .. n : targets[k] = query.targets[k]
      /\ targets[n + 1] = junk
  BY <1>2, <1>3, AppendProperties, LenProperties
<1> HIDE DEF targets, more
<1>5. /\ more \in Queries /\ more.targets = targets /\ more.having = query.having
      /\ more.rtable = query.rtable /\ more.where = query.where /\ more.group = query.group
      /\ more.sorted = query.sorted /\ more.limit = query.limit /\ more.offset = query.offset
  BY <1>1, <1>4, ChangeTargets
<1>6. TargetAggs(more) = TargetAggs(query) \cup {agg}
  <2>1. 1 .. n + 1 = (1 .. n) \cup {n + 1}
    BY <1>3
  <2> HIDE DEF n
  <2>2. TargetAggs(more) = UNION {Range(targets[k].aggs) : k \in (1 .. n) \cup {n + 1}}
    BY <1>4, <1>5, <2>1 DEF TargetAggs
  <2>3. \A k \in 1 .. n : Range(targets[k].aggs) = Range(query.targets[k].aggs)
    BY <1>4
  <2>4. Range(targets[n + 1].aggs) = {agg}
    BY <1>2, <1>4
  <2>5. TargetAggs(query) = UNION {Range(query.targets[k].aggs) : k \in 1 .. n}
    BY <1>3 DEF TargetAggs
  <2> HIDE DEF TargetAggs
  <2> QED BY <2>2, <2>3, <2>4, <2>5
<1> QED BY <1>3, <1>4, <1>5, <1>6 DEF more, junk

\* The targets that group_implicit_buckets groups by.
Implicit(query) == {k \in DOMAIN query.targets : HasVar(query.targets[k].expr)}

LEMMA ImplicitAscends ==
  ASSUME NEW query \in Queries
  PROVE  /\ Ascending(Implicit(query)) \in Seq(Nat)
         /\ Len(Ascending(Implicit(query))) > 0 <=> Implicit(query) # {}
         /\ \A i \in DOMAIN Ascending(Implicit(query)) : Ascending(Implicit(query))[i] \in Implicit(query)
         /\ \A i, j \in DOMAIN Ascending(Implicit(query)) :
              i # j => Ascending(Implicit(query))[i] # Ascending(Implicit(query))[j]
<1> DEFINE S == Implicit(query)
           n == Cardinality(S)
           list == Ascending(S)
<1>1. Len(query.targets) \in Nat /\ DOMAIN query.targets = 1 .. Len(query.targets)
  BY QueryFields, LenProperties
<1>2. S \subseteq 1 .. Len(query.targets)
  BY <1>1 DEF Implicit
<1> HIDE DEF S
<1>3. IsFiniteSet(S) /\ S \in SUBSET Nat
  <2> DEFINE m == Len(query.targets)
  <2>1. m \in Nat /\ S \subseteq 1 .. m
    BY <1>1, <1>2
  <2> HIDE DEF m
  <2>2. IsFiniteSet(1 .. m)
    BY <2>1, FS_Interval
  <2>3. S \in SUBSET (1 .. m)
    BY <2>1
  <2>4. IsFiniteSet(S)
    BY <2>2, <2>3, FS_Subset
  <2> QED BY <2>1, <2>4
<1>4. n \in Nat /\ (n = 0 <=> S = {})
  BY <1>3, FS_CardinalityType, FS_EmptySet
<1> HIDE DEF n
<1>5. S \in SUBSET Int
  BY <1>3
<1>6. /\ list \in [1 .. n -> S] /\ \A k, l \in 1 .. n : k < l => list[k] < list[l]
  BY <1>3, <1>5, AscendingSorts DEF n
<1> HIDE DEF list
<1>10. list \in [1 .. n -> Nat]
  BY <1>3, <1>6
<1>7. list \in Seq(Nat) /\ DOMAIN list = 1 .. n
  BY <1>4, <1>10
<1>8. Len(list) = n
  BY <1>4, <1>7, LenProperties
<1>9. \A i, j \in 1 .. n : i # j => list[i] # list[j]
  <2> SUFFICES ASSUME NEW i \in 1 .. n, NEW j \in 1 .. n, i # j, list[i] = list[j] PROVE FALSE
    OBVIOUS
  <2>1. list[i] \in Nat /\ (i < j \/ j < i)
    BY <1>4, <1>10
  <2> QED BY <1>6, <2>1
<1> QED BY <1>4, <1>6, <1>7, <1>8, <1>9 DEF list, S

LEMMA ImplicitIsGrouped ==
  ASSUME NEW query \in Queries
  PROVE  LET g == GroupImplicitBuckets(query)
         IN  /\ g \in Queries
             /\ g.rtable = query.rtable /\ g.where = query.where /\ g.having = query.having
             /\ g.sorted = query.sorted /\ g.limit = query.limit /\ g.offset = query.offset
             /\ g.group = query.group \o Ascending(Implicit(query))
             /\ DOMAIN g.targets = DOMAIN query.targets
             /\ TargetAggs(g) = TargetAggs(query)
             /\ \A k \in DOMAIN query.targets :
                  /\ g.targets[k].expr = query.targets[k].expr /\ g.targets[k].late = query.targets[k].late
                  /\ g.targets[k].ref = IF k \in Implicit(query) THEN k ELSE query.targets[k].ref
<1> DEFINE S == Implicit(query)
           g == GroupImplicitBuckets(query)
           group == query.group \o Ascending(S)
           targets == [k \in DOMAIN query.targets |->
                         IF k \in S THEN [query.targets[k] EXCEPT !.ref = k] ELSE query.targets[k]]
<1>1. g = [query EXCEPT !.targets = targets, !.group = group]
  BY DEF GroupImplicitBuckets, Implicit
<1>2. /\ query.targets \in Seq(TargetEntries) /\ query.group \in Seq(Nat)
      /\ Len(query.targets) \in Nat /\ DOMAIN query.targets = 1 .. Len(query.targets)
  BY QueryFields, LenProperties
<1>3. group \in Seq(Nat)
  BY <1>2, ImplicitAscends, ConcatProperties
<1> HIDE DEF S, group
<1>4. \A k \in DOMAIN query.targets :
        /\ targets[k] \in TargetEntries
        /\ targets[k].expr = query.targets[k].expr /\ targets[k].aggs = query.targets[k].aggs
        /\ targets[k].late = query.targets[k].late
        /\ targets[k].ref = IF k \in S THEN k ELSE query.targets[k].ref
  <2> SUFFICES ASSUME NEW k \in DOMAIN query.targets
               PROVE  /\ targets[k] \in TargetEntries
                      /\ targets[k].expr = query.targets[k].expr /\ targets[k].aggs = query.targets[k].aggs
                      /\ targets[k].late = query.targets[k].late
                      /\ targets[k].ref = IF k \in S THEN k ELSE query.targets[k].ref
    OBVIOUS
  <2>1. query.targets[k] \in TargetEntries /\ k \in Nat
    BY <1>2
  <2>2. targets[k] = IF k \in S THEN [query.targets[k] EXCEPT !.ref = k] ELSE query.targets[k]
    OBVIOUS
  <2> HIDE DEF targets
  <2> QED BY <2>1, <2>2 DEF TargetEntries
<1>5. DOMAIN targets = DOMAIN query.targets
  OBVIOUS
<1>6. targets \in Seq(TargetEntries)
  <2>1. targets \in [1 .. Len(query.targets) -> TargetEntries]
    BY <1>2, <1>4
  <2> QED BY <1>2, <2>1
<1> HIDE DEF targets, g
<1>7. /\ g \in Queries
      /\ g.targets = targets /\ g.group = group
      /\ g.rtable = query.rtable /\ g.where = query.where /\ g.having = query.having
      /\ g.sorted = query.sorted /\ g.limit = query.limit /\ g.offset = query.offset
  BY <1>1, <1>3, <1>6 DEF Queries
<1>8. TargetAggs(g) = TargetAggs(query)
  BY <1>4, <1>5, <1>7 DEF TargetAggs
<1> QED BY <1>4, <1>5, <1>7, <1>8 DEF g, S, group

\* A query whose aggregates can be rewritten.
IsValid(query) ==
  IsParsed(query) /\ \A agg \in AllAggs(query) : IsRewritable(agg, GatherAidRefs(query))

LowCount(query) == NewAgg("low_count", GatherAidRefs(query))

\* Where an aggregate of the target list of the anonymizing query comes from.
ComesFrom(a, query) ==
  \/ HasLowCountFilter(query) /\ a = LowCount(query)
  \/ /\ IsSimpleSelect(query)
     /\ a \in Aggrefs /\ a.fn = "anon_count_star" /\ a.aids = GatherAidRefs(query) /\ a.location = NoLocation
  \/ \E agg \in TargetAggs(query) : IsAnonOf(a, agg, GatherAidRefs(query))

\* What make_query_anonymizing makes of the aggregates.
AggsAreMade(anon, query) ==
  /\ \A a \in TargetAggs(anon) : ComesFrom(a, query)
  /\ \A agg \in TargetAggs(query) : \E a \in TargetAggs(anon) : IsAnonOf(a, agg, GatherAidRefs(query))
  /\ HasLowCountFilter(query) => LowCount(query) \in TargetAggs(anon)
  /\ IsSimpleSelect(query) => \E a \in TargetAggs(anon) : a.fn = "anon_count_star"
  /\ AreAnonOf(HavingAggs(anon), HavingAggs(query), GatherAidRefs(query))

IsJunk(entry) == entry.expr = Computed /\ entry.ref = 0 /\ entry.late = FALSE

\* What it makes of the targets: junk comes last.
TargetsAreMade(made, query) ==
  /\ made.group = IF IsSimpleSelect(query) THEN Ascending(Implicit(query)) ELSE query.group
  /\ DOMAIN query.targets \subseteq DOMAIN made.targets
  /\ \A k \in DOMAIN query.targets :
       /\ made.targets[k].expr = query.targets[k].expr /\ made.targets[k].late = query.targets[k].late
       /\ made.targets[k].ref = IF IsSimpleSelect(query) /\ k \in Implicit(query) THEN k ELSE query.targets[k].ref
  /\ \A k \in DOMAIN made.targets : k \notin DOMAIN query.targets => IsJunk(made.targets[k])

\* What it makes of the rest.
RestIsMade(anon, query) ==
  /\ anon.rtable = query.rtable /\ anon.where = query.where
  /\ anon.sorted = query.sorted /\ anon.limit = query.limit /\ anon.offset = query.offset
  /\ DOMAIN anon.having = DOMAIN query.having
  /\ TargetsAreMade(anon, query)

IsMade(anon, query) == anon \in Queries /\ AggsAreMade(anon, query) /\ RestIsMade(anon, query)

LEMMA NewAggIsAggref ==
  ASSUME NEW refs \in Seq(AidRefs), NEW fn \in Aggregates \cup AnonymizingAggs
  PROVE  NewAgg(fn, refs) \in Aggrefs
<1>1. <<>> \in Seq(Exprs) /\ fn \in STRING \cup Aggregates \cup AnonymizingAggs /\ NoLocation \in Nat /\ -1 \in Int
  BY DEF NoLocation
<1> QED BY <1>1 DEF NewAgg, Aggrefs

(* The query that is rewritten.                                             *)
LEMMA GroupedIsRewritable ==
  ASSUME NEW query, IsValid(query)
  PROVE  LET g == MakeGrouped(query)
         IN  /\ g \in Queries /\ RestIsMade(g, query)
             /\ \A agg \in AllAggs(g) : IsRewritable(agg, GatherAidRefs(query))
             /\ HavingAggs(g) = HavingAggs(query)
             /\ IF IsSimpleSelect(query)
                THEN TargetAggs(query) = {} /\ \E star \in Aggrefs : star.fn = "count_star" /\ TargetAggs(g) = {star}
                ELSE TargetAggs(g) = TargetAggs(query)
<1> DEFINE refs == GatherAidRefs(query)
           h == GroupImplicitBuckets(query)
           star == NewAgg("count_star", <<>>)
           g == AddJunkCountStar(h)
<1>1. query \in Queries
  BY DEF IsValid, IsParsed
<1>2. CASE ~IsSimpleSelect(query)
  <2>1. MakeGrouped(query) = query
    BY <1>2 DEF MakeGrouped
  <2> QED BY <1>1, <1>2, <2>1 DEF RestIsMade, TargetsAreMade, IsValid
<1>3. CASE IsSimpleSelect(query)
  <2>1. MakeGrouped(query) = g /\ g = AddJunk(h, star)
    BY <1>3 DEF MakeGrouped, AddJunkCountStar
  <2>2. /\ star \in Aggrefs /\ star.fn = "count_star" /\ star.location = NoLocation
    <3>1. "count_star" \in Aggregates \cup AnonymizingAggs /\ <<>> \in Seq(AidRefs)
      BY DEF Aggregates
    <3> QED BY <3>1, NewAggIsAggref DEF NewAgg
  <2>3. query.group = <<>> /\ TargetAggs(query) = {} /\ HavingAggs(query) = {}
    BY <1>3 DEF IsSimpleSelect, HasAggs
  <2>4. /\ h \in Queries
        /\ h.rtable = query.rtable /\ h.where = query.where /\ h.having = query.having
        /\ h.sorted = query.sorted /\ h.limit = query.limit /\ h.offset = query.offset
        /\ h.group = query.group \o Ascending(Implicit(query))
        /\ DOMAIN h.targets = DOMAIN query.targets
        /\ TargetAggs(h) = TargetAggs(query)
        /\ \A k \in DOMAIN query.targets :
             /\ h.targets[k].expr = query.targets[k].expr /\ h.targets[k].late = query.targets[k].late
             /\ h.targets[k].ref = IF k \in Implicit(query) THEN k ELSE query.targets[k].ref
    BY <1>1, ImplicitIsGrouped
  <2>5. h.group = Ascending(Implicit(query))
    <3>1. Ascending(Implicit(query)) \in Seq(Nat)
      BY <1>1, ImplicitAscends
    <3> QED BY <2>3, <2>4, <3>1, ConcatEmptySeq
  <2> HIDE DEF h, star
  <2>6. /\ g \in Queries /\ TargetAggs(g) = TargetAggs(h) \cup {star}
        /\ DOMAIN g.targets = 1 .. Len(h.targets) + 1
        /\ \A k \in DOMAIN h.targets : g.targets[k] = h.targets[k]
        /\ g.targets[Len(h.targets) + 1] = [expr |-> Computed, aggs |-> <<star>>, ref |-> 0, late |-> FALSE]
        /\ g.having = h.having
        /\ g.rtable = h.rtable /\ g.where = h.where /\ g.group = h.group
        /\ g.sorted = h.sorted /\ g.limit = h.limit /\ g.offset = h.offset
    BY <2>1, <2>2, <2>4, JunkIsAdded, SMTT(30)
  <2> HIDE DEF g
  <2>7. Len(h.targets) \in Nat /\ DOMAIN h.targets = 1 .. Len(h.targets)
    BY <2>4, QueryFields, LenProperties
  <2>8. \A k \in DOMAIN g.targets : k \notin DOMAIN query.targets => IsJunk(g.targets[k])
    <3> SUFFICES ASSUME NEW k \in DOMAIN g.targets, k \notin DOMAIN query.targets PROVE IsJunk(g.targets[k])
      OBVIOUS
    <3>1. k = Len(h.targets) + 1
      BY <2>4, <2>6, <2>7
    <3> QED BY <2>6, <3>1 DEF IsJunk
  <2>9. DOMAIN query.targets \subseteq DOMAIN g.targets
    BY <2>4, <2>6, <2>7
  <2>10. RestIsMade(g, query)
    BY <1>3, <2>4, <2>5, <2>6, <2>8, <2>9 DEF RestIsMade, TargetsAreMade
  <2>11. HavingAggs(g) = HavingAggs(query) /\ TargetAggs(g) = {star}
    BY <2>3, <2>4, <2>6 DEF HavingAggs
  <2>12. \A agg \in AllAggs(g) : IsRewritable(agg, refs)
    BY <2>2, <2>3, <2>11 DEF AllAggs, IsRewritable, Aggregates, ColumnAggregates
  <2> QED BY <1>3, <2>1, <2>2, <2>3, <2>6, <2>10, <2>11, <2>12
<1> QED BY <1>2, <1>3

(* What make_query_anonymizing makes of a query that can be rewritten.      *)
LEMMA QueryIsMade ==
  ASSUME NEW query, IsValid(query)
  PROVE  IsMade(MakeAnonymizing(query), query)
<1> DEFINE refs == GatherAidRefs(query)
           g == MakeGrouped(query)
           r == RewriteAggregates(g, refs)
           low == LowCount(query)
           anon == MakeAnonymizing(query)
<1>1. query \in Queries /\ refs \in Seq(AidRefs)
  <2>1. query \in Queries
    BY DEF IsValid, IsParsed
  <2>2. query.rtable \in Seq(Relations)
    BY <2>1, QueryFields
  <2> QED BY <2>1, <2>2, AidsAreGathered
<1>2. anon = IF HasLowCountFilter(query) THEN AddJunk(r, low) ELSE r
  BY DEF MakeAnonymizing, MakeGrouped, AddJunkLowCount, LowCount
<1>3. /\ g \in Queries /\ RestIsMade(g, query)
      /\ \A agg \in AllAggs(g) : IsRewritable(agg, refs)
      /\ HavingAggs(g) = HavingAggs(query)
  BY GroupedIsRewritable
<1>4. IsSimpleSelect(query) =>
        TargetAggs(query) = {} /\ \E star \in Aggrefs : star.fn = "count_star" /\ TargetAggs(g) = {star}
  BY GroupedIsRewritable
<1>5. ~IsSimpleSelect(query) => TargetAggs(g) = TargetAggs(query)
  BY GroupedIsRewritable
<1>6. low \in Aggrefs /\ low.fn = "low_count"
  <2>1. "low_count" \in Aggregates \cup AnonymizingAggs
    BY DEF AnonymizingAggs
  <2>2. low \in Aggrefs
    BY <1>1, <2>1, NewAggIsAggref DEF LowCount
  <2> QED BY <2>2 DEF LowCount, NewAgg
<1> HIDE DEF refs, g, low, anon
<1>7. /\ r \in Queries /\ AggregatesOnly(r, g)
      /\ AreAnonOf(TargetAggs(r), TargetAggs(g), refs)
      /\ AreAnonOf(HavingAggs(r), HavingAggs(g), refs)
  BY <1>1, <1>3, AggregatesAreRewritten
<1> HIDE DEF r
<1>8. RestIsMade(r, query)
  <2>1. \A k \in DOMAIN r.targets : k \notin DOMAIN query.targets => IsJunk(r.targets[k])
    BY <1>3, <1>7 DEF RestIsMade, TargetsAreMade, AggregatesOnly, IsJunk
  <2> QED BY <1>3, <1>7, <2>1 DEF RestIsMade, TargetsAreMade, AggregatesOnly
<1>9. /\ \A a \in TargetAggs(r) : ComesFrom(a, query)
      /\ \A agg \in TargetAggs(query) : \E a \in TargetAggs(r) : IsAnonOf(a, agg, refs)
      /\ IsSimpleSelect(query) => \E a \in TargetAggs(r) : a.fn = "anon_count_star"
  <2>1. CASE IsSimpleSelect(query)
    <3>1. PICK star \in Aggrefs : star.fn = "count_star" /\ TargetAggs(g) = {star}
      BY <1>4, <2>1
    <3>2. /\ \A a \in TargetAggs(r) : IsAnonOf(a, star, refs)
          /\ \E a \in TargetAggs(r) : IsAnonOf(a, star, refs)
      BY <1>7, <3>1 DEF AreAnonOf
    <3>3. \A a : IsAnonOf(a, star, refs) =>
                   /\ a \in Aggrefs /\ a.fn = "anon_count_star" /\ a.aids = refs /\ a.location = NoLocation
      BY <3>1 DEF IsAnonOf, AnonymizingAggs
    <3>4. \A a \in TargetAggs(r) : ComesFrom(a, query)
      BY <2>1, <3>2, <3>3 DEF ComesFrom, refs
    <3>5. TargetAggs(query) = {}
      BY <1>4, <2>1
    <3> QED BY <3>2, <3>3, <3>4, <3>5
  <2>2. CASE ~IsSimpleSelect(query)
    <3>1. AreAnonOf(TargetAggs(r), TargetAggs(query), refs)
      BY <1>5, <1>7, <2>2
    <3> QED BY <2>2, <3>1 DEF AreAnonOf, ComesFrom, refs
  <2> QED BY <2>1, <2>2
<1>10. AreAnonOf(HavingAggs(r), HavingAggs(query), refs)
  BY <1>3, <1>7
<1>11. CASE ~HasLowCountFilter(query)
  <2>1. anon = r
    BY <1>2, <1>11
  <2>2. AggsAreMade(r, query)
    BY <1>9, <1>10, <1>11 DEF AggsAreMade, refs
  <2> QED BY <1>7, <1>8, <2>1, <2>2 DEF IsMade, anon
<1>12. CASE HasLowCountFilter(query)
  <2>1. anon = AddJunk(r, low)
    BY <1>2, <1>12
  <2>2. /\ anon \in Queries /\ TargetAggs(anon) = TargetAggs(r) \cup {low}
        /\ DOMAIN anon.targets = 1 .. Len(r.targets) + 1
        /\ \A k \in DOMAIN r.targets : anon.targets[k] = r.targets[k]
        /\ anon.targets[Len(r.targets) + 1] = [expr |-> Computed, aggs |-> <<low>>, ref |-> 0, late |-> FALSE]
        /\ anon.having = r.having
        /\ anon.rtable = r.rtable /\ anon.where = r.where /\ anon.group = r.group
        /\ anon.sorted = r.sorted /\ anon.limit = r.limit /\ anon.offset = r.offset
    BY <1>6, <1>7, <2>1, JunkIsAdded
  <2>3. Len(r.targets) \in Nat /\ DOMAIN r.targets = 1 .. Len(r.targets)
    BY <1>7, QueryFields, LenProperties
  <2>4. DOMAIN r.targets \subseteq DOMAIN anon.targets
    BY <2>2, <2>3
  <2>5. \A k \in DOMAIN anon.targets : k \notin DOMAIN query.targets => IsJunk(anon.targets[k])
    <3> SUFFICES ASSUME NEW k \in DOMAIN anon.targets, k \notin DOMAIN query.targets PROVE IsJunk(anon.targets[k])
      OBVIOUS
    <3>1. CASE k \in DOMAIN r.targets
      BY <1>8, <2>2, <3>1 DEF RestIsMade, TargetsAreMade
    <3>2. CASE k \notin DOMAIN r.targets
      <4>1. k = Len(r.targets) + 1
        BY <2>2, <2>3, <3>2
      <4> QED BY <2>2, <4>1 DEF IsJunk
    <3> QED BY <3>1, <3>2
  <2>6. RestIsMade(anon, query)
    BY <1>8, <2>2, <2>4, <2>5 DEF RestIsMade, TargetsAreMade
  <2>7. HavingAggs(anon) = HavingAggs(r)
    BY <2>2 DEF HavingAggs
  <2>8. AggsAreMade(anon, query)
    BY <1>9, <1>10, <1>12, <2>2, <2>7 DEF AggsAreMade, ComesFrom, refs, low
  <2> QED BY <2>2, <2>6, <2>8 DEF IsMade, anon
<1> QED BY <1>11, <1>12

LEMMA LeastIsMember ==
  ASSUME NEW S \in SUBSET Nat, S # {}
  PROVE  Min(S) \in S /\ \A x \in S : Min(S) <= x
<1>1. \E x \in S : \A y \in S : x <= y
  BY LeastElement
<1> QED BY <1>1 DEF Min

(* The target that a reference finds is one of the query, and has that     *)
(* reference.                                                              *)
LEMMA ReferenceIsFound ==
  ASSUME NEW query, IsValid(query), NEW anon, TargetsAreMade(anon, query), DOMAIN anon.targets \subseteq Nat,
         NEW i \in DOMAIN anon.group
  PROVE  LET k == SortGroupTarget(anon, anon.group[i])
         IN  /\ k \in DOMAIN query.targets /\ anon.targets[k].ref = anon.group[i] /\ anon.group[i] # 0
             /\ query.targets[k].expr \in Exprs
             /\ \A x \in DOMAIN anon.targets : anon.targets[x].ref = anon.group[i] => k <= x
<1> DEFINE ref == anon.group[i]
           S == {k \in DOMAIN anon.targets : anon.targets[k].ref = ref}
           m == SortGroupTarget(anon, ref)
<1>1. query \in Queries
  BY DEF IsValid, IsParsed
<1>2. Len(query.targets) \in Nat /\ DOMAIN query.targets = 1 .. Len(query.targets)
  BY <1>1, QueryFields, LenProperties
<1>3. \A k \in DOMAIN query.targets :
        query.targets[k].expr \in Exprs \/ (query.targets[k].expr = Computed /\ query.targets[k].aggs # <<>>)
  <2>1. query.targets \in Seq(TargetEntries)
    BY <1>1, QueryFields
  <2>2. \A k \in DOMAIN query.targets : query.targets[k] \in TargetEntries
    BY <1>2, <2>1
  <2>3. \A k \in DOMAIN query.targets : query.targets[k].expr \in Exprs \cup {Computed}
    BY <2>2 DEF TargetEntries
  <2> QED BY <2>3 DEF IsValid, IsParsed
<1>4. \E k \in DOMAIN query.targets : k \in S /\ query.targets[k].expr \in Exprs
  <2>1. CASE IsSimpleSelect(query)
    <3>1. ref \in Implicit(query)
      BY <1>1, <1>2, <2>1, ImplicitAscends DEF TargetsAreMade
    <3>2. ref \in DOMAIN query.targets
      BY <3>1 DEF Implicit
    <3>3. anon.targets[ref].ref = ref /\ ref \in DOMAIN anon.targets
      BY <1>2, <2>1, <3>1, <3>2 DEF TargetsAreMade
    <3>4. query.targets[ref].aggs = <<>>
      <4>1. TargetAggs(query) = {}
        BY <2>1 DEF IsSimpleSelect, HasAggs
      <4>2. Range(query.targets[ref].aggs) = {}
        BY <3>2, <4>1 DEF TargetAggs
      <4>3. query.targets[ref].aggs \in Seq(Aggrefs)
        <5>1. query.targets \in Seq(TargetEntries)
          BY <1>1, QueryFields
        <5>2. query.targets[ref] \in TargetEntries
          BY <1>2, <3>2, <5>1
        <5> QED BY <5>2 DEF TargetEntries
      <4> QED BY <4>2, <4>3, EmptyRange
    <3> QED BY <1>3, <3>2, <3>3, <3>4
  <2>2. CASE ~IsSimpleSelect(query)
    <3>1. anon.group = query.group
      BY <1>2, <2>2 DEF TargetsAreMade
    <3>2. PICK k \in DOMAIN query.targets : query.targets[k].ref = ref /\ query.targets[k].aggs = <<>>
      BY <3>1 DEF IsValid, IsParsed
    <3>3. k \in DOMAIN anon.targets /\ anon.targets[k].ref = ref
      BY <1>2, <2>2, <3>2 DEF TargetsAreMade
    <3> QED BY <1>3, <3>2, <3>3
  <2> QED BY <2>1, <2>2
<1>8. ref # 0
  <2>1. CASE IsSimpleSelect(query)
    <3>1. ref \in Implicit(query)
      BY <1>1, <2>1, ImplicitAscends DEF TargetsAreMade
    <3> QED BY <1>2, <3>1 DEF Implicit
  <2>2. CASE ~IsSimpleSelect(query)
    BY <2>2 DEF TargetsAreMade, IsValid, IsParsed
  <2> QED BY <2>1, <2>2
<1>5. m \in S /\ \A x \in S : m <= x
  <2>1. S \in SUBSET Nat /\ S # {}
    BY <1>4 DEF TargetsAreMade
  <2>2. m = Min(S)
    BY DEF SortGroupTarget
  <2> HIDE DEF S, m
  <2> QED BY <2>1, <2>2, LeastIsMember
<1> HIDE DEF m
<1>6. m \in DOMAIN query.targets
  <2>1. PICK k \in DOMAIN query.targets : k \in S
    BY <1>4
  <2>2. m <= k /\ m \in Nat
    BY <1>5, <2>1
  <2>3. m \in DOMAIN anon.targets /\ (m \notin DOMAIN query.targets => ref = 0)
    BY <1>5 DEF TargetsAreMade, IsJunk
  <2> QED BY <1>2, <1>8, <2>3
<1>7. query.targets[m].expr \in Exprs
  <2>1. CASE IsSimpleSelect(query)
    <3>1. TargetAggs(query) = {}
      BY <2>1 DEF IsSimpleSelect, HasAggs
    <3>2. Range(query.targets[m].aggs) = {}
      BY <1>6, <3>1 DEF TargetAggs
    <3>3. query.targets[m].aggs \in Seq(Aggrefs)
      <4>1. query.targets \in Seq(TargetEntries)
        BY <1>1, QueryFields
      <4>2. query.targets[m] \in TargetEntries
        BY <1>2, <1>6, <4>1
      <4> QED BY <4>2 DEF TargetEntries
    <3>4. query.targets[m].aggs = <<>>
      BY <3>2, <3>3, EmptyRange
    <3> QED BY <1>3, <1>6, <3>4
  <2>2. CASE ~IsSimpleSelect(query)
    <3>1. anon.group = query.group
      BY <1>2, <2>2 DEF TargetsAreMade
    <3>2. query.targets[m].ref = ref
      BY <1>2, <1>5, <1>6, <2>2 DEF TargetsAreMade
    <3>3. query.targets[m].aggs = <<>>
      BY <1>6, <3>1, <3>2 DEF IsValid, IsParsed
    <3> QED BY <1>3, <1>6, <3>3
  <2> QED BY <2>1, <2>2
<1> QED BY <1>5, <1>6, <1>7, <1>8 DEF m

(* All that is made of a query has the same groups.                        *)
LEMMA MadeAlike ==
  ASSUME NEW query, IsValid(query),
         NEW a, TargetsAreMade(a, query), DOMAIN a.targets \subseteq Nat,
         NEW b, TargetsAreMade(b, query), DOMAIN b.targets \subseteq Nat
  PROVE  /\ a.group = b.group
         /\ \A ref \in Range(a.group) : /\ SortGroupTarget(a, ref) = SortGroupTarget(b, ref)
                                         /\ GroupingExpr(a, ref) = GroupingExpr(b, ref)
         /\ GroupingExprs(a) = GroupingExprs(b)
<1>1. a.group = b.group
  BY DEF TargetsAreMade
<1>2. ASSUME NEW i \in DOMAIN a.group
      PROVE  /\ SortGroupTarget(a, a.group[i]) = SortGroupTarget(b, a.group[i])
             /\ GroupingExpr(a, a.group[i]) = GroupingExpr(b, a.group[i])
  <2> DEFINE k == SortGroupTarget(a, a.group[i])
             l == SortGroupTarget(b, b.group[i])
  <2>1. /\ k \in DOMAIN query.targets /\ a.targets[k].ref = a.group[i]
        /\ \A x \in DOMAIN a.targets : a.targets[x].ref = a.group[i] => k <= x
    BY ReferenceIsFound
  <2>2. i \in DOMAIN b.group
    BY <1>1
  <2>3. /\ l \in DOMAIN query.targets /\ b.targets[l].ref = b.group[i]
        /\ \A x \in DOMAIN b.targets : b.targets[x].ref = b.group[i] => l <= x
    BY <2>2, ReferenceIsFound
  <2> HIDE DEF k, l
  <2>4. \A x \in DOMAIN query.targets : /\ a.targets[x].ref = b.targets[x].ref /\ a.targets[x].expr = b.targets[x].expr
                                        /\ x \in DOMAIN a.targets /\ x \in DOMAIN b.targets /\ x \in Nat
    BY DEF TargetsAreMade
  <2>5. k <= l /\ l <= k /\ k \in Nat /\ l \in Nat
    BY <1>1, <2>1, <2>3, <2>4
  <2>6. k = l
    BY <2>5
  <2> QED BY <1>1, <2>1, <2>4, <2>6 DEF GroupingExpr, k, l
<1>3. \A ref \in Range(a.group) : /\ SortGroupTarget(a, ref) = SortGroupTarget(b, ref)
                                  /\ GroupingExpr(a, ref) = GroupingExpr(b, ref)
  BY <1>2 DEF Range
<1> QED BY <1>1, <1>3 DEF GroupingExprs

(* make_query_anonymizing makes the targets.                               *)
LEMMA TargetsOfMade ==
  ASSUME NEW query, IsValid(query)
  PROVE  /\ TargetsAreMade(MakeAnonymizing(query), query) /\ DOMAIN MakeAnonymizing(query).targets \subseteq Nat
         /\ TargetsAreMade(MakeGrouped(query), query) /\ DOMAIN MakeGrouped(query).targets \subseteq Nat
         /\ MakeAnonymizing(query) \in Queries /\ MakeGrouped(query) \in Queries
<1> DEFINE anon == MakeAnonymizing(query)
           g == MakeGrouped(query)
<1>1. anon \in Queries /\ RestIsMade(anon, query)
  BY QueryIsMade DEF IsMade
<1>2. g \in Queries /\ RestIsMade(g, query)
  BY GroupedIsRewritable
<1> HIDE DEF anon, g
<1>3. DOMAIN anon.targets \subseteq Nat /\ DOMAIN g.targets \subseteq Nat
  <2>1. anon.targets \in Seq(TargetEntries) /\ g.targets \in Seq(TargetEntries)
    BY <1>1, <1>2, QueryFields
  <2> QED BY <2>1, LenProperties
<1> QED BY <1>1, <1>2, <1>3 DEF RestIsMade, anon, g

\* The labels of the bins are those of grouping expressions, each one once.
LEMMA LabelsAreUsable ==
  ASSUME NEW query, IsValid(query)
  PROVE  LET cols == GroupingCols(MakeAnonymizing(query))
         IN  /\ Len(cols) \in Nat
             /\ Len(cols) > 0 <=> HasLowCountFilter(query)
             /\ \A i, j \in 1 .. Len(cols) : i # j => cols[i] # cols[j]
<1> DEFINE anon == MakeAnonymizing(query)
           cols == GroupingCols(anon)
<1>1. IsMade(anon, query) /\ query \in Queries
  BY QueryIsMade DEF IsValid, IsParsed
<1>2. /\ \A i \in DOMAIN anon.group : anon.targets[SortGroupTarget(anon, anon.group[i])].ref = anon.group[i]
      /\ \A i \in DOMAIN anon.group : SortGroupTarget(anon, anon.group[i]) \in DOMAIN query.targets
  BY TargetsOfMade, ReferenceIsFound
<1>3. cols = [k \in DOMAIN anon.group |-> SortGroupTarget(anon, anon.group[k])]
  BY DEF GroupingCols
<1> HIDE DEF anon, cols
<1>4. RestIsMade(anon, query) /\ anon.group \in Seq(Nat)
  BY <1>1, QueryFields DEF IsMade
<1>5. Len(anon.group) \in Nat /\ DOMAIN anon.group = 1 .. Len(anon.group)
  BY <1>4, LenProperties
<1>6. cols \in Seq(DOMAIN query.targets) /\ DOMAIN cols = 1 .. Len(anon.group)
  <2>1. cols \in [1 .. Len(anon.group) -> DOMAIN query.targets]
    BY <1>2, <1>3, <1>5
  <2> QED BY <1>5, <2>1
<1>7. Len(cols) = Len(anon.group)
  BY <1>5, <1>6, LenProperties
<1>8. \A i, j \in DOMAIN anon.group : i # j => anon.group[i] # anon.group[j]
  <2>1. CASE IsSimpleSelect(query)
    BY <1>1, <1>4, <2>1, ImplicitAscends DEF RestIsMade, TargetsAreMade
  <2>2. CASE ~IsSimpleSelect(query)
    BY <1>4, <2>2 DEF RestIsMade, TargetsAreMade, IsValid, IsParsed
  <2> QED BY <2>1, <2>2
<1>9. \A i, j \in 1 .. Len(cols) : i # j => cols[i] # cols[j]
  BY <1>2, <1>3, <1>5, <1>7, <1>8
<1>10. Len(anon.group) > 0 <=> HasLowCountFilter(query)
  <2>1. CASE IsSimpleSelect(query)
    <3>1. Len(anon.group) > 0 <=> Implicit(query) # {}
      BY <1>1, <1>4, <2>1, ImplicitAscends DEF RestIsMade, TargetsAreMade
    <3>2. Implicit(query) # {} <=> ~AllTargetsConstant(query)
      BY DEF Implicit, AllTargetsConstant
    <3> QED BY <2>1, <3>1, <3>2 DEF HasLowCountFilter, IsSimpleSelect
  <2>2. CASE ~IsSimpleSelect(query)
    <3>1. anon.group = query.group
      BY <1>4, <2>2 DEF RestIsMade, TargetsAreMade
    <3>2. anon.group # <<>> <=> HasLowCountFilter(query)
      BY <2>2, <3>1 DEF HasLowCountFilter, IsSimpleSelect
    <3> QED BY <1>4, <1>5, <3>2
  <2> QED BY <2>1, <2>2
<1> QED BY <1>5, <1>7, <1>9, <1>10 DEF cols, anon

\* The aggregates of the anonymizing query.
AnonAggs(query) == AllAggs(MakeAnonymizing(query))

LEMMA AnonAggsAreUsable ==
  ASSUME NEW query, IsValid(query)
  PROVE  /\ \A a \in AnonAggs(query) : a \in Aggrefs /\ a.location = NoLocation
         /\ (\E a \in AnonAggs(query) : a.fn = "low_count") <=> HasLowCountFilter(query)
         /\ IsSimpleSelect(query) => \E a \in AnonAggs(query) : a.fn = "anon_count_star"
         /\ \A a \in AnonAggs(query) : a.fn \in AnonymizingAggs => a.aids = GatherAidRefs(query)
<1> DEFINE anon == MakeAnonymizing(query)
           low == LowCount(query)
<1>1. AggsAreMade(anon, query)
  BY QueryIsMade DEF IsMade
<1>2. low \in Aggrefs /\ low.fn = "low_count" /\ low.location = NoLocation /\ low.aids = GatherAidRefs(query)
  <2>1. "low_count" \in Aggregates \cup AnonymizingAggs
    BY DEF AnonymizingAggs
  <2>2. GatherAidRefs(query) \in Seq(AidRefs)
    <3>1. query.rtable \in Seq(Relations)
      BY QueryFields DEF IsValid, IsParsed
    <3> QED BY <3>1, AidsAreGathered
  <2>3. low \in Aggrefs
    BY <2>1, <2>2, NewAggIsAggref DEF LowCount
  <2> QED BY <2>3 DEF LowCount, NewAgg
<1>3. \A a, agg : IsAnonOf(a, agg, GatherAidRefs(query)) =>
        /\ a \in Aggrefs /\ a.location = NoLocation /\ a.fn # "low_count"
        /\ a.fn \in AnonymizingAggs => a.aids = GatherAidRefs(query)
  BY DEF IsAnonOf
<1> HIDE DEF anon, low
<1>4. \A a \in AllAggs(anon) :
        /\ a \in Aggrefs /\ a.location = NoLocation
        /\ a.fn = "low_count" => HasLowCountFilter(query)
        /\ a.fn \in AnonymizingAggs => a.aids = GatherAidRefs(query)
  BY <1>1, <1>2, <1>3 DEF AllAggs, AggsAreMade, ComesFrom, AreAnonOf, low
<1>5. HasLowCountFilter(query) => \E a \in AllAggs(anon) : a.fn = "low_count"
  BY <1>1, <1>2 DEF AllAggs, AggsAreMade, low
<1>6. IsSimpleSelect(query) => \E a \in AllAggs(anon) : a.fn = "anon_count_star"
  BY <1>1 DEF AllAggs, AggsAreMade
<1> QED BY <1>4, <1>5, <1>6 DEF AnonAggs, anon

(* count_histogram counts the AIDs that are named, and no others.           *)
LEMMA NamedAidsAreCounted ==
  ASSUME NEW query, IsValid(query)
  PROVE  {a.aids[a.counted + 1] : a \in {a \in AnonAggs(query) : a.fn = "anon_count_histogram"}}
         = {NamedAid(agg) : agg \in {agg \in AllAggs(query) : agg.fn = "count_histogram"}}
<1> DEFINE anon == MakeAnonymizing(query)
           refs == GatherAidRefs(query)
<1>1. AggsAreMade(anon, query)
  BY QueryIsMade DEF IsMade
<1>2. \A a, agg : IsAnonOf(a, agg, refs) =>
        /\ a.fn = "anon_count_histogram" <=> agg.fn = "count_histogram"
        /\ agg.fn = "count_histogram" => a.aids[a.counted + 1] = NamedAid(agg)
  BY DEF IsAnonOf, AnonymizingAggs
<1>3. LowCount(query).fn = "low_count"
  BY DEF LowCount, NewAgg
<1> HIDE DEF anon, refs
<1>4. ASSUME NEW a \in AllAggs(anon), a.fn = "anon_count_histogram"
      PROVE  \E agg \in AllAggs(query) : agg.fn = "count_histogram" /\ a.aids[a.counted + 1] = NamedAid(agg)
  <2>1. \E agg \in AllAggs(query) : IsAnonOf(a, agg, refs)
    BY <1>1, <1>3, <1>4 DEF AllAggs, AggsAreMade, ComesFrom, AreAnonOf, refs
  <2> QED BY <1>2, <1>4, <2>1
<1>5. ASSUME NEW agg \in AllAggs(query), agg.fn = "count_histogram"
      PROVE  \E a \in AllAggs(anon) : a.fn = "anon_count_histogram" /\ a.aids[a.counted + 1] = NamedAid(agg)
  <2>1. \E a \in AllAggs(anon) : IsAnonOf(a, agg, refs)
    BY <1>1 DEF AllAggs, AggsAreMade, AreAnonOf, refs
  <2> QED BY <1>2, <1>5, <2>1
<1>6. AnonAggs(query) = AllAggs(anon)
  BY DEF AnonAggs, anon
<1> QED BY <1>4, <1>5, <1>6

(* An anonymizing query has an aggregate to link, if not all of its         *)
(* aggregates are in HAVING.                                                *)
LEMMA SomeAggIsLinked ==
  ASSUME NEW query, IsValid(query), ~AggregatesInHavingOnly(query)
  PROVE  \E a \in TargetAggs(MakeAnonymizing(query)) : IsLinked(a)
<1> DEFINE anon == MakeAnonymizing(query)
<1>1. AggsAreMade(anon, query)
  BY QueryIsMade DEF IsMade
<1> HIDE DEF anon
<1>2. CASE HasLowCountFilter(query)
  <2>1. LowCount(query).fn = "low_count"
    BY DEF LowCount, NewAgg
  <2> QED BY <1>1, <1>2, <2>1 DEF AggsAreMade, IsLinked, AnonymizingAggs, anon
<1>3. CASE IsSimpleSelect(query)
  BY <1>1, <1>3 DEF AggsAreMade, IsLinked, AnonymizingAggs, anon
<1>4. CASE ~HasLowCountFilter(query) /\ ~IsSimpleSelect(query)
  <2>1. query.group = <<>> /\ HasAggs(query)
    BY <1>4 DEF HasLowCountFilter, IsSimpleSelect
  <2>2. PICK agg \in TargetAggs(query) : agg.fn # "is_suppress_bin"
    BY <2>1 DEF AggregatesInHavingOnly
  <2>3. PICK a \in TargetAggs(anon) : IsAnonOf(a, agg, GatherAidRefs(query))
    BY <1>1 DEF AggsAreMade
  <2>4. a.fn \in AnonymizingAggs
    BY <2>2, <2>3 DEF IsAnonOf
  <2> QED BY <2>4 DEF IsLinked, anon
<1> QED BY <1>2, <1>3, <1>4

-----------------------------------------------------------------------------
(* Links                                                                   *)

Positions(query) == UNION {{k} \X DOMAIN query.targets[k].aggs : k \in DOMAIN query.targets}

LEMMA PositionsAreFinite ==
  ASSUME NEW query \in Queries
  PROVE  IsFiniteSet(Positions(query)) /\ Positions(query) \subseteq Nat \X Nat
<1> DEFINE At(k) == {k} \X DOMAIN query.targets[k].aggs
           n == Len(query.targets)
           T == {m \in Nat : m <= n => IsFiniteSet(UNION {At(k) : k \in 1 .. m})}
<1>1. n \in Nat /\ DOMAIN query.targets = 1 .. n
  BY QueryFields, LenProperties
<1>2. \A k \in 1 .. n : IsFiniteSet(At(k)) /\ At(k) \subseteq Nat \X Nat
  <2> SUFFICES ASSUME NEW k \in 1 .. n PROVE IsFiniteSet(At(k)) /\ At(k) \subseteq Nat \X Nat
    OBVIOUS
  <2>1. query.targets[k].aggs \in Seq(Aggrefs)
    <3>1. query.targets \in Seq(TargetEntries)
      BY QueryFields
    <3>2. query.targets[k] \in TargetEntries
      BY <1>1, <3>1
    <3> QED BY <3>2 DEF TargetEntries
  <2> DEFINE aggs == query.targets[k].aggs
  <2>2. Len(aggs) \in Nat /\ DOMAIN aggs = 1 .. Len(aggs)
    BY <2>1, LenProperties
  <2> HIDE DEF aggs
  <2>3. IsFiniteSet(DOMAIN aggs) /\ DOMAIN aggs \subseteq Nat
    BY <2>2, FS_Interval
  <2>4. IsFiniteSet({k})
    BY FS_Singleton
  <2>5. IsFiniteSet({k} \X DOMAIN aggs)
    BY <2>3, <2>4, FS_Product
  <2>6. {k} \X DOMAIN aggs \subseteq Nat \X Nat
    BY <1>1, <2>3
  <2> QED BY <2>5, <2>6 DEF aggs
<1> HIDE DEF At, n
<1>3. 0 \in T
  <2>1. UNION {At(k) : k \in 1 .. 0} = {}
    OBVIOUS
  <2> QED BY <2>1, FS_EmptySet
<1>4. ASSUME NEW m \in Nat, m \in T PROVE m + 1 \in T
  <2> SUFFICES ASSUME m + 1 <= n PROVE IsFiniteSet(UNION {At(k) : k \in 1 .. m + 1})
    OBVIOUS
  <2>1. IsFiniteSet(UNION {At(k) : k \in 1 .. m}) /\ IsFiniteSet(At(m + 1))
    BY <1>1, <1>2, <1>4
  <2>2. 1 .. m + 1 = (1 .. m) \cup {m + 1}
    OBVIOUS
  <2>3. UNION {At(k) : k \in 1 .. m + 1} = (UNION {At(k) : k \in 1 .. m}) \cup At(m + 1)
    BY <2>2
  <2> QED BY <2>1, <2>3, FS_Union, ZenonT(30)
<1>5. n \in T
  <2> HIDE DEF T
  <2>1. Nat \subseteq T
    BY <1>3, <1>4, SetInduction
  <2> QED BY <1>1, <2>1
<1>6. Positions(query) = UNION {At(k) : k \in 1 .. n}
  BY <1>1 DEF Positions, At
<1>7. UNION {At(k) : k \in 1 .. n} \subseteq Nat \X Nat
  BY <1>2
<1> QED BY <1>1, <1>5, <1>6, <1>7

(* The walk over the target list comes once to every linked aggregate.      *)
LEMMA WalkIsComplete ==
  ASSUME NEW query \in Queries
  PROVE  LET n == Cardinality(LinkedPositions(query))
         IN  /\ n \in Nat /\ DOMAIN Walk(query) = 1 .. n
             /\ \A i \in 1 .. n : Walk(query)[i] \in LinkedPositions(query)
             /\ \A p \in LinkedPositions(query) :
                  LinkIndex(query, p) \in 1 .. n /\ Walk(query)[LinkIndex(query, p)] = p
<1> DEFINE S == LinkedPositions(query)
           order == {pair \in S \X S : IsWalkedBefore(pair[1], pair[2])}
           n == Cardinality(S)
           walk == Walk(query)
<1>1. walk = InOrder(S, order)
  BY DEF Walk
<1>2. IsFiniteSet(S) /\ S \subseteq Nat \X Nat
  <2>1. S \in SUBSET Positions(query)
    BY DEF LinkedPositions, Positions
  <2> HIDE DEF S
  <2> QED BY <2>1, PositionsAreFinite, FS_Subset
<1>3. \A x, y \in S : <<x, y>> \in order <=> IsWalkedBefore(x, y)
  OBVIOUS
<1> HIDE DEF S, order, walk
<1>4. StrictlyOrders(order, S)
  <2>1. \A x \in S : ~IsWalkedBefore(x, x)
    BY <1>2 DEF IsWalkedBefore
  <2>2. \A x, y \in S : x # y => IsWalkedBefore(x, y) \/ IsWalkedBefore(y, x)
    <3> SUFFICES ASSUME NEW x \in Nat \X Nat, NEW y \in Nat \X Nat, x # y
                 PROVE  IsWalkedBefore(x, y) \/ IsWalkedBefore(y, x)
      BY <1>2
    <3>1. x[1] # y[1] \/ x[2] # y[2]
      OBVIOUS
    <3> QED BY <3>1 DEF IsWalkedBefore
  <2>3. \A x, y, z \in S : IsWalkedBefore(x, y) /\ IsWalkedBefore(y, z) => IsWalkedBefore(x, z)
    <3> SUFFICES ASSUME NEW x \in Nat \X Nat, NEW y \in Nat \X Nat, NEW z \in Nat \X Nat,
                        IsWalkedBefore(x, y), IsWalkedBefore(y, z)
                 PROVE  IsWalkedBefore(x, z)
      BY <1>2
    <3> QED BY DEF IsWalkedBefore
  <2> QED BY <1>3, <2>1, <2>2, <2>3 DEF StrictlyOrders
<1>5. IsSortedList(walk, S, order)
  BY <1>1, <1>2, <1>4, InOrderSorts
<1>6. n \in Nat
  BY <1>2, FS_CardinalityType
<1> HIDE DEF n
<1>7. walk \in [1 .. n -> S] /\ \A x \in S : \E k \in 1 .. n : walk[k] = x
  BY <1>5 DEF IsSortedList, n
<1>8. ASSUME NEW p \in S PROVE LinkIndex(query, p) \in 1 .. n /\ walk[LinkIndex(query, p)] = p
  <2>1. \E i \in DOMAIN walk : walk[i] = p
    BY <1>7
  <2>2. LinkIndex(query, p) = CHOOSE i \in DOMAIN walk : walk[i] = p
    BY DEF LinkIndex, walk
  <2> QED BY <1>7, <2>1, <2>2
<1> QED BY <1>6, <1>7, <1>8 DEF n, walk, S

\* An aggregate, its location aside.
Unlocated(agg) == [agg EXCEPT !.location = NoLocation]

\* An aggregate and its link.
IsLinkedTo(agg, lks, context) ==
  /\ agg.location \in 1 .. Len(lks)
  /\ lks[agg.location] = [context |-> context, fn |-> agg.fn]

\* What link_anon_context makes of the aggregates, with the links lks.
AreLinkedTo(linked, aggs, lks, context) ==
  /\ {Unlocated(agg) : agg \in linked} = aggs
  /\ \A agg \in linked : IF IsLinked(agg) THEN IsLinkedTo(agg, lks, context) ELSE agg.location = NoLocation

\* Links, whatever they are.
AreLinks(lks) == lks \in Seq(Range(lks))

\* The links both are the links lks and those of the query.
AreAdded(both, lks, query, context) ==
  LET n == Cardinality(LinkedPositions(query))
  IN  /\ AreLinks(both) /\ Len(lks) \in Nat /\ Len(both) = Len(lks) + n
      /\ \A i \in 1 .. Len(lks) : both[i] = lks[i]
      /\ \A i \in 1 .. n : both[Len(lks) + i] = [context |-> context, fn |-> AggAt(query, Walk(query)[i]).fn]

LEMMA LinksAreAdded ==
  ASSUME NEW query \in Queries, NEW context, NEW lks, AreLinks(lks)
  PROVE  AreAdded(lks \o NewLinks(query, context), lks, query, context)
<1> DEFINE n == Cardinality(LinkedPositions(query))
           new == NewLinks(query, context)
           both == lks \o new
           S == Range(lks) \cup Range(new)
           T == Range(both)
<1>1. n \in Nat /\ DOMAIN Walk(query) = 1 .. n
  BY WalkIsComplete
<1> HIDE DEF n
<1>2. new = [i \in 1 .. n |-> [context |-> context, fn |-> AggAt(query, Walk(query)[i]).fn]]
  BY <1>1 DEF NewLinks
<1> HIDE DEF new
<1>3. new \in [1 .. n -> Range(new)]
  BY <1>2 DEF Range
<1>4. new \in Seq(Range(new))
  BY <1>1, <1>3
<1>5. Len(new) = n
  <2>1. DOMAIN new = 1 .. n /\ DOMAIN new = 1 .. Len(new) /\ Len(new) \in Nat
    BY <1>3, <1>4, LenProperties
  <2> QED BY <1>1, <2>1
<1>6. lks \in Seq(S) /\ new \in Seq(S)
  <2>1. lks \in Seq(Range(lks)) /\ Range(lks) \subseteq S /\ Range(new) \subseteq S
    BY DEF AreLinks
  <2> HIDE DEF S
  <2> QED BY <1>4, <2>1, SeqMonotonic
<1> HIDE DEF S
<1>7. /\ both \in Seq(S) /\ Len(both) = Len(lks) + n /\ Len(lks) \in Nat
      /\ \A i \in 1 .. Len(lks) + n : both[i] = IF i <= Len(lks) THEN lks[i] ELSE new[i - Len(lks)]
  BY <1>5, <1>6, ConcatProperties, LenProperties
<1> HIDE DEF both
<1>8. AreLinks(both)
  <2>1. DOMAIN both = 1 .. Len(both) /\ Len(both) \in Nat /\ both \in [1 .. Len(both) -> S]
    BY <1>7, LenProperties
  <2>2. both \in [1 .. Len(both) -> Range(both)]
    BY <2>1 DEF Range
  <2> QED BY <2>1, <2>2 DEF AreLinks
<1>9. \A i \in 1 .. Len(lks) : both[i] = lks[i]
  BY <1>1, <1>7
<1>10. ASSUME NEW i \in 1 .. n
       PROVE  both[Len(lks) + i] = [context |-> context, fn |-> AggAt(query, Walk(query)[i]).fn]
  <2>1. Len(lks) + i \in 1 .. Len(lks) + n /\ ~(Len(lks) + i <= Len(lks)) /\ (Len(lks) + i) - Len(lks) = i
    BY <1>1, <1>7
  <2>2. both[Len(lks) + i] = new[i]
    BY <1>7, <2>1
  <2> QED BY <1>2, <2>2
<1> QED BY <1>7, <1>8, <1>9, <1>10 DEF AreAdded, both, new, n

LEMMA Relocated ==
  ASSUME NEW agg \in Aggrefs, agg.location = NoLocation, NEW l \in Nat, NEW moved,
         moved = [agg EXCEPT !.location = l]
  PROVE  moved \in Aggrefs /\ moved.location = l /\ moved.fn = agg.fn /\ Unlocated(moved) = agg
<1>1. moved \in Aggrefs /\ moved.location = l /\ moved.fn = agg.fn
  BY DEF Aggrefs
<1>2. Unlocated(moved) = agg
  BY DEF Unlocated, Aggrefs
<1> QED BY <1>1, <1>2

LEMMA UnlocatedIsSame ==
  ASSUME NEW agg \in Aggrefs, agg.location = NoLocation
  PROVE  Unlocated(agg) = agg
BY DEF Unlocated, Aggrefs

\* The targets of the queries differ in their aggregates only.
SameTargets(a, b) ==
  /\ a.group = b.group /\ DOMAIN a.targets = DOMAIN b.targets
  /\ \A k \in DOMAIN b.targets : /\ a.targets[k].expr = b.targets[k].expr /\ a.targets[k].ref = b.targets[k].ref
                                /\ a.targets[k].late = b.targets[k].late

(* link_anon_context links the anonymizing aggregates of the target list to *)
(* the context, and changes nothing else; make_query_anonymizing is done.   *)
LEMMA AggsAreLinked ==
  ASSUME NEW query \in Queries, \A agg \in TargetAggs(query) : agg.location = NoLocation,
         NEW context, AreLinks(links), NEW limit \in Nat \cup {NoLimit}
  PROVE  LET linked == [LinkAggs(query) EXCEPT !.limit = limit]
         IN  /\ linked \in Queries /\ linked.limit = limit /\ linked.offset = query.offset
             /\ linked.having = query.having /\ linked.sorted = query.sorted /\ SameTargets(linked, query)
             /\ AreLinkedTo(TargetAggs(linked), TargetAggs(query), links \o NewLinks(query, context), context)
<1> DEFINE lks == links \o NewLinks(query, context)
           n == Cardinality(LinkedPositions(query))
           Moved(k, j) == Link(query, <<k, j>>)
           Aggs(k) == [j \in DOMAIN query.targets[k].aggs |-> Moved(k, j)]
           targets == [k \in DOMAIN query.targets |-> [query.targets[k] EXCEPT !.aggs = Aggs(k)]]
           linked == [LinkAggs(query) EXCEPT !.limit = limit]
<1>1. linked = [[query EXCEPT !.targets = targets] EXCEPT !.limit = limit]
  BY DEF LinkAggs
<1>2. /\ n \in Nat /\ AreLinks(lks) /\ Len(links) \in Nat /\ Len(lks) = Len(links) + n
      /\ \A i \in 1 .. n : lks[Len(links) + i] = [context |-> context, fn |-> AggAt(query, Walk(query)[i]).fn]
  <2>1. n \in Nat
    BY WalkIsComplete
  <2>2. AreAdded(lks, links, query, context)
    BY LinksAreAdded
  <2> HIDE DEF lks
  <2> QED BY <2>1, <2>2 DEF AreAdded
<1>3. /\ query.targets \in Seq(TargetEntries)
      /\ Len(query.targets) \in Nat /\ DOMAIN query.targets = 1 .. Len(query.targets)
  BY QueryFields, LenProperties
<1> HIDE DEF lks, n
<1>4. ASSUME NEW k \in DOMAIN query.targets
      PROVE  /\ query.targets[k] \in TargetEntries /\ query.targets[k].aggs \in Seq(Aggrefs)
             /\ Len(query.targets[k].aggs) \in Nat
             /\ DOMAIN query.targets[k].aggs = 1 .. Len(query.targets[k].aggs)
  <2>1. query.targets[k] \in TargetEntries
    BY <1>3
  <2>2. query.targets[k].aggs \in Seq(Aggrefs)
    BY <2>1 DEF TargetEntries
  <2> QED BY <2>1, <2>2, LenProperties
<1>5. ASSUME NEW k \in DOMAIN query.targets, NEW j \in DOMAIN query.targets[k].aggs
      PROVE  /\ Moved(k, j) \in Aggrefs /\ Unlocated(Moved(k, j)) = query.targets[k].aggs[j]
             /\ IF IsLinked(Moved(k, j)) THEN IsLinkedTo(Moved(k, j), lks, context)
                                         ELSE Moved(k, j).location = NoLocation
  <2> DEFINE agg == query.targets[k].aggs[j]
             m == Moved(k, j)
             i == LinkIndex(query, <<k, j>>)
  <2>1. agg \in Aggrefs /\ agg.location = NoLocation
    <3>1. agg \in Aggrefs
      BY <1>4
    <3>2. agg \in TargetAggs(query)
      BY DEF TargetAggs, Range
    <3> QED BY <3>1, <3>2
  <2>2. CASE ~IsLinked(agg)
    <3>1. m = agg
      BY <2>2 DEF Link, AggAt
    <3> HIDE DEF m, agg
    <3> QED BY <2>1, <2>2, <3>1, UnlocatedIsSame DEF m, agg
  <2>3. CASE IsLinked(agg)
    <3>1. <<k, j>> \in LinkedPositions(query) /\ AggAt(query, <<k, j>>) = agg
      BY <2>3 DEF LinkedPositions, AggAt
    <3>2. i \in 1 .. n /\ Walk(query)[i] = <<k, j>>
      BY <3>1, WalkIsComplete DEF n
    <3>3. m = [agg EXCEPT !.location = Len(links) + i]
      BY <2>3 DEF Location, Link, AggAt
    <3> HIDE DEF m, agg, i
    <3>4. Len(links) + i \in 1 .. Len(lks) /\ Len(links) + i \in Nat
      BY <1>2, <3>2
    <3>5. m \in Aggrefs /\ m.location = Len(links) + i /\ m.fn = agg.fn /\ Unlocated(m) = agg
      BY <2>1, <3>3, <3>4, Relocated
    <3>6. lks[Len(links) + i] = [context |-> context, fn |-> agg.fn]
      BY <1>2, <3>1, <3>2
    <3>7. IsLinkedTo(m, lks, context)
      BY <3>4, <3>5, <3>6 DEF IsLinkedTo
    <3>8. IsLinked(m)
      BY <2>3, <3>5 DEF IsLinked
    <3> QED BY <3>5, <3>7, <3>8 DEF m, agg
  <2> QED BY <2>2, <2>3
<1>6. ASSUME NEW k \in DOMAIN query.targets
      PROVE  Aggs(k) \in Seq(Aggrefs) /\ DOMAIN Aggs(k) = DOMAIN query.targets[k].aggs
  <2>1. Aggs(k) \in [1 .. Len(query.targets[k].aggs) -> Aggrefs]
    <3> HIDE DEF Moved
    <3> QED BY <1>4, <1>5
  <2>2. DOMAIN Aggs(k) = DOMAIN query.targets[k].aggs
    OBVIOUS
  <2> HIDE DEF Aggs
  <2> QED BY <1>4, <2>1, <2>2
<1>7. \A k \in DOMAIN query.targets : \A j \in DOMAIN query.targets[k].aggs : Aggs(k)[j] = Moved(k, j)
  OBVIOUS
<1> HIDE DEF Moved, Aggs
<1>8. \A k \in DOMAIN query.targets :
        /\ targets[k] \in TargetEntries /\ targets[k].aggs = Aggs(k)
        /\ targets[k].expr = query.targets[k].expr /\ targets[k].ref = query.targets[k].ref
        /\ targets[k].late = query.targets[k].late
  <2> SUFFICES ASSUME NEW k \in DOMAIN query.targets
               PROVE  /\ targets[k] \in TargetEntries /\ targets[k].aggs = Aggs(k)
                      /\ targets[k].expr = query.targets[k].expr /\ targets[k].ref = query.targets[k].ref
                      /\ targets[k].late = query.targets[k].late
    OBVIOUS
  <2>1. targets[k] = [query.targets[k] EXCEPT !.aggs = Aggs(k)]
    OBVIOUS
  <2> HIDE DEF targets
  <2> QED BY <1>4, <1>6, <2>1 DEF TargetEntries
<1>9. DOMAIN targets = DOMAIN query.targets
  OBVIOUS
<1> HIDE DEF targets, linked
<1>10. targets \in Seq(TargetEntries)
  <2>1. targets \in [1 .. Len(query.targets) -> TargetEntries]
    <3>1. targets = [k \in DOMAIN query.targets |-> targets[k]]
      BY DEF targets
    <3> QED BY <1>3, <1>8, <1>9, <3>1
  <2> QED BY <1>3, <2>1
<1>11. /\ linked \in Queries /\ linked.targets = targets /\ linked.limit = limit
       /\ linked.having = query.having /\ linked.sorted = query.sorted /\ linked.offset = query.offset
       /\ linked.group = query.group
  BY <1>1, <1>10 DEF Queries
<1>16. SameTargets(linked, query)
  BY <1>8, <1>9, <1>11 DEF SameTargets
<1>12. \A agg \in TargetAggs(linked) :
         \E k \in DOMAIN query.targets : \E j \in DOMAIN query.targets[k].aggs : agg = Moved(k, j)
  <2> SUFFICES ASSUME NEW agg \in TargetAggs(linked)
               PROVE  \E k \in DOMAIN query.targets : \E j \in DOMAIN query.targets[k].aggs : agg = Moved(k, j)
    OBVIOUS
  <2>1. PICK k \in DOMAIN query.targets : agg \in Range(Aggs(k))
    BY <1>8, <1>9, <1>11 DEF TargetAggs
  <2> QED BY <1>6, <1>7, <2>1 DEF Range
<1>13. \A k \in DOMAIN query.targets : \A j \in DOMAIN query.targets[k].aggs : Moved(k, j) \in TargetAggs(linked)
  <2> SUFFICES ASSUME NEW k \in DOMAIN query.targets, NEW j \in DOMAIN query.targets[k].aggs
               PROVE  Moved(k, j) \in TargetAggs(linked)
    OBVIOUS
  <2>1. Moved(k, j) \in Range(Aggs(k))
    BY <1>6, <1>7 DEF Range
  <2> QED BY <1>8, <1>9, <1>11, <2>1 DEF TargetAggs
<1>14. {Unlocated(agg) : agg \in TargetAggs(linked)} = TargetAggs(query)
  <2>1. ASSUME NEW agg \in TargetAggs(linked) PROVE Unlocated(agg) \in TargetAggs(query)
    <3>1. PICK k \in DOMAIN query.targets : \E j \in DOMAIN query.targets[k].aggs : agg = Moved(k, j)
      BY <1>12
    <3>2. PICK j \in DOMAIN query.targets[k].aggs : agg = Moved(k, j)
      BY <3>1
    <3>3. Unlocated(agg) = query.targets[k].aggs[j]
      BY <1>5, <3>2
    <3> QED BY <3>3 DEF TargetAggs, Range
  <2>2. ASSUME NEW a \in TargetAggs(query) PROVE \E agg \in TargetAggs(linked) : a = Unlocated(agg)
    <3>1. PICK k \in DOMAIN query.targets : a \in Range(query.targets[k].aggs)
      BY DEF TargetAggs
    <3>2. PICK j \in DOMAIN query.targets[k].aggs : a = query.targets[k].aggs[j]
      BY <3>1 DEF Range
    <3>3. a = Unlocated(Moved(k, j))
      BY <1>5, <3>2
    <3> QED BY <1>13, <3>3
  <2> QED BY <2>1, <2>2
<1>15. \A agg \in TargetAggs(linked) :
         IF IsLinked(agg) THEN IsLinkedTo(agg, lks, context) ELSE agg.location = NoLocation
  BY <1>5, <1>12
<1> QED BY <1>11, <1>14, <1>15, <1>16 DEF AreLinkedTo, linked, lks

-----------------------------------------------------------------------------
(* Expressions                                                             *)

\* From each element of R the chain goes on to the next one.
AreChains(D, R, next, V, base) ==
  R \subseteq D /\ (\A e \in R : next[e] \in D) /\ V # {} /\ (\A e \in D : base[e] \in V)

Follows(f, D, R, next, V, base) ==
  f \in [D -> V] /\ \A e \in D : f[e] = IF e \in R THEN f[next[e]] ELSE base[e]

(* A function that is defined along chains: there is one, even if the       *)
(* chains have no end.                                                      *)
LEMMA ChainsAreFollowed ==
  ASSUME NEW D, NEW R, NEW next, NEW V, NEW base, AreChains(D, R, next, V, base)
  PROVE  \E f : Follows(f, D, R, next, V, base)
<1> USE DEF AreChains
<1> DEFINE Closed(C) == /\ \A e \in D \ R : <<e, base[e]>> \in C
                        /\ \A e \in R : \A u \in V : <<next[e], u>> \in C => <<e, u>> \in C
           T == {p \in D \X V : \A C \in SUBSET (D \X V) : Closed(C) => p \in C}
           Choice(e) == CHOOSE u \in V : <<e, u>> \in T \/ \A v \in V : <<e, v>> \notin T
           f == [e \in D |-> Choice(e)]
<1>1. T \in SUBSET (D \X V) /\ Closed(T)
  <2>1. T \in SUBSET (D \X V)
    OBVIOUS
  <2>2. ASSUME NEW e \in D \ R PROVE <<e, base[e]>> \in T
    OBVIOUS
  <2>3. ASSUME NEW e \in R, NEW u \in V, <<next[e], u>> \in T PROVE <<e, u>> \in T
    <3>1. <<e, u>> \in D \X V
      OBVIOUS
    <3>2. ASSUME NEW C \in SUBSET (D \X V), Closed(C) PROVE <<e, u>> \in C
      <4>1. <<next[e], u>> \in C
        BY <2>3, <3>2
      <4> QED BY <3>2, <4>1
    <3> QED BY <3>1, <3>2
  <2> QED BY <2>1, <2>2, <2>3
<1>2. \A C \in SUBSET (D \X V) : Closed(C) => T \subseteq C
  OBVIOUS
<1> HIDE DEF T
<1>3. ASSUME NEW e \in D \ R PROVE Choice(e) = base[e]
  <2>1. \A u \in V : <<e, u>> \in T => u = base[e]
    <3> SUFFICES ASSUME NEW u \in V, <<e, u>> \in T, u # base[e] PROVE FALSE
      OBVIOUS
    <3> DEFINE C == (D \X V) \ {<<e, u>>}
    <3>1. \A x \in D \ R : <<x, base[x]>> \in C
      OBVIOUS
    <3>2. \A x \in R : \A v \in V : <<x, v>> \in C
      OBVIOUS
    <3>3. C \in SUBSET (D \X V) /\ Closed(C) /\ <<e, u>> \notin C
      BY <3>1, <3>2
    <3> HIDE DEF C, Closed
    <3> QED BY <1>2, <3>3
  <2>2. base[e] \in V /\ <<e, base[e]>> \in T
    BY <1>1
  <2> QED BY <2>1, <2>2
<1>4. ASSUME NEW e \in R PROVE Choice(e) = Choice(next[e])
  <2>1. \A u \in V : <<e, u>> \in T <=> <<next[e], u>> \in T
    <3>1. \A u \in V : <<next[e], u>> \in T => <<e, u>> \in T
      BY <1>1
    <3>2. ASSUME NEW u \in V, <<e, u>> \in T, <<next[e], u>> \notin T PROVE FALSE
      <4> DEFINE C == T \ {<<e, u>>}
      <4>1. \A x \in D \ R : <<x, base[x]>> \in C
        BY <1>1
      <4>2. ASSUME NEW x \in R, NEW v \in V, <<next[x], v>> \in C PROVE <<x, v>> \in C
        <5>1. <<x, v>> \in T /\ <<next[x], v>> \in T
          BY <1>1, <4>2
        <5>2. <<x, v>> # <<e, u>>
          BY <3>2, <5>1
        <5> QED BY <5>1, <5>2
      <4>3. C \in SUBSET (D \X V) /\ Closed(C) /\ <<e, u>> \notin C
        <5> HIDE DEF C
        <5>1. C \in SUBSET (D \X V) /\ <<e, u>> \notin C
          BY <1>1 DEF C
        <5> QED BY <4>1, <4>2, <5>1
      <4> HIDE DEF C, Closed
      <4> QED BY <1>2, <3>2, <4>3
    <3> QED BY <3>1, <3>2
  <2> QED BY <2>1
<1>7. \A e \in D : Choice(e) \in V
  <2> SUFFICES ASSUME NEW e \in D PROVE Choice(e) \in V
    OBVIOUS
  <2>1. \E u \in V : <<e, u>> \in T \/ \A v \in V : <<e, v>> \notin T
    OBVIOUS
  <2> QED BY <2>1
<1> HIDE DEF Choice
<1>5. f \in [D -> V]
  BY <1>7
<1> HIDE DEF f
<1>6. \A e \in D : f[e] = IF e \in R THEN f[next[e]] ELSE base[e]
  BY <1>3, <1>4 DEF f
<1> QED BY <1>5, <1>6 DEF Follows

\* What the provers need to know of an expression.
LEMMA ExpressionFacts ==
  ASSUME NEW e \in Exprs
  PROVE  /\ e.node \in NodeTypes /\ e.args \in Seq(Exprs) /\ Len(e.args) \in Nat
         /\ DOMAIN e.args = 1 .. Len(e.args)
         /\ \A k \in DOMAIN e.args : e.args[k] \in Exprs
         /\ Height[e] \in Nat /\ \A k \in DOMAIN e.args : Height[e.args[k]] < Height[e]
         /\ e.node = "FuncExpr" /\ e.name \in {"text_substr", "round_by"} => Len(e.args) = 2
         /\ IsStable(e) => e.args = <<>>
         /\ IsUnwrapped(e) => 1 \in DOMAIN e.args
         /\ e # Computed
<1>1. e \in [node: NodeTypes, name: STRING, type: STRING, args: Seq(Exprs), rte: Nat]
  BY ValidationAssumption
<1>2. e.node \in NodeTypes /\ e.args \in Seq(Exprs)
  BY <1>1
<1>3. Len(e.args) \in Nat /\ DOMAIN e.args = 1 .. Len(e.args) /\ \A k \in DOMAIN e.args : e.args[k] \in Exprs
  BY <1>2, LenProperties
<1>4. Height[e] \in Nat /\ \A k \in DOMAIN e.args : Height[e.args[k]] < Height[e]
  BY ValidationAssumption
<1>5. /\ e.node = "FuncExpr" /\ e.name \in {"i4tod", "dtoi4"} => Len(e.args) = 1
      /\ e.node = "FuncExpr" /\ e.name \in {"text_substr", "round_by"} => Len(e.args) = 2
      /\ e.node \in {"RelabelType", "CoerceViaIO"} => Len(e.args) = 1
  BY ValidationAssumption DEF TwoArguments, OneArgument
<1>8. IsStable(e) => e.args = <<>>
  BY ValidationAssumption DEF IsStable
<1>6. IsUnwrapped(e) => 1 \in DOMAIN e.args
  BY <1>3, <1>5, SMTT(30) DEF IsUnwrapped, IsAllowedCast, IsDatetimeToString, AllowedCasts, DecimalIntegerCasts
<1>7. e # Computed
  <2>1. Computed.node = "Computed" /\ "Computed" \notin NodeTypes
    BY DEF Computed, NodeTypes
  <2> QED BY <1>2, <2>1
<1> QED BY <1>2, <1>3, <1>4, <1>5, <1>6, <1>7, <1>8

(* unwrap_cast                                                              *)
LEMMA UnwrapUnfolds ==
  \A e \in Exprs : UnwrapCast[e] = IF IsUnwrapped(e) THEN UnwrapCast[e.args[1]] ELSE e
<1> DEFINE R == {e \in Exprs : IsUnwrapped(e)}
           next == [e \in R |-> e.args[1]]
           base == [e \in Exprs |-> e]
           Step(f) == [e \in Exprs |-> IF IsUnwrapped(e) THEN f[e.args[1]] ELSE e]
<1>1. \A e \in R : next[e] \in Exprs
  BY ExpressionFacts
<1>2. R \in SUBSET Exprs
  OBVIOUS
<1>3. \A e \in Exprs : base[e] = e
  OBVIOUS
<1>4. \A e \in R : next[e] = e.args[1]
  OBVIOUS
<1>5. \A e \in Exprs : e \in R <=> IsUnwrapped(e)
  OBVIOUS
<1> HIDE DEF R, next, base
<1>10. SUFFICES ASSUME Exprs # {} PROVE \A e \in Exprs : UnwrapCast[e] = IF IsUnwrapped(e) THEN UnwrapCast[e.args[1]] ELSE e
  OBVIOUS
<1>12. AreChains(Exprs, R, next, Exprs, base)
  BY <1>1, <1>2, <1>3, <1>10 DEF AreChains
<1>13. PICK f : Follows(f, Exprs, R, next, Exprs, base)
  BY <1>12, ChainsAreFollowed
<1>6. f \in [Exprs -> Exprs] /\ \A e \in Exprs : f[e] = IF e \in R THEN f[next[e]] ELSE base[e]
  BY <1>13 DEF Follows
<1>11. f = [e \in Exprs |-> f[e]]
  BY <1>6
<1>7. f = Step(f)
  <2>1. \A e \in Exprs : f[e] = IF IsUnwrapped(e) THEN f[e.args[1]] ELSE e
    BY <1>3, <1>4, <1>5, <1>6
  <2> QED BY <1>11, <2>1, Zenon
<1>8. UnwrapCast = CHOOSE g : g = Step(g)
  BY DEF UnwrapCast
<1>9. UnwrapCast = Step(UnwrapCast)
  BY <1>7, <1>8
<1> QED BY <1>9, Zenon

\* What verify_bucket_expression asks of an expression, with its casts off.
IsBucketExpression(u) ==
  \/ u.node = "FuncExpr" /\ ~IsAllowedCast(u) /\ AcceptsFunction(u)
  \/ u.node = "Var" /\ u.name # "ctid"

(* verify_bucket_expression                                                 *)
LEMMA AcceptsUnfolds ==
  \A e \in Exprs : AcceptsBucketExpression[e] =>
    IF IsUnwrapped(e) THEN AcceptsBucketExpression[e.args[1]] ELSE IsBucketExpression(e)
<1> DEFINE Accepts(e, f) ==
             \/ IsAllowedCast(e) /\ f[e.args[1]]
             \/ e.node = "FuncExpr" /\ ~IsAllowedCast(e) /\ AcceptsFunction(e)
             \/ e.node = "RelabelType" /\ f[e.args[1]]
             \/ IsDatetimeToString(e) /\ f[e.args[1]]
             \/ e.node = "Var" /\ e.name # "ctid"
           Step(f) == [e \in Exprs |-> Accepts(e, f)]
           Closed(C) == \A e \in Exprs : Accepts(e, [x \in Exprs |-> x \in C]) => e \in C
           A == {e \in Exprs : \A C \in SUBSET Exprs : Closed(C) => e \in C}
           f == [x \in Exprs |-> x \in A]
<1>1. \A e \in Exprs : IsUnwrapped(e) => e.args[1] \in Exprs
  BY ExpressionFacts
<1>2. ASSUME NEW e \in Exprs, NEW B \in SUBSET Exprs, NEW C \in SUBSET Exprs, B \subseteq C,
             Accepts(e, [x \in Exprs |-> x \in B])
      PROVE  Accepts(e, [x \in Exprs |-> x \in C])
  <2>1. CASE IsUnwrapped(e)
    <3>1. e.args[1] \in Exprs
      BY <1>1, <2>1
    <3> QED BY <1>2, <3>1
  <2>2. CASE ~IsUnwrapped(e)
    BY <1>2, <2>2 DEF IsUnwrapped
  <2> QED BY <2>1, <2>2
<1> HIDE DEF Accepts
<1>3. A \in SUBSET Exprs /\ \A C \in SUBSET Exprs : Closed(C) => A \subseteq C
  OBVIOUS
<1>4. Closed(A)
  <2> SUFFICES ASSUME NEW e \in Exprs, Accepts(e, f), NEW C \in SUBSET Exprs, Closed(C) PROVE e \in C
    OBVIOUS
  <2>1. A \subseteq C
    BY <1>3
  <2> HIDE DEF A
  <2>2. Accepts(e, [x \in Exprs |-> x \in C])
    BY <1>2, <1>3, <2>1
  <2> QED BY <2>2
<1> HIDE DEF A
<1>5. \A e \in Exprs : e \in A => Accepts(e, f)
  <2> DEFINE C == {e \in A : Accepts(e, f)}
  <2>1. Closed(C)
    <3> SUFFICES ASSUME NEW e \in Exprs, Accepts(e, [x \in Exprs |-> x \in C]) PROVE e \in C
      OBVIOUS
    <3>1. C \in SUBSET Exprs /\ C \subseteq A
      BY <1>3
    <3> HIDE DEF C
    <3>2. Accepts(e, f)
      BY <1>2, <1>3, <3>1
    <3>3. e \in A
      BY <1>4, <3>2
    <3> QED BY <3>2, <3>3 DEF C
  <2>2. C \in SUBSET Exprs
    BY <1>3
  <2> HIDE DEF Closed
  <2>3. A \subseteq C
    BY <1>3, <2>1, <2>2
  <2> QED BY <2>3
<1>6. \A e \in Exprs : f[e] = Accepts(e, f)
  <2> SUFFICES ASSUME NEW e \in Exprs PROVE f[e] = Accepts(e, f)
    OBVIOUS
  <2>1. f[e] = (e \in A)
    OBVIOUS
  <2>2. e \in A <=> Accepts(e, f)
    BY <1>4, <1>5
  <2>3. Accepts(e, f) \in BOOLEAN
    <3> HIDE DEF f
    <3> QED BY DEF Accepts
  <2> QED BY <2>1, <2>2, <2>3
<1>7. f = [x \in Exprs |-> f[x]]
  OBVIOUS
<1> HIDE DEF f
<1>8. f = Step(f)
  BY <1>6, <1>7, Zenon
<1>9. AcceptsBucketExpression = CHOOSE g : g = Step(g)
  BY DEF AcceptsBucketExpression, Accepts
<1>10. AcceptsBucketExpression = Step(AcceptsBucketExpression)
  BY <1>8, <1>9
<1>11. \A e \in Exprs : AcceptsBucketExpression[e] => Accepts(e, AcceptsBucketExpression)
  BY <1>10, Zenon
<1>12. ASSUME NEW e \in Exprs, Accepts(e, AcceptsBucketExpression)
       PROVE  IF IsUnwrapped(e) THEN AcceptsBucketExpression[e.args[1]] ELSE IsBucketExpression(e)
  BY <1>12 DEF Accepts, IsUnwrapped, IsBucketExpression, IsAllowedCast, IsDatetimeToString
<1> QED BY <1>11, <1>12

(* What the casts are taken off: an expression that is no cast; a grouping  *)
(* expression, if it was accepted.  Expressions are finite.                 *)
LEMMA UnwrapEnds ==
  \A e \in Exprs : /\ UnwrapCast[e] \in Exprs
                   /\ AcceptsBucketExpression[e] => IsBucketExpression(UnwrapCast[e])
                   /\ \A S \in SUBSET Exprs : (e \in S /\ \A x \in S : \A k \in DOMAIN x.args : x.args[k] \in S)
                                                => UnwrapCast[e] \in S
<1> DEFINE Ends(e) == /\ UnwrapCast[e] \in Exprs
                      /\ AcceptsBucketExpression[e] => IsBucketExpression(UnwrapCast[e])
                      /\ \A S \in SUBSET Exprs : (e \in S /\ \A x \in S : \A k \in DOMAIN x.args : x.args[k] \in S)
                                                   => UnwrapCast[e] \in S
           T == {n \in Nat : \A e \in Exprs : Height[e] < n => Ends(e)}
<1>1. 0 \in T
  BY ExpressionFacts
<1>2. ASSUME NEW n \in Nat, n \in T PROVE n + 1 \in T
  <2> SUFFICES ASSUME NEW e \in Exprs, Height[e] < n + 1 PROVE Ends(e)
    OBVIOUS
  <2>1. CASE ~IsUnwrapped(e)
    <3>1. UnwrapCast[e] = e
      BY <2>1, UnwrapUnfolds
    <3>2. AcceptsBucketExpression[e] => IsBucketExpression(e)
      BY <2>1, AcceptsUnfolds
    <3> QED BY <3>1, <3>2
  <2>2. CASE IsUnwrapped(e)
    <3> DEFINE x == e.args[1]
    <3>1. 1 \in DOMAIN e.args /\ x \in Exprs /\ Height[x] \in Nat /\ Height[x] < n
      <4>1. 1 \in DOMAIN e.args
        BY <2>2, ExpressionFacts
      <4>2. x \in Exprs /\ Height[x] < Height[e] /\ Height[e] \in Nat
        BY <4>1, ExpressionFacts
      <4>3. Height[x] \in Nat
        BY <4>2, ExpressionFacts
      <4> QED BY <4>1, <4>2, <4>3
    <3>2. Ends(x)
      BY <1>2, <3>1
    <3>3. UnwrapCast[e] = UnwrapCast[x]
      BY <2>2, UnwrapUnfolds
    <3>4. AcceptsBucketExpression[e] => AcceptsBucketExpression[x]
      BY <2>2, AcceptsUnfolds
    <3> QED BY <3>1, <3>2, <3>3, <3>4
  <2> QED BY <2>1, <2>2
<1> HIDE DEF T
<1>3. Nat \subseteq T
  BY <1>1, <1>2, SetInduction
<1>4. ASSUME NEW e \in Exprs PROVE Ends(e)
  <2>1. Height[e] \in Nat
    BY ExpressionFacts
  <2>2. Height[e] + 1 \in T /\ Height[e] < Height[e] + 1
    BY <1>3, <2>1
  <2> QED BY <2>2 DEF T
<1> QED BY <1>4

(* The column of an accepted expression is found.                           *)
LEMMA AcceptedHasColumn ==
  ASSUME NEW e \in Exprs, AcceptsBucketExpression[e]
  PROVE  ColumnRef(e) # Computed
<1> DEFINE u == UnwrapCast[e]
<1>1. IsBucketExpression(u)
  BY UnwrapEnds
<1>2. Computed.node = "Computed"
  BY DEF Computed
<1> HIDE DEF u
<1>3. CASE u.node = "Var"
  BY <1>2, <1>3 DEF ColumnRef, u
<1>4. CASE u.node # "Var"
  <2>1. u.node = "FuncExpr" /\ IsAllowedFunction(u) /\ UnwrapCast[PrimaryArg(u)].node = "Var"
    BY <1>1, <1>4 DEF IsBucketExpression, AcceptsFunction
  <2>2. ColumnRef(e) = UnwrapCast[PrimaryArg(u)]
    BY <1>4, <2>1 DEF ColumnRef, u
  <2> QED BY <1>2, <2>1, <2>2
<1> QED BY <1>3, <1>4

(* The second argument of an accepted function that the untrusted level     *)
(* restricts is a constant or a parameter.                                  *)
LEMMA AcceptedIsStable ==
  ASSUME NEW e \in Exprs, AcceptsBucketExpression[e], IsRestricted(e)
  PROVE  IsStable(RestrictedArg(e)) /\ 2 \in DOMAIN e.args
<1>1. e.node = "FuncExpr" /\ e.name \in {"text_substr", "round_by"}
  BY DEF IsRestricted, SubstringBuiltins, ImplicitRangeUdfs
<1>2. ~IsUnwrapped(e)
  BY <1>1 DEF IsUnwrapped, IsAllowedCast, IsDatetimeToString, AllowedCasts, DecimalIntegerCasts
<1>3. AcceptsFunction(e)
  BY <1>1, <1>2, AcceptsUnfolds DEF IsBucketExpression
<1>4. 2 \in DOMAIN e.args
  BY <1>1, ExpressionFacts
<1>5. AllowedFunctions[e.name] = 1
  BY <1>1 DEF AllowedFunctions
<1> QED BY <1>3, <1>4, <1>5 DEF AcceptsFunction, RestrictedArg

(* expression_tree_walker                                                  *)
LEMMA OutermostUnfolds ==
  ASSUME NEW S, NEW e \in Exprs
  PROVE  Outermost(S, e) = IF e \in S THEN {e} ELSE UNION {Outermost(S, e.args[k]) : k \in DOMAIN e.args}
<1> DEFINE All(x, f) == IF x \in S THEN {x} ELSE UNION {f[x.args[i]] : i \in DOMAIN x.args}
           Names == Exprs
           Step(f) == [x \in Exprs |-> All(x, f)]
           Funs == [Exprs -> SUBSET Names]
           Closed(f) == \A x \in Exprs : All(x, f) \subseteq f[x]
           Least(x) == {n \in Names : \A f \in Funs : Closed(f) => n \in f[x]}
           g == [x \in Exprs |-> Least(x)]
<1>1. \A x \in Exprs : \A i \in DOMAIN x.args : x.args[i] \in Exprs
  BY ExpressionFacts
<1>3. g \in Funs /\ \A x \in Exprs : g[x] = Least(x)
  OBVIOUS
<1>4. ASSUME NEW x \in Exprs, NEW f \in Funs, NEW h \in Funs, \A y \in Exprs : f[y] \subseteq h[y]
      PROVE  All(x, f) \subseteq All(x, h) /\ All(x, h) \subseteq Names
  BY <1>1, <1>4
<1> HIDE DEF All, Names
<1>5. ASSUME NEW f \in Funs, Closed(f), NEW x \in Exprs PROVE g[x] \subseteq f[x]
  BY <1>3, <1>5
<1> HIDE DEF Funs
<1>6. ASSUME NEW x \in Exprs PROVE All(x, g) \subseteq Least(x)
  <2>1. All(x, g) \subseteq Names
    BY <1>3, <1>4
  <2>2. ASSUME NEW f \in Funs, Closed(f) PROVE All(x, g) \subseteq f[x]
    <3>1. \A y \in Exprs : g[y] \subseteq f[y]
      BY <1>5, <2>2
    <3> HIDE DEF g
    <3>2. All(x, g) \subseteq All(x, f)
      BY <1>3, <1>4, <3>1
    <3> QED BY <2>2, <3>2
  <2> QED BY <2>1, <2>2
<1>7. ASSUME NEW x \in Exprs PROVE Least(x) \subseteq All(x, g)
  <2> DEFINE h == [y \in Exprs |-> All(y, g)]
  <2>1. \A y \in Exprs : All(y, g) \subseteq Names
    BY <1>3, <1>4
  <2>2. h \in Funs
    BY <2>1 DEF Funs
  <2>3. \A y \in Exprs : h[y] = All(y, g) /\ h[y] \subseteq g[y]
    BY <1>3, <1>6
  <2> HIDE DEF h, Least, g
  <2>4. Closed(h)
    <3> SUFFICES ASSUME NEW y \in Exprs PROVE All(y, h) \subseteq h[y]
      OBVIOUS
    <3>1. All(y, h) \subseteq All(y, g)
      BY <1>3, <1>4, <2>2, <2>3
    <3> QED BY <2>3, <3>1
  <2>5. g[x] \subseteq h[x]
    BY <1>5, <2>2, <2>4
  <2> QED BY <1>3, <2>3, <2>5
<1>8. g = Step(g)
  <2>1. \A x \in Exprs : Least(x) = All(x, g)
    BY <1>6, <1>7
  <2> HIDE DEF Least, All
  <2>2. \A x \in Exprs : g[x] = All(x, g)
    BY <1>3, <2>1
  <2>3. g = [x \in Exprs |-> g[x]]
    OBVIOUS
  <2> HIDE DEF g
  <2> QED BY <2>2, <2>3, Zenon
<1> DEFINE p == CHOOSE f : f = Step(f)
<1>9. p = Step(p)
  <2> HIDE DEF g
  <2> QED BY <1>8
<1>10. \A x \in Exprs : Outermost(S, x) = p[x]
  BY DEF Outermost, All
<1> HIDE DEF p
<1>11. p[e] = All(e, p)
  BY <1>9
<1>12. p[e] = IF e \in S THEN {e} ELSE UNION {p[e.args[i]] : i \in DOMAIN e.args}
  BY <1>11 DEF All
<1>13. \A k \in DOMAIN e.args : Outermost(S, e.args[k]) = p[e.args[k]]
  BY <1>1, <1>10
<1>14. UNION {Outermost(S, e.args[k]) : k \in DOMAIN e.args} = UNION {p[e.args[i]] : i \in DOMAIN e.args}
  BY <1>13
<1> QED BY <1>10, <1>12, <1>14

(* Constants and parameters: those of the arguments.                       *)
LEMMA StablePartsUnfold ==
  ASSUME NEW e \in Exprs
  PROVE  /\ IsStable(e) => e \in StableParts(e)
         /\ \A k \in DOMAIN e.args : StableParts(e.args[k]) \subseteq StableParts(e)
<1> DEFINE S == {x \in Exprs : IsStable(x)}
<1>2. \A x : StableParts(x) = Outermost(S, x)
  BY DEF StableParts
<1>3. e \in S <=> IsStable(e)
  OBVIOUS
<1>4. e \in S => DOMAIN e.args = {}
  BY <1>3, ExpressionFacts
<1> HIDE DEF S
<1>1. Outermost(S, e) = IF e \in S THEN {e} ELSE UNION {Outermost(S, e.args[k]) : k \in DOMAIN e.args}
  BY OutermostUnfolds
<1> QED BY <1>1, <1>2, <1>3, <1>4

(* So has what the casts are taken off.                                    *)
LEMMA StablePartsOfUnwrapped ==
  ASSUME NEW e \in Exprs
  PROVE  StableParts(UnwrapCast[e]) \subseteq StableParts(e)
<1> DEFINE S == {x \in Exprs : StableParts(x) \subseteq StableParts(e)}
<1>1. e \in S /\ S \in SUBSET Exprs
  OBVIOUS
<1>2. ASSUME NEW x \in S, NEW k \in DOMAIN x.args PROVE x.args[k] \in S
  <2>1. x.args[k] \in Exprs
    BY ExpressionFacts
  <2>2. StableParts(x.args[k]) \subseteq StableParts(x)
    BY StablePartsUnfold
  <2> QED BY <2>1, <2>2
<1> HIDE DEF S
<1>3. UnwrapCast[e] \in S
  BY <1>1, <1>2, UnwrapEnds
<1> QED BY <1>3 DEF S

(* ParamsOf: a parameter, and the parameters of the arguments.              *)
LEMMA ParamsUnfold ==
  ASSUME NEW e \in Exprs
  PROVE  /\ e.node = "Param" => e \in ParamsOf(e)
         /\ \A k \in DOMAIN e.args : ParamsOf(e.args[k]) \subseteq ParamsOf(e)
         /\ ParamsOf(UnwrapCast[e]) \subseteq ParamsOf(e)
BY StablePartsUnfold, StablePartsOfUnwrapped DEF ParamsOf, IsStable

(* An expression that validation accepts has a column.                      *)
LEMMA AcceptedHasVar ==
  ASSUME NEW e \in Exprs, AcceptsBucketExpression[e]
  PROVE  HasVar(e)
<1> DEFINE S == {x \in Exprs : VarsOf(x) \subseteq VarsOf(e)}
           u == UnwrapCast[e]
<1>1. ASSUME NEW x \in Exprs
      PROVE  (x.node = "Var" => VarsOf(x) = {x}) /\ \A k \in DOMAIN x.args : VarsOf(x.args[k]) \subseteq VarsOf(x)
  <2> DEFINE V == {y \in Exprs : y.node = "Var"}
  <2>1. \A y : VarsOf(y) = Outermost(V, y)
    BY DEF VarsOf
  <2>2. x \in V <=> x.node = "Var"
    OBVIOUS
  <2>3. x.node = "Var" => DOMAIN x.args = {}
    BY ValidationAssumption
  <2> HIDE DEF V
  <2>4. Outermost(V, x) = IF x \in V THEN {x} ELSE UNION {Outermost(V, x.args[k]) : k \in DOMAIN x.args}
    BY OutermostUnfolds
  <2> QED BY <2>1, <2>2, <2>3, <2>4
<1>2. e \in S /\ S \in SUBSET Exprs
  OBVIOUS
<1>3. ASSUME NEW x \in S, NEW k \in DOMAIN x.args PROVE x.args[k] \in S
  <2>1. x.args[k] \in Exprs
    BY ExpressionFacts
  <2>2. VarsOf(x.args[k]) \subseteq VarsOf(x)
    BY <1>1
  <2> QED BY <2>1, <2>2
<1>4. IsBucketExpression(u)
  BY UnwrapEnds
<1> HIDE DEF S
<1>5. u \in S
  BY <1>2, <1>3, UnwrapEnds
<1>6. ASSUME NEW x \in S, x.node = "Var" PROVE HasVar(e)
  <2>1. x \in VarsOf(x)
    BY <1>1, <1>2, <1>6
  <2>2. VarsOf(x) \subseteq VarsOf(e)
    BY DEF S
  <2> QED BY <2>1, <2>2 DEF HasVar
<1>7. CASE u.node = "Var"
  BY <1>5, <1>6, <1>7
<1>8. CASE u.node # "Var"
  <2>1. u.node = "FuncExpr" /\ AcceptsFunction(u) /\ u \in Exprs
    BY <1>2, <1>4, <1>5, <1>8 DEF IsBucketExpression
  <2> DEFINE p == AllowedFunctions[u.name]
  <2>2. p \in DOMAIN u.args
    <3>1. u.name \in DOMAIN AllowedFunctions
      BY <2>1 DEF AcceptsFunction, IsAllowedFunction
    <3>2. (u.name \in OneArgument /\ p = 1) \/ (u.name \in TwoArguments /\ p \in {1, 2})
      BY <3>1, SMTT(30) DEF AllowedFunctions, OneArgument, TwoArguments
    <3>3. (u.name \in OneArgument => Len(u.args) = 1) /\ (u.name \in TwoArguments => Len(u.args) = 2)
      BY <2>1, ValidationAssumption
    <3>4. DOMAIN u.args = 1 .. Len(u.args)
      BY <2>1, ExpressionFacts
    <3> DEFINE n == Len(u.args)
    <3>5. (p = 1 /\ n = 1) \/ (p \in {1, 2} /\ n = 2)
      BY <3>2, <3>3, Zenon
    <3>6. p \in 1 .. n
      <4> HIDE DEF p, n
      <4> QED BY <3>5
    <3> QED BY <3>4, <3>6, Zenon
  <2>3. u.args[p] \in S /\ UnwrapCast[u.args[p]].node = "Var"
    BY <1>3, <1>5, <2>1, <2>2 DEF AcceptsFunction, PrimaryArg
  <2>4. u.args[p] \in Exprs
    BY <1>2, <2>3
  <2>5. UnwrapCast[u.args[p]] \in S
    <3> HIDE DEF p, u
    <3> QED BY <1>2, <1>3, <2>3, <2>4, UnwrapEnds
  <2> QED BY <1>6, <2>3, <2>5
<1> QED BY <1>7, <1>8

\* The grouping expressions of the anonymizing query are expressions of the
\* query.
LEMMA GroupsAreSeeds ==
  ASSUME NEW query, IsValid(query), NEW e \in GroupingExprs(MakeAnonymizing(query))
  PROVE  e \in Exprs /\ e \in SeedExprs(query)
<1> DEFINE anon == MakeAnonymizing(query)
<1>1. PICK ref \in Range(anon.group) : e = anon.targets[SortGroupTarget(anon, ref)].expr
  BY DEF GroupingExprs, GroupingExpr
<1>2. PICK i \in DOMAIN anon.group : ref = anon.group[i]
  BY <1>1 DEF Range
<1> DEFINE k == SortGroupTarget(anon, ref)
<1>3. k \in DOMAIN query.targets /\ query.targets[k].expr \in Exprs
  BY <1>2, TargetsOfMade, ReferenceIsFound
<1>4. TargetsAreMade(anon, query)
  BY TargetsOfMade
<1> HIDE DEF anon, k
<1>5. anon.targets[k].expr = query.targets[k].expr
  BY <1>3, <1>4 DEF TargetsAreMade
<1>6. e = query.targets[k].expr
  BY <1>1, <1>5 DEF k
<1>7. e # Computed
  BY <1>3, <1>6, ExpressionFacts
<1> QED BY <1>3, <1>6, <1>7 DEF SeedExprs

LEMMA AggsAreAggrefs ==
  ASSUME NEW query \in Queries
  PROVE  \A agg \in AllAggs(query) : agg \in Aggrefs
<1>1. query.targets \in Seq(TargetEntries) /\ query.having \in Seq(Seq(Aggrefs))
  BY QueryFields
<1>2. \A k \in DOMAIN query.targets : query.targets[k].aggs \in Seq(Aggrefs)
  <2> SUFFICES ASSUME NEW k \in DOMAIN query.targets PROVE query.targets[k].aggs \in Seq(Aggrefs)
    OBVIOUS
  <2>1. query.targets[k] \in TargetEntries
    BY <1>1
  <2> QED BY <2>1 DEF TargetEntries
<1>3. \A k \in DOMAIN query.having : query.having[k] \in Seq(Aggrefs)
  BY <1>1
<1>4. \A s \in Seq(Aggrefs) : Range(s) \subseteq Aggrefs
  BY DEF Range
<1> QED BY <1>2, <1>3, <1>4 DEF AllAggs, TargetAggs, HavingAggs

\* A query that validation accepts and that can be rewritten.
LEMMA AcceptedIsValid ==
  ASSUME NEW query, IsParsed(query), NEW l, AcceptsQuery(query, l), CanRewrite(query)
  PROVE  IsValid(query)
<1> SUFFICES ASSUME NEW agg \in AllAggs(query) PROVE IsRewritable(agg, GatherAidRefs(query))
  BY DEF IsValid
<1>1. agg \in Aggrefs
  BY AggsAreAggrefs DEF IsParsed
<1>2. IsParsedAgg(query, agg) /\ AcceptsAggregate(query, agg, l)
  BY DEF IsParsed, AcceptsQuery, AllAggs
<1>3. agg.fn # "avg_numeric" /\ (agg.fn = "count_histogram" => CountedAid(GatherAidRefs(query), agg.args[1]) # {})
  BY DEF CanRewrite, AllAggs
<1> QED BY <1>1, <1>2, <1>3 DEF IsRewritable, IsParsedAgg, AcceptsAggregate

\* A count_histogram of a table that is not personal.
CountsNoPersonal(query, agg) == agg.fn = "count_histogram" /\ query.rtable[agg.args[1].rte] \notin Personal

(* rewrite_count_histogram finds the AID of an accepted query, if its table *)
(* is personal.                                                            *)
LEMMA AcceptedCannotRewrite ==
  ASSUME NEW query, IsParsed(query), NEW l, AcceptsQuery(query, l), ~CanRewrite(query)
  PROVE  \/ GatherAidRefs(query) = <<>>
         \/ \E agg \in AllAggs(query) : agg.fn = "avg_numeric" \/ CountsNoPersonal(query, agg)
<1> DEFINE refs == GatherAidRefs(query)
<1> SUFFICES ASSUME NEW agg \in AllAggs(query), agg.fn = "count_histogram", CountedAid(refs, agg.args[1]) = {},
                    query.rtable[agg.args[1].rte] \in Personal
             PROVE  FALSE
  BY DEF CanRewrite, AllAggs, CountsNoPersonal
<1> DEFINE arg == agg.args[1]
<1>1. agg \in Aggrefs
  BY AggsAreAggrefs DEF IsParsed
<1>2. IsParsedAgg(query, agg) /\ AcceptsAggregate(query, agg, l)
  BY DEF IsParsed, AcceptsQuery, AllAggs
<1>3. agg.args \in Seq(Exprs) /\ agg.args # <<>>
  BY <1>1, <1>2 DEF Aggrefs, IsParsedAgg
<1>4. 1 \in DOMAIN agg.args /\ arg \in Exprs
  BY <1>3
<1>5. arg.node = "Var" /\ Contains(AidColumns[query.rtable[arg.rte]], arg.name)
  BY <1>2 DEF AcceptsAggregate, AcceptsHistogram, IsAid
<1>6. arg.rte \in DOMAIN query.rtable
  BY <1>2, <1>4, <1>5 DEF IsParsedAgg
<1>7. arg.name \in Range(AidColumns[query.rtable[arg.rte]])
  <2>1. query.rtable[arg.rte] \in Relations
    BY <1>6, QueryFields DEF IsParsed
  <2>2. AidColumns[query.rtable[arg.rte]] \in Seq(STRING)
    BY <2>1, ValidationAssumption
  <2> DEFINE cols == AidColumns[query.rtable[arg.rte]]
  <2>3. cols \in Seq(STRING) /\ Contains(cols, arg.name)
    BY <1>5, <2>2
  <2> HIDE DEF cols, arg
  <2>4. \E i \in 1 .. Len(cols) : cols[i] = arg.name
    BY <2>3 DEF Contains
  <2>5. DOMAIN cols = 1 .. Len(cols)
    BY <2>3, LenProperties
  <2>6. arg.name \in Range(cols)
    BY <2>4, <2>5 DEF Range
  <2> QED BY <2>6 DEF cols
<1> DEFINE aid == [rte |-> arg.rte, column |-> arg.name]
<1>8. aid \in AidsOf(query)
  BY <1>6, <1>7 DEF AidsOf
<1>9. query.rtable \in Seq(Relations)
  BY QueryFields DEF IsParsed
<1>10. refs \in Seq(AidRefs) /\ aid \in Range(refs)
  BY <1>8, <1>9, AidsAreGathered
<1>11. PICK k \in DOMAIN refs : refs[k] = aid
  BY <1>10 DEF Range
<1>12. refs[k].rte = arg.rte /\ refs[k].column = arg.name
  BY <1>11
<1>13. k \in CountedAid(refs, arg)
  BY <1>11, <1>12 DEF CountedAid
<1> QED BY <1>13

(* The column of every filter of an accepted query is found.                *)
LEMMA AcceptedHasColumns ==
  ASSUME NEW query, IsParsed(query), NEW l, AcceptsQuery(query, l)
  PROVE  ~HasLostColumn(query)
<1> SUFFICES ASSUME NEW k \in DOMAIN query.where PROVE ColumnRef(query.where[k].left) # Computed
  BY DEF HasLostColumn
<1>1. query.where[k].op = "=" /\ AcceptsFilter(query, query.where[k], l)
  BY DEF AcceptsQuery, AcceptsWhere, OnlyEqualities
<1>2. query.where[k].left \in Exprs
  BY <1>1 DEF IsParsed
<1>3. AcceptsBucketExpression[query.where[k].left]
  BY <1>1 DEF AcceptsFilter
<1> QED BY <1>2, <1>3, AcceptedHasColumn

LEMMA FirstOfVerdicts ==
  ASSUME NEW verdicts, DOMAIN verdicts \subseteq Nat
  PROVE  /\ FirstVerdict(verdicts) = "ok" => \A k \in DOMAIN verdicts : verdicts[k] = "ok"
         /\ FirstVerdict(verdicts) # "ok" => \E k \in DOMAIN verdicts : verdicts[k] = FirstVerdict(verdicts)
<1> DEFINE stopping == {k \in DOMAIN verdicts : verdicts[k] # "ok"}
<1>1. CASE stopping = {}
  BY <1>1 DEF FirstVerdict
<1>2. CASE stopping # {}
  <2>1. FirstVerdict(verdicts) = verdicts[Min(stopping)]
    BY <1>2 DEF FirstVerdict
  <2>2. stopping \in SUBSET Nat
    OBVIOUS
  <2>3. Min(stopping) \in stopping
    <3> HIDE DEF stopping
    <3> QED BY <1>2, <2>2, LeastIsMember
  <2> DEFINE k == Min(stopping)
  <2> HIDE DEF k
  <2>4. k \in DOMAIN verdicts /\ verdicts[k] # "ok"
    BY <2>3 DEF k
  <2> QED BY <2>1, <2>4 DEF k
<1> QED BY <1>1, <1>2

LEMMA FirstOfTwo ==
  ASSUME NEW a, NEW b
  PROVE  LET v == FirstVerdict(<<a, b>>)
         IN  (v = "ok" => a = "ok" /\ b = "ok") /\ (v # "ok" => a = v \/ b = v)
<1>1. DOMAIN <<a, b>> = {1, 2} /\ <<a, b>>[1] = a /\ <<a, b>>[2] = b
  OBVIOUS
<1> DEFINE list == <<a, b>>
<1> HIDE DEF list
<1>2. DOMAIN list = {1, 2} /\ list[1] = a /\ list[2] = b
  BY <1>1 DEF list
<1>3. DOMAIN list \subseteq Nat
  BY <1>2
<1> QED BY <1>2, <1>3, FirstOfVerdicts DEF list

LEMMA FirstOfThree ==
  ASSUME NEW a, NEW b, NEW c
  PROVE  LET v == FirstVerdict(<<a, b, c>>)
         IN  (v = "ok" => a = "ok" /\ b = "ok" /\ c = "ok") /\ (v # "ok" => a = v \/ b = v \/ c = v)
<1>1. DOMAIN <<a, b, c>> = {1, 2, 3} /\ <<a, b, c>>[1] = a /\ <<a, b, c>>[2] = b /\ <<a, b, c>>[3] = c
  OBVIOUS
<1> DEFINE list == <<a, b, c>>
<1> HIDE DEF list
<1>2. DOMAIN list = {1, 2, 3} /\ list[1] = a /\ list[2] = b /\ list[3] = c
  BY <1>1 DEF list
<1>3. DOMAIN list \subseteq Nat
  BY <1>2
<1> QED BY <1>2, <1>3, FirstOfVerdicts DEF list

\* What stops prepare_bucket_seeds: an expression reads a parameter that is
\* not there, or a text that is too long.
ReadsUnbound(query, b) ==
  \E e \in GroupingExprs(query) \cup FilteringExprs(query) : \E x \in StableParts(e) : IsUnbound(x, b)
ReadsLongText(query, b) ==
  \E e \in GroupingExprs(query) \cup FilteringExprs(query) :
    \E x \in StableParts(e) : ~IsUnbound(x, b) /\ StableValue(x, b) \in LongTexts
ComparesUnbound(query, b) == \E e \in FilteringConsts(query) : IsUnbound(e, b)

LEMMA SeedVerdicts ==
  ASSUME NEW query \in Queries, NEW b
  PROVE  /\ SeedVerdict(query, b) \in {"ok", "crashed", "failed"}
         /\ SeedVerdict(query, b) = "ok" => ~ReadsUnbound(query, b) /\ ~ComparesUnbound(query, b)
         /\ SeedVerdict(query, b) = "crashed" => ReadsUnbound(query, b) \/ ComparesUnbound(query, b)
         /\ SeedVerdict(query, b) = "failed" => ReadsLongText(query, b)
<1> DEFINE G == [k \in DOMAIN query.group |-> MaterialVerdict(GroupingExpr(query, query.group[k]), b)]
           F == [k \in DOMAIN query.where |-> MaterialVerdict(query.where[k].left, b)]
           g == FirstVerdict(G)
           f == FirstVerdict(F)
           c == IF \E e \in FilteringConsts(query) : IsUnbound(e, b) THEN "crashed" ELSE "ok"
<1>1. DOMAIN query.group \subseteq Nat /\ DOMAIN query.where \subseteq Nat
  BY QueryFields, LenProperties
<1>2. /\ DOMAIN G = DOMAIN query.group /\ DOMAIN F = DOMAIN query.where
      /\ \A k \in DOMAIN query.group : G[k] = MaterialVerdict(GroupingExpr(query, query.group[k]), b)
      /\ \A k \in DOMAIN query.where : F[k] = MaterialVerdict(query.where[k].left, b)
  OBVIOUS
<1>3. SeedVerdict(query, b) = FirstVerdict(<<g, f, c>>)
  BY DEF SeedVerdict
<1>4. c \in {"ok", "crashed"} /\ (c = "crashed" <=> ComparesUnbound(query, b))
  BY DEF ComparesUnbound
<1> HIDE DEF G, F, c
<1>5. (g = "ok" => \A k \in DOMAIN G : G[k] = "ok") /\ (g # "ok" => \E k \in DOMAIN G : G[k] = g)
  BY <1>1, <1>2, FirstOfVerdicts
<1>6. (f = "ok" => \A k \in DOMAIN F : F[k] = "ok") /\ (f # "ok" => \E k \in DOMAIN F : F[k] = f)
  BY <1>1, <1>2, FirstOfVerdicts
<1> HIDE DEF g, f
<1>7. ASSUME NEW e
      PROVE  /\ MaterialVerdict(e, b) \in {"ok", "crashed", "failed"}
             /\ MaterialVerdict(e, b) = "crashed" <=> \E x \in StableParts(e) : IsUnbound(x, b)
             /\ MaterialVerdict(e, b) = "failed" =>
                  \E x \in StableParts(e) : ~IsUnbound(x, b) /\ StableValue(x, b) \in LongTexts
  BY DEF MaterialVerdict
<1>8. /\ \A k \in DOMAIN query.group : GroupingExpr(query, query.group[k]) \in GroupingExprs(query)
      /\ \A e \in GroupingExprs(query) : \E k \in DOMAIN query.group : e = GroupingExpr(query, query.group[k])
  BY DEF GroupingExprs, Range
<1>9. /\ \A k \in DOMAIN query.where : query.where[k].left \in FilteringExprs(query)
      /\ \A e \in FilteringExprs(query) : \E k \in DOMAIN query.where : e = query.where[k].left
  BY DEF FilteringExprs
<1>10. /\ g \in {"ok", "crashed", "failed"}
       /\ g = "ok" => \A e \in GroupingExprs(query) : \A x \in StableParts(e) : ~IsUnbound(x, b)
       /\ g = "crashed" => ReadsUnbound(query, b)
       /\ g = "failed" => ReadsLongText(query, b)
  <2>1. CASE g = "ok"
    <3>1. \A e \in GroupingExprs(query) : MaterialVerdict(e, b) = "ok"
      BY <1>2, <1>5, <1>8, <2>1
    <3> QED BY <1>7, <2>1, <3>1
  <2>2. CASE g # "ok"
    <3>1. PICK e \in GroupingExprs(query) : g = MaterialVerdict(e, b)
      BY <1>2, <1>5, <1>8, <2>2
    <3> QED BY <1>7, <2>2, <3>1 DEF ReadsUnbound, ReadsLongText
  <2> QED BY <2>1, <2>2
<1>11. /\ f \in {"ok", "crashed", "failed"}
       /\ f = "ok" => \A e \in FilteringExprs(query) : \A x \in StableParts(e) : ~IsUnbound(x, b)
       /\ f = "crashed" => ReadsUnbound(query, b)
       /\ f = "failed" => ReadsLongText(query, b)
  <2>1. CASE f = "ok"
    <3>1. \A e \in FilteringExprs(query) : MaterialVerdict(e, b) = "ok"
      BY <1>2, <1>6, <1>9, <2>1
    <3> QED BY <1>7, <2>1, <3>1
  <2>2. CASE f # "ok"
    <3>1. PICK e \in FilteringExprs(query) : f = MaterialVerdict(e, b)
      BY <1>2, <1>6, <1>9, <2>2
    <3> QED BY <1>7, <2>2, <3>1 DEF ReadsUnbound, ReadsLongText
  <2> QED BY <2>1, <2>2
<1> DEFINE v == FirstVerdict(<<g, f, c>>)
<1>12. (v = "ok" => g = "ok" /\ f = "ok" /\ c = "ok") /\ (v # "ok" => g = v \/ f = v \/ c = v)
  BY FirstOfThree
<1> HIDE DEF v
<1>13. v = "ok" => ~ReadsUnbound(query, b) /\ ~ComparesUnbound(query, b)
  BY <1>4, <1>10, <1>11, <1>12 DEF ReadsUnbound
<1>14. /\ v \in {"ok", "crashed", "failed"}
       /\ v = "crashed" => ReadsUnbound(query, b) \/ ComparesUnbound(query, b)
       /\ v = "failed" => ReadsLongText(query, b)
  BY <1>4, <1>10, <1>11, <1>12
<1> QED BY <1>3, <1>13, <1>14 DEF v

\* What stops the checks of the untrusted level: a parameter that is not there,
\* or the size NULL.
ReadsUnboundSize(query, b) == \E e \in GroupingExprs(query) : IsRestricted(e) /\ IsUnbound(RestrictedArg(e), b)
ReadsNullSize(query, b) ==
  \E e \in GroupingExprs(query) :
    IsRestricted(e) /\ RestrictedArg(e).type = "numeric" /\ StableValue(RestrictedArg(e), b) = Null

LEMMA GroupVerdicts ==
  ASSUME NEW query \in Queries, NEW l, NEW b, GroupingExprs(query) \subseteq Exprs
  PROVE  /\ GroupsVerdict(query, l, b) \in {"ok", "rejected", "crashed"}
         /\ GroupsVerdict(query, l, b) = "ok" => \A e \in GroupingExprs(query) : AcceptsBucketExpression[e]
         /\ GroupsVerdict(query, l, b) = "crashed" =>
              l = Untrusted /\ (ReadsUnboundSize(query, b) \/ ReadsNullSize(query, b))
<1> DEFINE G == [k \in DOMAIN query.group |-> BucketVerdict(GroupingExpr(query, query.group[k]), l, b)]
           g == FirstVerdict(G)
<1>1. DOMAIN query.group \subseteq Nat
  BY QueryFields, LenProperties
<1>2. /\ DOMAIN G = DOMAIN query.group
      /\ \A k \in DOMAIN query.group : G[k] = BucketVerdict(GroupingExpr(query, query.group[k]), l, b)
  OBVIOUS
<1>3. GroupsVerdict(query, l, b) = g
  BY DEF GroupsVerdict
<1> HIDE DEF G
<1>4. (g = "ok" => \A k \in DOMAIN G : G[k] = "ok") /\ (g # "ok" => \E k \in DOMAIN G : G[k] = g)
  BY <1>1, <1>2, FirstOfVerdicts
<1> HIDE DEF g
<1>5. /\ \A k \in DOMAIN query.group : GroupingExpr(query, query.group[k]) \in GroupingExprs(query)
      /\ \A e \in GroupingExprs(query) : \E k \in DOMAIN query.group : e = GroupingExpr(query, query.group[k])
  BY DEF GroupingExprs, Range
<1>6. ASSUME NEW e \in GroupingExprs(query)
      PROVE  /\ BucketVerdict(e, l, b) \in {"ok", "rejected", "crashed"}
             /\ BucketVerdict(e, l, b) = "ok" => AcceptsBucketExpression[e]
             /\ BucketVerdict(e, l, b) = "crashed" =>
                  /\ l = Untrusted /\ IsRestricted(e)
                  /\ \/ IsUnbound(RestrictedArg(e), b)
                     \/ RestrictedArg(e).type = "numeric" /\ StableValue(RestrictedArg(e), b) = Null
  <2> DEFINE arg == RestrictedArg(e)
             size == BinSizeVerdict(arg.type, StableValue(arg, b))
             checked == ArgVerdict(e.name, arg, b)
             verdict == UntrustedVerdict(e, b)
  <2>1. /\ size \in {"ok", "rejected", "crashed"}
        /\ size = "crashed" => arg.type = "numeric" /\ StableValue(arg, b) = Null
    BY DEF BinSizeVerdict
  <2>2. checked \in {"crashed", "ok", "rejected"} /\
        (checked = "crashed" => ~IsStable(arg) \/ IsUnbound(arg, b) \/ size = "crashed")
    <3> HIDE DEF arg
    <3>1. checked = IF ~IsStable(arg) \/ IsUnbound(arg, b) THEN "crashed"
                    ELSE IF e.name \notin SubstringBuiltins THEN size
                    ELSE IF StableValue(arg, b) = "1" THEN "ok" ELSE "rejected"
      BY DEF ArgVerdict
    <3> HIDE DEF checked, size
    <3> QED BY <2>1, <3>1
  <2>3. verdict = IF IsRestricted(e) THEN checked
                  ELSE IF e.node # "FuncExpr" \/ e.name \in ImplicitRangeBuiltins THEN "ok" ELSE "rejected"
    <3>1. IsRestricted(e) => ~(e.node # "FuncExpr" \/ e.name \in ImplicitRangeBuiltins)
      BY DEF IsRestricted, SubstringBuiltins, ImplicitRangeUdfs, ImplicitRangeBuiltins
    <3>2. verdict = CASE IsRestricted(e) -> checked
                      [] e.node # "FuncExpr" \/ e.name \in ImplicitRangeBuiltins -> "ok"
                      [] OTHER -> "rejected"
      BY DEF UntrustedVerdict
    <3> HIDE DEF verdict, checked
    <3> QED BY <3>1, <3>2
  <2>4. BucketVerdict(e, l, b) = IF ~AcceptsBucketExpression[e] THEN "rejected"
                                 ELSE IF l = Untrusted THEN verdict ELSE "ok"
    BY DEF BucketVerdict
  <2>5. AcceptsBucketExpression[e] /\ IsRestricted(e) => IsStable(arg)
    BY AcceptedIsStable
  <2> HIDE DEF verdict, checked, size
  <2> QED BY <2>1, <2>2, <2>3, <2>4, <2>5
<1>7. CASE g = "ok"
  <2>1. \A e \in GroupingExprs(query) : BucketVerdict(e, l, b) = "ok"
    BY <1>2, <1>4, <1>5, <1>7
  <2> QED BY <1>3, <1>6, <1>7, <2>1
<1>8. CASE g # "ok"
  <2>1. PICK e \in GroupingExprs(query) : g = BucketVerdict(e, l, b)
    BY <1>2, <1>4, <1>5, <1>8
  <2> QED BY <1>3, <1>6, <1>8, <2>1 DEF ReadsUnboundSize, ReadsNullSize
<1> QED BY <1>7, <1>8

(* How the compilation of a query ends, and why.                           *)
LEMMA CompileVerdicts ==
  ASSUME NEW query, IsParsed(query)
  PROVE  LET v    == CompileVerdict(query)
             anon == MakeAnonymizing(query)
         IN  /\ v = "ok" => /\ AcceptsQuery(query, level) /\ CanRewrite(query)
                            /\ \A e \in GroupingExprs(anon) : AcceptsBucketExpression[e]
                            /\ ~ReadsUnbound(anon, bound) /\ ~ComparesUnbound(anon, bound)
             /\ v = "failed" => /\ AcceptsQuery(query, level)
                                /\ ~CanRewrite(query) \/ (IsValid(query) /\ ReadsLongText(anon, bound))
             /\ v = "crashed" =>
                  /\ AcceptsQuery(query, level) /\ IsValid(query)
                  /\ \/ ReadsUnbound(anon, bound) \/ ComparesUnbound(anon, bound)
                     \/ level = Untrusted /\ (ReadsUnboundSize(anon, bound) \/ ReadsNullSize(anon, bound))
<1> DEFINE v == CompileVerdict(query)
           anon == MakeAnonymizing(query)
           groups == GroupsVerdict(anon, level, bound)
           seed == SeedVerdict(anon, bound)
           both == FirstVerdict(<<groups, seed>>)
<1>1. v = IF ~AcceptsQuery(query, level) THEN "rejected" ELSE IF HasLostColumn(query) THEN "crashed"
          ELSE IF ~CanRewrite(query) THEN "failed" ELSE IF GroupsByAid(anon) THEN "rejected" ELSE both
  BY DEF CompileVerdict
<1>2. AcceptsQuery(query, level) => ~HasLostColumn(query)
  BY AcceptedHasColumns
<1>3. AcceptsQuery(query, level) /\ CanRewrite(query) => IsValid(query)
  BY AcceptedIsValid
<1>4. (both = "ok" => groups = "ok" /\ seed = "ok") /\ (both # "ok" => groups = both \/ seed = both)
  BY FirstOfTwo
<1> HIDE DEF v, both
<1>5. ASSUME IsValid(query)
      PROVE  /\ groups \in {"ok", "rejected", "crashed"}
             /\ groups = "ok" => \A e \in GroupingExprs(anon) : AcceptsBucketExpression[e]
             /\ groups = "crashed" => level = Untrusted /\ (ReadsUnboundSize(anon, bound) \/ ReadsNullSize(anon, bound))
  <2>1. anon \in Queries /\ GroupingExprs(anon) \subseteq Exprs
    BY <1>5, TargetsOfMade, GroupsAreSeeds
  <2> HIDE DEF anon
  <2> QED BY <2>1, GroupVerdicts
<1>6. ASSUME IsValid(query)
      PROVE  /\ seed \in {"ok", "crashed", "failed"}
             /\ seed = "ok" => ~ReadsUnbound(anon, bound) /\ ~ComparesUnbound(anon, bound)
             /\ seed = "crashed" => ReadsUnbound(anon, bound) \/ ComparesUnbound(anon, bound)
             /\ seed = "failed" => ReadsLongText(anon, bound)
  <2>1. anon \in Queries
    BY <1>6, TargetsOfMade
  <2> HIDE DEF anon
  <2> QED BY <2>1, SeedVerdicts
<1> HIDE DEF groups, seed, anon
<1>7. v = "ok" => /\ AcceptsQuery(query, level) /\ CanRewrite(query)
                  /\ \A e \in GroupingExprs(anon) : AcceptsBucketExpression[e]
                  /\ ~ReadsUnbound(anon, bound) /\ ~ComparesUnbound(anon, bound)
  BY <1>1, <1>3, <1>4, <1>5, <1>6
<1>8. v = "failed" => /\ AcceptsQuery(query, level)
                      /\ ~CanRewrite(query) \/ (IsValid(query) /\ ReadsLongText(anon, bound))
  BY <1>1, <1>3, <1>4, <1>5, <1>6
<1>9. v = "crashed" =>
        /\ AcceptsQuery(query, level) /\ IsValid(query)
        /\ \/ ReadsUnbound(anon, bound) \/ ComparesUnbound(anon, bound)
           \/ level = Untrusted /\ (ReadsUnboundSize(anon, bound) \/ ReadsNullSize(anon, bound))
  BY <1>1, <1>2, <1>3, <1>4, <1>5, <1>6
<1> QED BY <1>7, <1>8, <1>9 DEF v, anon

(* Parameters that are not there are in the expressions that seeds are made *)
(* of.                                                                     *)
LEMMA UnboundIsInSeeds ==
  ASSUME NEW query, IsValid(query), NEW l, AcceptsQuery(query, l), NEW b,
         LET anon == MakeAnonymizing(query)
         IN  ReadsUnbound(anon, b) \/ ComparesUnbound(anon, b) \/ ReadsUnboundSize(anon, b)
  PROVE  b = Unbound /\ \E e \in SeedExprs(query) : ParamsOf(e) # {}
<1> DEFINE anon == MakeAnonymizing(query)
<1>1. \A e \in GroupingExprs(anon) : e \in Exprs /\ e \in SeedExprs(query)
  BY GroupsAreSeeds
<1>2. anon.where = query.where
  BY QueryIsMade DEF IsMade, RestIsMade, TargetsAreMade
<1>3. ASSUME NEW k \in DOMAIN query.where
      PROVE  /\ query.where[k].left \in Exprs /\ query.where[k].right \in Exprs
             /\ query.where[k].left \in SeedExprs(query) /\ query.where[k].right \in SeedExprs(query)
  <2>1. query.where[k].left \in Exprs /\ query.where[k].right \in Exprs
    BY DEF AcceptsQuery, AcceptsWhere, OnlyEqualities, IsValid, IsParsed
  <2>2. query.where[k].left # Computed /\ query.where[k].right # Computed
    BY <2>1, ExpressionFacts
  <2>3. query.where[k].left \in SeedExprs(query) /\ query.where[k].right \in SeedExprs(query)
    BY <2>2 DEF SeedExprs
  <2> QED BY <2>1, <2>3
<1> HIDE DEF anon
<1>4. \A e \in FilteringExprs(anon) : e \in SeedExprs(query)
  BY <1>2, <1>3 DEF FilteringExprs
<1>5. CASE ReadsUnbound(anon, b)
  <2>1. PICK e \in SeedExprs(query) : \E x \in StableParts(e) : IsUnbound(x, b)
    BY <1>1, <1>4, <1>5 DEF ReadsUnbound
  <2>2. PICK x \in StableParts(e) : IsUnbound(x, b)
    BY <2>1
  <2>3. x \in ParamsOf(e) /\ b = Unbound
    BY <2>2 DEF ParamsOf, IsUnbound
  <2> QED BY <2>3
<1>6. CASE ComparesUnbound(anon, b)
  <2>1. PICK k \in DOMAIN query.where : IsUnbound(UnwrapCast[query.where[k].right], b)
    BY <1>2, <1>6 DEF ComparesUnbound, FilteringConsts
  <2> DEFINE e == query.where[k].right
             x == UnwrapCast[e]
  <2>2. e \in Exprs /\ e \in SeedExprs(query) /\ x \in Exprs
    BY <1>3, UnwrapEnds
  <2>3. x \in ParamsOf(x) /\ ParamsOf(x) \subseteq ParamsOf(e) /\ b = Unbound
    BY <2>1, <2>2, ParamsUnfold DEF IsUnbound
  <2> QED BY <2>2, <2>3
<1>7. CASE ReadsUnboundSize(anon, b)
  <2>1. PICK e \in GroupingExprs(anon) : IsRestricted(e) /\ IsUnbound(RestrictedArg(e), b)
    BY <1>7 DEF ReadsUnboundSize
  <2> DEFINE x == RestrictedArg(e)
  <2>2. e \in Exprs /\ e \in SeedExprs(query)
    BY <1>1
  <2>3. 2 \in DOMAIN e.args /\ e.args[2] \in Exprs
    <3>1. e.node = "FuncExpr" /\ e.name \in {"text_substr", "round_by"}
      BY <2>1 DEF IsRestricted, SubstringBuiltins, ImplicitRangeUdfs
    <3>2. 2 \in DOMAIN e.args
      BY <2>2, <3>1, ExpressionFacts
    <3> QED BY <2>2, <3>2, ExpressionFacts
  <2>4. x = UnwrapCast[e.args[2]] /\ x \in Exprs
    BY <2>3, UnwrapEnds DEF RestrictedArg
  <2> HIDE DEF x
  <2>5. x \in ParamsOf(x) /\ b = Unbound
    BY <2>1, <2>4, ParamsUnfold DEF IsUnbound, x
  <2>6. ParamsOf(x) \subseteq ParamsOf(e.args[2]) /\ ParamsOf(e.args[2]) \subseteq ParamsOf(e)
    BY <2>2, <2>3, <2>4, ParamsUnfold
  <2> QED BY <2>2, <2>5, <2>6
<1> QED BY <1>5, <1>6, <1>7 DEF anon

-----------------------------------------------------------------------------
(* Compiled queries                                                        *)

\* A context of the k-th query of a statement.
IsContextOf(context, k, query) ==
  /\ {"query", "expand", "grouping_cols"} \subseteq DOMAIN context
  /\ context.query = k
  /\ context.expand = IsSimpleSelect(query)
  /\ context.grouping_cols = GroupingCols(MakeAnonymizing(query))

\* What compile_anonymizing_query makes of a query.
IsAnonymized(c, part, lks, context) ==
  /\ IsValid(part.query)
  /\ c.part = part /\ c.wrapped = (part.query.having # <<>>) /\ c.barrier = (part.via = "from")
  /\ c.query \in Queries /\ c.query.limit = DummyLimit(part) /\ c.query.offset = part.query.offset
  /\ c.query.sorted = part.query.sorted /\ TargetsAreMade(c.query, part.query)
  /\ \A e \in GroupingExprs(MakeAnonymizing(part.query)) : AcceptsBucketExpression[e]
  /\ DOMAIN c.query.having = DOMAIN part.query.having
  /\ HavingAggs(c.query) = HavingAggs(MakeAnonymizing(part.query))
  /\ AreLinkedTo(TargetAggs(c.query), TargetAggs(MakeAnonymizing(part.query)), lks, context)

IsSkipped(c, part) ==
  /\ c.part = part /\ c.query = part.query /\ ~c.wrapped /\ ~c.barrier

IsCompiledAs(c, part, k, lks) ==
  IF IsAnonymizing(part.query)
  THEN \E context : IsContextOf(context, k, part.query) /\ IsAnonymized(c, part, lks, context)
  ELSE IsSkipped(c, part)

\* The k-th part of a statement.
LEMMA PartFacts ==
  ASSUME NEW s \in Statements \cup Prepareds
  PROVE  /\ s \in Seq(Parts) /\ s # <<>> /\ Len(s) \in Nat /\ DOMAIN s = 1 .. Len(s)
         /\ \A k \in DOMAIN s :
              /\ s[k].query \in Queries /\ IsParsed(s[k].query)
              /\ s[k].via \in {"top", "from", "cte"}
              /\ s[k].via = "top" => s[k].conditions = <<>>
              /\ ~s[k].parameterized => \A e \in SeedExprs(s[k].query) : ParamsOf(e) = {}
<1>1. s \in Seq(Parts) /\ s # <<>>
  BY StatementsAssumption
<1>2. Len(s) \in Nat /\ DOMAIN s = 1 .. Len(s)
  BY <1>1, LenProperties
<1>3. ASSUME NEW k \in DOMAIN s
      PROVE  s[k].query \in Queries /\ IsParsed(s[k].query) /\ s[k].via \in {"top", "from", "cte"}
  <2>1. s[k] \in Parts
    BY <1>1
  <2> QED BY <2>1 DEF Parts
<1>4. \A k \in DOMAIN s :
        /\ s[k].via = "top" => s[k].conditions = <<>>
        /\ ~s[k].parameterized => \A e \in SeedExprs(s[k].query) : ParamsOf(e) = {}
  BY StatementsAssumption
<1> QED BY <1>1, <1>2, <1>3, <1>4

(* Links that are added later do not change what is linked.                 *)
LEMMA LinksStay ==
  ASSUME NEW linked, NEW aggs, NEW lks, NEW context, AreLinkedTo(linked, aggs, lks, context),
         NEW both, Len(lks) \in Nat, Len(both) \in Nat, Len(lks) <= Len(both),
         \A i \in 1 .. Len(lks) : both[i] = lks[i]
  PROVE  AreLinkedTo(linked, aggs, both, context)
<1>1. \A agg \in linked : IsLinkedTo(agg, lks, context) => IsLinkedTo(agg, both, context)
  BY DEF IsLinkedTo
<1> QED BY <1>1 DEF AreLinkedTo

LEMMA CompiledStays ==
  ASSUME NEW c, NEW part, NEW k, NEW lks, IsCompiledAs(c, part, k, lks),
         NEW both, Len(lks) \in Nat, Len(both) \in Nat, Len(lks) <= Len(both),
         \A i \in 1 .. Len(lks) : both[i] = lks[i]
  PROVE  IsCompiledAs(c, part, k, both)
<1>1. CASE IsAnonymizing(part.query)
  <2>1. PICK context : IsContextOf(context, k, part.query) /\ IsAnonymized(c, part, lks, context)
    BY <1>1 DEF IsCompiledAs
  <2>2. AreLinkedTo(TargetAggs(c.query), TargetAggs(MakeAnonymizing(part.query)), both, context)
    BY <2>1, LinksStay DEF IsAnonymized
  <2>3. IsAnonymized(c, part, both, context)
    BY <2>1, <2>2 DEF IsAnonymized
  <2> QED BY <1>1, <2>1, <2>3 DEF IsCompiledAs
<1>2. CASE ~IsAnonymizing(part.query)
  BY <1>2 DEF IsCompiledAs
<1> QED BY <1>1, <1>2

LEMMA ContextIsOwn ==
  ASSUME NEW k, NEW query
  PROVE  IsContextOf(MakeContext(k, query, MakeAnonymizing(query)), k, query)
BY DEF IsContextOf, MakeContext

LEMMA SameHaving ==
  ASSUME NEW query, IsValid(query)
  PROVE  LET anon == MakeAnonymizing(query)
         IN  DOMAIN anon.having = DOMAIN query.having /\ WrapsHaving(anon) = (query.having # <<>>)
<1> DEFINE anon == MakeAnonymizing(query)
<1>1. anon \in Queries /\ RestIsMade(anon, query)
  BY QueryIsMade DEF IsMade
<1>2. query \in Queries
  BY DEF IsValid, IsParsed
<1>3. DOMAIN anon.having = DOMAIN query.having
  BY <1>1 DEF RestIsMade, TargetsAreMade
<1> HIDE DEF anon
<1>4. anon.having \in Seq(Seq(Aggrefs)) /\ query.having \in Seq(Seq(Aggrefs))
  BY <1>1, <1>2, QueryFields
<1>5. anon.having = <<>> <=> query.having = <<>>
  BY <1>3, <1>4
<1> QED BY <1>3, <1>5 DEF anon, WrapsHaving

\* A part of a statement that compile_query lets through.
IsCompilable(part, l) ==
  /\ part.via \in {"top", "from", "cte"}
  /\ IsParsed(part.query) /\ AcceptsQuery(part.query, l) /\ CanRewrite(part.query)
  /\ \A e \in GroupingExprs(MakeAnonymizing(part.query)) : AcceptsBucketExpression[e]

LEMMA LimitsAreLimits ==
  ASSUME NEW part, NEW l, IsCompilable(part, l)
  PROVE  DummyLimit(part) \in Nat \cup {NoLimit}
<1>1. part.query.limit \in Nat \cup {NoLimit}
  BY QueryFields DEF IsCompilable, IsParsed
<1> QED BY <1>1 DEF DummyLimit, Int64Max

(* compile_anonymizing_query                                                *)
LEMMA QueryIsCompiled ==
  ASSUME NEW part, NEW l, IsCompilable(part, l), AreLinks(links), NEW k, NEW c, NEW both,
         LET anon    == MakeAnonymizing(part.query)
             context == MakeContext(k, part.query, anon)
         IN  /\ both = links \o NewLinks(anon, context)
             /\ c = [part |-> part, query |-> [LinkAggs(anon) EXCEPT !.limit = DummyLimit(part)],
                     wrapped |-> WrapsHaving(anon), barrier |-> part.via = "from"]
  PROVE  /\ \E context : IsContextOf(context, k, part.query) /\ IsAnonymized(c, part, both, context)
         /\ AreLinks(both) /\ Len(links) \in Nat /\ Len(both) \in Nat /\ Len(links) <= Len(both)
         /\ \A i \in 1 .. Len(links) : both[i] = links[i]
<1> DEFINE anon    == MakeAnonymizing(part.query)
           context == MakeContext(k, part.query, anon)
           linked  == [LinkAggs(anon) EXCEPT !.limit = DummyLimit(part)]
<1>1. IsValid(part.query)
  BY AcceptedIsValid DEF IsCompilable
<1>2. anon \in Queries /\ RestIsMade(anon, part.query)
  BY <1>1, QueryIsMade DEF IsMade
<1>3. \A agg \in TargetAggs(anon) : agg.location = NoLocation
  BY <1>1, AnonAggsAreUsable DEF AnonAggs, AllAggs
<1>4. DummyLimit(part) \in Nat \cup {NoLimit}
  BY LimitsAreLimits
<1>5. IsContextOf(context, k, part.query)
  BY ContextIsOwn
<1>6. DOMAIN anon.having = DOMAIN part.query.having /\ WrapsHaving(anon) = (part.query.having # <<>>)
  BY <1>1, SameHaving
<1>7. /\ both = links \o NewLinks(anon, context)
      /\ c = [part |-> part, query |-> linked, wrapped |-> WrapsHaving(anon), barrier |-> part.via = "from"]
  OBVIOUS
<1>8. anon = MakeAnonymizing(part.query)
  OBVIOUS
<1> HIDE DEF anon, context
<1>9. /\ linked \in Queries /\ linked.limit = DummyLimit(part) /\ linked.offset = anon.offset
      /\ linked.having = anon.having /\ linked.sorted = anon.sorted /\ SameTargets(linked, anon)
      /\ AreLinkedTo(TargetAggs(linked), TargetAggs(anon), links \o NewLinks(anon, context), context)
  BY <1>2, <1>3, <1>4, AggsAreLinked
<1>10. AreAdded(both, links, anon, context)
  BY <1>2, <1>7, LinksAreAdded
<1> HIDE DEF linked
<1>11. c.part = part /\ c.query = linked /\ c.wrapped = WrapsHaving(anon) /\ c.barrier = (part.via = "from")
  BY <1>7
<1>12. HavingAggs(linked) = HavingAggs(anon)
  BY <1>9 DEF HavingAggs
<1>13. anon.offset = part.query.offset /\ anon.sorted = part.query.sorted
  BY <1>2 DEF RestIsMade
<1>17. TargetsAreMade(linked, part.query)
  BY <1>2, <1>9 DEF RestIsMade, TargetsAreMade, SameTargets, IsJunk
<1>18. \A e \in GroupingExprs(MakeAnonymizing(part.query)) : AcceptsBucketExpression[e]
  BY DEF IsCompilable
<1>14. IsAnonymized(c, part, both, context)
  BY <1>1, <1>6, <1>7, <1>8, <1>9, <1>11, <1>12, <1>13, <1>17, <1>18 DEF IsAnonymized
<1>15. Cardinality(LinkedPositions(anon)) \in Nat
  BY <1>2, WalkIsComplete
<1>16. AreLinks(both) /\ Len(links) \in Nat /\ Len(both) = Len(links) + Cardinality(LinkedPositions(anon))
       /\ \A i \in 1 .. Len(links) : both[i] = links[i]
  BY <1>10 DEF AreAdded
<1> QED BY <1>5, <1>14, <1>15, <1>16

-----------------------------------------------------------------------------
(* Plans                                                                   *)

LEMMA FragmentFields ==
  ASSUME NEW c, NEW sorts, NEW f, f = Fragment(c, sorts)
  PROVE  /\ f.aggs = TargetAggs(c.query) /\ f.having = HavingAggs(c.query)
         /\ f.sorts = sorts /\ f.limit = c.query.limit /\ f.offset = c.query.offset /\ f.scan = NoScan
         /\ f.below = UNION {qual.conditions : qual \in {q \in HavingQuals(c) \cup PushedQuals(c) : MovesToWhere(q)}}
         /\ f.quals = (HavingQuals(c) \cup PushedQuals(c)) \ {q \in HavingQuals(c) \cup PushedQuals(c) : MovesToWhere(q)}
<1> HIDE DEF MovesToWhere
<1> QED BY DEF Fragment

(* The linked aggregates of a fragment are all linked to the context of its *)
(* query, with their functions.                                             *)
LEMMA ContextsAreOwn ==
  ASSUME NEW part, NEW c, NEW context, IsAnonymized(c, part, links, context),
         NEW f, f.aggs = TargetAggs(c.query)
  PROVE  /\ Contexts(f) \subseteq {context} /\ ~IsMismatched(f)
         /\ (\E a \in TargetAggs(MakeAnonymizing(part.query)) : IsLinked(a)) => Contexts(f) = {context}
<1> DEFINE anons == TargetAggs(MakeAnonymizing(part.query))
<1>1. AreLinkedTo(f.aggs, anons, links, context)
  BY DEF IsAnonymized
<1>2. ASSUME NEW agg \in LinkedAggs(f)
      PROVE  links[agg.location].context = context /\ links[agg.location].fn = agg.fn
  <2>1. agg \in f.aggs /\ IsLinked(agg)
    BY DEF LinkedAggs
  <2>2. IsLinkedTo(agg, links, context)
    BY <1>1, <2>1 DEF AreLinkedTo
  <2> QED BY <2>2 DEF IsLinkedTo
<1>3. Contexts(f) \subseteq {context}
  BY <1>2 DEF Contexts
<1>4. Cardinality(Contexts(f)) <= 1
  <2>1. IsFiniteSet({context}) /\ Cardinality({context}) = 1
    BY FS_Singleton
  <2>2. Cardinality(Contexts(f)) <= Cardinality({context})
    BY <1>3, <2>1, FS_Subset
  <2> QED BY <2>1, <2>2
<1>5. Cardinality(Contexts(f)) \in Nat
  <2>1. IsFiniteSet({context})
    BY FS_Singleton
  <2>2. IsFiniteSet(Contexts(f))
    BY <1>3, <2>1, FS_Subset
  <2> QED BY <2>2, FS_CardinalityType
<1>6. ~IsMismatched(f)
  BY <1>2, <1>4, <1>5 DEF IsMismatched
<1>7. ASSUME NEW a \in anons, IsLinked(a) PROVE Contexts(f) = {context}
  <2>1. PICK agg \in f.aggs : a = Unlocated(agg)
    <3>1. {Unlocated(agg) : agg \in f.aggs} = anons
      BY <1>1 DEF AreLinkedTo
    <3> QED BY <3>1
  <2>6. agg \in Aggrefs
    BY AggsAreAggrefs DEF AllAggs, IsAnonymized
  <2>2. Unlocated(agg).fn = agg.fn
    BY <2>6 DEF Unlocated, Aggrefs
  <2>3. IsLinked(agg)
    BY <1>7, <2>1, <2>2 DEF IsLinked
  <2>4. agg.location \in 1 .. Len(links)
    BY <1>1, <2>3 DEF AreLinkedTo, IsLinkedTo
  <2>5. agg \in LinkedAggs(f)
    BY <2>3, <2>4 DEF LinkedAggs, NoLocation
  <2> QED BY <1>2, <1>3, <2>5 DEF Contexts
<1> QED BY <1>3, <1>6, <1>7

(* The aggregates of the scan are those of the anonymizing query.           *)
LEMMA ScanAggsAreAnon ==
  ASSUME NEW part, NEW c, NEW lks, NEW context, IsAnonymized(c, part, lks, context),
         NEW f, f.aggs = TargetAggs(c.query), f.having = HavingAggs(c.query)
  PROVE  UniqueAggs(f) = AnonAggs(part.query)
<1> DEFINE anon == MakeAnonymizing(part.query)
<1>1. {Unlocated(agg) : agg \in f.aggs} = TargetAggs(anon)
  BY DEF IsAnonymized, AreLinkedTo
<1>2. f.having = HavingAggs(anon)
  BY DEF IsAnonymized
<1>3. \A agg \in HavingAggs(anon) : agg \in Aggrefs /\ agg.location = NoLocation
  BY AnonAggsAreUsable DEF IsAnonymized, AnonAggs, AllAggs
<1>4. \A agg \in HavingAggs(anon) : Unlocated(agg) = agg
  BY <1>3, UnlocatedIsSame
<1>5. UniqueAggs(f) = {Unlocated(agg) : agg \in f.aggs \cup f.having}
  BY DEF UniqueAggs, Unlocated
<1> HIDE DEF anon
<1>6. UniqueAggs(f) = TargetAggs(anon) \cup HavingAggs(anon)
  BY <1>1, <1>2, <1>4, <1>5
<1> QED BY <1>6 DEF AnonAggs, AllAggs, anon

-----------------------------------------------------------------------------
(* The labels in the plan                                                  *)

(* The first elements of a set that starts with 1 .. n are 1 .. n.          *)
LEMMA AscendingStarts ==
  ASSUME NEW S \in SUBSET (Nat \ {0}), IsFiniteSet(S), NEW n \in Nat, 1 .. n \subseteq S
  PROVE  \A m \in 1 .. n : m \in 1 .. Cardinality(S) /\ Ascending(S)[m] = m
<1> DEFINE list == Ascending(S)
           N == Cardinality(S)
           P == {m \in Nat : m \in 1 .. n => m \in 1 .. N /\ list[m] = m}
<1>1. /\ list \in [1 .. N -> S]
      /\ \A k, l \in 1 .. N : k < l => list[k] < list[l]
      /\ \A x \in S : \E k \in 1 .. N : list[k] = x
  BY AscendingSorts
<1>2. N \in Nat
  BY FS_CardinalityType
<1>3. \A k \in 1 .. N : list[k] \in Nat \ {0}
  BY <1>1
<1> HIDE DEF list, N
<1>4. 0 \in P
  OBVIOUS
<1>5. ASSUME NEW m \in Nat, m \in P PROVE m + 1 \in P
  <2> SUFFICES ASSUME m + 1 \in 1 .. n PROVE m + 1 \in 1 .. N /\ list[m + 1] = m + 1
    OBVIOUS
  <2>1. PICK k \in 1 .. N : list[k] = m + 1
    BY <1>1
  <2>2. \A i \in 1 .. N : i < k => list[i] < m + 1
    BY <1>1, <2>1
  <2>3. CASE m = 0
    <3>1. ~(1 < k)
      BY <1>2, <1>3, <2>2, <2>3
    <3> QED BY <1>2, <2>1, <2>3, <3>1
  <2>4. CASE m # 0
    <3>1. m \in 1 .. N /\ list[m] = m
      BY <1>5, <2>4
    <3>2. k > m
      <4>1. k # m
        BY <2>1, <3>1
      <4>2. k < m => list[k] < list[m]
        BY <1>1, <3>1
      <4> QED BY <1>2, <2>1, <3>1, <4>1, <4>2
    <3>3. m + 1 \in 1 .. N
      BY <1>2, <3>2
    <3>4. ~(m + 1 < k)
      <4> SUFFICES ASSUME m + 1 < k PROVE FALSE
        OBVIOUS
      <4>1. list[m] < list[m + 1]
        BY <1>1, <3>1, <3>3
      <4>2. list[m + 1] < m + 1 /\ list[m + 1] \in Nat
        BY <1>3, <2>2, <3>3
      <4> QED BY <3>1, <4>1, <4>2
    <3> QED BY <1>2, <2>1, <3>2, <3>3, <3>4
  <2> QED BY <2>3, <2>4
<1> HIDE DEF P
<1>6. Nat \subseteq P
  BY <1>4, <1>5, SetInduction
<1> QED BY <1>6 DEF P, list, N

\* The targets that are not postponed.
Kept(query, sorts) == DOMAIN query.targets \ Postponed(query, sorts)

\* The target list of the Agg: the targets that are not postponed.
KeepsTargets(f, query, sorts) ==
  /\ f.groups = GroupingExprs(query)
  /\ f.vars = PlainVars({query.targets[k] : k \in Postponed(query, sorts)})
  /\ Range(f.tlist) = {query.targets[k] : k \in Kept(query, sorts)}
  /\ \A n \in DOMAIN query.targets :
       1 .. n \subseteq Kept(query, sorts) => n \in DOMAIN f.tlist /\ f.tlist[n] = query.targets[n]

LEMMA TargetsAreKept ==
  ASSUME NEW c, c.query \in Queries, NEW sorts, NEW f, f = Fragment(c, sorts)
  PROVE  KeepsTargets(f, c.query, sorts)
<1> DEFINE query == c.query
           late == Postponed(query, sorts)
           S == Kept(query, sorts)
           N == Cardinality(S)
           list == Ascending(S)
<1>1. query.targets \in Seq(TargetEntries)
  BY QueryFields
<1>2. Len(query.targets) \in Nat /\ DOMAIN query.targets = 1 .. Len(query.targets)
  BY <1>1, LenProperties
<1>3. IsFiniteSet(S) /\ S \in SUBSET (Nat \ {0}) /\ S \in SUBSET Int
  <2>1. IsFiniteSet(1 .. Len(query.targets))
    BY <1>2, FS_Interval
  <2>2. S \subseteq 1 .. Len(query.targets)
    BY <1>2 DEF Kept
  <2> QED BY <1>2, <2>1, <2>2, FS_Subset
<1>4. list \in [1 .. N -> S] /\ \A x \in S : \E k \in 1 .. N : list[k] = x
  BY <1>3, AscendingSorts
<1>5. /\ f.groups = GroupingExprs(query)
      /\ f.vars = PlainVars({query.targets[k] : k \in late})
      /\ f.tlist = [k \in DOMAIN list |-> query.targets[list[k]]]
  <2> HIDE DEF late, query
  <2> QED BY DEF Fragment, Kept, late, query
<1> HIDE DEF late, S, N, list, query
<1>6. DOMAIN f.tlist = 1 .. N /\ \A k \in 1 .. N : f.tlist[k] = query.targets[list[k]]
  BY <1>4, <1>5
<1>7. Range(f.tlist) = {query.targets[k] : k \in S}
  <2>1. \A x \in Range(f.tlist) : \E k \in S : x = query.targets[k]
    BY <1>4, <1>6 DEF Range
  <2>2. \A k \in S : query.targets[k] \in Range(f.tlist)
    BY <1>4, <1>6 DEF Range
  <2> QED BY <2>1, <2>2
<1>8. ASSUME NEW n \in DOMAIN query.targets, 1 .. n \subseteq S
      PROVE  n \in DOMAIN f.tlist /\ f.tlist[n] = query.targets[n]
  <2>1. n \in Nat /\ n \in 1 .. n
    BY <1>2
  <2>2. n \in 1 .. N /\ list[n] = n
    BY <1>3, <1>8, <2>1, AscendingStarts DEF N, list
  <2> QED BY <1>6, <2>2
<1> QED BY <1>5, <1>7, <1>8 DEF late, S, query, KeepsTargets

\* The grouping columns cols of the query that is made of own are the targets
\* of its groups.
ArePlaces(cols, query, own) ==
  /\ DOMAIN cols = DOMAIN query.group /\ Len(cols) \in Nat /\ DOMAIN cols = 1 .. Len(cols)
  /\ \A i \in DOMAIN cols :
       /\ cols[i] \in DOMAIN own.targets /\ cols[i] \in DOMAIN query.targets
       /\ query.targets[cols[i]].ref = query.group[i] /\ query.group[i] # 0
       /\ query.targets[cols[i]].expr \in Exprs
       /\ query.targets[cols[i]].expr = GroupingExpr(query, query.group[i])
       /\ cols[i] = SortGroupTarget(MakeGrouped(own), query.group[i])
       /\ \A x \in DOMAIN query.targets : query.targets[x].ref = query.group[i] => cols[i] <= x
  /\ GroupingExprs(query) = {query.targets[cols[i]].expr : i \in DOMAIN cols}
  /\ GroupingExprs(query) = GroupingExprs(MakeGrouped(own))
  /\ GroupingExprs(query) = GroupingExprs(MakeAnonymizing(own))
  /\ MakeGrouped(own).group = query.group

LEMMA ColumnsAreGroups ==
  ASSUME NEW k, NEW part, NEW c, NEW lks, NEW context,
         IsContextOf(context, k, part.query), IsAnonymized(c, part, lks, context)
  PROVE  ArePlaces(context.grouping_cols, c.query, part.query)
<1> DEFINE cols  == context.grouping_cols
           query == c.query
           anon  == MakeAnonymizing(part.query)
           g     == MakeGrouped(part.query)
<1>1. IsValid(part.query) /\ query \in Queries /\ TargetsAreMade(query, part.query)
  BY DEF IsAnonymized
<1>2. query.targets \in Seq(TargetEntries) /\ query.group \in Seq(Nat)
  BY <1>1, QueryFields
<1>3. DOMAIN query.targets \subseteq Nat
  BY <1>2, LenProperties
<1>4. /\ TargetsAreMade(anon, part.query) /\ DOMAIN anon.targets \subseteq Nat
      /\ TargetsAreMade(g, part.query) /\ DOMAIN g.targets \subseteq Nat
  BY <1>1, TargetsOfMade
<1>5. cols = [i \in DOMAIN anon.group |-> SortGroupTarget(anon, anon.group[i])]
  BY DEF IsContextOf, GroupingCols
<1>6. anon.group = query.group /\ GroupingExprs(anon) = GroupingExprs(query)
      /\ \A ref \in Range(anon.group) : SortGroupTarget(anon, ref) = SortGroupTarget(query, ref)
  <2> HIDE DEF anon, query
  <2> QED BY <1>1, <1>3, <1>4, MadeAlike
<1>7. g.group = query.group /\ GroupingExprs(g) = GroupingExprs(query)
      /\ \A ref \in Range(g.group) : SortGroupTarget(g, ref) = SortGroupTarget(query, ref)
  <2> HIDE DEF g, query
  <2> QED BY <1>1, <1>3, <1>4, MadeAlike
<1> HIDE DEF cols, query, anon, g
<1>8. DOMAIN cols = DOMAIN query.group /\ Len(query.group) \in Nat /\ DOMAIN query.group = 1 .. Len(query.group)
  BY <1>2, <1>5, <1>6, LenProperties
<1>9. Len(cols) = Len(query.group)
  BY <1>5, <1>6, <1>8, LenProperties
<1>10. \A i \in DOMAIN query.group : cols[i] = SortGroupTarget(query, query.group[i])
  BY <1>5, <1>6 DEF Range
<1>11. ASSUME NEW i \in DOMAIN query.group
       PROVE  /\ cols[i] \in DOMAIN part.query.targets /\ query.targets[cols[i]].ref = query.group[i]
              /\ query.group[i] # 0 /\ part.query.targets[cols[i]].expr \in Exprs
              /\ \A x \in DOMAIN query.targets : query.targets[x].ref = query.group[i] => cols[i] <= x
  BY <1>1, <1>3, <1>10, ReferenceIsFound
<1>12. \A i \in DOMAIN query.group :
         /\ cols[i] \in DOMAIN query.targets /\ query.targets[cols[i]].expr \in Exprs
         /\ query.targets[cols[i]].expr = GroupingExpr(query, query.group[i])
  BY <1>1, <1>10, <1>11 DEF TargetsAreMade, GroupingExpr
<1>13. \A i \in DOMAIN query.group : cols[i] = SortGroupTarget(g, query.group[i])
  BY <1>7, <1>10 DEF Range
<1>14. GroupingExprs(query) = {query.targets[cols[i]].expr : i \in DOMAIN cols}
  BY <1>8, <1>12 DEF GroupingExprs, Range
<1> QED BY <1>6, <1>7, <1>8, <1>9, <1>11, <1>12, <1>13, <1>14 DEF cols, query, anon, g, ArePlaces

\* What is known of a compiled query that is planned.
IsPlanned(c, part, k, lks, context, sorts, f) ==
  /\ IsContextOf(context, k, part.query) /\ IsAnonymized(c, part, lks, context)
  /\ sorts \in BOOLEAN /\ (sorts => c.query.sorted) /\ f = Fragment(c, sorts)

(* Labels stay where they are if no target before them is postponed.        *)
LEMMA LabelsStay ==
  ASSUME NEW k, NEW part, NEW c, NEW lks, NEW context, NEW sorts, NEW f,
         IsPlanned(c, part, k, lks, context, sorts, f), ~ShiftsLabels(MakeGrouped(part.query)),
         NEW i \in DOMAIN context.grouping_cols
  PROVE  LET p == context.grouping_cols[i] IN p \in DOMAIN f.tlist /\ f.tlist[p] = c.query.targets[p]
<1> DEFINE cols  == context.grouping_cols
           query == c.query
           g     == MakeGrouped(part.query)
           p     == cols[i]
<1>1. IsContextOf(context, k, part.query) /\ IsAnonymized(c, part, lks, context)
      /\ sorts \in BOOLEAN /\ (sorts => query.sorted) /\ f = Fragment(c, sorts)
  BY DEF IsPlanned
<1>2. /\ query \in Queries /\ IsValid(part.query) /\ query.sorted = part.query.sorted
      /\ TargetsAreMade(query, part.query)
  BY <1>1 DEF IsAnonymized
<1>3. RestIsMade(g, part.query)
  BY <1>2, GroupedIsRewritable
<1>10. ArePlaces(cols, query, part.query) /\ KeepsTargets(f, query, sorts)
  BY <1>1, <1>2, ColumnsAreGroups, TargetsAreKept
<1>4. /\ DOMAIN cols = DOMAIN query.group /\ p \in DOMAIN part.query.targets /\ p \in DOMAIN query.targets
      /\ query.targets[p].ref = query.group[i] /\ query.group[i] # 0
      /\ p = SortGroupTarget(g, query.group[i]) /\ g.group = query.group
  BY <1>10 DEF ArePlaces
<1>5. query.targets \in Seq(TargetEntries) /\ part.query.targets \in Seq(TargetEntries)
  BY <1>2, QueryFields DEF IsValid, IsParsed
<1>6. /\ Len(query.targets) \in Nat /\ DOMAIN query.targets = 1 .. Len(query.targets)
      /\ Len(part.query.targets) \in Nat /\ DOMAIN part.query.targets = 1 .. Len(part.query.targets)
  BY <1>5, LenProperties
<1>7. ~ShiftsLabels(g)
  OBVIOUS
<1> HIDE DEF cols, query, g, p
<1>8. ASSUME NEW j \in 1 .. p, j \notin Kept(query, sorts) PROVE FALSE
  <2>1. j \in DOMAIN query.targets /\ j \in DOMAIN part.query.targets
    BY <1>4, <1>6
  <2>2. sorts /\ query.targets[j].late /\ query.targets[j].ref = 0
    BY <1>8, <2>1 DEF Kept, Postponed
  <2>3. j < p
    <3>1. j # p
      BY <1>4, <2>2
    <3> QED BY <1>4, <1>6, <3>1
  <2>4. g.sorted
    BY <1>1, <1>2, <1>3, <2>2 DEF RestIsMade
  <2>5. j \in DOMAIN g.targets /\ g.targets[j].late /\ g.targets[j].ref = 0
    BY <1>2, <1>3, <2>1, <2>2 DEF RestIsMade, TargetsAreMade
  <2>6. j \in Postponed(g, TRUE)
    BY <2>5 DEF Postponed
  <2>7. query.group[i] \in Range(g.group)
    BY <1>4 DEF Range, cols
  <2> QED BY <1>4, <1>7, <2>3, <2>4, <2>6, <2>7 DEF ShiftsLabels
<1>9. 1 .. p \subseteq Kept(query, sorts)
  BY <1>8
<1> QED BY <1>4, <1>9, <1>10 DEF KeepsTargets, p, cols, query

(* A plan whose labels stay where they are, and whose targets are made of   *)
(* groups, can be projected.                                                *)
LEMMA ProjectionIsKnown ==
  ASSUME NEW k, NEW part, NEW c, NEW lks, NEW context, NEW sorts, NEW f,
         IsPlanned(c, part, k, lks, context, sorts, f)
  PROVE  LET g == MakeGrouped(part.query)
         IN  /\ MissesLabel(f, context) => ShiftsLabels(g)
             /\ FailsToProject(f, context) =>
                  ShiftsLabels(g) \/ \E j \in DOMAIN g.targets : DependsOnGroups(g, g.targets[j])
<1> DEFINE cols   == context.grouping_cols
           query  == c.query
           g      == MakeGrouped(part.query)
           groups == GroupingExprs(query)
           Vars   == {e \in Exprs : e.node = "Var"}
<1> SUFFICES ASSUME ~ShiftsLabels(g)
             PROVE  /\ ~MissesLabel(f, context)
                    /\ (\A j \in DOMAIN g.targets : ~DependsOnGroups(g, g.targets[j])) => ~FailsToProject(f, context)
  OBVIOUS
<1>1. IsContextOf(context, k, part.query) /\ IsAnonymized(c, part, lks, context)
      /\ sorts \in BOOLEAN /\ (sorts => query.sorted) /\ f = Fragment(c, sorts)
  BY DEF IsPlanned
<1>2. /\ query \in Queries /\ IsValid(part.query) /\ query.sorted = part.query.sorted
      /\ TargetsAreMade(query, part.query)
  BY <1>1 DEF IsAnonymized
<1>3. RestIsMade(g, part.query)
  BY <1>2, GroupedIsRewritable
<1>15. ArePlaces(cols, query, part.query) /\ KeepsTargets(f, query, sorts)
  BY <1>1, <1>2, ColumnsAreGroups, TargetsAreKept
<1>4. /\ DOMAIN cols = DOMAIN query.group /\ Len(cols) \in Nat /\ DOMAIN cols = 1 .. Len(cols)
      /\ \A i \in DOMAIN cols : query.targets[cols[i]].expr \in Exprs
      /\ groups = {query.targets[cols[i]].expr : i \in DOMAIN cols} /\ groups = GroupingExprs(g)
  BY <1>15 DEF ArePlaces
<1>5. \A i \in DOMAIN cols : cols[i] \in DOMAIN f.tlist /\ f.tlist[cols[i]] = query.targets[cols[i]]
  BY LabelsStay
<1>6. /\ f.groups = groups
      /\ f.vars = PlainVars({query.targets[j] : j \in Postponed(query, sorts)})
      /\ Range(f.tlist) = {query.targets[j] : j \in Kept(query, sorts)}
  BY <1>15 DEF KeepsTargets
<1>7. Postponed(query, sorts) \subseteq DOMAIN query.targets /\ Kept(query, sorts) \subseteq DOMAIN query.targets
      /\ \A j \in Postponed(query, sorts) : sorts /\ query.targets[j].late /\ query.targets[j].ref = 0
  BY DEF Postponed, Kept
<1>8. ASSUME NEW j \in DOMAIN query.targets, query.targets[j].expr # Computed
      PROVE  /\ j \in DOMAIN g.targets /\ g.targets[j].expr = query.targets[j].expr
             /\ g.targets[j].late = query.targets[j].late /\ g.targets[j].ref = query.targets[j].ref
             /\ g.sorted = query.sorted
  <2>1. j \in DOMAIN part.query.targets
    BY <1>2, <1>8 DEF TargetsAreMade, IsJunk
  <2> HIDE DEF query, g
  <2> QED BY <1>2, <1>3, <2>1 DEF RestIsMade, TargetsAreMade
<1> HIDE DEF cols, query, g, groups
<1>9. LabelPositions(context) = {cols[i] : i \in DOMAIN cols}
  BY DEF LabelPositions, Range, cols
<1>10. ~MissesLabel(f, context)
  BY <1>5, <1>9 DEF MissesLabel
<1>11. \A i \in DOMAIN cols : f.tlist[cols[i]].expr \in groups /\ f.tlist[cols[i]].expr # Computed
  BY <1>4, <1>5, ExpressionFacts
<1>12. \A p \in LabelPositions(context) : IsVar(f, f.tlist[p])
  BY <1>6, <1>9, <1>11 DEF IsVar
<1>13. Range(Labels(f, context)) = groups
  <2>1. Labels(f, context) = [i \in DOMAIN cols |-> f.tlist[cols[i]].expr]
    BY DEF Labels, cols
  <2>2. Range(Labels(f, context)) = {f.tlist[cols[i]].expr : i \in DOMAIN cols}
    BY <2>1 DEF Range
  <2> QED BY <1>4, <1>5, <2>2
<1>14. ASSUME \A j \in DOMAIN g.targets : ~DependsOnGroups(g, g.targets[j]) PROVE AggVars(f) \subseteq groups
  <2>1. ASSUME NEW entry \in Range(f.tlist), entry.expr # Computed
        PROVE  Outermost(groups \cup Vars, entry.expr) \subseteq groups
    <3>1. PICK j \in DOMAIN query.targets : entry = query.targets[j]
      BY <1>6, <1>7, <2>1
    <3>2. j \in DOMAIN g.targets /\ g.targets[j].expr = entry.expr
      BY <1>8, <2>1, <3>1
    <3>3. ~DependsOnGroups(g, g.targets[j])
      BY <1>14, <3>2
    <3> QED BY <1>4, <2>1, <3>2, <3>3 DEF DependsOnGroups
  <2>2. ASSUME NEW j \in Postponed(query, sorts), query.targets[j].expr # Computed
        PROVE  VarsOf(query.targets[j].expr) \subseteq groups
    <3>1. /\ j \in DOMAIN g.targets /\ g.targets[j].expr = query.targets[j].expr
          /\ g.targets[j].late /\ g.targets[j].ref = 0 /\ g.sorted
      BY <1>1, <1>7, <1>8, <2>2
    <3>2. ~DependsOnGroups(g, g.targets[j])
      BY <1>14, <3>1
    <3> QED BY <1>4, <2>2, <3>1, <3>2 DEF DependsOnGroups
  <2>3. f.vars \subseteq groups
    BY <1>6, <2>2 DEF PlainVars
  <2> QED BY <1>6, <2>1, <2>3 DEF AggVars
<1> QED BY <1>10, <1>12, <1>13, <1>14 DEF FailsToProject

(* The groups of a query that has no implicit ones are all different.       *)
AllDiffer(cols, query) ==
  \A i, j \in DOMAIN cols : i # j => query.targets[cols[i]].expr # query.targets[cols[j]].expr

LEMMA GroupsDiffer ==
  ASSUME NEW k, NEW part, NEW c, NEW lks, NEW context,
         IsContextOf(context, k, part.query), IsAnonymized(c, part, lks, context), ~IsSimpleSelect(part.query)
  PROVE  AllDiffer(context.grouping_cols, c.query)
<1> DEFINE cols  == context.grouping_cols
           query == c.query
           own   == part.query
<1>1. IsValid(own) /\ query \in Queries /\ TargetsAreMade(query, own)
  BY DEF IsAnonymized
<1>8. ArePlaces(cols, query, own)
  BY ColumnsAreGroups
<1>2. DOMAIN cols = DOMAIN query.group
      /\ \A i \in DOMAIN cols : query.targets[cols[i]].expr = GroupingExpr(query, query.group[i])
  BY <1>8 DEF ArePlaces
<1>3. own \in Queries /\ IsParsed(own)
  BY <1>1 DEF IsValid, IsParsed
<1>4. DOMAIN own.targets \subseteq Nat /\ DOMAIN query.targets \subseteq Nat
  <2>1. own.targets \in Seq(TargetEntries) /\ query.targets \in Seq(TargetEntries)
    BY <1>1, <1>3, QueryFields
  <2> QED BY <2>1, LenProperties
<1>5. TargetsAreMade(own, own)
  BY DEF TargetsAreMade
<1> HIDE DEF cols, query, own
<1>6. own.group = query.group /\ \A ref \in Range(own.group) : GroupingExpr(own, ref) = GroupingExpr(query, ref)
  BY <1>1, <1>4, <1>5, MadeAlike
<1>7. \A i, j \in DOMAIN own.group : i # j => GroupingExpr(own, own.group[i]) # GroupingExpr(own, own.group[j])
  BY <1>3 DEF IsParsed
<1> QED BY <1>2, <1>6, <1>7 DEF Range, cols, query, own, AllDiffer

(* What flatten_agg_tlist takes for the labels are the expressions of the   *)
(* groups.                                                                  *)
LEMMA LabelsAreGroups ==
  ASSUME NEW k, NEW part, NEW c, NEW lks, NEW context, NEW sorts, NEW f,
         IsPlanned(c, part, k, lks, context, sorts, f), ~FailsToProject(f, context)
  PROVE  Range(Labels(f, context)) = GroupingExprs(MakeGrouped(part.query))
<1> DEFINE cols   == context.grouping_cols
           query  == c.query
           own    == part.query
           groups == GroupingExprs(query)
           labels == Labels(f, context)
           Vars   == {e \in Exprs : e.node = "Var"}
<1>1. IsContextOf(context, k, own) /\ IsAnonymized(c, part, lks, context)
      /\ sorts \in BOOLEAN /\ f = Fragment(c, sorts)
  BY DEF IsPlanned
<1>2. /\ query \in Queries /\ IsValid(own) /\ TargetsAreMade(query, own)
      /\ \A e \in GroupingExprs(MakeAnonymizing(own)) : AcceptsBucketExpression[e]
  BY <1>1 DEF IsAnonymized
<1>17. ArePlaces(cols, query, own) /\ KeepsTargets(f, query, sorts)
  BY <1>1, <1>2, ColumnsAreGroups, TargetsAreKept
<1>3. /\ DOMAIN cols = DOMAIN query.group /\ Len(cols) \in Nat /\ DOMAIN cols = 1 .. Len(cols)
      /\ \A i \in DOMAIN cols :
           /\ cols[i] \in DOMAIN own.targets /\ cols[i] \in DOMAIN query.targets
           /\ query.targets[cols[i]].ref # 0 /\ query.targets[cols[i]].ref = query.group[i]
           /\ query.targets[cols[i]].expr \in Exprs
           /\ \A x \in DOMAIN query.targets : query.targets[x].ref = query.group[i] => cols[i] <= x
      /\ groups = {query.targets[cols[i]].expr : i \in DOMAIN cols} /\ groups = GroupingExprs(MakeGrouped(own))
      /\ groups = GroupingExprs(MakeAnonymizing(own))
  BY <1>17 DEF ArePlaces
<1>4. f.groups = groups /\ Range(f.tlist) = {query.targets[j] : j \in Kept(query, sorts)}
  BY <1>17 DEF KeepsTargets
<1>5. /\ LabelPositions(context) \subseteq DOMAIN f.tlist
      /\ \A p \in LabelPositions(context) : IsVar(f, f.tlist[p])
      /\ AggVars(f) \subseteq Range(labels)
  BY DEF FailsToProject, MissesLabel
<1>6. labels = [i \in DOMAIN cols |-> f.tlist[cols[i]].expr] /\ LabelPositions(context) = {cols[i] : i \in DOMAIN cols}
  BY DEF Labels, LabelPositions, Range
<1>15. ~IsSimpleSelect(own) => AllDiffer(cols, query)
  BY <1>1, GroupsDiffer
<1>16. \A e : f.groups \cup {x \in Exprs : x.node = "Var"} = f.groups \cup Vars
  OBVIOUS
<1> HIDE DEF cols, query, groups, labels, own
<1>7. groups \subseteq Range(labels)
  <2> SUFFICES ASSUME NEW i \in DOMAIN cols PROVE query.targets[cols[i]].expr \in AggVars(f)
    BY <1>3, <1>5
  <2> DEFINE entry == query.targets[cols[i]]
  <2>1. entry.expr \in Exprs /\ entry.expr # Computed /\ entry.expr \in groups
    BY <1>3, ExpressionFacts
  <2>2. cols[i] \in Kept(query, sorts)
    BY <1>3 DEF Kept, Postponed
  <2>3. entry \in Range(f.tlist)
    BY <1>4, <2>2
  <2> HIDE DEF entry
  <2>4. entry.expr \in Outermost(f.groups \cup Vars, entry.expr)
    <3> HIDE DEF Vars
    <3>1. entry.expr \in f.groups \cup Vars
      BY <1>4, <2>1
    <3> QED BY <2>1, <3>1, OutermostUnfolds
  <2>5. entry.expr \in AggVars(f)
    BY <2>1, <2>3, <2>4 DEF AggVars
  <2> QED BY <2>5 DEF entry
<1>8. ASSUME IsSimpleSelect(own) PROVE Range(labels) \subseteq groups
  <2> SUFFICES ASSUME NEW i \in DOMAIN cols PROVE f.tlist[cols[i]].expr \in groups
    BY <1>6 DEF Range
  <2> DEFINE entry == f.tlist[cols[i]]
  <2>1. IsVar(f, entry) /\ cols[i] \in DOMAIN f.tlist
    BY <1>5, <1>6
  <2>2. PICK j \in Kept(query, sorts) : entry = query.targets[j]
    BY <1>4, <2>1 DEF Range
  <2> HIDE DEF entry
  <2>3. CASE entry.expr \in f.groups
    BY <1>4, <2>3 DEF entry
  <2>4. CASE entry.expr \notin f.groups
    <3>1. entry.expr # Computed /\ entry.expr.node = "Var" /\ j \in DOMAIN query.targets
      BY <2>1, <2>2, <2>4 DEF IsVar, Kept
    <3>2. j \in DOMAIN own.targets
      BY <1>2, <2>2, <3>1 DEF TargetsAreMade, IsJunk
    <3>3. own.targets[j].expr = entry.expr /\ entry.expr \in Exprs
      <4>1. own.targets[j].expr = entry.expr
        BY <1>2, <2>2, <3>2 DEF TargetsAreMade
      <4>2. query.targets \in Seq(TargetEntries)
        BY <1>2, QueryFields
      <4>3. entry \in TargetEntries
        BY <2>2, <3>1, <4>2
      <4> QED BY <3>1, <4>1, <4>3 DEF TargetEntries
    <3>4. VarsOf(entry.expr) = {entry.expr}
      <4>1. entry.expr \in Vars
        BY <3>1, <3>3
      <4> HIDE DEF Vars
      <4>2. Outermost(Vars, entry.expr) = {entry.expr}
        BY <3>3, <4>1, OutermostUnfolds
      <4> QED BY <4>2 DEF VarsOf, Vars
    <3>5. j \in Implicit(own)
      BY <3>2, <3>3, <3>4 DEF Implicit, HasVar
    <3>6. query.targets[j].ref = j /\ query.group = Ascending(Implicit(own))
      BY <1>2, <1>8, <3>2, <3>5 DEF TargetsAreMade
    <3>7. PICK n \in DOMAIN cols : query.group[n] = j
      <4>1. own \in Queries
        BY <1>2 DEF IsValid, IsParsed
      <4>2. \E n \in DOMAIN Ascending(Implicit(own)) : Ascending(Implicit(own))[n] = j
        <5>1. own.targets \in Seq(TargetEntries)
          BY <4>1, QueryFields
        <5>2. Len(own.targets) \in Nat /\ DOMAIN own.targets = 1 .. Len(own.targets)
          BY <5>1, LenProperties
        <5>3. IsFiniteSet(Implicit(own)) /\ Implicit(own) \in SUBSET Int
          <6>1. IsFiniteSet(1 .. Len(own.targets))
            BY <5>2, FS_Interval
          <6>2. Implicit(own) \subseteq 1 .. Len(own.targets)
            BY <5>2 DEF Implicit
          <6> QED BY <5>2, <6>1, <6>2, FS_Subset
        <5> QED BY <3>5, <5>3, AscendingSorts
      <4> QED BY <1>3, <3>6, <4>2
    <3>8. cols[n] = j
      <4> SUFFICES ASSUME cols[n] # j PROVE FALSE
        OBVIOUS
      <4>1. cols[n] \in DOMAIN own.targets /\ query.targets[cols[n]].ref = j /\ query.targets[cols[n]].expr \in groups
        BY <1>3, <3>7
      <4>2. cols[n] \notin Implicit(own)
        BY <1>2, <1>8, <4>1 DEF TargetsAreMade
      <4>3. own.targets[cols[n]].expr = query.targets[cols[n]].expr
        BY <1>2, <4>1 DEF TargetsAreMade
      <4>4. HasVar(query.targets[cols[n]].expr)
        BY <1>2, <1>3, <4>1, AcceptedHasVar
      <4> QED BY <4>1, <4>2, <4>3, <4>4 DEF Implicit
    <3> QED BY <1>3, <2>2, <3>8 DEF entry
  <2> QED BY <2>3, <2>4
<1>9. ASSUME ~IsSimpleSelect(own) PROVE groups = Range(labels)
  <2> DEFINE n == Len(cols)
             places == [i \in 1 .. n |-> query.targets[cols[i]].expr]
  <2>1. IsFiniteSet(1 .. n) /\ Cardinality(1 .. n) = n
    BY <1>3, FS_Interval
  <2>2. IsFiniteSet(groups) /\ Cardinality(groups) = n
    <3>1. places \in Bijection(1 .. n, groups)
      <4>1. places \in [1 .. n -> groups]
        BY <1>3
      <4>2. \A i, j \in 1 .. n : i # j => places[i] # places[j]
        BY <1>3, <1>9, <1>15 DEF AllDiffer
      <4>3. \A e \in groups : \E i \in 1 .. n : places[i] = e
        BY <1>3
      <4> HIDE DEF places
      <4> QED BY <4>1, <4>2, <4>3 DEF Bijection, Injection, Surjection, IsInjective
    <3> HIDE DEF places, n
    <3> QED BY <2>1, <3>1, FS_Bijection DEF ExistsBijection
  <2>3. IsFiniteSet(Range(labels)) /\ Cardinality(Range(labels)) <= n
    <3>1. labels \in Surjection(1 .. n, Range(labels))
      BY <1>3, <1>6 DEF Surjection, Range
    <3> HIDE DEF n
    <3> QED BY <2>1, <3>1, FS_Surjection
  <2>4. Cardinality(groups) <= Cardinality(Range(labels)) /\ Cardinality(Range(labels)) \in Nat
    BY <1>7, <2>3, FS_Subset, FS_CardinalityType
  <2>5. Cardinality(groups) = Cardinality(Range(labels))
    BY <1>3, <2>2, <2>3, <2>4
  <2>6. groups = Range(labels)
    BY <1>7, <2>3, <2>5, FS_Subset
  <2> QED BY <2>6
<1> QED BY <1>3, <1>7, <1>8, <1>9 DEF labels, own

(* The conditions on an anonymizing query that is no WITH query, or that    *)
(* has no conditions of an outer query, are evaluated above it.             *)
LEMMA QualsStayAbove ==
  ASSUME NEW s \in Statements \cup Prepareds, NEW k \in DOMAIN s, NEW c, NEW lks, NEW context,
         IsAnonymized(c, s[k], lks, context), NEW sorts, NEW f, f = Fragment(c, sorts),
         s[k].via # "cte" \/ s[k].conditions = <<>>
  PROVE  /\ f.below = {} /\ CanUnwrap(f)
         /\ UNION {qual.conditions : qual \in f.quals} = {HavingCond(j) : j \in DOMAIN s[k].query.having}
<1> DEFINE part == s[k]
           conds == {HavingCond(j) : j \in DOMAIN c.query.having}
           quals == HavingQuals(c) \cup PushedQuals(c)
<1>1. part.via \in {"top", "from", "cte"} /\ (part.via = "top" => part.conditions = <<>>)
      /\ part.query \in Queries
  BY PartFacts
<1>2. c.part = part /\ c.wrapped = (part.query.having # <<>>) /\ DOMAIN c.query.having = DOMAIN part.query.having
      /\ c.query.limit = DummyLimit(part)
  BY DEF IsAnonymized
<1>3. part.via = "from" => c.query.limit # NoLimit
  BY <1>2 DEF DummyLimit, Int64Max, NoLimit
<1>4. \A j \in DOMAIN c.part.conditions : ~IsPushedDown(c, j)
  BY <1>1, <1>2, <1>3 DEF IsPushedDown
<1>5. PushedQuals(c) = {}
  BY <1>4 DEF PushedQuals
<1>6. part.query.having \in Seq(Seq(Aggrefs))
  BY <1>1, QueryFields
<1>7. CASE c.wrapped
  <2> DEFINE qual == [wrapped |-> TRUE, conditions |-> conds, aggregates |-> TRUE]
  <2>1. quals = {qual}
    BY <1>5, <1>7 DEF HavingQuals
  <2>2. qual.wrapped /\ qual.conditions = conds
    OBVIOUS
  <2> HIDE DEF qual, quals, conds
  <2>3. ~MovesToWhere(qual)
    BY <2>2 DEF MovesToWhere
  <2>4. f.below = {} /\ f.quals = {qual}
    <3>1. /\ f.below = UNION {q.conditions : q \in {q \in quals : MovesToWhere(q)}}
          /\ f.quals = quals \ {q \in quals : MovesToWhere(q)}
      BY FragmentFields DEF quals
    <3> QED BY <2>1, <2>3, <3>1
  <2>5. CanUnwrap(f)
    BY <2>2, <2>4 DEF CanUnwrap
  <2>6. UNION {q.conditions : q \in f.quals} = conds
    BY <2>2, <2>4
  <2> QED BY <1>2, <2>4, <2>5, <2>6 DEF conds
<1>8. CASE ~c.wrapped
  <2>5. part.query.having = <<>>
    BY <1>2, <1>8, Zenon
  <2>1. part.query.having = <<>> /\ DOMAIN part.query.having = {}
    BY <2>5
  <2>2. DOMAIN c.query.having = {}
    BY <1>2, <2>1
  <2>3. quals = {}
    BY <1>5, <1>8, <2>2 DEF HavingQuals
  <2> HIDE DEF quals
  <2>4. f.below = {} /\ f.quals = {}
    <3>1. /\ f.below = UNION {q.conditions : q \in {q \in quals : MovesToWhere(q)}}
          /\ f.quals = quals \ {q \in quals : MovesToWhere(q)}
      BY FragmentFields DEF quals
    <3> QED BY <2>3, <3>1
  <2> QED BY <2>1, <2>4 DEF CanUnwrap
<1> QED BY <1>2, <1>7, <1>8

\* The BucketScan over the k-th query.
ScanParts == {"query", "context", "labels", "num_labels", "aggs", "quals", "low_count", "count_star"}

IsScanOf(scan, k, query) ==
  /\ ScanParts \subseteq DOMAIN scan
  /\ scan.query = k /\ scan.aggs = AnonAggs(query)
  /\ IsContextOf(scan.context, k, query)
  /\ scan.num_labels = Len(GroupingCols(MakeAnonymizing(query)))
  /\ DOMAIN scan.labels = 1 .. scan.num_labels
  /\ Range(scan.labels) = GroupingExprs(MakeGrouped(query))
  /\ scan.low_count = (\E a \in AnonAggs(query) : a.fn = "low_count")
  /\ scan.count_star = (\E a \in AnonAggs(query) : a.fn = "anon_count_star")

SeesBins(f, query) ==
  f.below = {} /\ f.scan.quals = {HavingCond(j) : j \in DOMAIN query.having}

KeepsLimits(f, query) ==
  (query.limit # NoLimit \/ query.offset = 0) /\ query.limit # Int64Max =>
     /\ f.offset = query.offset
     /\ f.limit = query.limit \/ (f.limit = Int64Max /\ f.sorts)

FragmentParts == {"aggs", "having", "below", "quals", "sorts", "limit", "offset", "scan"}

\* A fragment of the plan that is executed.
IsExecutable(f, part, k) ==
  /\ FragmentParts \subseteq DOMAIN f
  /\ f.scan # NoScan => /\ IsAnonymizing(part.query) /\ IsValid(part.query)
                        /\ IsScanOf(f.scan, k, part.query)
                        /\ part.via # "cte" => SeesBins(f, part.query)
                        /\ KeepsLimits(f, part.query)
  /\ IsAnonymizing(part.query) /\ ~AggregatesInHavingOnly(part.query) => f.scan # NoScan

LEMMA FragmentIsRecord ==
  ASSUME NEW c, NEW sorts
  PROVE  FragmentParts \subseteq DOMAIN Fragment(c, sorts)
BY DEF Fragment, FragmentParts

LEMMA ScanIsOwn ==
  ASSUME NEW k, NEW part, NEW c, NEW lks, NEW context,
         NEW sorts, NEW f, IsPlanned(c, part, k, lks, context, sorts, f), ~FailsToProject(f, context),
         NEW scan, scan = MakeBucketScan(f, context)
  PROVE  IsScanOf(scan, k, part.query) /\ scan.quals = UNION {qual.conditions : qual \in f.quals}
<1>5. /\ IsContextOf(context, k, part.query) /\ IsAnonymized(c, part, lks, context)
      /\ f.aggs = TargetAggs(c.query) /\ f.having = HavingAggs(c.query)
  BY FragmentFields DEF IsPlanned
<1>1. UniqueAggs(f) = AnonAggs(part.query)
  BY <1>5, ScanAggsAreAnon
<1>2. HasAgg(f, "low_count") = (\E a \in AnonAggs(part.query) : a.fn = "low_count")
      /\ HasAgg(f, "anon_count_star") = (\E a \in AnonAggs(part.query) : a.fn = "anon_count_star")
  BY <1>1 DEF HasAgg
<1>3. context.query = k /\ context.grouping_cols = GroupingCols(MakeAnonymizing(part.query))
  BY <1>5 DEF IsContextOf
<1>6. Range(Labels(f, context)) = GroupingExprs(MakeGrouped(part.query))
  BY LabelsAreGroups
<1>7. DOMAIN Labels(f, context) = 1 .. Len(context.grouping_cols)
  <2>1. ArePlaces(context.grouping_cols, c.query, part.query)
    BY <1>5, ColumnsAreGroups
  <2> QED BY <2>1 DEF Labels, ArePlaces
<1>4. /\ ScanParts \subseteq DOMAIN scan /\ scan.labels = Labels(f, context)
      /\ scan.query = context.query /\ scan.context = context /\ scan.num_labels = Len(context.grouping_cols)
      /\ scan.aggs = UniqueAggs(f) /\ scan.quals = UNION {qual.conditions : qual \in f.quals}
      /\ scan.low_count = HasAgg(f, "low_count") /\ scan.count_star = HasAgg(f, "anon_count_star")
  <2> HIDE DEF HasAgg, UniqueAggs, Labels
  <2> QED BY DEF MakeBucketScan, ScanParts
<1> QED BY <1>1, <1>2, <1>3, <1>4, <1>5, <1>6, <1>7, Zenon DEF IsScanOf

LEMMA SkippedFields ==
  ASSUME NEW f, FragmentParts \subseteq DOMAIN f, NEW r, r = SkipDummyLimit(f)
  PROVE  /\ FragmentParts \subseteq DOMAIN r
         /\ r.scan = f.scan /\ r.below = f.below /\ r.sorts = f.sorts
         /\ IF IsLimitExamined(f) /\ f.limit = Int64Max
            THEN r.limit = NoLimit /\ r.offset = 0
            ELSE r.limit = f.limit /\ r.offset = f.offset
<1>1. CASE IsLimitExamined(f) /\ f.limit = Int64Max
  <2>1. r = [f EXCEPT !.limit = NoLimit, !.offset = 0]
    BY <1>1 DEF SkipDummyLimit
  <2>2. /\ DOMAIN r = DOMAIN f
        /\ r.scan = f.scan /\ r.below = f.below /\ r.sorts = f.sorts /\ r.limit = NoLimit /\ r.offset = 0
    BY <2>1 DEF FragmentParts
  <2> QED BY <1>1, <2>2
<1>2. CASE ~(IsLimitExamined(f) /\ f.limit = Int64Max)
  BY <1>2 DEF SkipDummyLimit
<1> QED BY <1>1, <1>2

LEMMA ScannedFields ==
  ASSUME NEW f, FragmentParts \subseteq DOMAIN f, NEW scan, NEW r, r = [f EXCEPT !.scan = scan]
  PROVE  /\ FragmentParts \subseteq DOMAIN r /\ r.scan = scan
         /\ r.below = f.below /\ r.sorts = f.sorts /\ r.limit = f.limit /\ r.offset = f.offset
BY DEF FragmentParts

\* rewrite_plan, of the fragment of an anonymizing query.
LEMMA RewrittenIsExecutable ==
  ASSUME NEW s \in Statements \cup Prepareds, NEW k \in DOMAIN s, NEW c, NEW context,
         IsAnonymizing(s[k].query), NEW sorts, NEW f, IsPlanned(c, s[k], k, links, context, sorts, f),
         Contexts(f) # {}, ~FailsToRewrite(f)
  PROVE  IsExecutable(Rewritten(f), s[k], k)
<1> DEFINE part == s[k]
           query == part.query
           scan == MakeBucketScan(f, context)
           scanned == [f EXCEPT !.scan = scan]
           r == Rewritten(f)
<1>15. /\ IsContextOf(context, k, query) /\ IsAnonymized(c, part, links, context) /\ f = Fragment(c, sorts)
       /\ IsPlanned(c, part, k, links, context, sorts, f)
  BY DEF IsPlanned
<1>1. /\ f.aggs = TargetAggs(c.query) /\ f.having = HavingAggs(c.query)
      /\ f.limit = c.query.limit /\ f.offset = c.query.offset /\ f.sorts = sorts
  BY <1>15, FragmentFields
<1>2. Contexts(f) = {context}
  BY <1>1, <1>15, ContextsAreOwn
<1>3. (CHOOSE x \in Contexts(f) : TRUE) = context
  BY <1>2
<1>4. r = SkipDummyLimit(scanned)
  BY <1>3, Zenon DEF Rewritten
<1>5. FragmentParts \subseteq DOMAIN f
  BY <1>15, FragmentIsRecord
<1>16. scan = MakeBucketScan(f, context) /\ ~FailsToProject(f, context)
  BY <1>2 DEF FailsToRewrite
<1> HIDE DEF scan, part
<1>6. IsScanOf(scan, k, query) /\ scan.quals = UNION {qual.conditions : qual \in f.quals}
  BY <1>15, <1>16, ScanIsOwn
<1> USE DEF part
<1>7. /\ c.query.limit = DummyLimit(part) /\ c.query.offset = query.offset /\ IsValid(query)
  BY <1>15 DEF IsAnonymized
<1>17. query \in Queries
  BY PartFacts
<1>18. query.limit \in Nat \cup {NoLimit} /\ query.offset \in Nat
  BY <1>17, QueryFields
<1> HIDE DEF scan, r
<1>8. /\ FragmentParts \subseteq DOMAIN scanned /\ scanned.scan = scan
      /\ scanned.below = f.below /\ scanned.sorts = f.sorts
      /\ scanned.limit = f.limit /\ scanned.offset = f.offset
  BY <1>5, ScannedFields
<1> HIDE DEF scanned
<1>9. /\ FragmentParts \subseteq DOMAIN r
      /\ r.scan = scanned.scan /\ r.below = scanned.below /\ r.sorts = scanned.sorts
      /\ IF IsLimitExamined(scanned) /\ scanned.limit = Int64Max
         THEN r.limit = NoLimit /\ r.offset = 0
         ELSE r.limit = scanned.limit /\ r.offset = scanned.offset
  BY <1>4, <1>8, SkippedFields
<1>10. ASSUME part.via # "cte" PROVE SeesBins(r, query)
  <2>1. f.below = {} /\ UNION {qual.conditions : qual \in f.quals} = {HavingCond(j) : j \in DOMAIN query.having}
    BY <1>10, <1>15, QualsStayAbove, ZenonT(30)
  <2> QED BY <1>6, <1>8, <1>9, <2>1 DEF SeesBins
<1>11. KeepsLimits(r, query)
  <2> SUFFICES ASSUME query.limit # NoLimit \/ query.offset = 0, query.limit # Int64Max
               PROVE  r.offset = query.offset /\ (r.limit = query.limit \/ (r.limit = Int64Max /\ r.sorts))
    BY DEF KeepsLimits
  <2>1. scanned.limit = DummyLimit(part) /\ scanned.offset = query.offset
    BY <1>1, <1>7, <1>8
  <2>2. CASE query.limit # NoLimit
    <3>1. DummyLimit(part) = query.limit
      BY <2>2 DEF DummyLimit
    <3> QED BY <1>9, <2>1, <3>1
  <2>3. CASE query.limit = NoLimit
    <3>1. query.offset = 0
      BY <2>3
    <3>2. scanned.limit \in {Int64Max, NoLimit} /\ scanned.offset = 0
      BY <2>1, <2>3, <3>1 DEF DummyLimit
    <3>3. CASE scanned.limit = NoLimit
      BY <1>9, <2>1, <2>3, <3>3 DEF Int64Max, NoLimit
    <3>4. CASE scanned.limit = Int64Max
      <4>1. HasLimitNode(scanned)
        BY <3>4 DEF HasLimitNode, Int64Max, NoLimit
      <4>2. CASE scanned.sorts
        <5>1. ~IsLimitExamined(scanned)
          BY <4>2 DEF IsLimitExamined
        <5> QED BY <1>9, <2>1, <3>4, <4>2, <5>1
      <4>3. CASE ~scanned.sorts
        <5>1. IsLimitExamined(scanned)
          BY <4>1, <4>3 DEF IsLimitExamined
        <5> QED BY <1>9, <2>3, <3>1, <3>4, <5>1
      <4> QED BY <4>2, <4>3
    <3> QED BY <3>2, <3>3, <3>4
  <2> QED BY <2>2, <2>3
<1>12. r.scan # NoScan
  <2>1. r.scan.query = k
    BY <1>6, <1>8, <1>9 DEF IsScanOf
  <2>2. NoScan.query = 0
    BY DEF NoScan
  <2>3. k # 0
    BY PartFacts
  <2> QED BY <2>1, <2>2, <2>3
<1>13. IsScanOf(r.scan, k, query)
  BY <1>6, <1>8, <1>9
<1>14. IsExecutable(r, part, k)
  BY <1>7, <1>9, <1>10, <1>11, <1>12, <1>13, Zenon DEF IsExecutable
<1> QED BY <1>14 DEF r

LEMMA SkippedHasNoContext ==
  ASSUME NEW part, IsParsed(part.query), NEW c, IsSkipped(c, part), NEW f, f.aggs = TargetAggs(c.query)
  PROVE  Contexts(f) = {}
<1>1. \A agg \in f.aggs : agg.location = NoLocation
  BY DEF IsSkipped, IsParsed, IsParsedAgg
<1>2. LinkedAggs(f) = {}
  BY <1>1 DEF LinkedAggs
<1> QED BY <1>2 DEF Contexts

\* A fragment without contexts is executed as it is.
LEMMA UnscannedIsExecutable ==
  ASSUME NEW part, IsParsed(part.query), NEW c, NEW k, IsCompiledAs(c, part, k, links),
         NEW sorts, NEW f, f = Fragment(c, sorts), Contexts(f) = {}
  PROVE  IsExecutable(f, part, k)
<1>1. FragmentParts \subseteq DOMAIN f
  BY FragmentIsRecord
<1>2. f.scan = NoScan /\ f.aggs = TargetAggs(c.query)
  BY FragmentFields
<1>3. ASSUME IsAnonymizing(part.query), ~AggregatesInHavingOnly(part.query) PROVE FALSE
  <2>1. PICK context : IsAnonymized(c, part, links, context)
    BY <1>3 DEF IsCompiledAs
  <2>2. IsValid(part.query)
    BY <2>1 DEF IsAnonymized
  <2>3. \E a \in TargetAggs(MakeAnonymizing(part.query)) : IsLinked(a)
    BY <1>3, <2>2, SomeAggIsLinked
  <2>4. Contexts(f) = {context}
    BY <1>2, <2>1, <2>3, ContextsAreOwn
  <2> QED BY <2>4
<1> QED BY <1>1, <1>2, <1>3 DEF IsExecutable

\* rewrite_plan, of any fragment.
LEMMA FragmentIsExecutable ==
  ASSUME NEW s \in Statements \cup Prepareds, NEW k \in DOMAIN s, NEW c, IsCompiledAs(c, s[k], k, links),
         NEW sorts \in BOOLEAN, sorts => c.query.sorted, NEW f, f = Fragment(c, sorts),
         Contexts(f) # {} => ~FailsToRewrite(f)
  PROVE  IsExecutable(IF Contexts(f) # {} THEN Rewritten(f) ELSE f, s[k], k)
<1>1. IsParsed(s[k].query)
  BY PartFacts
<1>2. CASE Contexts(f) = {}
  BY <1>1, <1>2, UnscannedIsExecutable
<1>3. CASE Contexts(f) # {}
  <2>1. f.aggs = TargetAggs(c.query)
    BY FragmentFields
  <2>2. IsAnonymizing(s[k].query)
    BY <1>1, <1>3, <2>1, SkippedHasNoContext DEF IsCompiledAs
  <2>3. PICK context : IsContextOf(context, k, s[k].query) /\ IsAnonymized(c, s[k], links, context)
    BY <2>2 DEF IsCompiledAs
  <2>5. IsPlanned(c, s[k], k, links, context, sorts, f)
    BY <2>3 DEF IsPlanned
  <2>4. IsExecutable(Rewritten(f), s[k], k)
    BY <1>3, <2>2, <2>5, RewrittenIsExecutable
  <2> QED BY <1>3, <2>4
<1> QED BY <1>2, <1>3

(* bucket_scan_data_copy loses the labels of the filters, nothing else.     *)
LEMMA CopyIsExecutable ==
  ASSUME NEW fragments, NEW k \in DOMAIN fragments, NEW part, IsExecutable(fragments[k], part, k)
  PROVE  IsExecutable(CopyPlan(fragments)[k], part, k)
<1> DEFINE f == fragments[k]
           scan == f.scan
           copied_scan == [scan EXCEPT !.context = DataCopy(scan.context)]
           copy == CopyPlan(fragments)[k]
<1>1. copy = IF scan = NoScan THEN f ELSE [f EXCEPT !.scan = copied_scan]
  BY DEF CopyPlan
<1>2. CASE scan = NoScan
  BY <1>1, <1>2
<1>3. CASE scan # NoScan
  <2> DEFINE context == scan.context
  <2>1. /\ FragmentParts \subseteq DOMAIN f /\ IsAnonymizing(part.query) /\ IsValid(part.query)
        /\ IsScanOf(scan, k, part.query)
        /\ part.via # "cte" => SeesBins(f, part.query)
        /\ KeepsLimits(f, part.query)
    BY <1>3 DEF IsExecutable
  <2>2. /\ ScanParts \subseteq DOMAIN scan
        /\ IsContextOf(context, k, part.query)
    BY <2>1 DEF IsScanOf
  <2>3. copy = [f EXCEPT !.scan = copied_scan]
    BY <1>1, <1>3
  <2>4. IsContextOf(DataCopy(context), k, part.query)
    BY <2>2 DEF IsContextOf, DataCopy
  <2> HIDE DEF copy, f
  <2>5. /\ DOMAIN copied_scan = DOMAIN scan
        /\ copied_scan.query = scan.query /\ copied_scan.context = DataCopy(context)
        /\ copied_scan.num_labels = scan.num_labels /\ copied_scan.labels = scan.labels
        /\ copied_scan.aggs = scan.aggs
        /\ copied_scan.quals = scan.quals
        /\ copied_scan.low_count = scan.low_count /\ copied_scan.count_star = scan.count_star
    <3> HIDE DEF scan, context
    <3> QED BY <2>2 DEF context, ScanParts
  <2> HIDE DEF copied_scan, scan, context
  <2>6. IsScanOf(copied_scan, k, part.query)
    BY <2>1, <2>4, <2>5 DEF IsScanOf
  <2>7. /\ FragmentParts \subseteq DOMAIN copy /\ copy.scan = copied_scan
        /\ copy.below = f.below /\ copy.sorts = f.sorts /\ copy.limit = f.limit /\ copy.offset = f.offset
    BY <2>1, <2>3, ScannedFields
  <2>8. part.via # "cte" => SeesBins(copy, part.query)
    BY <2>1, <2>5, <2>7 DEF SeesBins, scan
  <2>9. KeepsLimits(copy, part.query)
    BY <2>1, <2>7 DEF KeepsLimits
  <2>10. copied_scan # NoScan
    <3>1. "aggs" \in DOMAIN copied_scan
      BY <2>2, <2>5 DEF ScanParts
    <3>2. "aggs" \notin DOMAIN NoScan
      BY DEF NoScan
    <3> QED BY <3>1, <3>2
  <2>11. IsExecutable(copy, part, k)
    BY <2>1, <2>6, <2>7, <2>8, <2>9, <2>10 DEF IsExecutable
  <2> QED BY <2>11 DEF copy
<1> QED BY <1>2, <1>3

-----------------------------------------------------------------------------
(* Failures                                                                *)

\* rewrite_plan fails for WITH queries with conditions, and for what it
\* cannot project.
LEMMA FailureIsKnown ==
  ASSUME NEW s \in Statements \cup Prepareds, NEW k \in DOMAIN s, NEW c, IsCompiledAs(c, s[k], k, links),
         NEW sorts \in BOOLEAN, sorts => c.query.sorted, NEW f, f = Fragment(c, sorts),
         Contexts(f) # {}, FailsToRewrite(f)
  PROVE  MayFail(s[k])
<1> DEFINE part == s[k]
           g    == MakeGrouped(part.query)
<1>1. IsParsed(part.query)
  BY PartFacts
<1>2. f.aggs = TargetAggs(c.query) /\ f.having = HavingAggs(c.query)
  BY FragmentFields
<1>3. IsAnonymizing(part.query)
  BY <1>1, <1>2, SkippedHasNoContext DEF IsCompiledAs
<1> SUFFICES ASSUME part.via # "cte" \/ part.conditions = <<>>, ~ShiftsLabels(g),
                    \A j \in DOMAIN g.targets : ~DependsOnGroups(g, g.targets[j])
             PROVE  FALSE
  <2> HIDE DEF part
  <2> QED BY <1>3 DEF MayFail, part
<1>4. PICK context : IsContextOf(context, k, part.query) /\ IsAnonymized(c, part, links, context)
  BY <1>3 DEF IsCompiledAs
<1>5. Contexts(f) \subseteq {context} /\ ~IsMismatched(f)
  BY <1>2, <1>4, ContextsAreOwn
<1>6. CanUnwrap(f)
  BY <1>4, QualsStayAbove
<1>7. UniqueAggs(f) = AnonAggs(part.query) /\ IsValid(part.query)
  BY <1>2, <1>4, ScanAggsAreAnon DEF IsAnonymized
<1>8. ASSUME NEW x \in Contexts(f), x.expand, ~HasAgg(f, "anon_count_star") PROVE FALSE
  <2>1. IsSimpleSelect(part.query)
    BY <1>4, <1>5, <1>8 DEF IsContextOf
  <2>2. \E a \in AnonAggs(part.query) : a.fn = "anon_count_star"
    BY <1>7, <2>1, AnonAggsAreUsable
  <2> QED BY <1>7, <1>8, <2>2 DEF HasAgg
<1>9. ~FailsToProject(f, context)
  <2>1. IsPlanned(c, part, k, links, context, sorts, f)
    BY <1>4 DEF IsPlanned
  <2> QED BY <2>1, ProjectionIsKnown
<1> QED BY <1>5, <1>6, <1>8, <1>9 DEF FailsToRewrite

\* It crashes for OFFSET without LIMIT, and for labels that are not there.
LEMMA CrashIsKnown ==
  ASSUME NEW s \in Statements \cup Prepareds, NEW k \in DOMAIN s, NEW c, IsCompiledAs(c, s[k], k, links),
         NEW sorts \in BOOLEAN, sorts => c.query.sorted, NEW f, f = Fragment(c, sorts),
         Contexts(f) # {}, CrashesRewriting(f)
  PROVE  MayCrash(s[k])
<1> DEFINE part == s[k]
<1>1. IsParsed(part.query)
  BY PartFacts
<1>2. f.aggs = TargetAggs(c.query) /\ f.limit = c.query.limit /\ f.offset = c.query.offset
  BY FragmentFields
<1>3. IsAnonymizing(part.query)
  BY <1>1, <1>2, SkippedHasNoContext DEF IsCompiledAs
<1>4. PICK context : IsContextOf(context, k, part.query) /\ IsAnonymized(c, part, links, context)
  BY <1>3 DEF IsCompiledAs
<1>5. CASE IsLimitExamined(f) /\ f.limit = NoLimit
  <2>1. f.limit = NoLimit /\ f.offset # 0
    BY <1>5 DEF IsLimitExamined, HasLimitNode
  <2>2. DummyLimit(part) = NoLimit /\ part.query.offset # 0
    BY <1>2, <1>4, <2>1 DEF IsAnonymized
  <2>3. part.query.limit = NoLimit /\ part.via # "from"
    BY <2>2 DEF DummyLimit, Int64Max, NoLimit
  <2> QED BY <1>3, <2>2, <2>3 DEF MayCrash
<1>6. CASE ~(IsLimitExamined(f) /\ f.limit = NoLimit)
  <2>1. PICK x \in Contexts(f) : MissesLabel(f, x)
    BY <1>6 DEF CrashesRewriting
  <2>2. x = context
    BY <1>2, <1>4, <2>1, ContextsAreOwn
  <2>3. IsPlanned(c, part, k, links, context, sorts, f)
    BY <1>4 DEF IsPlanned
  <2>4. ShiftsLabels(MakeGrouped(part.query))
    BY <2>1, <2>2, <2>3, ProjectionIsKnown
  <2> QED BY <1>3, <2>4 DEF MayCrash
<1> QED BY <1>5, <1>6

\* What is made of a query has the groups and the filters of the grouped one.
LEMMA SeedsAlike ==
  ASSUME NEW query, IsValid(query)
  PROVE  LET anon == MakeAnonymizing(query)
         IN  GroupingExprs(anon) = GroupingExprs(MakeGrouped(query)) /\ anon.where = query.where
<1> DEFINE anon == MakeAnonymizing(query)
           g    == MakeGrouped(query)
<1>1. /\ TargetsAreMade(anon, query) /\ DOMAIN anon.targets \subseteq Nat
      /\ TargetsAreMade(g, query) /\ DOMAIN g.targets \subseteq Nat
  BY TargetsOfMade
<1>2. anon.where = query.where
  BY QueryIsMade DEF IsMade, RestIsMade
<1> HIDE DEF anon, g
<1> QED BY <1>1, <1>2, MadeAlike DEF anon, g

\* Accepted queries crash only if they need a parameter that is not bound, or
\* at the untrusted level for bins of the size NULL.
LEMMA CompileCrashIsKnown ==
  ASSUME NEW s \in Statements \cup Prepareds, NEW k \in DOMAIN s, IsAnonymizing(s[k].query),
         CompileVerdict(s[k].query) = "crashed"
  PROVE  MayCrash(s[k])
<1> DEFINE part == s[k]
           anon == MakeAnonymizing(part.query)
<1>1. IsParsed(part.query) /\ (~part.parameterized => \A e \in SeedExprs(part.query) : ParamsOf(e) = {})
  BY PartFacts
<1>2. /\ AcceptsQuery(part.query, level) /\ IsValid(part.query)
      /\ \/ ReadsUnbound(anon, bound) \/ ComparesUnbound(anon, bound)
         \/ level = Untrusted /\ (ReadsUnboundSize(anon, bound) \/ ReadsNullSize(anon, bound))
  BY <1>1, CompileVerdicts
<1>3. GroupingExprs(anon) = GroupingExprs(MakeGrouped(part.query))
  BY <1>2, SeedsAlike
<1>4. CASE ReadsUnbound(anon, bound) \/ ComparesUnbound(anon, bound) \/ ReadsUnboundSize(anon, bound)
  <2>1. bound = Unbound /\ \E e \in SeedExprs(part.query) : ParamsOf(e) # {}
    BY <1>2, <1>4, UnboundIsInSeeds
  <2>2. part.parameterized
    BY <1>1, <2>1
  <2> QED BY <2>1, <2>2 DEF MayCrash
<1>5. CASE level = Untrusted /\ ReadsNullSize(anon, bound)
  <2> HIDE DEF anon
  <2>1. \E e \in GroupingExprs(MakeGrouped(part.query)) :
          IsRestricted(e) /\ RestrictedArg(e).type = "numeric" /\ StableValue(RestrictedArg(e), bound) = Null
    BY <1>3, <1>5 DEF ReadsNullSize
  <2> QED BY <1>5, <2>1 DEF MayCrash
<1> QED BY <1>2, <1>4, <1>5

\* The rewriting of accepted queries fails for avg over numeric,
\* count_histogram of other tables, tables without AIDs and long texts only.
LEMMA CompileFailureIsKnown ==
  ASSUME NEW s \in Statements \cup Prepareds, NEW k \in DOMAIN s, IsAnonymizing(s[k].query),
         CompileVerdict(s[k].query) = "failed"
  PROVE  MayFail(s[k])
<1> DEFINE part == s[k]
           anon == MakeAnonymizing(part.query)
<1>1. IsParsed(part.query)
  BY PartFacts
<1>2. /\ AcceptsQuery(part.query, level)
      /\ ~CanRewrite(part.query) \/ (IsValid(part.query) /\ ReadsLongText(anon, bound))
  BY <1>1, CompileVerdicts
<1>3. CASE ~CanRewrite(part.query)
  <2>1. \/ GatherAidRefs(part.query) = <<>>
        \/ \E agg \in AllAggs(part.query) : agg.fn = "avg_numeric" \/ CountsNoPersonal(part.query, agg)
    BY <1>1, <1>2, <1>3, AcceptedCannotRewrite
  <2> HIDE DEF part
  <2> QED BY <2>1 DEF MayFail, AllAggs, CountsNoPersonal, part
<1>4. CASE IsValid(part.query) /\ ReadsLongText(anon, bound)
  <2>1. GroupingExprs(anon) = GroupingExprs(MakeGrouped(part.query)) /\ anon.where = part.query.where
    BY <1>4, SeedsAlike
  <2>2. FilteringExprs(anon) = FilteringExprs(part.query)
    BY <2>1 DEF FilteringExprs
  <2> HIDE DEF anon
  <2>3. \E e \in GroupingExprs(MakeGrouped(part.query)) \cup FilteringExprs(part.query) :
          \E x \in StableParts(e) : ~IsUnbound(x, bound) /\ StableValue(x, bound) \in LongTexts
    BY <1>4, <2>1, <2>2 DEF ReadsLongText
  <2> QED BY <2>3 DEF MayFail
<1> QED BY <1>2, <1>3, <1>4

-----------------------------------------------------------------------------
(* The invariant                                                           *)

\* The session and its request.
SessionOK ==
  /\ level \in AccessLevels /\ phase \in Phases /\ outcome \in Outcomes
  /\ statement \in Statements \cup Prepareds \cup {<<>>}
  /\ prepared \in Prepareds \cup {<<>>}
  /\ params \in Params \cup {NoParams} /\ bound \in {params, Unbound}
  /\ copied \in BOOLEAN
  /\ count \in 0..MaxStatements /\ customs \in 0..count

\* A statement is in work; a generic plan is one of the prepared statement.
RequestOK ==
  /\ phase \in {"compile", "rewrite", "run"} => statement # <<>>
  /\ bound = Unbound => prepared # <<>> /\ statement = prepared

IsList(list) == list \in Seq(Range(list))

AreCompiled(comp, s, lks) ==
  /\ IsList(comp) /\ Len(comp) <= Len(s) /\ AreLinks(lks)
  /\ \A k \in DOMAIN comp : k \in DOMAIN s /\ IsCompiledAs(comp[k], s[k], k, lks)

\* The planner's plan of the compiled queries.
IsPlanOf(p, comp, s) ==
  /\ IsList(p) /\ Len(p) = Len(s) /\ Len(comp) = Len(s)
  /\ \A k \in DOMAIN p : /\ k \in DOMAIN s /\ k \in DOMAIN comp
                         /\ \E sorts \in BOOLEAN : (sorts => comp[k].query.sorted) /\ p[k] = Fragment(comp[k], sorts)

AreExecutable(p, s) ==
  /\ IsList(p) /\ Len(p) = Len(s)
  /\ \A k \in DOMAIN p : k \in DOMAIN s /\ IsExecutable(p[k], s[k], k)

PlansOK ==
  /\ phase = "rewrite" => IsPlanOf(plan, compiled, statement)
  /\ phase = "run" => AreExecutable(plan, statement)
  /\ generic # <<>> => prepared # <<>> /\ AreExecutable(generic, prepared)
  /\ plan # <<>> => Len(plan) = Len(statement)

IInv ==
  /\ SessionOK /\ RequestOK /\ PlansOK /\ AcceptedRuns
  /\ AreCompiled(compiled, statement, links)

LEMMA NothingIsCompiled ==
  ASSUME NEW s, Len(s) \in Nat
  PROVE  AreCompiled(<<>>, s, <<>>)
<1>1. IsList(<<>>) /\ AreLinks(<<>>) /\ Len(<<>>) = 0 /\ DOMAIN <<>> = {}
  BY DEF IsList, AreLinks
<1> QED BY <1>1 DEF AreCompiled

LEMMA InitOK == Init => IInv
<1> SUFFICES ASSUME Init PROVE IInv
  OBVIOUS
<1>1. SessionOK
  <2>1. count \in 0..MaxStatements /\ customs \in 0..count
    BY StatementsAssumption DEF Init
  <2>2. /\ level \in AccessLevels /\ phase \in Phases /\ outcome \in Outcomes
        /\ statement \in Statements \cup Prepareds \cup {<<>>} /\ prepared \in Prepareds \cup {<<>>}
    BY DEF Init, Phases, Outcomes
  <2>3. params \in Params \cup {NoParams} /\ bound \in {params, Unbound} /\ copied \in BOOLEAN
    BY DEF Init
  <2> QED BY <2>1, <2>2, <2>3 DEF SessionOK
<1>2. RequestOK
  BY StatementsAssumption DEF Init, RequestOK
<1>3. PlansOK
  BY DEF Init, PlansOK
<1>4. AcceptedRuns
  BY DEF Init, AcceptedRuns
<1>5. AreCompiled(compiled, statement, links)
  <2>1. Len(<<>>) \in Nat
    OBVIOUS
  <2> QED BY <2>1, NothingIsCompiled DEF Init
<1> QED BY <1>1, <1>2, <1>3, <1>4, <1>5 DEF IInv

LEMMA StatementIsList ==
  ASSUME NEW s \in Statements \cup Prepareds \cup {<<>>}
  PROVE  Len(s) \in Nat /\ DOMAIN s = 1 .. Len(s) /\ (s # <<>> => s \in Statements \cup Prepareds)
<1>1. CASE s = <<>>
  BY <1>1
<1>2. CASE s # <<>>
  BY <1>2, PartFacts
<1> QED BY <1>1, <1>2

LEMMA UnboundIsOwn ==
  ASSUME NEW p \in Params \cup {NoParams}
  PROVE  p # Unbound
BY StatementsAssumption

\* The start of a statement.
LEMMA BeginOK ==
  ASSUME IInv, NEW s \in Statements \cup Prepareds, NEW p \in Params \cup {NoParams}, Begin(s, p),
         bound' \in {p, Unbound}, copied' \in BOOLEAN, level' = level, prepared' = prepared, generic' = generic,
         customs' \in {customs, customs + 1},
         bound' = Unbound => prepared # <<>> /\ s = prepared,
         \/ phase' = "compile" /\ plan' = <<>>
         \/ phase' = "run" /\ generic # <<>> /\ plan' = generic /\ s = prepared
  PROVE  IInv'
<1>1. /\ count' = count + 1 /\ statement' = s /\ params' = p /\ outcome' = "none"
      /\ compiled' = <<>> /\ links' = <<>> /\ count < MaxStatements
  BY DEF Begin
<1>2. SessionOK /\ RequestOK /\ PlansOK
  BY DEF IInv
<1>3. s # <<>> /\ Len(s) \in Nat
  BY PartFacts
<1>4. SessionOK'
  BY <1>1, <1>2, StatementsAssumption DEF SessionOK, Phases, Outcomes
<1>5. RequestOK'
  BY <1>1, <1>3 DEF RequestOK
<1>6. PlansOK'
  <2>1. generic' # <<>> => prepared' # <<>> /\ AreExecutable(generic', prepared')
    BY <1>2 DEF PlansOK
  <2>2. phase' # "rewrite"
    OBVIOUS
  <2>3. phase' = "run" => AreExecutable(plan', statement')
    BY <1>1, <1>2 DEF PlansOK
  <2>4. plan' # <<>> => Len(plan') = Len(statement')
    BY <1>1, <1>2 DEF PlansOK, AreExecutable
  <2> QED BY <2>1, <2>2, <2>3, <2>4 DEF PlansOK
<1>7. AcceptedRuns'
  BY <1>1 DEF AcceptedRuns
<1>8. AreCompiled(compiled', statement', links')
  BY <1>1, <1>3, NothingIsCompiled
<1> QED BY <1>4, <1>5, <1>6, <1>7, <1>8 DEF IInv

LEMMA SubmitOK ==
  ASSUME IInv, NEW s \in Statements, Submit(s)
  PROVE  IInv'
<1>1. Begin(s, NoParams) /\ s \in Statements \cup Prepareds /\ NoParams \in Params \cup {NoParams}
  BY DEF Submit
<1>2. NoParams # Unbound
  BY UnboundIsOwn
<1>3. /\ bound' = NoParams /\ copied' = FALSE /\ phase' = "compile" /\ plan' = <<>>
      /\ level' = level /\ prepared' = prepared /\ generic' = generic /\ customs' = customs
  BY DEF Submit
<1> QED BY <1>1, <1>2, <1>3, BeginOK

LEMMA ExecuteCustomOK ==
  ASSUME IInv, NEW p \in Params, ExecuteCustom(p)
  PROVE  IInv'
<1>1. Begin(prepared, p) /\ prepared # <<>>
  BY DEF ExecuteCustom
<1>2. prepared \in Statements \cup Prepareds
  BY <1>1 DEF IInv, SessionOK
<1>3. p # Unbound /\ p \in Params \cup {NoParams}
  BY UnboundIsOwn
<1>4. /\ bound' = p /\ copied' = TRUE /\ phase' = "compile" /\ plan' = <<>>
      /\ level' = level /\ prepared' = prepared /\ generic' = generic /\ customs' = customs + 1
  BY DEF ExecuteCustom
<1> QED BY <1>1, <1>2, <1>3, <1>4, BeginOK

LEMMA ExecuteGenericOK ==
  ASSUME IInv, NEW p \in Params, ExecuteGeneric(p)
  PROVE  IInv'
<1>1. Begin(prepared, p) /\ prepared # <<>>
  BY DEF ExecuteGeneric
<1>2. prepared \in Statements \cup Prepareds
  BY <1>1 DEF IInv, SessionOK
<1>3. p \in Params \cup {NoParams}
  OBVIOUS
<1>4. /\ bound' = Unbound /\ copied' = TRUE /\ plan' = generic
      /\ phase' = IF generic = <<>> THEN "compile" ELSE "run"
      /\ level' = level /\ prepared' = prepared /\ generic' = generic /\ customs' = customs
  BY DEF ExecuteGeneric
<1>5. \/ phase' = "compile" /\ plan' = <<>>
      \/ phase' = "run" /\ generic # <<>> /\ plan' = generic /\ prepared = prepared
  BY <1>4
<1> QED BY <1>1, <1>2, <1>3, <1>4, <1>5, BeginOK

LEMMA OutcomeStays ==
  ASSUME UNCHANGED <<statement, bound, level>>, outcome' \in Outcomes,
         outcome' = "failed" => \E k \in DOMAIN statement : MayFail(statement[k]),
         outcome' = "crashed" => \E k \in DOMAIN statement : MayCrash(statement[k])
  PROVE  AcceptedRuns'
<1>1. outcome' = "failed" => (\E k \in DOMAIN statement : MayFail(statement[k]))'
  BY DEF MayFail
<1>2. outcome' = "crashed" => (\E k \in DOMAIN statement : MayCrash(statement[k]))'
  BY DEF MayCrash
<1> QED BY <1>1, <1>2 DEF AcceptedRuns

LEMMA PrepareOK ==
  ASSUME IInv, NEW s \in Prepareds, Prepare(s)
  PROVE  IInv'
<1>1. SessionOK /\ RequestOK /\ PlansOK /\ AcceptedRuns /\ AreCompiled(compiled, statement, links)
  BY DEF IInv
<1>2. /\ phase = "idle" /\ prepared = <<>> /\ prepared' = s
      /\ UNCHANGED <<statement, params, bound, copied, phase, outcome, compiled, links, plan, level,
                     customs, generic, count>>
  BY DEF Prepare, request
<1>3. SessionOK'
  BY <1>1, <1>2 DEF SessionOK
<1>4. RequestOK'
  BY <1>1, <1>2 DEF RequestOK
<1>5. PlansOK'
  BY <1>1, <1>2 DEF PlansOK
<1>6. AcceptedRuns'
  BY <1>1, <1>2, OutcomeStays DEF AcceptedRuns, SessionOK
<1> QED BY <1>1, <1>2, <1>3, <1>4, <1>5, <1>6 DEF IInv

\* The end of a statement.
LEMMA EndOK ==
  ASSUME IInv, phase' \in {"idle", "crashed"}, outcome' \in Outcomes,
         outcome' = "failed" => \E k \in DOMAIN statement : MayFail(statement[k]),
         outcome' = "crashed" => \E k \in DOMAIN statement : MayCrash(statement[k]),
         UNCHANGED <<request, compiled, links, plan, session>>
  PROVE  IInv'
<1>1. SessionOK /\ RequestOK /\ PlansOK /\ AreCompiled(compiled, statement, links)
  BY DEF IInv
<1>2. UNCHANGED <<statement, params, bound, copied, compiled, links, plan, level, prepared,
                  customs, generic, count>>
  BY DEF request, session
<1>3. SessionOK'
  BY <1>1, <1>2 DEF SessionOK, Phases
<1>4. RequestOK'
  BY <1>1, <1>2 DEF RequestOK
<1>5. PlansOK'
  BY <1>1, <1>2 DEF PlansOK
<1>6. AcceptedRuns'
  BY <1>2, OutcomeStays
<1> QED BY <1>1, <1>2, <1>3, <1>4, <1>5, <1>6 DEF IInv

\* The part that is compiled next.
LEMMA NextIsPart ==
  ASSUME IInv, phase = "compile", ~IsCompiled
  PROVE  LET k == Len(compiled) + 1
         IN  /\ statement \in Statements \cup Prepareds /\ k \in DOMAIN statement /\ NextPart = statement[k]
             /\ Len(compiled) \in Nat /\ k <= Len(statement) /\ Len(statement) \in Nat
<1>1. statement # <<>> /\ statement \in Statements \cup Prepareds \cup {<<>>}
  BY DEF IInv, RequestOK, SessionOK
<1>2. statement \in Statements \cup Prepareds /\ Len(statement) \in Nat /\ DOMAIN statement = 1 .. Len(statement)
  BY <1>1, StatementIsList
<1>3. compiled \in Seq(Range(compiled)) /\ Len(compiled) <= Len(statement)
  BY DEF IInv, AreCompiled, IsList
<1>4. Len(compiled) \in Nat
  BY <1>3
<1>5. Len(compiled) # Len(statement)
  BY DEF IsCompiled
<1> QED BY <1>2, <1>3, <1>4, <1>5 DEF NextPart

LEMMA RejectQueryOK ==
  ASSUME IInv, RejectQuery PROVE IInv'
BY EndOK DEF RejectQuery, End, Outcomes

LEMMA FailQueryOK ==
  ASSUME IInv, FailQuery PROVE IInv'
<1>1. /\ phase = "compile" /\ ~IsCompiled /\ IsAnonymizing(NextPart.query)
      /\ CompileVerdict(NextPart.query) = "failed" /\ End("failed")
  BY DEF FailQuery
<1>2. PICK k \in DOMAIN statement : statement \in Statements \cup Prepareds /\ NextPart = statement[k]
  BY <1>1, NextIsPart
<1>3. MayFail(statement[k])
  BY <1>1, <1>2, CompileFailureIsKnown
<1> QED BY <1>1, <1>3, EndOK DEF End, Outcomes

LEMMA CrashQueryOK ==
  ASSUME IInv, CrashQuery PROVE IInv'
<1>1. /\ phase = "compile" /\ ~IsCompiled /\ IsAnonymizing(NextPart.query)
      /\ CompileVerdict(NextPart.query) = "crashed" /\ End("crashed")
  BY DEF CrashQuery
<1>2. PICK k \in DOMAIN statement : statement \in Statements \cup Prepareds /\ NextPart = statement[k]
  BY <1>1, NextIsPart
<1>3. MayCrash(statement[k])
  BY <1>1, <1>2, CompileCrashIsKnown
<1> QED BY <1>1, <1>3, EndOK DEF End, Outcomes

(* A query is added to the compiled ones, its links to the links.           *)
LEMMA MoreIsCompiled ==
  ASSUME NEW s, NEW comp, NEW lks, AreCompiled(comp, s, lks), Len(s) \in Nat, DOMAIN s = 1 .. Len(s),
         Len(comp) + 1 <= Len(s),
         NEW c, NEW both, AreLinks(both), Len(lks) \in Nat, Len(both) \in Nat, Len(lks) <= Len(both),
         \A i \in 1 .. Len(lks) : both[i] = lks[i],
         IsCompiledAs(c, s[Len(comp) + 1], Len(comp) + 1, both)
  PROVE  AreCompiled(Append(comp, c), s, both)
<1> DEFINE n == Len(comp)
           S == Range(comp) \cup {c}
<1>1. comp \in Seq(Range(comp)) /\ \A k \in DOMAIN comp : k \in DOMAIN s /\ IsCompiledAs(comp[k], s[k], k, lks)
  BY DEF AreCompiled, IsList
<1>2. comp \in Seq(S) /\ c \in S
  <2>1. \A i \in 1 .. Len(comp) : comp[i] \in Range(comp)
    BY <1>1
  <2> QED BY <1>1, <2>1
<1> HIDE DEF S
<1>3. n \in Nat /\ DOMAIN comp = 1 .. n
  BY <1>1
<1>4. /\ Append(comp, c) \in Seq(S) /\ Len(Append(comp, c)) = n + 1 /\ DOMAIN Append(comp, c) = 1 .. n + 1
      /\ \A i \in 1 .. n : Append(comp, c)[i] = comp[i]
      /\ Append(comp, c)[n + 1] = c
  BY <1>2, <1>3
<1> DEFINE more == Append(comp, c)
<1> HIDE DEF more
<1>5. more \in Seq(Range(more))
  <2>1. more \in Seq(S) /\ Len(more) = n + 1 /\ DOMAIN more = 1 .. n + 1
    BY <1>4 DEF more
  <2>2. \A i \in 1 .. n + 1 : more[i] \in Range(more)
    BY <2>1 DEF Range
  <2>3. more = [i \in 1 .. n + 1 |-> more[i]]
    BY <2>1
  <2> QED BY <1>3, <2>1, <2>2, <2>3
<1>6. ASSUME NEW k \in DOMAIN more PROVE k \in DOMAIN s /\ IsCompiledAs(more[k], s[k], k, both)
  <2>1. k \in 1 .. n + 1 /\ DOMAIN more = 1 .. n + 1
    BY <1>4 DEF more
  <2>2. CASE k \in 1 .. n
    <3>1. more[k] = comp[k] /\ k \in DOMAIN s /\ IsCompiledAs(comp[k], s[k], k, lks)
      BY <1>1, <1>3, <1>4, <2>2 DEF more
    <3> QED BY <3>1, CompiledStays
  <2>3. CASE k = n + 1
    <3>1. more[k] = c
      BY <1>4, <2>3 DEF more
    <3>2. k \in DOMAIN s
      BY <1>3, <2>3
    <3> QED BY <2>3, <3>1, <3>2
  <2> QED BY <1>3, <2>1, <2>2, <2>3
<1>7. Len(more) <= Len(s)
  BY <1>4 DEF more
<1> QED BY <1>5, <1>6, <1>7 DEF AreCompiled, IsList, more

\* The step of compile_query that goes on.
LEMMA CompileOK ==
  ASSUME IInv, phase = "compile", ~IsCompiled, NEW c, compiled' = Append(compiled, c),
         AreLinks(links'), Len(links) \in Nat, Len(links') \in Nat, Len(links) <= Len(links'),
         \A i \in 1 .. Len(links) : links'[i] = links[i],
         IsCompiledAs(c, NextPart, Len(compiled) + 1, links'),
         UNCHANGED <<request, phase, outcome, plan, session>>
  PROVE  IInv'
<1>1. SessionOK /\ RequestOK /\ PlansOK /\ AcceptedRuns /\ AreCompiled(compiled, statement, links)
  BY DEF IInv
<1>2. UNCHANGED <<statement, params, bound, copied, phase, outcome, plan, level, prepared,
                  customs, generic, count>>
  BY DEF request, session
<1>3. SessionOK'
  BY <1>1, <1>2 DEF SessionOK
<1>4. RequestOK'
  BY <1>1, <1>2 DEF RequestOK
<1>5. PlansOK'
  BY <1>1, <1>2 DEF PlansOK
<1>6. AcceptedRuns'
  BY <1>1, <1>2, OutcomeStays DEF AcceptedRuns, SessionOK
<1>7. /\ NextPart = statement[Len(compiled) + 1] /\ Len(compiled) + 1 <= Len(statement)
      /\ Len(statement) \in Nat /\ DOMAIN statement = 1 .. Len(statement)
  BY NextIsPart, StatementIsList
<1>8. AreCompiled(compiled', statement, links')
  BY <1>1, <1>7, MoreIsCompiled
<1> QED BY <1>2, <1>3, <1>4, <1>5, <1>6, <1>8 DEF IInv

LEMMA SkipQueryOK ==
  ASSUME IInv, SkipQuery PROVE IInv'
<1> DEFINE c == [part |-> NextPart, query |-> NextPart.query, wrapped |-> FALSE, barrier |-> FALSE]
<1>1. /\ phase = "compile" /\ ~IsCompiled /\ ~IsAnonymizing(NextPart.query)
      /\ compiled' = Append(compiled, c) /\ links' = links
      /\ UNCHANGED <<request, phase, outcome, plan, session>>
  BY DEF SkipQuery
<1>2. AreLinks(links) /\ Len(links) \in Nat
  BY DEF IInv, AreCompiled, AreLinks
<1>3. IsSkipped(c, NextPart)
  BY DEF IsSkipped
<1>4. IsCompiledAs(c, NextPart, Len(compiled) + 1, links')
  BY <1>1, <1>3 DEF IsCompiledAs
<1> HIDE DEF c
<1> QED BY <1>1, <1>2, <1>4, CompileOK

LEMMA CompileQueryOK ==
  ASSUME IInv, CompileQuery PROVE IInv'
<1> DEFINE part    == NextPart
           anon    == MakeAnonymizing(part.query)
           k       == Len(compiled) + 1
           context == MakeContext(k, part.query, anon)
           c       == [part |-> part, query |-> [LinkAggs(anon) EXCEPT !.limit = DummyLimit(part)],
                       wrapped |-> WrapsHaving(anon), barrier |-> part.via = "from"]
<1>1. /\ phase = "compile" /\ ~IsCompiled /\ IsAnonymizing(part.query)
      /\ CompileVerdict(part.query) = "ok"
      /\ links' = links \o NewLinks(anon, context) /\ compiled' = Append(compiled, c)
      /\ UNCHANGED <<request, phase, outcome, plan, session>>
  BY DEF CompileQuery
<1>2. AreLinks(links) /\ Len(links) \in Nat
  BY DEF IInv, AreCompiled, AreLinks
<1>3. IsCompilable(part, level)
  <2>1. PICK i \in DOMAIN statement : statement \in Statements \cup Prepareds /\ NextPart = statement[i]
    BY <1>1, NextIsPart
  <2>2. part.via \in {"top", "from", "cte"} /\ IsParsed(part.query)
    BY <2>1, PartFacts
  <2>3. /\ AcceptsQuery(part.query, level) /\ CanRewrite(part.query)
        /\ \A e \in GroupingExprs(MakeAnonymizing(part.query)) : AcceptsBucketExpression[e]
    BY <1>1, <2>2, CompileVerdicts
  <2> QED BY <2>2, <2>3 DEF IsCompilable
<1>4. LET a == MakeAnonymizing(part.query)
          x == MakeContext(k, part.query, a)
      IN  /\ links' = links \o NewLinks(a, x)
          /\ c = [part |-> part, query |-> [LinkAggs(a) EXCEPT !.limit = DummyLimit(part)],
                  wrapped |-> WrapsHaving(a), barrier |-> part.via = "from"]
  BY <1>1, Zenon
<1> HIDE DEF anon, context, c, k, part
<1>5. /\ \E x : IsContextOf(x, k, part.query) /\ IsAnonymized(c, part, links', x)
      /\ AreLinks(links') /\ Len(links) \in Nat /\ Len(links') \in Nat /\ Len(links) <= Len(links')
      /\ \A i \in 1 .. Len(links) : links'[i] = links[i]
  BY <1>2, <1>3, <1>4, QueryIsCompiled
<1>6. IsCompiledAs(c, part, k, links')
  BY <1>1, <1>5 DEF IsCompiledAs
<1> QED BY <1>1, <1>5, <1>6, CompileOK DEF part, k

LEMMA FunctionIsList ==
  ASSUME NEW n \in Nat, NEW f, f = [k \in 1 .. n |-> f[k]]
  PROVE  IsList(f) /\ Len(f) = n /\ DOMAIN f = 1 .. n
<1>1. DOMAIN f = 1 .. n
  BY Zenon
<1>2. \A k \in 1 .. n : f[k] \in Range(f)
  BY <1>1 DEF Range
<1>3. f \in Seq(Range(f))
  BY <1>2
<1> QED BY <1>1, <1>3 DEF IsList

LEMMA PlanStatementOK ==
  ASSUME IInv, PlanStatement PROVE IInv'
<1>1. SessionOK /\ RequestOK /\ PlansOK /\ AcceptedRuns /\ AreCompiled(compiled, statement, links)
  BY DEF IInv
<1>2. /\ phase = "compile" /\ IsCompiled /\ phase' = "rewrite"
      /\ UNCHANGED <<statement, params, bound, copied, outcome, compiled, links, level, prepared,
                     customs, generic, count>>
  BY DEF PlanStatement, request, session
<1>3. PICK sorted \in SUBSET {k \in DOMAIN compiled : compiled[k].query.sorted} :
        plan' = [k \in DOMAIN compiled |-> Fragment(compiled[k], k \in sorted)]
  BY DEF PlanStatement
<1> DEFINE n == Len(statement)
<1>4. compiled \in Seq(Range(compiled)) /\ Len(compiled) = n
  BY <1>1, <1>2 DEF IsCompiled, AreCompiled, IsList
<1>5. n \in Nat /\ DOMAIN compiled = 1 .. n /\ DOMAIN statement = 1 .. n
  BY <1>1, <1>4, StatementIsList DEF SessionOK
<1> HIDE DEF n
<1>6. DOMAIN plan' = 1 .. n /\ \A k \in 1 .. n : plan'[k] = Fragment(compiled[k], k \in sorted)
  BY <1>3, <1>5
<1>14. \A k \in 1 .. n : (k \in sorted) \in BOOLEAN /\ (k \in sorted => compiled[k].query.sorted)
  BY <1>3
<1>7. plan' = [k \in 1 .. n |-> plan'[k]]
  BY <1>3, <1>6
<1>8. IsList(plan') /\ Len(plan') = n
  BY <1>5, <1>7, FunctionIsList
<1>9. IsPlanOf(plan', compiled, statement)
  BY <1>4, <1>5, <1>6, <1>8, <1>14 DEF IsPlanOf, n
<1>10. SessionOK'
  BY <1>1, <1>2 DEF SessionOK, Phases
<1>11. RequestOK'
  BY <1>1, <1>2 DEF RequestOK
<1>12. PlansOK'
  BY <1>1, <1>2, <1>8, <1>9 DEF PlansOK, n
<1>13. AcceptedRuns'
  BY <1>1, <1>2, OutcomeStays DEF AcceptedRuns, SessionOK
<1> QED BY <1>1, <1>2, <1>10, <1>11, <1>12, <1>13 DEF IInv

\* The fragments of the planner's plan.
LEMMA PlannedFacts ==
  ASSUME IInv, phase = "rewrite", NEW k \in DOMAIN plan
  PROVE  /\ statement \in Statements \cup Prepareds /\ k \in DOMAIN statement
         /\ IsCompiledAs(compiled[k], statement[k], k, links)
         /\ \E sorts \in BOOLEAN : (sorts => compiled[k].query.sorted) /\ plan[k] = Fragment(compiled[k], sorts)
<1>1. statement # <<>> /\ statement \in Statements \cup Prepareds \cup {<<>>}
  BY DEF IInv, RequestOK, SessionOK
<1>2. IsPlanOf(plan, compiled, statement)
  BY DEF IInv, PlansOK
<1>3. /\ k \in DOMAIN compiled
      /\ \E sorts \in BOOLEAN : (sorts => compiled[k].query.sorted) /\ plan[k] = Fragment(compiled[k], sorts)
  BY <1>2 DEF IsPlanOf
<1>4. k \in DOMAIN statement /\ IsCompiledAs(compiled[k], statement[k], k, links)
  BY <1>3 DEF IInv, AreCompiled
<1> QED BY <1>1, <1>3, <1>4

LEMMA FailPlanOK ==
  ASSUME IInv, FailPlan PROVE IInv'
<1>1. phase = "rewrite" /\ End("failed")
  BY DEF FailPlan
<1>2. PICK k \in Scanned : FailsToRewrite(plan[k])
  BY DEF FailPlan
<1>3. k \in DOMAIN plan /\ Contexts(plan[k]) # {}
  BY DEF Scanned
<1>4. PICK sorts \in BOOLEAN : (sorts => compiled[k].query.sorted) /\ plan[k] = Fragment(compiled[k], sorts)
  BY <1>1, <1>3, PlannedFacts
<1>5. /\ statement \in Statements \cup Prepareds /\ k \in DOMAIN statement
      /\ IsCompiledAs(compiled[k], statement[k], k, links)
  BY <1>1, <1>3, PlannedFacts
<1>6. MayFail(statement[k])
  BY <1>2, <1>3, <1>4, <1>5, FailureIsKnown
<1> QED BY <1>1, <1>5, <1>6, EndOK DEF End, Outcomes

LEMMA CrashPlanOK ==
  ASSUME IInv, CrashPlan PROVE IInv'
<1>1. phase = "rewrite" /\ End("crashed")
  BY DEF CrashPlan
<1>2. PICK k \in Scanned : CrashesRewriting(plan[k])
  BY DEF CrashPlan
<1>3. k \in DOMAIN plan /\ Contexts(plan[k]) # {}
  BY DEF Scanned
<1>4. PICK sorts \in BOOLEAN : (sorts => compiled[k].query.sorted) /\ plan[k] = Fragment(compiled[k], sorts)
  BY <1>1, <1>3, PlannedFacts
<1>5. /\ statement \in Statements \cup Prepareds /\ k \in DOMAIN statement
      /\ IsCompiledAs(compiled[k], statement[k], k, links)
  BY <1>1, <1>3, PlannedFacts
<1>6. MayCrash(statement[k])
  BY <1>2, <1>3, <1>4, <1>5, CrashIsKnown
<1> QED BY <1>1, <1>5, <1>6, EndOK DEF End, Outcomes

LEMMA RewritePlanOK ==
  ASSUME IInv, RewritePlan PROVE IInv'
<1> DEFINE fragments == [k \in DOMAIN plan |-> IF k \in Scanned THEN Rewritten(plan[k]) ELSE plan[k]]
           n == Len(statement)
<1>1. SessionOK /\ RequestOK /\ PlansOK /\ AcceptedRuns /\ AreCompiled(compiled, statement, links)
  BY DEF IInv
<1>2. /\ phase = "rewrite" /\ phase' = "run"
      /\ plan' = IF copied THEN CopyPlan(fragments) ELSE fragments
      /\ generic' = IF bound = Unbound THEN plan' ELSE generic
      /\ UNCHANGED <<statement, params, bound, copied, outcome, compiled, links, level, prepared,
                     customs, count>>
  <2> HIDE DEF fragments
  <2> QED BY DEF RewritePlan, request, fragments
<1>3. plan \in Seq(Range(plan)) /\ Len(plan) = n
  BY <1>1, <1>2 DEF PlansOK, IsPlanOf, IsList
<1>4. n \in Nat /\ DOMAIN plan = 1 .. n /\ DOMAIN statement = 1 .. n
  BY <1>1, <1>3, StatementIsList DEF SessionOK
<1> HIDE DEF n
<1>5. ASSUME NEW k \in 1 .. n PROVE IsExecutable(fragments[k], statement[k], k)
  <2>1. /\ statement \in Statements \cup Prepareds /\ k \in DOMAIN statement
        /\ IsCompiledAs(compiled[k], statement[k], k, links)
    BY <1>2, <1>4, PlannedFacts
  <2>2. PICK sorts \in BOOLEAN : (sorts => compiled[k].query.sorted) /\ plan[k] = Fragment(compiled[k], sorts)
    BY <1>2, <1>4, PlannedFacts
  <2>5. Contexts(plan[k]) # {} => ~FailsToRewrite(plan[k])
    BY <1>4 DEF RewritePlan, Scanned
  <2>3. IsExecutable(IF Contexts(plan[k]) # {} THEN Rewritten(plan[k]) ELSE plan[k], statement[k], k)
    BY <2>1, <2>2, <2>5, FragmentIsExecutable
  <2>4. fragments[k] = IF Contexts(plan[k]) # {} THEN Rewritten(plan[k]) ELSE plan[k]
    BY <1>4 DEF Scanned
  <2> QED BY <2>3, <2>4
<1>6. fragments = [k \in 1 .. n |-> fragments[k]] /\ DOMAIN fragments = 1 .. n
  BY <1>4
<1> HIDE DEF fragments
<1>7. CopyPlan(fragments) = [k \in 1 .. n |-> CopyPlan(fragments)[k]]
  BY <1>6 DEF CopyPlan
<1>8. ASSUME NEW k \in 1 .. n PROVE IsExecutable(plan'[k], statement[k], k)
  <2>1. CASE copied
    <3>1. IsExecutable(CopyPlan(fragments)[k], statement[k], k)
      BY <1>5, <1>6, CopyIsExecutable
    <3> QED BY <1>2, <2>1, <3>1
  <2>2. CASE ~copied
    BY <1>2, <1>5, <2>2
  <2> QED BY <2>1, <2>2
<1>9. plan' = [k \in 1 .. n |-> plan'[k]]
  BY <1>2, <1>6, <1>7
<1>10. IsList(plan') /\ Len(plan') = n /\ DOMAIN plan' = 1 .. n
  BY <1>4, <1>9, FunctionIsList
<1>11. AreExecutable(plan', statement)
  BY <1>4, <1>8, <1>10 DEF AreExecutable, n
<1>12. generic' # <<>> => prepared # <<>> /\ AreExecutable(generic', prepared)
  <2>1. CASE bound = Unbound
    BY <1>1, <1>2, <1>11, <2>1 DEF RequestOK
  <2>2. CASE bound # Unbound
    BY <1>1, <1>2, <2>2 DEF PlansOK
  <2> QED BY <2>1, <2>2
<1>13. SessionOK'
  BY <1>1, <1>2 DEF SessionOK, Phases
<1>14. RequestOK'
  BY <1>1, <1>2 DEF RequestOK
<1>15. PlansOK'
  BY <1>2, <1>10, <1>11, <1>12 DEF PlansOK, n
<1>16. AcceptedRuns'
  BY <1>1, <1>2, OutcomeStays DEF AcceptedRuns, SessionOK
<1> QED BY <1>1, <1>2, <1>13, <1>14, <1>15, <1>16 DEF IInv

LEMMA RunPlanOK ==
  ASSUME IInv, RunPlan PROVE IInv'
<1>1. phase' = "idle" /\ outcome' = "done" /\ UNCHANGED <<request, compiled, links, plan, session>>
  BY DEF RunPlan
<1> QED BY <1>1, EndOK DEF Outcomes

LEMMA StutterOK ==
  ASSUME IInv, UNCHANGED vars PROVE IInv'
<1>1. SessionOK /\ RequestOK /\ PlansOK /\ AcceptedRuns /\ AreCompiled(compiled, statement, links)
  BY DEF IInv
<1>2. UNCHANGED <<statement, params, bound, copied, phase, outcome, compiled, links, plan, level, prepared,
                  customs, generic, count>>
  BY DEF vars
<1>3. SessionOK'
  BY <1>1, <1>2 DEF SessionOK
<1>4. RequestOK'
  BY <1>1, <1>2 DEF RequestOK
<1>5. PlansOK'
  BY <1>1, <1>2 DEF PlansOK
<1>6. AcceptedRuns'
  BY <1>1, <1>2, OutcomeStays DEF AcceptedRuns, SessionOK
<1> QED BY <1>1, <1>2, <1>3, <1>4, <1>5, <1>6 DEF IInv

LEMMA NextOK == IInv /\ [Next]_vars => IInv'
<1> SUFFICES ASSUME IInv, [Next]_vars PROVE IInv'
  OBVIOUS
<1>1. ASSUME NEW s \in Statements, Submit(s) PROVE IInv'
  BY <1>1, SubmitOK
<1>2. ASSUME NEW s \in Prepareds, Prepare(s) PROVE IInv'
  BY <1>2, PrepareOK
<1>3. ASSUME NEW p \in Params, ExecuteCustom(p) PROVE IInv'
  BY <1>3, ExecuteCustomOK
<1>4. ASSUME NEW p \in Params, ExecuteGeneric(p) PROVE IInv'
  BY <1>4, ExecuteGenericOK
<1>5. CASE SkipQuery
  BY <1>5, SkipQueryOK
<1>6. CASE RejectQuery
  BY <1>6, RejectQueryOK
<1>7. CASE FailQuery
  BY <1>7, FailQueryOK
<1>8. CASE CrashQuery
  BY <1>8, CrashQueryOK
<1>9. CASE CompileQuery
  BY <1>9, CompileQueryOK
<1>10. CASE PlanStatement
  BY <1>10, PlanStatementOK
<1>11. CASE FailPlan
  BY <1>11, FailPlanOK
<1>12. CASE CrashPlan
  BY <1>12, CrashPlanOK
<1>13. CASE RewritePlan
  BY <1>13, RewritePlanOK
<1>14. CASE RunPlan
  BY <1>14, RunPlanOK
<1>15. CASE UNCHANGED vars
  BY <1>15, StutterOK
<1> QED BY <1>1, <1>2, <1>3, <1>4, <1>5, <1>6, <1>7, <1>8, <1>9, <1>10, <1>11, <1>12, <1>13, <1>14, <1>15
        DEF Next

THEOREM Invariance == Spec => []IInv
BY InitOK, NextOK, PTL DEF Spec

-----------------------------------------------------------------------------
(* Theorems                                                                *)

LEMMA LocationsAreLinks ==
  ASSUME NEW part, IsParsed(part.query), NEW c, NEW k, NEW lks, Len(lks) \in Nat,
         IsCompiledAs(c, part, k, lks), NEW agg \in TargetAggs(c.query)
  PROVE  agg.location \in 0 .. Len(lks)
<1>1. CASE IsAnonymizing(part.query)
  <2>1. PICK context : IsAnonymized(c, part, lks, context)
    BY <1>1 DEF IsCompiledAs
  <2>2. IF IsLinked(agg) THEN IsLinkedTo(agg, lks, context) ELSE agg.location = NoLocation
    BY <2>1 DEF IsAnonymized, AreLinkedTo
  <2> QED BY <2>2 DEF IsLinkedTo, NoLocation
<1>2. CASE ~IsAnonymizing(part.query)
  <2>1. c.query = part.query
    BY <1>2 DEF IsCompiledAs, IsSkipped
  <2>2. agg.location = NoLocation
    BY <2>1 DEF IsParsed, IsParsedAgg
  <2> QED BY <2>2 DEF NoLocation
<1> QED BY <1>1, <1>2

(* The variables stay in their sets: a statement is compiled and planned    *)
(* query by query, aggregates are located among the links, and an execution *)
(* is given its own parameters or none.                                     *)
THEOREM TypeCorrect == Spec => []TypeOK
<1>1. IInv => TypeOK
  <2> SUFFICES ASSUME IInv PROVE TypeOK
    OBVIOUS
  <2>1. SessionOK /\ PlansOK /\ AreCompiled(compiled, statement, links)
    BY DEF IInv
  <2>2. Len(links) \in Nat
    BY <2>1 DEF AreCompiled, AreLinks
  <2>3. ASSUME NEW k \in DOMAIN compiled, NEW agg \in TargetAggs(compiled[k].query)
        PROVE  agg.location \in 0 .. Len(links)
    <3>1. k \in DOMAIN statement /\ IsCompiledAs(compiled[k], statement[k], k, links)
      BY <2>1 DEF AreCompiled
    <3>2. statement \in Statements \cup Prepareds
      BY <2>1, <3>1 DEF SessionOK
    <3>3. IsParsed(statement[k].query)
      BY <3>1, <3>2, PartFacts
    <3> QED BY <2>2, <3>1, <3>3, LocationsAreLinks
  <2> QED BY <2>1, <2>3 DEF TypeOK, SessionOK, PlansOK, AreCompiled
<1> QED BY <1>1, Invariance, PTL

\* The fragments of the plan that is executed.
LEMMA RunFacts ==
  ASSUME IInv, phase = "run", NEW k \in DOMAIN plan
  PROVE  /\ statement \in Statements \cup Prepareds /\ k \in DOMAIN statement /\ k # 0
         /\ IsExecutable(plan[k], statement[k], k)
<1>1. statement # <<>> /\ statement \in Statements \cup Prepareds \cup {<<>>}
  BY DEF IInv, RequestOK, SessionOK
<1>2. AreExecutable(plan, statement)
  BY DEF IInv, PlansOK
<1>3. k \in DOMAIN statement /\ IsExecutable(plan[k], statement[k], k)
  BY <1>2 DEF AreExecutable
<1>4. k # 0
  BY <1>1, <1>3, PartFacts
<1> QED BY <1>1, <1>3, <1>4

\* The BucketScans of the plan that is executed.
LEMMA ScanFacts ==
  ASSUME IInv, phase = "run", NEW k \in Runs
  PROVE  /\ IsValid(statement[k].query)
         /\ IsScanOf(plan[k].scan, k, statement[k].query)
         /\ statement[k].via # "cte" => SeesBins(plan[k], statement[k].query)
         /\ KeepsLimits(plan[k], statement[k].query)
<1>1. k \in DOMAIN plan /\ plan[k].scan # NoScan
  BY DEF Runs
<1>2. IsExecutable(plan[k], statement[k], k)
  BY <1>1, RunFacts
<1> QED BY <1>1, <1>2 DEF IsExecutable

(* Every anonymizing query of a statement is executed by a BucketScan with  *)
(* the context it was compiled with, and no other query is: the locations   *)
(* of the aggregates lead rewrite_plan back to it, in plans that are kept   *)
(* for later executions too.  Queries whose aggregates are all in HAVING    *)
(* are left out: they have no location.                                     *)
THEOREM ContextsFindTheirQuery == Spec => []OwnContext
<1>1. IInv => OwnContext
  <2> SUFFICES ASSUME IInv, phase = "run", NEW k \in DOMAIN plan, ~AggregatesInHavingOnly(statement[k].query)
               PROVE  plan[k].scan.query = (IF IsAnonymizing(statement[k].query) THEN k ELSE 0)
    BY DEF OwnContext
  <2>1. IsExecutable(plan[k], statement[k], k)
    BY RunFacts
  <2>2. CASE IsAnonymizing(statement[k].query)
    BY <2>1, <2>2 DEF IsExecutable, IsScanOf
  <2>3. CASE ~IsAnonymizing(statement[k].query)
    <3>1. plan[k].scan = NoScan
      BY <2>1, <2>3 DEF IsExecutable
    <3> QED BY <2>3, <3>1 DEF NoScan
  <2> QED BY <2>2, <2>3
<1> QED BY <1>1, Invariance, PTL

(* HAVING and the conditions of outer queries see the bins of an            *)
(* anonymizing query, not the rows below its aggregation: the wrapper       *)
(* around HAVING, the security barrier and the dummy limit keep them there. *)
(* WITH queries are left out.                                               *)
THEOREM ConditionsSeeBins == Spec => []ConditionsAbove
<1>1. IInv => ConditionsAbove
  BY ScanFacts DEF ConditionsAbove, SeesBins
<1> QED BY <1>1, Invariance, PTL

(* LIMIT and OFFSET of a query survive the dummy limit that is put on       *)
(* subqueries and taken off their plans.  OFFSET without LIMIT, and a LIMIT *)
(* that equals the dummy one, are left out.                                 *)
THEOREM LimitsSurvive == Spec => []LimitsKept
<1>1. IInv => LimitsKept
  BY ScanFacts DEF LimitsKept, KeepsLimits
<1> QED BY <1>1, Invariance, PTL

(* What validation lets through is rewritten and planned without an error   *)
(* and without a crash, but for the statements that MayFail and MayCrash    *)
(* name: no other assumption of the rewriting is ever wrong.                *)
THEOREM AcceptedStatementsRun == Spec => []AcceptedRuns
<1>1. IInv => AcceptedRuns
  BY DEF IInv
<1> QED BY <1>1, Invariance, PTL

(* The aggregates below a BucketScan are given all AIDs of all personal     *)
(* tables of its query, and count_histogram counts the AIDs that its arguments name,  *)
(* in joins of a table with itself too.                                     *)
THEOREM AidsAreCounted == Spec => []CountsTheAids
<1>1. IInv => CountsTheAids
  <2> SUFFICES ASSUME IInv, phase = "run", NEW k \in Runs
               PROVE  LET query   == statement[k].query
                          scan    == plan[k].scan
                          counted == {agg \in TargetAggs(query) \cup HavingAggs(query) : agg.fn = "count_histogram"}
                          aids    == UNION {{[rte |-> r, column |-> c] : c \in Range(AidColumns[query.rtable[r]])} :
                                              r \in {r \in DOMAIN query.rtable : query.rtable[r] \in Personal}}
                      IN  /\ \A agg \in scan.aggs : agg.fn \in AnonymizingAggs => Range(agg.aids) = aids
                          /\ {agg.aids[agg.counted + 1] : agg \in {a \in scan.aggs : a.fn = "anon_count_histogram"}}
                             = {[rte |-> agg.args[1].rte, column |-> agg.args[1].name] : agg \in counted}
    BY DEF CountsTheAids
  <2> DEFINE query == statement[k].query
             aggs == plan[k].scan.aggs
  <2>1. IsValid(query) /\ aggs = AnonAggs(query)
    BY ScanFacts DEF IsScanOf
  <2> HIDE DEF query, aggs
  <2>2. query.rtable \in Seq(Relations)
    BY <2>1, QueryFields DEF IsValid, IsParsed
  <2>3. Range(GatherAidRefs(query)) = AidsOf(query)
    BY <2>2, AidsAreGathered
  <2>4. \A agg \in aggs : agg.fn \in AnonymizingAggs => Range(agg.aids) = AidsOf(query)
    BY <2>1, <2>3, AnonAggsAreUsable
  <2>5. {agg.aids[agg.counted + 1] : agg \in {a \in aggs : a.fn = "anon_count_histogram"}}
        = {NamedAid(agg) : agg \in {agg \in AllAggs(query) : agg.fn = "count_histogram"}}
    BY <2>1, NamedAidsAreCounted
  <2> QED BY <2>4, <2>5 DEF query, aggs, AidsOf, NamedAid, AllAggs
<1> QED BY <1>1, Invariance, PTL

(* What BucketScan relies on: bins with labels have a low count aggregate   *)
(* and the global bin has none, bins that are expanded have a count, and    *)
(* the labels it finds in the plan are the expressions of the groups.       *)
THEOREM ScansAreUsable == Spec => []ScanIsUsable
<1>1. IInv => ScanIsUsable
  <2> SUFFICES ASSUME IInv, phase = "run", NEW k \in Runs
               PROVE  LET scan == plan[k].scan
                      IN  /\ scan.low_count <=> scan.num_labels > 0
                          /\ scan.context.expand => scan.count_star
                          /\ Range(scan.labels) = GroupingExprs(MakeGrouped(statement[k].query))
    BY DEF ScanIsUsable
  <2> DEFINE query == statement[k].query
             scan == plan[k].scan
             cols == GroupingCols(MakeAnonymizing(query))
  <2>1. IsValid(query) /\ IsScanOf(scan, k, query)
    BY ScanFacts
  <2> HIDE DEF query, scan
  <2>2. /\ scan.num_labels = Len(cols) /\ scan.context.grouping_cols = cols
        /\ scan.context.expand = IsSimpleSelect(query)
        /\ scan.low_count = (\E a \in AnonAggs(query) : a.fn = "low_count")
        /\ scan.count_star = (\E a \in AnonAggs(query) : a.fn = "anon_count_star")
    BY <2>1 DEF IsScanOf, IsContextOf
  <2>3. Len(cols) > 0 <=> HasLowCountFilter(query)
    BY <2>1, LabelsAreUsable
  <2>4. /\ (\E a \in AnonAggs(query) : a.fn = "low_count") <=> HasLowCountFilter(query)
        /\ IsSimpleSelect(query) => \E a \in AnonAggs(query) : a.fn = "anon_count_star"
    BY <2>1, AnonAggsAreUsable
  <2> HIDE DEF cols
  <2>5. scan.low_count <=> scan.num_labels > 0
    BY <2>2, <2>3, <2>4, Zenon
  <2>6. scan.context.expand => scan.count_star
    BY <2>2, <2>4, Zenon
  <2>7. Range(scan.labels) = GroupingExprs(MakeGrouped(query))
    BY <2>1 DEF IsScanOf
  <2> QED BY <2>5, <2>6, <2>7 DEF scan, query
<1> QED BY <1>1, Invariance, PTL

-----------------------------------------------------------------------------
(* The material of seeds                                                    *)

LEMMA CastFacts ==
  ASSUME NEW e \in Exprs
  PROVE  /\ e.node \in {"Var", "Const", "Param"} => e.args = <<>>
         /\ IsUnwrapped(e) => Len(e.args) = 1 /\ e.args \in Seq(Exprs)
<1>1. e.args \in Seq(Exprs)
  BY ExpressionFacts
<1>2. /\ e.node \in {"Var", "Const", "Param"} => e.args = <<>>
      /\ e.node = "FuncExpr" /\ e.name \in OneArgument => Len(e.args) = 1
      /\ e.node \in {"RelabelType", "CoerceViaIO"} => Len(e.args) = 1
  BY ValidationAssumption
<1>3. IsAllowedCast(e) => e.node = "FuncExpr" /\ e.name \in OneArgument
  BY DEF IsAllowedCast, AllowedCasts, DecimalIntegerCasts, OneArgument
<1> QED BY <1>1, <1>2, <1>3 DEF IsUnwrapped, IsDatetimeToString

(* What holds of expressions that are no casts, and of casts of what it     *)
(* holds of, holds of all.                                                  *)
LEMMA CastInduction ==
  ASSUME NEW S,
         \A e \in Exprs : ~IsUnwrapped(e) => e \in S,
         \A e \in Exprs : IsUnwrapped(e) /\ e.args[1] \in S => e \in S
  PROVE  Exprs \subseteq S
<1> DEFINE T == {n \in Nat : \A e \in Exprs : Height[e] < n => e \in S}
<1>1. 0 \in T
  BY ExpressionFacts
<1>2. ASSUME NEW n \in Nat, n \in T PROVE n + 1 \in T
  <2> SUFFICES ASSUME NEW e \in Exprs, Height[e] < n + 1, IsUnwrapped(e) PROVE e \in S
    OBVIOUS
  <2> DEFINE x == e.args[1]
  <2>1. 1 \in DOMAIN e.args
    BY ExpressionFacts
  <2>2. x \in Exprs /\ Height[x] < Height[e] /\ Height[e] \in Nat
    BY <2>1, ExpressionFacts
  <2>3. Height[x] \in Nat
    BY <2>2, ExpressionFacts
  <2>4. Height[x] < n
    BY <2>2, <2>3
  <2>5. x \in S
    BY <1>2, <2>2, <2>4
  <2> QED BY <2>5
<1> HIDE DEF T
<1>3. Nat \subseteq T
  BY <1>1, <1>2, SetInduction
<1>4. ASSUME NEW e \in Exprs PROVE e \in S
  <2>1. Height[e] \in Nat
    BY ExpressionFacts
  <2>2. Height[e] + 1 \in T /\ Height[e] < Height[e] + 1
    BY <1>3, <2>1
  <2> QED BY <2>2 DEF T
<1> QED BY <1>4

LEMMA FlattenOne ==
  ASSUME NEW S, NEW s \in Seq(S), NEW seqs, seqs = <<s>>
  PROVE  FlattenSeq(seqs) = s
<1> DEFINE n == 1
           Step(h) == [i \in 1 .. Len(seqs) |-> IF i = 1 THEN seqs[i] ELSE h[i - 1] \o seqs[i]]
           h == CHOOSE h : h = Step(h)
           g == [i \in 1 .. 1 |-> s]
<1>1. Len(seqs) = 1 /\ seqs[1] = s
  OBVIOUS
<1>2. \A i \in 1 .. 1 : i = 1
  OBVIOUS
<1>3. g = Step(g)
  BY <1>1, <1>2
<1>4. h = Step(h)
  BY <1>3, Zenon
<1>5. h[1] = s
  <2>1. 1 \in 1 .. Len(seqs)
    BY <1>1
  <2> HIDE DEF h
  <2> QED BY <1>1, <1>4, <2>1
<1>6. FlattenSeq(seqs) = h[1]
  BY <1>1 DEF FlattenSeq
<1> QED BY <1>5, <1>6

(* collect_seed_material: expressions are finite, so it comes to an end.    *)
LEMMA MaterialUnfolds ==
  ASSUME NEW query, NEW b, NEW e \in Exprs
  PROVE  SeedMaterial(query, b, e) =
           OwnMaterial(query, b, e) \o FlattenSeq([k \in DOMAIN e.args |-> SeedMaterial(query, b, e.args[k])])
<1> DEFINE Own(x) == OwnMaterial(query, b, x)
           Args(f, x) == [k \in DOMAIN x.args |-> f[x.args[k]]]
           Add(own, args) == own \o FlattenSeq(args)
           All(f, x) == Add(Own(x), Args(f, x))
           Step(f) == [x \in Exprs |-> All(f, x)]
           IsUpTo(f, n) == \A x \in Exprs : Height[x] < n => f[x] = All(f, x)
<1>1. \A x \in Exprs : Height[x] \in Nat
  BY ExpressionFacts
<1>2. \A x \in Exprs : \A k \in DOMAIN x.args :
        x.args[k] \in Exprs /\ Height[x.args[k]] \in Nat /\ Height[x.args[k]] < Height[x]
  <2> SUFFICES ASSUME NEW x \in Exprs, NEW k \in DOMAIN x.args
               PROVE  x.args[k] \in Exprs /\ Height[x.args[k]] \in Nat /\ Height[x.args[k]] < Height[x]
    OBVIOUS
  <2>1. x.args[k] \in Exprs /\ Height[x.args[k]] < Height[x]
    BY ExpressionFacts
  <2> QED BY <1>1, <2>1
<1> HIDE DEF Own, Add
<1>3. ASSUME NEW f, NEW h, NEW x \in Exprs, \A k \in DOMAIN x.args : f[x.args[k]] = h[x.args[k]]
      PROVE  All(f, x) = All(h, x)
  <2>1. Args(f, x) = Args(h, x)
    BY <1>3, Zenon
  <2> HIDE DEF Args
  <2> QED BY <2>1
<1> HIDE DEF All
<1> DEFINE T == {n \in Nat : \E f : IsUpTo(f, n)}
<1>4. 0 \in T
  <2>1. IsUpTo(Height, 0)
    BY <1>1
  <2> QED BY <2>1
<1>5. ASSUME NEW n \in Nat, n \in T PROVE n + 1 \in T
  <2>1. PICK f : IsUpTo(f, n)
    BY <1>5
  <2> DEFINE h == Step(f)
  <2>2. \A x \in Exprs : h[x] = All(f, x)
    OBVIOUS
  <2> HIDE DEF h
  <2>3. ASSUME NEW x \in Exprs, Height[x] < n + 1 PROVE h[x] = All(h, x)
    <3>1. ASSUME NEW k \in DOMAIN x.args PROVE f[x.args[k]] = h[x.args[k]]
      <4>1. x.args[k] \in Exprs /\ Height[x.args[k]] < n
        BY <1>1, <1>2, <2>3
      <4> QED BY <2>1, <2>2, <4>1
    <3>2. All(f, x) = All(h, x)
      BY <1>3, <3>1
    <3> QED BY <2>2, <3>2
  <2>4. IsUpTo(h, n + 1)
    BY <2>3
  <2> QED BY <2>4
<1> HIDE DEF T
<1>6. \A n \in Nat : \E f : IsUpTo(f, n)
  BY <1>4, <1>5, SetInduction DEF T
<1>7. ASSUME NEW f, NEW n \in Nat, IsUpTo(f, n), NEW h, NEW m \in Nat, IsUpTo(h, m)
      PROVE  \A x \in Exprs : Height[x] < n /\ Height[x] < m => f[x] = h[x]
  <2> DEFINE U == {l \in Nat : \A x \in Exprs : Height[x] < l /\ Height[x] < n /\ Height[x] < m => f[x] = h[x]}
  <2>1. 0 \in U
    BY <1>1
  <2>2. ASSUME NEW l \in Nat, l \in U PROVE l + 1 \in U
    <3> SUFFICES ASSUME NEW x \in Exprs, Height[x] < l + 1, Height[x] < n, Height[x] < m PROVE f[x] = h[x]
      OBVIOUS
    <3>1. ASSUME NEW k \in DOMAIN x.args PROVE f[x.args[k]] = h[x.args[k]]
      <4>1. /\ x.args[k] \in Exprs /\ Height[x.args[k]] < l
            /\ Height[x.args[k]] < n /\ Height[x.args[k]] < m
        BY <1>1, <1>2
      <4> QED BY <2>2, <4>1
    <3>2. All(f, x) = All(h, x)
      BY <1>3, <3>1
    <3> QED BY <1>7, <3>2
  <2> HIDE DEF U
  <2>3. Nat \subseteq U
    BY <2>1, <2>2, SetInduction
  <2> SUFFICES ASSUME NEW x \in Exprs, Height[x] < n, Height[x] < m PROVE f[x] = h[x]
    OBVIOUS
  <2>4. Height[x] + 1 \in U /\ Height[x] < Height[x] + 1
    BY <1>1, <2>3
  <2> QED BY <2>4 DEF U
<1> DEFINE UpTo(n) == CHOOSE f : IsUpTo(f, n)
           g == [x \in Exprs |-> UpTo(Height[x] + 1)[x]]
<1>8. \A n \in Nat : IsUpTo(UpTo(n), n)
  <2> HIDE DEF IsUpTo
  <2> QED BY <1>6
<1>9. \A x \in Exprs : g[x] = UpTo(Height[x] + 1)[x]
  OBVIOUS
<1> HIDE DEF UpTo
<1>10. ASSUME NEW x \in Exprs PROVE g[x] = All(g, x)
  <2> DEFINE f == UpTo(Height[x] + 1)
             n == Height[x] + 1
  <2>1. n \in Nat /\ IsUpTo(f, n) /\ Height[x] < n
    BY <1>1, <1>8
  <2> HIDE DEF g
  <2>2. g[x] = All(f, x)
    BY <1>9, <2>1
  <2>3. ASSUME NEW k \in DOMAIN x.args PROVE f[x.args[k]] = g[x.args[k]]
    <3> DEFINE y == x.args[k]
               m == Height[y] + 1
    <3>1. y \in Exprs /\ Height[y] \in Nat /\ Height[y] < Height[x]
      BY <1>2
    <3>2. m \in Nat /\ IsUpTo(UpTo(m), m) /\ Height[y] < m /\ Height[y] < n
      BY <1>1, <1>8, <3>1
    <3>3. g[y] = UpTo(m)[y]
      BY <1>9, <3>1
    <3> HIDE DEF y, m, f, n, IsUpTo
    <3>4. f[y] = UpTo(m)[y]
      BY <1>7, <2>1, <3>1, <3>2
    <3> QED BY <3>3, <3>4 DEF y
  <2> HIDE DEF f
  <2>4. All(f, x) = All(g, x)
    BY <1>3, <2>3
  <2> QED BY <2>2, <2>4
<1>11. g = [x \in Exprs |-> g[x]]
  OBVIOUS
<1> HIDE DEF g
<1>12. g = Step(g)
  BY <1>10, <1>11, Zenon
<1> DEFINE p == CHOOSE f : f = Step(f)
<1>13. p = Step(p)
  BY <1>12
<1>14. \A x \in Exprs : SeedMaterial(query, b, x) = p[x]
  BY DEF SeedMaterial, All, Add, Own
<1> HIDE DEF p
<1>15. p[e] = All(p, e)
  BY <1>13, Zenon
<1>16. Args(p, e) = [k \in DOMAIN e.args |-> SeedMaterial(query, b, e.args[k])]
  BY <1>2, <1>14, Zenon
<1>17. All(p, e) = OwnMaterial(query, b, e) \o FlattenSeq(Args(p, e))
  BY DEF All, Add, Own
<1> HIDE DEF Args
<1> QED BY <1>14, <1>15, <1>16, <1>17

(* Casts add nothing to the material.                                       *)
LEMMA CastsAddNothing ==
  ASSUME NEW query, NEW b, NEW V
  PROVE  \A e \in Exprs : SeedMaterial(query, b, UnwrapCast[e]) \in Seq(V) =>
                            SeedMaterial(query, b, e) = SeedMaterial(query, b, UnwrapCast[e])
<1> DEFINE Same(e) == SeedMaterial(query, b, UnwrapCast[e]) \in Seq(V) =>
                        SeedMaterial(query, b, e) = SeedMaterial(query, b, UnwrapCast[e])
           S == {e \in Exprs : Same(e)}
<1>1. ASSUME NEW e \in Exprs, ~IsUnwrapped(e) PROVE e \in S
  <2>1. UnwrapCast[e] = e
    BY <1>1, UnwrapUnfolds
  <2> QED BY <2>1
<1>2. ASSUME NEW e \in Exprs, IsUnwrapped(e), e.args[1] \in S PROVE e \in S
  <2> DEFINE x == e.args[1]
             m == SeedMaterial(query, b, x)
  <2>1. UnwrapCast[e] = UnwrapCast[x]
    BY <1>2, UnwrapUnfolds
  <2> SUFFICES ASSUME SeedMaterial(query, b, UnwrapCast[x]) \in Seq(V)
               PROVE  SeedMaterial(query, b, e) = SeedMaterial(query, b, UnwrapCast[x])
    BY <2>1
  <2>2. m = SeedMaterial(query, b, UnwrapCast[x])
    BY <1>2
  <2>3. OwnMaterial(query, b, e) = <<>>
    BY <1>2 DEF OwnMaterial, IsUnwrapped, IsDatetimeToString, IsStable, IsAllowedCast
  <2>4. Len(e.args) = 1 /\ e.args \in Seq(Exprs)
    BY <1>2, CastFacts
  <2>5. DOMAIN e.args = 1 .. 1
    BY <2>4
  <2> DEFINE list == [k \in DOMAIN e.args |-> SeedMaterial(query, b, e.args[k])]
  <2>6. list = <<m>>
    <3>1. \A k \in 1 .. 1 : k = 1
      OBVIOUS
    <3> HIDE DEF m
    <3>2. DOMAIN list = 1 .. 1 /\ list[1] = m
      BY <2>5 DEF m
    <3>3. list = [k \in 1 .. 1 |-> m]
      BY <2>5, <3>1 DEF m
    <3>4. <<m>> = [k \in 1 .. 1 |-> m]
      OBVIOUS
    <3> QED BY <3>3, <3>4
  <2>7. SeedMaterial(query, b, e) = OwnMaterial(query, b, e) \o FlattenSeq(list)
    BY MaterialUnfolds
  <2> HIDE DEF list, m
  <2>8. FlattenSeq(list) = m
    BY <2>2, <2>6, FlattenOne
  <2>9. <<>> \o m = m
    BY <2>2
  <2> QED BY <2>2, <2>3, <2>7, <2>8, <2>9
<1> HIDE DEF S
<1>3. Exprs \subseteq S
  BY <1>1, <1>2, CastInduction
<1> QED BY <1>3 DEF S

\* A value, written in its style.
Written(value, style) == IF value # Null /\ style # "plain" THEN <<value, style>> ELSE <<value>>

LEMMA StyleIsWritten ==
  ASSUME NEW type, NEW value
  PROVE  DatumSeedMaterial(type, value) = Written(value, Style(type))
BY DEF DatumSeedMaterial, Written, Style, StyledTypes

(* The material of columns, constants and parameters.                       *)
LEMMA LeafMaterial ==
  ASSUME NEW query, NEW b, NEW u \in Exprs, NEW x,
         \/ u.node = "Var" /\ x = <<query.rtable[u.rte], u.name>>
         \/ IsStable(u) /\ x = DatumSeedMaterial(u.type, StableValue(u, b))
  PROVE  SeedMaterial(query, b, u) = <<x>>
<1>1. OwnMaterial(query, b, u) = <<x>>
  BY DEF OwnMaterial, IsStable, IsAllowedCast
<1>2. u.args = <<>>
  BY CastFacts DEF IsStable
<1> DEFINE list == [k \in DOMAIN u.args |-> SeedMaterial(query, b, u.args[k])]
<1>3. list = <<>>
  BY <1>2
<1>4. SeedMaterial(query, b, u) = OwnMaterial(query, b, u) \o FlattenSeq(list)
  BY MaterialUnfolds
<1> HIDE DEF list
<1>5. FlattenSeq(list) = <<>>
  BY <1>3 DEF FlattenSeq
<1>6. <<x>> \o <<>> = <<x>>
  OBVIOUS
<1> QED BY <1>1, <1>4, <1>5, <1>6

(* Casts around them add nothing.                                           *)
LEMMA UnwrappedLeafMaterial ==
  ASSUME NEW query, NEW b, NEW e \in Exprs, NEW x,
         \/ UnwrapCast[e].node = "Var" /\ x = <<query.rtable[UnwrapCast[e].rte], UnwrapCast[e].name>>
         \/ /\ IsStable(UnwrapCast[e])
            /\ x = DatumSeedMaterial(UnwrapCast[e].type, StableValue(UnwrapCast[e], b))
  PROVE  SeedMaterial(query, b, e) = <<x>>
<1> DEFINE u == UnwrapCast[e]
<1>1. u \in Exprs
  BY UnwrapEnds
<1> HIDE DEF u
<1>2. SeedMaterial(query, b, u) = <<x>>
  BY <1>1, LeafMaterial DEF u
<1>3. SeedMaterial(query, b, u) \in Seq({x})
  BY <1>2
<1> QED BY <1>2, <1>3, CastsAddNothing DEF u

\* The position of the primary argument, by the sense of a function.
PrimaryOf(of) == IF of = "extract" THEN 2 ELSE AllowedFunctions[of]

ArgsOf(m) ==
  [k \in DOMAIN m.with \cup {PrimaryOf(m.of)} |->
     IF k \in DOMAIN m.with THEN <<Written(m.with[k][1], m.with[k][2])>> ELSE <<m.column>>]

\* The material of a seed, by the meaning of the expression.
MaterialOf(m) ==
  IF m.of = "column" THEN <<m.column>>
  ELSE << <<NormalizeFunctionName(SqlName(m.of))>> >> \o FlattenSeq(ArgsOf(m))

\* The values of the stable expressions in an expression are those that the
\* statement is executed with.
IsExecutedWith(e, b) == b = params \/ ParamsOf(e) = {}

LEMMA SameValue ==
  ASSUME NEW e \in Exprs, NEW b, IsExecutedWith(e, b), IsStable(UnwrapCast[e])
  PROVE  StableValue(UnwrapCast[e], b) = StableValue(UnwrapCast[e], params)
<1> DEFINE y == UnwrapCast[e]
<1>1. y \in Exprs /\ ParamsOf(y) \subseteq ParamsOf(e)
  BY UnwrapEnds, ParamsUnfold
<1>2. y.node = "Param" => y \in ParamsOf(y)
  BY <1>1, ParamsUnfold
<1> HIDE DEF y
<1>3. CASE y.node = "Const"
  BY <1>3 DEF StableValue, y
<1>4. CASE y.node # "Const"
  <2>1. y.node = "Param"
    BY <1>4 DEF IsStable, y
  <2>2. b = params
    BY <1>1, <1>2, <2>1 DEF IsExecutedWith
  <2> QED BY <2>2
<1> QED BY <1>3, <1>4

\* The functions that are no casts.
LEMMA FunctionFacts ==
  ASSUME NEW u \in Exprs, u.node = "FuncExpr", AcceptsFunction(u)
  PROVE  LET p == AllowedFunctions[u.name]
         IN  /\ p \in DOMAIN u.args /\ p = PrimaryOf(Sense(u.name)) /\ Sense(u.name) # "column"
             /\ NormalizeFunctionName(SqlName(Sense(u.name))) = NormalizeFunctionName(SqlName(u.name))
<1>1. u.name \in {"dtoi4", "text_substr", "dround", "round_by", "timestamp_trunc", "timestamp_part",
                  "extract_timestamp"}
  BY DEF AcceptsFunction, IsAllowedFunction, AllowedFunctions
<1>2. /\ Len(u.args) > 0 /\ DOMAIN u.args = 1 .. Len(u.args) /\ Len(u.args) \in Nat
      /\ u.name \in TwoArguments => Len(u.args) = 2
  <2>1. /\ u.name \in OneArgument => Len(u.args) = 1
        /\ u.name \in TwoArguments => Len(u.args) = 2
    BY ValidationAssumption
  <2>2. u.name \in OneArgument \/ u.name \in TwoArguments
    BY <1>1 DEF OneArgument, TwoArguments
  <2>3. DOMAIN u.args = 1 .. Len(u.args) /\ Len(u.args) \in Nat
    BY ExpressionFacts
  <2>4. Len(u.args) = 1 \/ Len(u.args) = 2
    BY <2>1, <2>2, Zenon
  <2>5. Len(u.args) > 0
    <3> DEFINE n == Len(u.args)
    <3> HIDE DEF n
    <3>1. n = 1 \/ n = 2
      BY <2>4 DEF n
    <3>2. n > 0
      BY <3>1
    <3> QED BY <3>2 DEF n
  <2> QED BY <2>1, <2>3, <2>5, Zenon
<1>3. CASE u.name \in ExtractFunctions
  <2>1. Sense(u.name) = "extract" /\ AllowedFunctions[u.name] = 2 /\ u.name \in TwoArguments
    BY <1>3 DEF Sense, ExtractFunctions, AllowedFunctions, TwoArguments
  <2>2. NormalizeFunctionName(SqlName("extract")) = "extract"
    BY DEF NormalizeFunctionName, SqlName
  <2>3. NormalizeFunctionName(SqlName(u.name)) = "extract"
    <3>1. u.name = "timestamp_part" \/ u.name = "extract_timestamp"
      BY <1>3 DEF ExtractFunctions
    <3>2. CASE u.name = "timestamp_part"
      <4>1. SqlName("timestamp_part") = "date_part"
        BY DEF SqlName
      <4> QED BY <3>2, <4>1 DEF NormalizeFunctionName
    <3>3. CASE u.name = "extract_timestamp"
      <4>1. SqlName("extract_timestamp") = "extract"
        BY DEF SqlName
      <4> QED BY <3>3, <4>1 DEF NormalizeFunctionName
    <3> QED BY <3>1, <3>2, <3>3
  <2>4. PrimaryOf("extract") = 2 /\ 2 \in DOMAIN u.args
    <3>1. Len(u.args) = 2
      BY <1>2, <2>1, Zenon
    <3>2. DOMAIN u.args = 1 .. 2
      BY <1>2, <3>1, Zenon
    <3>3. PrimaryOf("extract") = 2
      BY DEF PrimaryOf
    <3> QED BY <3>2, <3>3
  <2> QED BY <2>1, <2>2, <2>3, <2>4
<1>4. CASE u.name \notin ExtractFunctions
  <2>1. Sense(u.name) = u.name /\ u.name # "extract" /\ u.name # "column"
    BY <1>1, <1>4 DEF Sense
  <2>2. CASE u.name = "timestamp_trunc"
    BY <1>2, <2>1, <2>2 DEF PrimaryOf, AllowedFunctions, TwoArguments
  <2>3. CASE u.name # "timestamp_trunc"
    <3>1. AllowedFunctions[u.name] = 1
      BY <1>1, <1>4, <2>3 DEF AllowedFunctions, ExtractFunctions
    <3> QED BY <1>2, <2>1, <3>1 DEF PrimaryOf
  <2> QED BY <2>2, <2>3
<1> QED BY <1>3, <1>4

\* The fields of a meaning.
LEMMA MeaningFields ==
  ASSUME NEW query, NEW e, NEW m, m = Meaning(query, e)
  PROVE  LET u == UnwrapCast[e]
         IN  /\ m.of = IF u.node = "FuncExpr" THEN Sense(u.name) ELSE "column"
             /\ m.column = <<query.rtable[ColumnRef(e).rte], ColumnRef(e).name>>
             /\ DOMAIN m.with = {k \in DOMAIN u.args : IsStable(UnwrapCast[u.args[k]])}
             /\ \A k \in DOMAIN m.with :
                  m.with[k] = <<StableValue(UnwrapCast[u.args[k]], params), Style(UnwrapCast[u.args[k]].type)>>
BY DEF Meaning

(* The material of a function is that of its meaning.                       *)
LEMMA FunctionMaterial ==
  ASSUME NEW query, NEW anon, anon.rtable = query.rtable, NEW b,
         NEW e \in Exprs, IsExecutedWith(e, b),
         UnwrapCast[e].node = "FuncExpr", ~IsAllowedCast(UnwrapCast[e]), AcceptsFunction(UnwrapCast[e])
  PROVE  SeedMaterial(anon, b, e) = MaterialOf(Meaning(query, e))
<1> DEFINE u == UnwrapCast[e]
           m == Meaning(query, e)
           p == AllowedFunctions[u.name]
           name == <<NormalizeFunctionName(SqlName(u.name))>>
           list == [k \in DOMAIN u.args |-> SeedMaterial(anon, b, u.args[k])]
           Arg(k) == Written(m.with[k][1], m.with[k][2])
           V == {name, m.column} \cup {Arg(k) : k \in DOMAIN m.with}
<1>1. u \in Exprs /\ ParamsOf(u) \subseteq ParamsOf(e)
  BY UnwrapEnds, ParamsUnfold
<1>2. u.node = "FuncExpr" /\ ~IsAllowedCast(u) /\ AcceptsFunction(u)
  OBVIOUS
<1>3. /\ m.of = Sense(u.name)
      /\ m.column = <<query.rtable[ColumnRef(e).rte], ColumnRef(e).name>>
      /\ DOMAIN m.with = {k \in DOMAIN u.args : IsStable(UnwrapCast[u.args[k]])}
      /\ \A k \in DOMAIN m.with :
           m.with[k] = <<StableValue(UnwrapCast[u.args[k]], params), Style(UnwrapCast[u.args[k]].type)>>
  BY MeaningFields
<1>4. ColumnRef(e) = UnwrapCast[PrimaryArg(u)]
  BY <1>2 DEF ColumnRef, AcceptsFunction
<1> HIDE DEF u, m
<1>5. p \in DOMAIN u.args /\ p = PrimaryOf(m.of) /\ m.of # "column"
      /\ NormalizeFunctionName(SqlName(m.of)) = NormalizeFunctionName(SqlName(u.name))
  BY <1>1, <1>2, <1>3, FunctionFacts
<1>6. /\ PrimaryArg(u) = u.args[p] /\ UnwrapCast[u.args[p]].node = "Var"
      /\ \A k \in DOMAIN u.args : k # p => IsStable(UnwrapCast[u.args[k]])
  BY <1>2 DEF AcceptsFunction, PrimaryArg
<1>7. ~IsStable(UnwrapCast[u.args[p]])
  BY <1>6 DEF IsStable
<1> HIDE DEF p
<1>8. DOMAIN m.with = DOMAIN u.args \ {p} /\ DOMAIN m.with \cup {p} = DOMAIN u.args
  BY <1>3, <1>5, <1>6, <1>7
<1>9. \A k \in DOMAIN u.args : u.args[k] \in Exprs
  BY <1>1, ExpressionFacts
<1>10. SeedMaterial(anon, b, u.args[p]) = <<m.column>>
  <2>1. m.column = <<anon.rtable[UnwrapCast[u.args[p]].rte], UnwrapCast[u.args[p]].name>>
    BY <1>3, <1>4, <1>6
  <2> DEFINE arg == u.args[p]
  <2>2. /\ arg \in Exprs /\ UnwrapCast[arg].node = "Var"
        /\ m.column = <<anon.rtable[UnwrapCast[arg].rte], UnwrapCast[arg].name>>
    BY <1>5, <1>6, <1>9, <2>1
  <2> HIDE DEF arg
  <2>3. SeedMaterial(anon, b, arg) = <<m.column>>
    BY <2>2, UnwrappedLeafMaterial
  <2> QED BY <2>3 DEF arg
<1>11. ASSUME NEW k \in DOMAIN m.with PROVE SeedMaterial(anon, b, u.args[k]) = <<Arg(k)>>
  <2>1. k \in DOMAIN u.args /\ u.args[k] \in Exprs /\ IsStable(UnwrapCast[u.args[k]])
    BY <1>3, <1>9
  <2>2. IsExecutedWith(u.args[k], b)
    <3>1. ParamsOf(u.args[k]) \subseteq ParamsOf(e)
      BY <1>1, <2>1, ParamsUnfold
    <3> QED BY <3>1 DEF IsExecutedWith
  <2> DEFINE arg == u.args[k]
             y == UnwrapCast[arg]
             x == DatumSeedMaterial(y.type, StableValue(y, b))
  <2>3. StableValue(y, b) = StableValue(y, params) /\ m.with[k] = <<StableValue(y, params), Style(y.type)>>
    BY <1>3, <2>1, <2>2, SameValue
  <2>4. arg \in Exprs /\ IsStable(y)
    BY <2>1
  <2> HIDE DEF arg, y
  <2>5. m.with[k][1] = StableValue(y, params) /\ m.with[k][2] = Style(y.type)
    BY <2>3
  <2>6. x = Arg(k)
    <3>1. x = Written(StableValue(y, b), Style(y.type))
      BY StyleIsWritten
    <3> HIDE DEF x
    <3> QED BY <2>3, <2>5, <3>1
  <2>7. IsStable(UnwrapCast[arg]) /\ x = DatumSeedMaterial(UnwrapCast[arg].type, StableValue(UnwrapCast[arg], b))
    BY <2>4 DEF y
  <2> HIDE DEF x, Arg
  <2>8. SeedMaterial(anon, b, arg) = <<x>>
    BY <2>4, <2>7, UnwrappedLeafMaterial
  <2> QED BY <2>6, <2>8 DEF arg
<1>12. list = ArgsOf(m)
  <2>1. \A k \in DOMAIN u.args : SeedMaterial(anon, b, u.args[k]) =
          IF k \in DOMAIN m.with THEN <<Arg(k)>> ELSE <<m.column>>
    BY <1>8, <1>10, <1>11
  <2>2. ArgsOf(m) = [k \in DOMAIN u.args |-> IF k \in DOMAIN m.with THEN <<Arg(k)>> ELSE <<m.column>>]
    BY <1>5, <1>8, Zenon DEF ArgsOf
  <2> QED BY <2>1, <2>2, Zenon
<1>13. SeedMaterial(anon, b, u) = OwnMaterial(anon, b, u) \o FlattenSeq(list)
  BY <1>1, MaterialUnfolds
<1>14. OwnMaterial(anon, b, u) = <<name>>
  BY <1>2 DEF OwnMaterial, IsStable
<1>15. MaterialOf(m) = <<name>> \o FlattenSeq(ArgsOf(m))
  BY <1>5, Zenon DEF MaterialOf
<1>16. SeedMaterial(anon, b, u) = MaterialOf(m)
  <2> HIDE DEF list, name
  <2> QED BY <1>12, <1>13, <1>14, <1>15
<1>17. MaterialOf(m) \in Seq(V)
  <2>1. list \in Seq(Seq(V))
    <3>1. \A k \in DOMAIN u.args : SeedMaterial(anon, b, u.args[k]) \in Seq(V)
      <4> SUFFICES ASSUME NEW k \in DOMAIN u.args PROVE SeedMaterial(anon, b, u.args[k]) \in Seq(V)
        OBVIOUS
      <4>1. CASE k \in DOMAIN m.with
        <5>1. Arg(k) \in V
          BY <4>1
        <5> HIDE DEF V, Arg
        <5>2. <<Arg(k)>> \in Seq(V)
          BY <5>1, RangeOfOne
        <5> QED BY <1>11, <4>1, <5>2
      <4>2. CASE k \notin DOMAIN m.with
        <5>1. m.column \in V /\ k = p
          BY <1>8, <4>2
        <5> HIDE DEF V
        <5> QED BY <1>10, <5>1
      <4> QED BY <4>1, <4>2
    <3>2. Len(u.args) \in Nat /\ DOMAIN u.args = 1 .. Len(u.args)
      BY <1>1, ExpressionFacts
    <3> HIDE DEF V
    <3> QED BY <3>1, <3>2
  <2>2. <<name>> \in Seq(V)
    <3>1. name \in V
      OBVIOUS
    <3> HIDE DEF V, name
    <3> QED BY <3>1
  <2> HIDE DEF list, V, name
  <2>3. FlattenSeq(list) \in Seq(V)
    BY <2>1, FlattenSeqs
  <2> QED BY <1>12, <1>15, <2>2, <2>3
<1> HIDE DEF V
<1>18. SeedMaterial(anon, b, e) = SeedMaterial(anon, b, u)
  BY <1>16, <1>17, CastsAddNothing DEF u
<1> QED BY <1>16, <1>18 DEF m

(* collect_seed_material: equal meanings have equal material.               *)
LEMMA MeaningMakesMaterial ==
  ASSUME NEW query, NEW anon, anon.rtable = query.rtable, NEW b,
         NEW e \in Exprs, IsExecutedWith(e, b), AcceptsBucketExpression[e]
  PROVE  SeedMaterial(anon, b, e) = MaterialOf(Meaning(query, e))
<1> DEFINE u == UnwrapCast[e]
           m == Meaning(query, e)
<1>1. IsBucketExpression(u)
  BY UnwrapEnds
<1>2. CASE u.node = "Var"
  <2>1. m.of = "column" /\ m.column = <<query.rtable[ColumnRef(e).rte], ColumnRef(e).name>>
    BY <1>2, MeaningFields
  <2>2. ColumnRef(e) = u
    BY <1>2 DEF ColumnRef
  <2>3. m.column = <<anon.rtable[u.rte], u.name>>
    BY <2>1, <2>2
  <2>4. MaterialOf(m) = <<m.column>>
    BY <2>1 DEF MaterialOf
  <2> HIDE DEF m
  <2>5. SeedMaterial(anon, b, e) = <<m.column>>
    BY <1>2, <2>3, UnwrappedLeafMaterial
  <2> QED BY <2>4, <2>5 DEF m
<1>3. CASE u.node # "Var"
  <2>1. u.node = "FuncExpr" /\ ~IsAllowedCast(u) /\ AcceptsFunction(u)
    BY <1>1, <1>3 DEF IsBucketExpression
  <2> QED BY <2>1, FunctionMaterial
<1> QED BY <1>2, <1>3

\* A query that validation accepts, with the groups of the anonymizing query.
IsAccepted(query) ==
  /\ IsValid(query) /\ \E l : AcceptsQuery(query, l)
  /\ \A e \in GroupingExprs(MakeAnonymizing(query)) : AcceptsBucketExpression[e]

LEMMA AcceptedFilters ==
  ASSUME NEW query, IsAccepted(query), NEW k \in DOMAIN query.where
  PROVE  /\ query.where[k].left \in Exprs /\ AcceptsBucketExpression[query.where[k].left]
         /\ query.where[k].right \in Exprs /\ IsStable(UnwrapCast[query.where[k].right])
<1>1. query.where[k].op = "=" /\ \E l : AcceptsFilter(query, query.where[k], l)
  BY DEF IsAccepted, AcceptsQuery, AcceptsWhere, OnlyEqualities
<1>2. query.where[k].left \in Exprs /\ query.where[k].right \in Exprs
  BY <1>1 DEF IsAccepted, IsValid, IsParsed
<1> QED BY <1>1, <1>2 DEF AcceptsFilter

\* The expressions of groups and filters.
BucketExprs(query) == GroupingExprs(MakeAnonymizing(query)) \cup FilteringExprs(query)

\* The parameters that the seeds of a query need are there.
IsBound(query, b) ==
  b = params \/ (b = Unbound /\ ~ReadsUnbound(MakeAnonymizing(query), b) /\ ~ComparesUnbound(MakeAnonymizing(query), b))

\* The label of a filter.
FilterLabel(query, k) ==
  LET constant == UnwrapCast[query.where[k].right]
  IN  Written(StableValue(constant, params), Style(constant.type))

(* prepare_bucket_seeds: the SQL part is made of what the expressions mean, *)
(* the labels are the values that are compared with.                        *)
LEMMA SeedIsMeaning ==
  ASSUME NEW query, IsAccepted(query), NEW b, IsBound(query, b)
  PROVE  /\ SqlSeed(MakeAnonymizing(query), b) = {MaterialOf(Meaning(query, e)) : e \in BucketExprs(query)}
         /\ BaseLabels(MakeAnonymizing(query), b) = {FilterLabel(query, k) : k \in DOMAIN query.where}
<1> DEFINE anon == MakeAnonymizing(query)
<1>1. IsValid(query) /\ \A e \in GroupingExprs(anon) : AcceptsBucketExpression[e]
  BY DEF IsAccepted
<1>2. anon.rtable = query.rtable /\ anon.where = query.where
  BY <1>1, QueryIsMade DEF IsMade, RestIsMade, TargetsAreMade
<1>3. \A e \in GroupingExprs(anon) : e \in Exprs /\ AcceptsBucketExpression[e]
  BY <1>1, GroupsAreSeeds
<1> HIDE DEF anon
<1>4. FilteringExprs(anon) = FilteringExprs(query) /\ FilteringConsts(anon) = FilteringConsts(query)
  BY <1>2 DEF FilteringExprs, FilteringConsts
<1>5. \A e \in FilteringExprs(query) : e \in Exprs /\ AcceptsBucketExpression[e]
  BY AcceptedFilters DEF FilteringExprs
<1>6. b = params \/ /\ \A e \in BucketExprs(query) : ParamsOf(e) = {}
                    /\ \A e \in FilteringConsts(query) : e.node # "Param"
  <2> SUFFICES ASSUME b = Unbound, ~ReadsUnbound(anon, b), ~ComparesUnbound(anon, b)
               PROVE  /\ \A e \in BucketExprs(query) : ParamsOf(e) = {}
                      /\ \A e \in FilteringConsts(query) : e.node # "Param"
    BY DEF IsBound, anon
  <2>1. ASSUME NEW e \in BucketExprs(query), NEW x \in StableParts(e) PROVE x.node # "Param"
    BY <1>4 DEF ReadsUnbound, IsUnbound, BucketExprs, anon
  <2>2. \A e \in FilteringConsts(query) : e.node # "Param"
    BY <1>4 DEF ComparesUnbound, IsUnbound
  <2> QED BY <2>1, <2>2 DEF ParamsOf
<1>7. ASSUME NEW e \in BucketExprs(query) PROVE SeedMaterial(anon, b, e) = MaterialOf(Meaning(query, e))
  <2>1. e \in Exprs /\ AcceptsBucketExpression[e]
    BY <1>3, <1>5 DEF BucketExprs, anon
  <2>2. IsExecutedWith(e, b)
    BY <1>6 DEF IsExecutedWith
  <2> QED BY <1>2, <2>1, <2>2, MeaningMakesMaterial
<1>8. SqlSeed(anon, b) = {SeedMaterial(anon, b, e) : e \in BucketExprs(query)}
  BY <1>4 DEF SqlSeed, BucketExprs, anon
<1>9. SqlSeed(anon, b) = {MaterialOf(Meaning(query, e)) : e \in BucketExprs(query)}
  BY <1>7, <1>8
<1> DEFINE Const(k) == UnwrapCast[query.where[k].right]
           Label(x) == DatumSeedMaterial(x.type, StableValue(x, b))
<1>10. ASSUME NEW k \in DOMAIN query.where
       PROVE  Label(Const(k)) = FilterLabel(query, k)
  <2> DEFINE u == Const(k)
  <2>1. IsStable(u)
    BY AcceptedFilters
  <2>2. u \in FilteringConsts(query)
    BY DEF FilteringConsts
  <2>3. FilterLabel(query, k) = Written(StableValue(u, params), Style(u.type))
    BY DEF FilterLabel
  <2>4. Label(u) = Written(StableValue(u, b), Style(u.type))
    BY StyleIsWritten
  <2> HIDE DEF u
  <2>5. StableValue(u, b) = StableValue(u, params)
    <3>1. CASE u.node = "Const"
      BY <3>1 DEF StableValue
    <3>2. CASE u.node # "Const"
      BY <1>6, <2>1, <2>2, <3>2 DEF IsStable
    <3> QED BY <3>1, <3>2
  <2> HIDE DEF Label
  <2> QED BY <2>3, <2>4, <2>5 DEF u
<1>11. BaseLabels(anon, b) = {Label(Const(k)) : k \in DOMAIN query.where}
  <2>1. BaseLabels(anon, b) = {Label(x) : x \in FilteringConsts(query)}
    BY <1>4, Zenon DEF BaseLabels
  <2>2. FilteringConsts(query) = {Const(k) : k \in DOMAIN query.where}
    BY Zenon DEF FilteringConsts
  <2> HIDE DEF Label, Const
  <2> QED BY <2>1, <2>2
<1>12. BaseLabels(anon, b) = {FilterLabel(query, k) : k \in DOMAIN query.where}
  <2> HIDE DEF Label, Const
  <2> QED BY <1>10, <1>11
<1> QED BY <1>9, <1>12 DEF anon

Firsts(bucket) == {y[1] : y \in bucket}

\* The labels of a bucket, by its values and their styles.
LabelsOf(typed) == {Written(y[2], y[3]) : y \in typed}

LEMMA PlainFirsts ==
  ASSUME NEW typed
  PROVE  Firsts(Plain(typed)) = Firsts(typed)
<1>1. ASSUME NEW y \in typed PROVE y[1] \in Firsts(Plain(typed))
  <2> DEFINE x == <<y[1], y[2]>>
  <2>1. x \in Plain(typed) /\ x[1] = y[1]
    BY DEF Plain
  <2> HIDE DEF x
  <2> QED BY <2>1 DEF Firsts
<1>2. ASSUME NEW x \in Plain(typed) PROVE x[1] \in Firsts(typed)
  BY DEF Plain, Firsts
<1> QED BY <1>1, <1>2 DEF Firsts

\* A bucket of a query: the expressions of groups and filters, the labels.
IsBucketOf(typed, query, labels, values) ==
  /\ Firsts(Plain(typed)) = {Meaning(query, e) : e \in BucketExprs(query)}
  /\ LabelsOf(typed) = {Written(values[i], Style(labels[i].type)) : i \in DOMAIN values} \cup
                       {FilterLabel(query, j) : j \in DOMAIN query.where}

(* A bucket gives the expressions of groups and filters their values.       *)
LEMMA BucketIsMeant ==
  ASSUME NEW query, IsAccepted(query), NEW k, NEW scan, IsScanOf(scan, k, query), NEW V,
         NEW values \in [1 .. scan.num_labels -> V]
  PROVE  IsBucketOf(GroupMeaning(query, scan.labels, values) \cup FilterMeaning(query), query, scan.labels, values)
<1> DEFINE labels == scan.labels
           Filtering(j) == query.where[j].left
           Const(j) == StableValue(UnwrapCast[query.where[j].right], params)
           ConstStyle(j) == Style(UnwrapCast[query.where[j].right].type)
           LabelStyle(i) == Style(labels[i].type)
           M(e) == Meaning(query, e)
           groups == {<<M(labels[i]), values[i], LabelStyle(i)>> : i \in DOMAIN values}
           filters == {<<M(Filtering(j)), Const(j), ConstStyle(j)>> : j \in DOMAIN query.where}
<1>1. GroupMeaning(query, scan.labels, values) = groups
  BY Zenon DEF GroupMeaning
<1>2. FilterMeaning(query) = filters
  BY Zenon DEF FilterMeaning
<1>3. {FilterLabel(query, j) : j \in DOMAIN query.where} = {Written(Const(j), ConstStyle(j)) : j \in DOMAIN query.where}
  BY Zenon DEF FilterLabel
<1>4. GroupingExprs(MakeAnonymizing(query)) = {labels[i] : i \in DOMAIN values}
  <2>1. DOMAIN labels = DOMAIN values /\ Range(labels) = GroupingExprs(MakeGrouped(query))
    BY DEF IsScanOf
  <2>2. GroupingExprs(MakeAnonymizing(query)) = GroupingExprs(MakeGrouped(query))
    BY SeedsAlike DEF IsAccepted
  <2>3. Range(labels) = {labels[i] : i \in DOMAIN labels}
    BY Zenon DEF Range
  <2> QED BY <2>1, <2>2, <2>3
<1>5. FilteringExprs(query) = {Filtering(j) : j \in DOMAIN query.where}
  BY Zenon DEF FilteringExprs
<1>6. BucketExprs(query) = {labels[i] : i \in DOMAIN values} \cup {Filtering(j) : j \in DOMAIN query.where}
  BY <1>4, <1>5, Zenon DEF BucketExprs
<1> HIDE DEF M, labels, Filtering, Const, ConstStyle, LabelStyle
<1>7. /\ Firsts(groups) = {M(labels[i]) : i \in DOMAIN values}
      /\ LabelsOf(groups) = {Written(values[i], LabelStyle(i)) : i \in DOMAIN values}
  <2>1. \A y : y \in groups <=> \E i \in DOMAIN values : y = <<M(labels[i]), values[i], LabelStyle(i)>>
    OBVIOUS
  <2> HIDE DEF groups
  <2>2. Firsts(groups) \subseteq {M(labels[i]) : i \in DOMAIN values}
    BY <2>1 DEF Firsts
  <2>3. LabelsOf(groups) \subseteq {Written(values[i], LabelStyle(i)) : i \in DOMAIN values}
    BY <2>1 DEF LabelsOf
  <2>4. ASSUME NEW i \in DOMAIN values
        PROVE  M(labels[i]) \in Firsts(groups) /\ Written(values[i], LabelStyle(i)) \in LabelsOf(groups)
    <3> DEFINE y == <<M(labels[i]), values[i], LabelStyle(i)>>
    <3>1. y \in groups /\ y[1] = M(labels[i]) /\ y[2] = values[i] /\ y[3] = LabelStyle(i)
      BY <2>1
    <3> HIDE DEF y
    <3> QED BY <3>1 DEF Firsts, LabelsOf
  <2> QED BY <2>2, <2>3, <2>4
<1>8. /\ Firsts(filters) = {M(Filtering(j)) : j \in DOMAIN query.where}
      /\ LabelsOf(filters) = {Written(Const(j), ConstStyle(j)) : j \in DOMAIN query.where}
  <2>1. \A y : y \in filters <=> \E j \in DOMAIN query.where : y = <<M(Filtering(j)), Const(j), ConstStyle(j)>>
    OBVIOUS
  <2> HIDE DEF filters
  <2>2. Firsts(filters) \subseteq {M(Filtering(j)) : j \in DOMAIN query.where}
    BY <2>1 DEF Firsts
  <2>3. LabelsOf(filters) \subseteq {Written(Const(j), ConstStyle(j)) : j \in DOMAIN query.where}
    BY <2>1 DEF LabelsOf
  <2>4. ASSUME NEW j \in DOMAIN query.where
        PROVE  M(Filtering(j)) \in Firsts(filters) /\ Written(Const(j), ConstStyle(j)) \in LabelsOf(filters)
    <3> DEFINE y == <<M(Filtering(j)), Const(j), ConstStyle(j)>>
    <3>1. y \in filters /\ y[1] = M(Filtering(j)) /\ y[2] = Const(j) /\ y[3] = ConstStyle(j)
      BY <2>1
    <3> HIDE DEF y
    <3> QED BY <3>1 DEF Firsts, LabelsOf
  <2> QED BY <2>2, <2>3, <2>4
<1> HIDE DEF groups, filters
<1> DEFINE typed == groups \cup filters
<1>9. Firsts(typed) = Firsts(groups) \cup Firsts(filters) /\ LabelsOf(typed) = LabelsOf(groups) \cup LabelsOf(filters)
  BY DEF Firsts, LabelsOf
<1>10. Firsts(typed) = {M(e) : e \in BucketExprs(query)}
  BY <1>6, <1>7, <1>8, <1>9
<1> HIDE DEF typed
<1>11. Firsts(Plain(typed)) = {M(e) : e \in BucketExprs(query)}
  BY <1>10, PlainFirsts
<1>12. LabelsOf(typed) = {Written(values[i], LabelStyle(i)) : i \in DOMAIN values} \cup
                         {FilterLabel(query, j) : j \in DOMAIN query.where}
  BY <1>3, <1>7, <1>8, <1>9
<1>13. GroupMeaning(query, scan.labels, values) \cup FilterMeaning(query) = typed
  BY <1>1, <1>2 DEF typed
<1> QED BY <1>11, <1>12, <1>13 DEF M, LabelStyle, labels, IsBucketOf

-----------------------------------------------------------------------------
(* The invariant of seeds                                                   *)

\* A context whose seed is that of a query, with the parameters b; the labels
\* of the filters are lost by copies.
IsSeededContext(context, query, b, cp) ==
  /\ {"sql_seed", "base_labels"} \subseteq DOMAIN context /\ IsAccepted(query)
  /\ b = Unbound => ~ReadsUnbound(MakeAnonymizing(query), b) /\ ~ComparesUnbound(MakeAnonymizing(query), b)
  /\ context.sql_seed = SqlSeed(MakeAnonymizing(query), b)
  /\ ~cp => context.base_labels = BaseLabels(MakeAnonymizing(query), b)

AreSeededLinks(lks, s, b) ==
  \A i \in 1 .. Len(lks) :
    /\ lks[i].context.query \in DOMAIN s
    /\ IsSeededContext(lks[i].context, s[lks[i].context.query].query, b, FALSE)

IsSeededPlan(p, s, b, cp) ==
  \A k \in DOMAIN p : p[k].scan # NoScan => IsSeededContext(p[k].scan.context, s[k].query, b, cp)

\* The seed of a bucket is determined by its expressions and values, and the
\* styles of the values.
IsMeant(x) ==
  /\ x.sql = {MaterialOf(m) : m \in Firsts(x.bucket)}
  /\ ~x.copied => x.labels = LabelsOf(x.typed)

AreMeant(all) == \A x \in all : IsMeant(x)

SInv ==
  /\ AreSeededLinks(links, statement, bound)
  /\ phase = "run" => IsSeededPlan(plan, statement, bound, copied)
  /\ generic # <<>> => IsSeededPlan(generic, prepared, Unbound, TRUE)
  /\ AreMeant(seeds)
  /\ bound = Unbound => copied

LEMMA NoLinks ==
  ASSUME NEW s, NEW b
  PROVE  AreSeededLinks(<<>>, s, b)
BY DEF AreSeededLinks

LEMMA SInvInit == Init => SInv
<1> SUFFICES ASSUME Init PROVE SInv
  OBVIOUS
<1>1. AreSeededLinks(links, statement, bound)
  BY NoLinks DEF Init
<1>2. AreMeant(seeds)
  BY DEF Init, AreMeant
<1>3. bound # Unbound
  BY StatementsAssumption DEF Init
<1> QED BY <1>1, <1>2, <1>3 DEF SInv, Init

LEMMA SubmitSeeded ==
  ASSUME SInv, NEW s \in Statements, Submit(s)
  PROVE  SInv'
<1>1. /\ links' = <<>> /\ phase' = "compile" /\ bound' = NoParams
      /\ UNCHANGED <<generic, prepared, seeds>>
  BY DEF Submit, Begin
<1>2. NoParams # Unbound
  BY UnboundIsOwn
<1>3. AreSeededLinks(links', statement', bound')
  BY <1>1, NoLinks
<1> QED BY <1>1, <1>2, <1>3 DEF SInv

LEMMA ExecuteSeeded ==
  ASSUME SInv, NEW p \in Params, ExecuteCustom(p) \/ ExecuteGeneric(p)
  PROVE  SInv'
<1>1. /\ links' = <<>> /\ copied' = TRUE /\ statement' = prepared
      /\ UNCHANGED <<generic, prepared, seeds>>
      /\ phase' = "run" => bound' = Unbound /\ plan' = generic /\ generic # <<>>
  BY DEF ExecuteCustom, ExecuteGeneric, Begin
<1>2. AreSeededLinks(links', statement', bound')
  BY <1>1, NoLinks
<1>3. phase' = "run" => IsSeededPlan(plan', statement', bound', copied')
  BY <1>1 DEF SInv
<1> QED BY <1>1, <1>2, <1>3 DEF SInv

LEMMA PrepareSeeded ==
  ASSUME IInv, SInv, NEW s \in Prepareds, Prepare(s)
  PROVE  SInv'
<1>1. /\ phase = "idle" /\ prepared = <<>>
      /\ UNCHANGED <<statement, bound, copied, phase, links, generic, seeds>>
  BY DEF Prepare, request
<1>2. generic = <<>>
  BY <1>1 DEF IInv, PlansOK
<1> QED BY <1>1, <1>2 DEF SInv

\* Steps that make no contexts and do not start an execution.
LEMMA OthersSeeded ==
  ASSUME SInv, UNCHANGED <<statement, bound, copied, links, generic, prepared, seeds>>,
         phase' # "run" \/ UNCHANGED <<phase, plan>>
  PROVE  SInv'
BY DEF SInv

(* A query that compile_anonymizing_query goes through with.                *)
LEMMA CompileQuerySeeded ==
  ASSUME IInv, SInv, CompileQuery
  PROVE  SInv'
<1> DEFINE k == Len(compiled) + 1
           query == statement[k].query
           anon == MakeAnonymizing(query)
           context == MakeContext(k, query, anon)
           both == links \o NewLinks(anon, context)
<1>1. /\ phase = "compile" /\ ~IsCompiled /\ NextPart = statement[k]
      /\ CompileVerdict(query) = "ok"
      /\ links' = both
      /\ UNCHANGED <<statement, bound, copied, phase, generic, prepared, seeds>>
  <2> HIDE DEF context, both
  <2> QED BY DEF CompileQuery, NextPart, request, session, context, both
<1>2. k \in DOMAIN statement /\ statement \in Statements \cup Prepareds
  BY <1>1, NextIsPart
<1>3. query \in Queries /\ IsParsed(query)
  BY <1>2, PartFacts
<1> HIDE DEF k, query
<1>4. /\ AcceptsQuery(query, level) /\ CanRewrite(query)
      /\ \A e \in GroupingExprs(anon) : AcceptsBucketExpression[e]
      /\ ~ReadsUnbound(anon, bound) /\ ~ComparesUnbound(anon, bound)
  BY <1>1, <1>3, CompileVerdicts
<1>5. IsValid(query)
  BY <1>3, <1>4, AcceptedIsValid
<1>6. IsAccepted(query)
  BY <1>4, <1>5 DEF IsAccepted
<1>8. IsSeededContext(context, query, bound, FALSE) /\ context.query = k
  BY <1>4, <1>6 DEF IsSeededContext, MakeContext
<1>9. anon \in Queries
  BY <1>5, QueryIsMade DEF IsMade
<1>10. AreLinks(links)
  BY DEF IInv, AreCompiled
<1> HIDE DEF anon, context
<1>11. AreAdded(both, links, anon, context) /\ Cardinality(LinkedPositions(anon)) \in Nat
  BY <1>9, <1>10, LinksAreAdded, WalkIsComplete
<1> HIDE DEF both
<1>12. AreSeededLinks(both, statement, bound)
  <2> DEFINE n == Cardinality(LinkedPositions(anon))
  <2>1. /\ Len(links) \in Nat /\ n \in Nat /\ Len(both) = Len(links) + n
        /\ \A i \in 1 .. Len(links) : both[i] = links[i]
        /\ \A i \in 1 .. n : both[Len(links) + i] = [context |-> context, fn |-> AggAt(anon, Walk(anon)[i]).fn]
    BY <1>11, Zenon DEF AreAdded
  <2> HIDE DEF n
  <2> SUFFICES ASSUME NEW i \in 1 .. Len(both)
               PROVE  /\ both[i].context.query \in DOMAIN statement
                      /\ IsSeededContext(both[i].context, statement[both[i].context.query].query, bound, FALSE)
    BY DEF AreSeededLinks
  <2>2. CASE i \in 1 .. Len(links)
    BY <2>1, <2>2 DEF SInv, AreSeededLinks
  <2>3. CASE i \notin 1 .. Len(links)
    <3>1. i - Len(links) \in 1 .. n /\ Len(links) + (i - Len(links)) = i
      BY <2>1, <2>3
    <3>2. both[i] = [context |-> context, fn |-> AggAt(anon, Walk(anon)[i - Len(links)]).fn]
      BY <2>1, <3>1
    <3>3. both[i].context = context
      BY <3>2
    <3> QED BY <1>2, <1>8, <3>3 DEF query
  <2> QED BY <2>2, <2>3
<1>13. AreSeededLinks(links', statement', bound')
  BY <1>1, <1>12
<1> QED BY <1>1, <1>13 DEF SInv

\* The fragments that rewrite_plan puts a scan over.
LEMMA ScanIsSeeded ==
  ASSUME IInv, SInv, phase = "rewrite", NEW k \in DOMAIN plan, Contexts(plan[k]) # {}
  PROVE  /\ "scan" \in DOMAIN Rewritten(plan[k])
         /\ IsSeededContext(Rewritten(plan[k]).scan.context, statement[k].query, bound, FALSE)
<1> DEFINE f == plan[k]
           x == CHOOSE x \in Contexts(f) : TRUE
           scan == MakeBucketScan(f, x)
           scanned == [f EXCEPT !.scan = scan]
<1>1. /\ statement \in Statements \cup Prepareds /\ k \in DOMAIN statement
      /\ IsCompiledAs(compiled[k], statement[k], k, links)
  BY PlannedFacts
<1>2. PICK sorts \in BOOLEAN : f = Fragment(compiled[k], sorts)
  BY PlannedFacts
<1>3. IsParsed(statement[k].query)
  BY <1>1, PartFacts
<1>4. f.aggs = TargetAggs(compiled[k].query) /\ FragmentParts \subseteq DOMAIN f
  BY <1>2, FragmentFields, FragmentIsRecord
<1> HIDE DEF f
<1>5. IsAnonymizing(statement[k].query)
  BY <1>1, <1>3, <1>4, SkippedHasNoContext DEF IsCompiledAs, f
<1>6. PICK context : IsContextOf(context, k, statement[k].query) /\ IsAnonymized(compiled[k], statement[k], links, context)
  BY <1>1, <1>5 DEF IsCompiledAs
<1>7. Contexts(f) = {context}
  BY <1>4, <1>6, ContextsAreOwn DEF f
<1>8. x = context
  BY <1>7
<1>9. PICK agg \in LinkedAggs(f) : context = links[agg.location].context
  BY <1>7 DEF Contexts
<1>10. agg.location \in 1 .. Len(links)
  <2>1. agg \in f.aggs /\ IsLinked(agg)
    BY DEF LinkedAggs
  <2> QED BY <1>4, <1>6, <2>1 DEF IsAnonymized, AreLinkedTo, IsLinkedTo
<1>11. IsSeededContext(context, statement[k].query, bound, FALSE)
  BY <1>6, <1>9, <1>10 DEF SInv, AreSeededLinks, IsContextOf
<1>12. scan.context = x
  BY DEF MakeBucketScan
<1>13. Rewritten(f) = SkipDummyLimit(scanned)
  BY Zenon DEF Rewritten
<1> HIDE DEF x, scan
<1>14. FragmentParts \subseteq DOMAIN scanned /\ scanned.scan = scan
  BY <1>4, ScannedFields
<1> HIDE DEF scanned
<1>15. FragmentParts \subseteq DOMAIN Rewritten(f) /\ Rewritten(f).scan = scan
  BY <1>13, <1>14, SkippedFields
<1> QED BY <1>8, <1>11, <1>12, <1>15 DEF f, FragmentParts

(* bucket_scan_data_copy keeps the SQL part of the seed.                    *)
LEMMA CopyIsSeeded ==
  ASSUME NEW fragments, NEW s, NEW b, IsSeededPlan(fragments, s, b, FALSE),
         \A k \in DOMAIN fragments : "scan" \in DOMAIN fragments[k] /\
           (fragments[k].scan # NoScan => "context" \in DOMAIN fragments[k].scan)
  PROVE  IsSeededPlan(CopyPlan(fragments), s, b, TRUE)
<1> SUFFICES ASSUME NEW k \in DOMAIN fragments, CopyPlan(fragments)[k].scan # NoScan
             PROVE  IsSeededContext(CopyPlan(fragments)[k].scan.context, s[k].query, b, TRUE)
  BY DEF IsSeededPlan, CopyPlan
<1> DEFINE f == fragments[k]
           scan == f.scan
           context == scan.context
           copy == CopyPlan(fragments)[k]
<1>1. copy = IF scan = NoScan THEN f ELSE [f EXCEPT !.scan = [scan EXCEPT !.context = DataCopy(context)]]
  BY DEF CopyPlan
<1>2. scan # NoScan
  BY <1>1
<1>3. IsSeededContext(context, s[k].query, b, FALSE)
  BY <1>2 DEF IsSeededPlan
<1>4. "scan" \in DOMAIN f /\ "context" \in DOMAIN scan
  BY <1>2
<1> HIDE DEF copy, f
<1>5. copy.scan.context = DataCopy(context)
  <2>1. copy.scan = [scan EXCEPT !.context = DataCopy(context)]
    BY <1>1, <1>2, <1>4
  <2> HIDE DEF scan
  <2> QED BY <1>4, <2>1
<1> HIDE DEF scan, context
<1>6. IsSeededContext(DataCopy(context), s[k].query, b, TRUE)
  BY <1>3 DEF IsSeededContext, DataCopy
<1> QED BY <1>5, <1>6 DEF copy

LEMMA RewritePlanSeeded ==
  ASSUME IInv, SInv, RewritePlan
  PROVE  SInv'
<1> DEFINE fragments == [k \in DOMAIN plan |-> IF k \in Scanned THEN Rewritten(plan[k]) ELSE plan[k]]
<1>1. /\ phase = "rewrite"
      /\ plan' = IF copied THEN CopyPlan(fragments) ELSE fragments
      /\ generic' = IF bound = Unbound THEN plan' ELSE generic
      /\ UNCHANGED <<statement, bound, copied, links, prepared, seeds>>
  <2> HIDE DEF fragments
  <2> QED BY DEF RewritePlan, request, fragments
<1>2. ASSUME NEW k \in DOMAIN plan
      PROVE  /\ "scan" \in DOMAIN fragments[k]
             /\ fragments[k].scan # NoScan =>
                  /\ IsSeededContext(fragments[k].scan.context, statement[k].query, bound, FALSE)
                  /\ "context" \in DOMAIN fragments[k].scan
  <2>1. CASE Contexts(plan[k]) # {}
    <3>1. fragments[k] = Rewritten(plan[k])
      BY <2>1 DEF Scanned
    <3>2. "scan" \in DOMAIN Rewritten(plan[k])
          /\ IsSeededContext(Rewritten(plan[k]).scan.context, statement[k].query, bound, FALSE)
      BY <1>1, <2>1, ScanIsSeeded
    <3>3. Rewritten(plan[k]).scan # NoScan => "context" \in DOMAIN Rewritten(plan[k]).scan
      <4>1. /\ statement \in Statements \cup Prepareds /\ k \in DOMAIN statement
            /\ IsCompiledAs(compiled[k], statement[k], k, links)
        BY <1>1, PlannedFacts
      <4>2. PICK sorts \in BOOLEAN : (sorts => compiled[k].query.sorted) /\ plan[k] = Fragment(compiled[k], sorts)
        BY <1>1, PlannedFacts
      <4>5. ~FailsToRewrite(plan[k])
        BY <2>1 DEF RewritePlan, Scanned
      <4>3. IsExecutable(IF Contexts(plan[k]) # {} THEN Rewritten(plan[k]) ELSE plan[k], statement[k], k)
        BY <4>1, <4>2, <4>5, FragmentIsExecutable
      <4>4. IsExecutable(Rewritten(plan[k]), statement[k], k)
        BY <2>1, <4>3
      <4> QED BY <4>4 DEF IsExecutable, IsScanOf, ScanParts
    <3> HIDE DEF fragments
    <3> QED BY <3>1, <3>2, <3>3
  <2>2. CASE Contexts(plan[k]) = {}
    <3>1. fragments[k] = plan[k]
      BY <2>2 DEF Scanned
    <3>2. PICK sorts \in BOOLEAN : plan[k] = Fragment(compiled[k], sorts)
      BY <1>1, PlannedFacts
    <3>3. plan[k].scan = NoScan /\ "scan" \in DOMAIN plan[k]
      BY <3>2, FragmentFields, FragmentIsRecord DEF FragmentParts
    <3> HIDE DEF fragments
    <3> QED BY <3>1, <3>3
  <2> QED BY <2>1, <2>2
<1>3. DOMAIN fragments = DOMAIN plan
  OBVIOUS
<1> HIDE DEF fragments
<1>4. IsSeededPlan(fragments, statement, bound, FALSE)
  BY <1>2, <1>3 DEF IsSeededPlan
<1>5. IsSeededPlan(CopyPlan(fragments), statement, bound, TRUE)
  BY <1>2, <1>3, <1>4, CopyIsSeeded
<1>6. IsSeededPlan(plan', statement, bound, copied)
  <2>1. CASE copied
    BY <1>1, <1>5, <2>1 DEF IsSeededPlan, IsSeededContext
  <2>2. CASE ~copied
    BY <1>1, <1>4, <2>2 DEF IsSeededPlan, IsSeededContext
  <2> QED BY <2>1, <2>2
<1>7. generic' # <<>> => IsSeededPlan(generic', prepared, Unbound, TRUE)
  <2>1. CASE bound = Unbound
    <3>1. copied /\ copied \in BOOLEAN /\ statement = prepared
      BY <2>1 DEF SInv, IInv, SessionOK, RequestOK
    <3>2. plan' = CopyPlan(fragments) /\ generic' = plan'
      BY <1>1, <2>1, <3>1
    <3> QED BY <1>5, <2>1, <3>1, <3>2
  <2>2. CASE bound # Unbound
    BY <1>1, <2>2 DEF SInv
  <2> QED BY <2>1, <2>2
<1> QED BY <1>1, <1>6, <1>7 DEF SInv

\* The seeds of the buckets of a scan.
LEMMA BucketsAreMeant ==
  ASSUME IInv, SInv, phase = "run", NEW k \in Runs, NEW x \in BucketsOf(k, plan[k].scan)
  PROVE  IsMeant(x)
<1> DEFINE query == statement[k].query
           scan == plan[k].scan
           anon == MakeAnonymizing(query)
           types == [j \in DOMAIN scan.labels |-> scan.labels[j].type]
           Typed(v) == GroupMeaning(query, scan.labels, v) \cup FilterMeaning(query)
<1>1. IsScanOf(scan, k, query)
  BY ScanFacts
<1>2. IsSeededContext(scan.context, query, bound, copied)
  <2>1. k \in DOMAIN plan /\ plan[k].scan # NoScan
    BY DEF Runs
  <2> QED BY <2>1 DEF SInv, IsSeededPlan
<1>3. PICK values \in [1 .. scan.num_labels -> Values] :
        x = [bucket |-> Plain(Typed(values)), typed |-> Typed(values), sql |-> scan.context.sql_seed,
             labels |-> BucketLabels(values, types, scan.context), copied |-> copied]
  <2> HIDE DEF GroupMeaning
  <2> QED BY DEF BucketsOf
<1>4. IsBound(query, bound)
  BY <1>2 DEF IsBound, IsSeededContext, IInv, SessionOK
<1> DEFINE typed == Typed(values)
           filters == {FilterLabel(query, j) : j \in DOMAIN query.where}
           groups == {Written(values[i], Style(scan.labels[i].type)) : i \in DOMAIN values}
<1>5. DOMAIN values = DOMAIN scan.labels
  BY <1>1 DEF IsScanOf
<1>6. {DatumSeedMaterial(types[i], values[i]) : i \in DOMAIN values} = groups
  BY <1>5, StyleIsWritten
<1>7. x.bucket = Plain(typed) /\ x.typed = typed /\ x.sql = scan.context.sql_seed /\ x.copied = copied
      /\ x.labels = BucketLabels(values, types, scan.context)
  BY <1>3
<1> HIDE DEF query, scan, types
<1>8. IsAccepted(query) /\ scan.context.sql_seed = SqlSeed(anon, bound)
      /\ (~copied => scan.context.base_labels = BaseLabels(anon, bound))
  BY <1>2 DEF IsSeededContext
<1>9. /\ SqlSeed(anon, bound) = {MaterialOf(Meaning(query, e)) : e \in BucketExprs(query)}
      /\ BaseLabels(anon, bound) = filters
  BY <1>4, <1>8, SeedIsMeaning
<1>10. /\ Firsts(Plain(typed)) = {Meaning(query, e) : e \in BucketExprs(query)}
       /\ LabelsOf(typed) = groups \cup filters
  <2>1. IsBucketOf(GroupMeaning(query, scan.labels, values) \cup FilterMeaning(query), query, scan.labels, values)
    BY <1>1, <1>3, <1>8, BucketIsMeant
  <2> QED BY <2>1 DEF IsBucketOf
<1> HIDE DEF typed, groups, filters, anon
<1>11. x.sql = {MaterialOf(m) : m \in Firsts(x.bucket)}
  BY <1>7, <1>8, <1>9, <1>10
<1>12. BucketLabels(values, types, scan.context) = groups \cup scan.context.base_labels
  BY <1>6 DEF BucketLabels
<1>13. ~x.copied => x.labels = LabelsOf(x.typed)
  BY <1>7, <1>8, <1>9, <1>10, <1>12
<1> QED BY <1>11, <1>13 DEF IsMeant

LEMMA RunPlanSeeded ==
  ASSUME IInv, SInv, RunPlan
  PROVE  SInv'
<1>1. /\ phase = "run" /\ phase' = "idle"
      /\ seeds' = seeds \cup UNION {BucketsOf(k, plan[k].scan) : k \in Runs}
      /\ UNCHANGED <<statement, bound, copied, links, generic, prepared>>
  BY DEF RunPlan, request, session
<1>2. \A k \in Runs : \A x \in BucketsOf(k, plan[k].scan) : IsMeant(x)
  BY <1>1, BucketsAreMeant
<1>3. AreMeant(seeds')
  BY <1>1, <1>2 DEF AreMeant, SInv
<1> QED BY <1>1, <1>3 DEF SInv

LEMMA SInvNext == IInv /\ SInv /\ [Next]_vars => SInv'
<1> SUFFICES ASSUME IInv, SInv, [Next]_vars PROVE SInv'
  OBVIOUS
<1>1. ASSUME NEW s \in Statements, Submit(s) PROVE SInv'
  BY <1>1, SubmitSeeded
<1>2. ASSUME NEW s \in Prepareds, Prepare(s) PROVE SInv'
  BY <1>2, PrepareSeeded
<1>3. ASSUME NEW p \in Params, ExecuteCustom(p) \/ ExecuteGeneric(p) PROVE SInv'
  BY <1>3, ExecuteSeeded
<1>4. CASE SkipQuery
  BY <1>4, OthersSeeded DEF SkipQuery, request, session
<1>5. CASE RejectQuery \/ FailQuery \/ CrashQuery \/ FailPlan \/ CrashPlan
  <2>1. \E result : End(result)
    BY <1>5 DEF RejectQuery, FailQuery, CrashQuery, FailPlan, CrashPlan
  <2>2. phase' # "run" /\ UNCHANGED <<statement, bound, copied, links, generic, prepared, seeds>>
    BY <2>1 DEF End, request, session
  <2> QED BY <2>2, OthersSeeded
<1>6. CASE CompileQuery
  BY <1>6, CompileQuerySeeded
<1>7. CASE PlanStatement
  BY <1>7, OthersSeeded DEF PlanStatement, request, session
<1>8. CASE RewritePlan
  BY <1>8, RewritePlanSeeded
<1>9. CASE RunPlan
  BY <1>9, RunPlanSeeded
<1>10. CASE UNCHANGED vars
  BY <1>10, OthersSeeded DEF vars
<1> QED BY <1>1, <1>2, <1>3, <1>4, <1>5, <1>6, <1>7, <1>8, <1>9, <1>10 DEF Next

(* Filtering and grouping agree, for all statements: the SQL part of the    *)
(* seed of a bin is made of what its expressions mean, whether the          *)
(* statement filters by them or groups by them, and whether it is given     *)
(* constants or parameters.  The labels are the values, as they are written *)
(* for their types, unless the plan was copied.                             *)
THEOREM FilteringAndGroupingAgree == Spec => []FilteringIsGrouping
<1>1. Spec => [](IInv /\ SInv)
  BY InitOK, NextOK, SInvInit, SInvNext, PTL DEF Spec
<1>2. SInv => FilteringIsGrouping
  BY DEF SInv, AreMeant, IsMeant, FilteringIsGrouping
<1> QED BY <1>1, <1>2, PTL

=============================================================================
