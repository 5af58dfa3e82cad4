# pg_diffix in TLA+

pg_diffix is a PostgreSQL extension that anonymizes the answers of SQL queries.
When a session is not at direct access level, the planner hook validates each
query over personal tables and rewrites it: aggregates are replaced by
anonymizing ones, and a custom executor node, *BucketScan*, is put on top of the
`Agg` node. BucketScan drains the `Agg` into a list of buckets, merges buckets
(LED, star bucket), and emits those that enough different protected entities
(identified by *AIDs*) contribute to.

This directory models the session that decides whether and with which settings
a query is anonymized, the way of a statement through validation, rewriting,
PostgreSQL's planner and the rewriting of plans, and the execution of the result:
where aggregate states live, how rows are summed up in them, how buckets are
merged, evaluated and emitted. `PROJECT.json` lists for every definition the lines of the source it
models; the names are those of the source where TLA+ allows it.

## Inventory

| Component | Source | State | Operations | Modelled in |
|---|---|---|---|---|
| BucketScan node | `aggregation/bucket_scan.c` | bucket list, next index, repetitions, input_done | begin, exec (fill, hooks, emit), rescan, end | `BucketScan` |
| LED | `aggregation/led.c` | siblings of each bucket per column; merge targets | led_hook | `BucketScan` |
| Star bucket | `aggregation/star_bucket.c` | the star bucket | star_bucket_hook | `BucketScan` |
| Low count filter | `aggregation/low_count.c`, `aid_tracker.c` | AID set per AID instance | transition, merge, finalize | `BucketScan` |
| Aggregate states | `aggregation/common.c`, `bucket_scan.c` | `g_current_bucket_scan`, states in memory contexts | get_agg_state, transition, final functions | `AggContext` |
| Contribution trackers | `contribution_tracker.c`, `summable.c` | hash table AID to sum, sorted list of top contributors, totals | update, merge | `TopContributors`, `ContributionTracker` |
| Flattening | `summable.c`, `count.c`, `noise.c` | results of AID instances, accumulator | finalize | `Flattening` |
| count(distinct) | `count_distinct.c` | AID sets per value | transition, merge, finalize | `CountDistinct` |
| count, sum | `count.c`, `sum.c` | trackers for each AID instance, of a sum two, one for each sign | transition, merge, finalize | `ContributionTracker`, `Flattening` |
| count_histogram | `count_histogram.c` | rows and AIDs of every counted AID, in every bucket | transition, merge, finalize; the plain aggregate | `CountHistogram`, `Histogram` |
| Settings | `config.c` | GUC variables `g_config` | SET with check hooks, config_validate | `Session` |
| Access levels, labels | `auth.c`, `hooks.c` | session access level, security labels | SET, labelling, get_session_access_level in hooks | `Session`, for labels of users |
| Validation | `query/validation.c`, `allowed_objects.c`, `node_funcs.c` | none | verify_* | `Validation` |
| Rewriting | `query/anonymization.c`, `relation.c`, planner half of `bucket_scan.c` | links from aggregates to anonymization contexts | compile_query, rewrite_plan, copying of plans | `Rewriting`, `Statements` |
| AID hashing, noise | `aid.c`, `noise.c` | none | pure functions | abstracted |
| OID cache, start-up, SQL script | `oid_cache.c`, `pg_diffix.c`, `pg_diffix--fir.sql` | cached OIDs | conversions, look-ups | no |

How they interact: the planner hook calls validation, rewriting and
`config_validate`; the executor calls BucketScan's methods; BucketScan calls its
child `Agg`, whose transition functions call back into `common.c` and look at
the global `g_current_bucket_scan`; after the last group BucketScan calls the LED
and star bucket hooks, which merge aggregate states; when a bucket is emitted its
aggregates are evaluated with the settings of that moment. Between compilation and
plan, a query and its anonymization context are tied together by the `location`
field of its aggregates, which PostgreSQL copies through planning; a plan may end up
in the plan cache, which copies it with the extensible node's own copy function.

What is hard: a backend is a single thread, so there are no interleavings of
threads. But executions nest (functions in arguments of aggregates run queries),
errors leave through `longjmp`, rescans may arrive between any two rows, the child
returns groups and hash tables return entries in any order, sums wrap around, and
settings change between planning, filling and evaluation, are rolled back or reset
past their checks. PostgreSQL's planner moves conditions and may plan a prepared
statement without its parameters, and what was accepted must survive all of it. The `hazards` of
`PROJECT.json` list these at their lines, with the properties that cover them.

What makes the components correct: no row of a low count bucket is emitted; each
row is counted once, in one bucket, wherever LED moves it; results do not depend
on the order in which groups, entries and merges arrive; lists of top
contributors are what the evaluation takes them for; outliers do not shine
through, beyond what they take off the rows without AID; loops end; strict mode means strong settings, and the access level does not
rise by itself; a query is executed by a BucketScan with its own context, conditions
stay above it, what validation accepts the later stages can handle, and bins that
mean the same get the same seed, as far as their values are written alike.

## Modules

**`BucketScan`** - one scan with LED and the star bucket. Each iteration of each
loop is an action: `FetchBucket` (a tuple of the child becomes a bucket),
`EndOfInput`, `LedStep`, `LedDone`, `StartStarBucket`, `StarStep`, `StarDone`,
then `SkipBucket`, `EmitBucket`, `RepeatRow`, `ReturnEof` of `bucket_exec_scan`,
and the three outcomes of `bucket_rescan`. A bucket is a record of its labels,
its AID sets, its flags `low_count` and `merged`, and a history field `parts`,
the number of times each original group was merged into it. Aggregate states
other than the low count one play no role and are left out; what they would
contain follows from `parts`. The noisy threshold is a CONSTANT function of the
AID set because its noise is seeded by the set. `compute_suppress_bin` is read
when the hooks run and is a free choice.

**`ResultCursor`** - the abstract specification of that node: a list of
presentable rows, delivered from the first to the last, again after each rewind.
**`BucketScanCursor`** gives the refinement mapping: the result is unknown until the
hooks are over, and then the rows of the slots, one slot after the other. The run
`bucket_scan_cursor` checks `IsResultCursor` as a property.

**`AggContext`** - queries with and without BucketScan whose executions nest,
`g_current_bucket_scan` as it is saved, set and restored by `fill_bucket_list`,
and the decisions of `get_agg_state`: which memory context, shared state or own.
`Error` unwinds the stack to any depth, as an error caught by a client or an
exception block does. Reading the memory of an ended scan through the stale
global is undefined; the model continues as if the memory was intact, the other
outcome is the end of the process, after which nothing is claimed. A plain hashed
`Agg` is modelled as returning a group before it starts the next.

**`TopContributors`** - the operators on the sorted list (`find_insertion_index`,
`add_top_contributor`, `update_or_add_top_contributor`); used by the next and by
`CountDistinct`. **`ContributionTracker`** - the states of `count` and `sum` in several
buckets, fed with rows and merged, entry after entry in any order, leg after leg.
Integers have the width given by `IntLimit` and wrap around. History variables hold
the rows a tracker stands for. One AID instance is modelled: the instances of an
aggregate have trackers of their own, and only meet in `Flattening`. `RowsAddUp` compares sums as integers of that
width, so that it says something of sums that have wrapped, too.

**`Flattening`** - planning, filling, and the evaluation instance by instance
(`calculate_result`, `accumulate_result`), with `SET` of a bound anywhere between.
Draws and noise are nondeterministic choices from their ranges. Doubles are
integers scaled so that the divisions that matter are exact. Of `sum`, which evaluates
both legs with the same code, one leg is modelled.

**`CountDistinct`** - the AID sets of the values, then the evaluation:
`Distribute` is one turn of one AID in the loop of `distribute_lc_values`.
**`Ordering`** - what `list_sort` makes of entries that all differ for its comparer.

**`Histogram`** - the abstract specification of `count_histogram`: how many entities
have how many rows, over a bag of rows, in one step. **`CountHistogram`** - the two
aggregates of that name: the hash table of every bucket (`Transition`, `Merge`), then the loops of the
evaluation entry by entry, in any order (`Group`, `Collect`), and the sort and the
suppress bin (`Return`). Noise and threshold are functions of the AID set, as they are
seeded by it. `generalize` and the comparers truncate `int64` to `int`, which has
`Width` bits here; a division that traps ends the query. The refinement is checked as
the property `ImplementsHistogram`.

**`Validation`** - pure operators over expressions and queries: what may be grouped and
filtered by, which aggregates and joins are accepted. Expressions are records with a
finite set `Exprs` closed under arguments, so that recursion is by recursive
functions. Of the allowed casts and functions there is one of each kind: a cast, a
cast that rounds, functions with the column first and second, the two functions that
`EXTRACT` turns into; and one value of a kind (`MoneyRounded`, `PositiveIntegers`). The restrictions of the
untrusted level are part of it, as are the assertions they make about the checks before them and the NULLs
they do not look for. Checks that can end in several ways have a verdict, that of the first one that
does not pass, in the order of the code. Joins inside of joins are not represented: `on` has the conditions of the
joins `verify_select_targets` looks at. **`Rewriting`** - pure operators too: `make_query_anonymizing` and
`prepare_bucket_seeds`, with their errors and crashes. A seed is the set of the strings it is hashed from. What
`datum_seed_material` makes of a value depends on its type: numbers of all types are written alike, as are texts; dates,
timestamps and padded texts are written each in its own way (`StyledTypes`). `LongTexts` are the values that exceed the seed material.

**`Statements`** - the state machine over both: a statement is a sequence of
queries, alone, in `FROM`, or in `WITH`. `CompileQuery`, `SkipQuery` and three ways to fail
are one step of `compile_query` each; `PlanStatement` is PostgreSQL's planner, `RewritePlan`
is `rewrite_plan` and what the plan cache does to its result, `RunPlan` records the seeds
of all buckets the query may have. `Submit`, `Prepare`, `ExecuteCustom` and
`ExecuteGeneric` are the protocol and `choose_custom_plan`. What PostgreSQL does is
external and known from its source: conditions without aggregates move from `HAVING` to
`WHERE`, conditions of outer queries move into subqueries without `LIMIT` and past
security barriers only if they are leakproof, a `WITH` query used once is inlined, a generic plan has no
parameters, cached plans are copied. A plan is one fragment (Limit over Sort over
BucketScan over Agg) for every query. The fragment has the target list of the Agg: `make_sort_input_target` takes
volatile and expensive targets out of it when there is a sort, so that positions counted before
planning shift, and puts in the columns they are made of. `flatten_agg_tlist` and the rewriting of projections look
for labels there, with their errors. `INT64_MAX` is 1000. Sorting is a flag. Types of expressions
matter for labels and for sizes of bins; `avg` over `numeric` has a name of its own. The access level
of a session is one of the two anonymized ones; it, the catalog and labels do not change. Simplifications: an outer query
uses all targets of its subqueries, so that none is dropped from their plans; targets and conditions made of
aggregates have no columns besides; entries for the columns of postponed targets stand
behind all others; no two references of a `GROUP BY` are to equal expressions.

**`Session`** - the settings of a session: `SET`, `SET LOCAL` and `RESET` with the
check hooks, `BEGIN`, `COMMIT` and `ROLLBACK` with what PostgreSQL restores without
calling them (`on_commit`, `on_abort` stand for its stack of old values), and the
access level that `get_session_access_level` lowers when the label of the user does
not allow it, on every statement that reaches a hook (`Ask`, `PlanFails`). Other
sessions relabel the user and create or drop the extension.

## Runs

| Run | Question | Result |
|---|---|---|
| `bucket_scan_led` | Where do rows end up when LED and the star bucket merge buckets of three labels, for every order of the child? | six invariants hold |
| `bucket_scan_cursor` | Does BucketScan implement `ResultCursor` (repeated rows, star bucket, rescans), and does every call return? | yes |
| `agg_context` | Do states live where and as long as they are needed, and does each see each row once, with nested queries and an error? | yes; the place only while no error happened |
| `tracker` | Does a tracker depend on its rows only, and do the legs of a sum account for each row? | yes |
| `tracker_overflow` | Do updated entries never move down? | no, if a sum wraps |
| `count_distinct` | Is each low count value counted for one of its AIDs, in turn, and does the loop end? | yes |
| `flattening` | Do compacted intervals fit the list of top contributors, do larger outliers leave the result as it is, but for rows without AID, are AID instances accumulated independent of order, and is the "not possible" branch never taken, even if a bound is changed? | yes; the first two while no bound is changed |
| `session` | Does strict mode mean strong settings, and does the access level stay, through transactions, resets and new labels? | yes, unless `strict` is reset or a `SET LOCAL` ends |
| `count_histogram` | Does `count_histogram` implement `Histogram`, for every order of its hash tables and after merges, are labels sorted, and does it return? | yes, while counts and bin size fit an `int` |
| `statements` | Do statements that are accepted run, each query under its own BucketScan, with conditions and limits in their places, with the AIDs of its tables, and do equal bins get equal seeds? | yes, but for the cases the properties name (see below) |
| `prepared_generic` | Can a prepared statement take the server down? | yes: see findings |
| `having_aggregates` | Has every anonymizing query a BucketScan? | no: see findings |

What is accepted and does not run. `AcceptedRuns` names every such statement. They fail (`MayFail`):
`avg` over `numeric`; `count_histogram` of a labeled column of a table that is not personal; personal tables
without any AID column; a condition of the outer query on an aggregate of a `WITH` query; a constant too
long for the seed material; a sorted query with a volatile or expensive target in front of a label; a target with
columns that are no groups (which functional dependencies allow). They crash (`MayCrash`): `OFFSET` without
`LIMIT` outside of `FROM`; a generic plan whose seed needs a parameter; at the untrusted level, a NULL of type `numeric` as the
size of bins; positions of labels past the end of a shifted target list, which may also fail.

Every passing run has its properties' mutants: a definition of the model changed the way a bug
would change the code, under which TLC finds the property violated. They stand
before the definition they change, marked "Mutant".

Bounds. LED's conditions only compare a bucket with its siblings in up to three
columns, so three labels and five groups give every combination of unknown and
isolating columns, chains and common targets. The cursor run has three groups with
low, high and zero counts, two AID instances and two rescans: a rescan in each
state and one after it. `tracker` has capacities 2 and 3 with three AIDs, so that
AIDs are evicted from the shorter list and return, and lists are shorter than the
longer one, and two merges, so that a merged tracker is merged again. Four rows, or fewer that
are merged, are enough to wrap integers from -8 to 7. `agg_context` has two scans and a plain query with shared aggregates, two
groups of two rows and one error. `count_distinct` has three values over two AIDs
in two instances, so that values are shared and one instance may have too few
contributors. `flattening` has intervals that are empty, exact and wide, one change of
a bound, two AID instances and all lists of up to four contributors; the divisors
divide `Scale`; the proofs lift these bounds for what concerns the intervals. `session`
has a strength setting, both bounds of an interval, `strict` and both access levels,
with values on both sides of each minimum, four statements that set them (enough to
cross the bounds of an interval in a transaction) and two changes by others. `count_histogram`
has five rows of five kinds (each AID alone, a NULL in either instance), so that three
AIDs make up to three bins, two of them of low count; two buckets; bin sizes that are
invalid, 1, 2, and one that becomes 0 as an `int` of 3 bits. `statements` lists about 60
statements: each kind of query, expression, aggregate and condition that the code
distinguishes, alone or two in one statement, accepted and rejected ones; a prepared
statement gets one custom plan instead of five, all at both levels, and three statements in a row let a
generic plan be built, kept and compared with others. Names of
bounds start with `Max`.

Fairness. A call of `ExecCustomScan`, or the evaluation of an aggregate, runs
straight through in one thread: once called, it takes its next step as long as it
has one. That is `WF_vars(CallStep)` and `WF_vars(FinalizeStep)`; nothing is assumed
of the caller. Deadlock checking is off in runs whose bounded inputs end.

## Findings

- `tracker_overflow`: a wrapped int8 sum fails the sanity check of
  `update_or_add_top_contributor` (`contribution_tracker.c:106`).
- `prepared_generic`: `get_param_data` reads the parameters of a generic plan through
  a NULL pointer (`node_funcs.c:96`), when a grouping or filtering expression of a
  prepared statement has a parameter and PostgreSQL stops planning it for each
  execution. The test that allows prepared statements executes one once.
- `having_aggregates`: a query without `GROUP BY` whose aggregates are all in `HAVING`
  has no aggregate in its target list, where contexts are linked and looked for
  (`anonymization.c:826`, `:1001`), and so no BucketScan.

Seen while modelling, and not run. The models contain the first group, and their
properties say where they leave it out:

- A low count bucket with two isolating columns is merged into two targets (`led.c:243`). If both
  turn low count, the star bucket counts its rows twice; `docs/admin_guide.md:155` calls the
  suppress bin the combined count of all suppressed bins. This happens in `bucket_scan_led`: `NoDoubleCount` is
  about the buckets of the child, and `StarCoversSuppressed` says how often the star bucket counts
  a group: once for each suppressed bucket that holds it.
- The label of a group is written with the type of its column, that of a filter with
  the type of the constant (`anonymization.c:688`, `:702`). A timestamp filtered for by a date, or a
  `char(n)` by a text, does not get the seed of the group, although `test/sql/noisy.sql:100` has
  "Filtering and grouping produce identical results". The run `statements` has such bins.
- `bucket_scan_data_copy` leaves `base_labels_hash_set` out (`bucket_scan.c:885`), so that in a
  prepared statement filtering does not give the noise of grouping, against the same line.
- `fill_bucket_list` does not restore `g_current_bucket_scan` when an error passes through
  it (`bucket_scan.c:314`); `common.h:60` expects NULL without a BucketScan.
- Settings are validated when a query is planned and read again when it is evaluated
  (`noise.c:77`, `config.c:57-58`).
- `RESET pg_diffix.strict`, or the end of a transaction with `SET LOCAL`, turns strict mode
  on without its check (`config.c:97`, `docs/admin_guide.md:124`).
- `rewrite_plan` reads the type of a NULL `limitCount` if a query has `OFFSET` without
  `LIMIT` and no sort (`anonymization.c:1077`), and drops the `OFFSET` of a subquery that
  gets the dummy limit.
- `WITH` queries get neither a limit nor a barrier: conditions of the outer query move
  below their aggregation, and one on an aggregate makes the query fail with "Unsupported
  HAVING clause", although `docs/analyst_guide.md:147` says that any SQL may be executed on
  the output of anonymizing subqueries (of `FROM`).
- A `LIMIT` of the user that happens to be `INT64_MAX` is taken for the dummy limit, and
  dropped together with its `OFFSET` (`anonymization.c:1074-1081`). `LimitsKept` leaves it out; the
  run has such a statement.
- The other statements of the list above: accepted, and then failing or crashing.

Outside of the models:

- The references of target entries are overwritten in simple selects
  (`anonymization.c:82`), so that an `ORDER BY` may sort by another column.
- The access level may change between the planning of a statement and the execution of its cached plan (`hooks.c:50`).
- The limit of AID sets in the comment of `count_distinct.c:12-15` is not implemented.

## Proofs

TLAPS checks these theorems for every value of the constants that satisfies the named
`ASSUME`s of the modules (finite bounds are not among them, except that counters stay
below their `Max`).

`NaturalSets` holds what several proofs need: sets of natural numbers have extrema;
`SetInduction`, induction said of a set instead of a predicate, by which loops that
appear as recursive functions can be reasoned about; and that sorting a finite set
gives a sorted list of it (`InOrderSorts`).

**`BucketScanProofs`**: the type invariant (`TypeCorrectness`), that no emitted row stands
for a low count bucket (`NoLowCountRow`), and that a merged bucket never received
another one (`NoChains`). None is inductive by itself. The invariant `IInv` adds what
holds in which phase (`Stages`), that the flag of each bucket agrees with its AID set,
except for merge targets while LED runs, whose flags are recomputed when it is done
(`FlagsAgree`), that emitted slots hold buckets that are neither low count nor merged
(`RowsShown`), and that a bucket holds the rows of its own group and no others unless it
is a target (`Origins`).

`LedIsOrderless`: LED, bucket by bucket, does what `LedReference` says in one step, in
whatever order the child returned the groups. The invariant `LedInv` describes each bucket
by the tuples that were fetched: in the middle of the loop a bucket has what the
tuples before the cursor send to it (`MergedUpTo`). This is inductive as the flags the
loop reads are those of the fetched tuples until it ends, and as cutting off lists of
siblings at three (`add_sibling`, `led.c:100`) changes no comparison. `RowsCountOnce` follows from it.
`StarCovers` has an invariant of its own: while it is built, the star bucket has counted
a group once for each suppressed bucket before the cursor that holds it.

`ImplementsCursor` is the whole refinement, `Spec => IsResultCursor`. `CursorInv`
says that what was emitted is the beginning of the result up to the slot that is next, but for
the repetitions that are due. Steps before the end of the hooks stutter, the end of the hooks
is `Compute`, and of the calls after it each is a delivery, the end, a stutter over a bucket
that is not shown, or one of the rewinds. That the rows are presentable comes from `IInv`, and
that the lists of the slots make up one list (`JoinedJoins`) is by `SetInduction`.

**`AggContextProofs`**: `TypeCorrect`; `FinalizesAllRows`, by an invariant on every execution
(`Counted`): a state has seen one row more than the group if the row in progress has passed
its aggregate, and an aggregate that owns a shared state is never redirected;
`StatesStayInContext`, by the stack: the global is the innermost scan, each scan has saved the
one around it, and queries that do not run have no states (`Nested`). The last is claimed,
as the property is, while no error has unwound a scan; the first two survive errors.

**`ContributionTrackerProofs`**: `ListsWellFormed` and `DependsOnRowsOnly`. What an
insertion does to a sorted list of limited length is in lemmas (`InsertionIndexProperties`,
`AddTopProperties` and those after them). Two invariants of a tracker are kept
apart: `WellFormed` holds whatever wraps around; `Faithful`, that the entries of the list are
those of the hash table and the greatest of them, only while no sum has wrapped (a row of
the smallest integer counts as such, because its absolute value is negative). In the middle
of a merge a tracker stands for its own rows and those of the entries that were visited
(`KnownIn`).

`RowsAccounted` has no such condition: every row is accounted for (`RowsAddUp`) for any width, and
whatever wraps. Sums are taken up to whole turns (`Congruent`; `CombineIsCongruent` is the
lemma that `integer_contribution_combine` adds). The invariant `AccountInv` says that the entries of the table, the
overall contribution and the rest of each tracker are congruent to what is known of their
rows, and that the legs balance: in the middle of the merge of a sum, when the positive leg is
done and the negative one is not, a bucket is ahead by the positive leg of the source (`Ahead`). The
property takes the sum over all AIDs with a fold of the community modules. It is a recursive
function on subsets, which exists for finite sets (`FoldExists`) and of which any element can be
taken out, not only the one it chooses (`SumWithout`); both by `SetInduction`. The hash table is
finite, as it starts empty.

**`CountDistinctProofs`**: `CountedOnce` and `NoTurnMissed`. `remaining` is the number of values
that can be counted and are not used (`Credited`); each value that is not used is still in the
list of each of its AIDs (`ListsCover`), so that nothing is lost when a list is popped past
used values; and an AID with a value left has as many contributions as there were passes
(`Turns`). That the loop ends is left to TLC.

**`FlatteningProofs`**: the error `determine_outlier_top_counts` calls impossible is out of
reach, for any settings changed at any time (`NoInternalError`), and the compacted
intervals are not empty and fit the list (`DrawsFit`). Two lemmas about `Compact` hold
the arithmetic; the invariant says that trackers have the capacity of the settings until
a bound is changed, and that every result was made from such a tracker. A second invariant,
`SumsInv`, says that every result is a draw from its list (`Drawn`) and that the accumulator
has the greatest of the instances evaluated so far (`Accumulated`, by `Peak`). From
it come `LargestAccumulated`, `OutliersHidden` and `TypeCorrect`; the arithmetic of the last two
is `OutliersAreAbove`: the average of the top group, as often as there are outliers, is not
more than what the outliers contributed, so that no flattened sum is negative. `OutliersHidden` compares two
evaluations with the same draw, of the list as it is and of one whose outliers are larger: the top group, its average and the
rest of the list are the same, and the clamped rows without AID can only get fewer. Sums of lists are
treated by `SetInduction`.

**`SessionProofs`**: the type invariant, strict mode (`StrictModeHolds`) and the access level
(`LevelIsKept`). That the current settings are strong is not inductive, as a rollback brings
older ones back: the invariant says it of the current settings and of those the transaction
would be rolled back to, and `RestoredKeep` is the lemma that a change does not touch the
latter. For the level it relates the setting to the level returned last.

**`StatementsProofs`**: all invariants of `Statements`, for any list of statements that
PostgreSQL's parser could produce: sequences of queries of any number, with any range tables,
target lists and `HAVING` clauses, submitted or prepared in any order and number. What is
assumed of them is what the parser and planner guarantee. `IsParsed`: columns that
aggregates are given are of the query's tables, grouping refers to entries of the target list that
hold no aggregate and differ, `anon` aggregates are not there yet. `ValidationAssumption`: expressions are
finite trees (`Height`) and casts and functions have their arguments. `StatementsAssumption`:
outer conditions are on a subquery and refer to its targets, and a part that is not
parameterized reads no parameter in what its seed is made of. `RewritingAssumption`: the constant that
`rewrite_count_histogram` makes is an expression. The invariant `IInv` has five
parts. `SessionOK` and `RequestOK`: what is submitted is one of the statements, and a plan that
is kept is a plan of the prepared one. `AreCompiled`: every query that `compile_query` has
passed is what `make_query_anonymizing` makes of its part, with a context of its own, if it is
anonymizing, and unchanged otherwise; links are only added, and their locations are those of the
query's own aggregates, so that a location found in a plan leads to the context of the query it
came from. `PlansOK`: in a plan, each fragment of an anonymizing query is one that
`ExecCustomScan` can work with (`IsExecutable`), with the conditions and limits where they
belong; copying a plan keeps this. `AcceptedRuns` is part of the invariant itself: an error of a
later stage contradicts what validation accepted, or the statement is one of those listed. For the errors of the
compilation that is by what each verdict means (`GroupVerdicts`, `SeedVerdicts`, `CompileVerdicts`), for those of the rewriting of
plans by where the planner leaves the labels (`LabelsStay`): the targets it keeps stay in their order
(`TargetsAreKept`, `ColumnsAreGroups`), so that a label has its position unless a target in front of it was postponed, and
its entry, which is one of the groups, is computed below the Agg. `LabelsAreGroups` makes the same of the labels of a scan. From it follow `ContextsFindTheirQuery`,
`ConditionsSeeBins`, `LimitsSurvive`, `AcceptedStatementsRun`, `AidsAreCounted`,
`ScansAreUsable` and `TypeCorrect`.

`FilteringAndGroupingAgree` needs a second invariant, `SInv`: the seed in each context, wherever
it was copied to, is that of the query it was made of; a copied plan has lost the labels; and a
generic plan is executed only where no seed reads a parameter. With that, the seeds of two
buckets are compared through the meaning of their expressions: what `collect_seed_material`
collects of an expression depends on its meaning only, and a cast adds nothing
(`MeaningMakesMaterial`, `CastsAddNothing`); the labels are what `datum_seed_material` writes for the values (`Written`) in the style of their types. It is a recursive function that takes its result
from those of the arguments; that it exists is proved from the height of expressions
(`MaterialUnfolds`).

Only model-checked:

- what must eventually happen (`CallReturns` and both `FinalizeReturns`), which is out of the
  provers' reach;
- the refinement of `Histogram` and the invariants of `CountHistogram`: keys of its bins are
  remainders by a power of two, of which the provers know nothing.

## Not modelled, and the plan

Left out for good: hashing of AIDs and Box-Muller noise (arithmetic on doubles),
formatting, logging, PostgreSQL's parser and most of its planner, projections and costs
of the plan, OID look-ups, the SQL script, EXPLAIN.

Left for later, in this order:

1. Proofs about `CountHistogram`, with the limit of an `int` instead of its width as the constant: the
   type invariant and the order of labels, then the refinement.
2. `Session` and `Statements` composed: plans that were made at one access level and are
   executed at another one; utility statements and their EXPLAIN options.
3. `Flattening` for both legs of `sum` at once (`sum_calculate_final`); trackers, flattening and low count filter composed over one set of rows.
