# Formal verification of watchmen-matryoshka-doll

This directory holds TLA+ models of the *doll*, the FastAPI service under `src/watchmen`
that stores topics, runs pipelines over them and keeps their metadata. TLC checks the models
on small instances; TLAPS proves some of their properties for every instance.
`PROJECT.json` lists the components, the runs, the lines each definition models, the hazards
the properties are aimed at and the theorems.

## 1. Inventory

| Component | State it keeps | Operations | What makes it hard | What makes it correct |
|---|---|---|---|---|
| Write actions (`pipeline/core/action/insert_or_merge_row.py`, `merge_row.py`, `write_factor.py`, `utils.py`, `retry/`) | rows of a topic, `version_` | find a row, insert it, or add to it under a version check with retries | runs of several replicas (and Dask tasks) on one row; lost insert races; stale versions; the retry bound | each run counts exactly once or not at all; OLD values do not fork |
| Mappings, update expressions, topic storages (`pipeline/core/mapping`, `pipeline/core/by`, `database/topic/*`) | tables, collections | insert, update by expressions, find, aggregate, page | three dialects that differ in NULL, defaults, `$inc` and cursors | totals that follow their sources; a query means its condition |
| Pipeline engine (`pipeline/core/worker/*`, `pipeline/core/index.py`) | call stack, merged triggers, tasks of the event loop | run stages, cascade into other topics' pipelines, log | recursion, exceptions that cross runs, merged updates, tasks that outlive the request | every write is triggered, with the right OLD and NEW, after it is stored; an error stops where it belongs; monitoring does not feed on itself |
| Push routes (`routers/pipeline.py`, `pipeline/service`) | – | synchronous and asynchronous push | an acknowledged push is only a task in memory | what is received is processed unless its own task meets a crash or a failed lookup |
| Pipeline metadata (`pipeline/storage/pipeline_storage.py`, `routers/cache.py`) | the `pipelines` table, two caches per replica | create, update, rename, enable, import, load, clear | clears on a thread between the two halves of a load; two caches of one row; other replicas | no older answer survives a change, nor a clearing but for a load it met |
| Users, groups, spaces (`auth/`, `space/`, `routers/admin.py`) | two-sided membership lists | save one side, synchronise the other | several documents, no transaction, several processes | the sides of existing documents agree once quiet, and saving again repairs them |
| Console spaces, subjects, reports (`routers/console.py`, `console_space/`, `report/storage`) | lists of ids | connect, create, save, copy, import, delete | order of the writes, copies in the browser, duplicated ids | ids point to something and belong to one owner |
| Conditions and parameters (`pipeline/core/parameter`, its `operator/`) | – | pure | eight files of comparisons, each with its table of types | what the guide says; comparisons that deny each other do so always |
| Reports and datasets (`report/engine`, `report/builder`, `parser/`) | – | build queries of subjects, charts and consumers | the same conditions written once more, and five builders of one test | a dataset shows what the space allows, once |
| Raw schema and import (`raw_data/service`, `routers/topic.py`) | a topic's factors and surrogate keys | generate from a sample, import a row | one walk per version, paths told apart by text | factors cover the sample; keys name the right parent |
| Topic metadata (`topic/`) | the `topics` table, four caches | as pipelines, by name and by id | renames, tenants that share a cache key | as pipelines |
| Connectors, data patch, rerun (`connector/`, `routers/data_patch.py`) | offsets, acknowledgements | consume, import, rerun, patch | redelivery, restarts, reruns of sums | a message counts once |
| Indexes (`analysis/`) | index rows | delete and re-insert | no transaction | the index shows the saved definition |
| Data sources, table definitions, security | caches or none | – | – | – |

How they meet: a push stores a row in the entry topic and triggers its pipelines; a pipeline
is looked up in the pipeline cache, its actions call the topic storages, and the rows they
return as triggers start further pipelines when the stages are done. Every run that is not on
a system topic leaves a log, which is itself a row of a topic with pipelines. All `async`
handlers call the database synchronously, so that a handler without an `await` on something
unfinished is one turn of the event loop of its replica; plain `def` routes (the cache
routes) run on threads. Replicas share nothing but the database.

## 2. The modules

| Module | Content |
|---|---|
| `TopicRow` | write actions racing on one logical row |
| `AtomicContribution` | what they promise: one atomic contribution, or none |
| `PipelineRun` | one replica's event loop: pushes, runs, cascades, monitor logs, crashes |
| `PipelineCache` | the pipeline caches of several replicas over one store |
| `GroupMembership` | users, groups and spaces that list each other, saved call by call |
| `Comparison` | the comparisons of conditions on values of every kind |
| `ComparisonTasks` | one task, one answer: what the comparisons promise of each other |
| `Factors` | paths through trigger data, conversions, sums, on top of `Comparison` |
| `Parameters` | constants, arithmetic, case-then and joints, on top of `Factors` |
| `ColumnTests` | one test of a column as a query of a topic storage, on top of `Factors` |
| `Criteria` | a whole condition as such a query, on top of `Parameters` and `ColumnTests` |
| `TopicStore` | what mappings, update expressions, read actions and pages make of rows in three dialects, on top of `ColumnTests` |
| `TopicReads` | `TopicStore` with the trigger data and variables of a run, and read actions that ask by a condition, on top of `TopicStore` and `Criteria` |
| `Reports` | the console's filters, datasets, funnels, consumers and `/subject/query`, on top of `Parameters` |
| `Conditions` | one task, one answer: what `Parameters` and `Reports` promise, on top of `ComparisonTasks` |
| `ConsoleSpace` | console spaces, their subjects and reports |
| `RawSchema` | generation of raw topics from samples, and the surrogate keys of imported rows |
| `MCTopicRow`, `MCPipelineRun`, `MCPipelineCache`, `MCGroupMembership`, `MCConditions`, `MCTopicReads`, `MCConsoleSpace`, `MCRawSchema` | values for TLC |
| `TopicRow_proofs`, `TopicRow_order_proofs`, `PipelineRun_proofs`, `PipelineCache_proofs`, `GroupMembership_proofs`, `ConsoleSpace_proofs`, `Comparison_proofs`, `TopicStore_proofs` | the theorems |

Operators called *mutant* in a comment are defective variants of the operator below them;
nothing uses them. They show which slip each property would notice: with the variant put in
place of the original, TLC finds the property violated.

### TopicRow

Each *worker* is one execution of an action whose `by` condition selects the row. `pc` is
its place between two calls to the storage, and each call is an action: `QueryMiss`/`QueryHit`
(`query_topic_data`), `Insert`/`InsertConflict`, `RetryRead` (the read of
`update_retry_callback`), `WriteWithVersion`/`LockConflict` (its write), `FindOld` and
`UpdateOne` (the two calls of `update_topic_data_one`). `count_` is the counter of
`retry_template.execute`. Because there may be no unique index over the `by` factors, two
runs may both insert, so `rows` is a family of rows, named by the run that inserted each;
later runs find any of them.

Amounts are left out: a run contributes 1, and a row counts the contributions it holds *of
each run*, which is what tells a lost or doubled update from an honest one.

The deployment is chosen in `Init`: an aggregate topic or not, a SQL store (MySQL and Oracle
make these calls alike; Oracle takes the new version from the updates and not from its argument,
but `update_retry_callback` has put it there, `utils.py:47`) or Mongo, the engine of the metadata, a unique index or none. It
decides whether rows carry a version (`InsertVersion`), whether the update compares it
(`ChecksVersion`: `build_mongo_where_expression` returns at the first key, so on Mongo it
does not) and whether `merge-row` knows the id column (`WrongIdName`). On Mongo a conflict is
reported when `modified_count` is 0, which happens only if everything set, the version
included, was there already; the model keeps that outcome as a choice.

A client of `/topic/data/patch` may read a row and store it back later. Nothing in the code
protects contributions made in between, so the properties are claimed until the first patch
(`patches = 0`); the steps are in the model so that this condition can be seen to matter.

`AtomicContribution` is the same system for the author of a pipeline: each run is pending,
then in one step applied and counted, or rejected. `RefinesAtomic` maps `pc` to the status
and the rows to how often the contribution is held (0, 1, or 2 for anything more).

### PipelineRun

`stack` is the Python call stack of the current turn: frame 0 is a task or request, the
others are calls of `run_pipeline`, each first in its stages (`Write`, `WriteRaises`), then
in `__trigger_all_pipeline` with the calls still to come in `queue`. The code makes these calls
in nested loops: topic by topic in order of first occurrence, the updates merged by primary
key and triggered again after every update, then the inserts. `Cascade` is the set of these
calls, each with its place `at`, which is the values of the loop variables (the topic's first
write, 0 for updates and 1 for inserts, the update just merged, the first update of the row
triggered, the pipeline's position in the list). `Calling` takes the one that is `Before` all
others, so the order is that of the loops. `ready` is the queue of `asyncio.ensure_future`.
`runs` and `stored` are the complete history of runs and rows; a row of the monitor is stored
by -1, one a client pushed by 0.

Exceptions come from four places: in the stages (`WriteRaises`, inside the `try`), before
the `try` of a triggered run (`RaiseInTask`, `RaiseInRun`: the topic lookup or the pipeline's
condition), in the lookups a cascade makes between its calls, of a topic, its data source or
its pipelines (`LookupRaises`, and `LookupRaisesInTask` for the task of a pushed row), and in
the monitor task (`TurnMonitorRaises`). An exception before the `try` of a run passes to the
caller, which has already set FINISHED and becomes ERROR, and so does one of the caller's own
lookups. A lookup is made for every event, whether or not a pipeline waits for it: `EventPlaces`
are the places of the events, and the lookup that raises comes after the calls of the events
before it. A task whose lookup raises hands its row to no pipeline. `lost` is history: the rows
whose own task a crash or such a lookup has met.

What a pipeline writes is a parameter (`program`), with stages, units and loops flattened:
the triggers a unit collects reach only the run, and are dropped with it.

### PipelineCache

A load is two steps, query and fill, because the clearing routes run on a thread and may
come in between; everything else on the event loop waits for the load (`Idle`). Contents are
abstracted to the topic and the number of the change that produced the row.
`update_pipeline` drops the list of the topic the pipeline has *after* the change only;
`create_pipeline` drops nothing; status and name changes drop all lists.

`floorOf` and `floorOfList` are history variables: the number of changes the store had seen
when the replica last dropped, or was told to clear, the entry. A clearing that meets a load of
the entry cannot call it back, in the code no more than here: the row that was queried before
the clearing is filled in after it. The floor is then the number of changes that load's query
has seen (`since`, `Age`), so that what comes back may be no older than that, and everything
else is as new as the clearing.

### GroupMembership

A user lists its groups and a group its users; a group lists its spaces and a space its
groups. `doc[x]` is what document `x` lists. A save (`save_user`, `save_user_group`,
`update_user_group`, `save_space`, `update_space`) is a sequence of calls of the store, and
each is an action: `Insert` (a new document is stored first), then for one or two kinds of
documents `Pull` (`pull_update`: the id leaves every list at once), `Read` (the documents that
shall list it) and one `WriteBack` for each of those, whole, from the copy read; `Finish`
stores an existing document last. `Fail` ends a save between any two calls. `Import` stores
one document and synchronises nothing, as the routes of `routers/metadata.py` do. Nothing
checks the ids a client or a file puts into a list: they may name documents that do not exist
(`Linkable` is all ids of the other kinds). Such a link has one side, until the save that
creates the other document, or a later one of either, completes or removes it; the properties
therefore speak of two documents that both exist. A save with an id that is neither
new nor stored is left out.

The handlers have no `await`, so one process is in the middle of at most one save; the saves
of several processes interleave. `disturbed`, `alone` and `before` are history: whether a save
failed or met another, whether this one met another, and, while it has not, what was stored
when it began.

### Comparison, Factors, Parameters, ColumnTests and Criteria

A value is a record with its kind: null, text, int or Decimal, float, date, dict, list. A text
is known by how it reads (a word, a number in one of three forms, a day, parts between
commas), because that is all the comparisons look at. `Comparison` has one operator per file
of `parameter/operator`, with the answers `"true"`, `"false"` and `"raises"`. `ComparisonTasks`
takes two values and answers with every operator.

`Factors` reads a factor along a path through lists of dicts (`GetFactorValue`,
`CalFactorValue`) and converts it for its type (`Convert`). `Parameters` evaluates constants,
arithmetic, parts of dates, case-then and joints with what the code really does: of a constant with several
variables the first alone is the answer, every further operand of a computation is applied to
the *first* and the last result counts, and a case without a condition is the default for those
after it. `FlattenedAt` is `flatten`, which joins nested keys and drops empty values when a
second row has the key.

`ColumnTests` and `Criteria` are the other reading of a condition: `parse_on_parameter.py` turns
a test into a `where` (`WhereTest`) and a condition into one or several (`ByJoint`), and each
dialect evaluates that for a row (`SqlTest`, `MongoTest`) with its own NULL: SQL compares it
with nothing, Mongo takes it for a value like others. The two readings compute differently: in
memory a text of digits becomes a number first and the last operand is applied to the first
(`Computed`), in a query Python's operator is applied to the operands as they are, each to the
result so far, so that `add('1', '1')` asks for `11` (`Fold`). `ComputedAlike` leaves out of
`QueryMeansCondition` sums with a text among their operands and sums of other than two operands.
Not modelled is what Python makes of a text times a number and of the difference of two dates
(`Apply` raises there).

Definitions that recurse over conditions and nested data are in `Parameters`, `Criteria` and
`Reports`; `Comparison`, `ComparisonTasks`, `Factors`, `ColumnTests` and `TopicStore` use none of
them, so that theorems can be proved about these five.

### TopicStore and TopicReads

One topic with a dialect, a mapping and defaults. `Put` stores or changes a source row and
runs the pipeline whose insert-or-merge-row maps the change into the row of its key
(`InsertOrMerge`): a sum by NEW − OLD, a count by whether the row is new, through the update
expressions of MySQL, Oracle and Mongo (`SqlUpdated`, `MongoUpdated`). `MergeKey` is a second
pipeline that writes keys alone, so that columns stay NULL. An action is one step here; how
the calls of several interleave is the subject of `TopicRow`.

`off` names the keys a change did not reach: the action raised, the source row changed its
key, SQL added to NULL, or Mongo kept only the last `$inc` of several sums. The code promises
nothing about their totals; each of these is in the model, so that the promise can be seen to
need the condition.

What a read action answers and what a page shows depend on the rows a query finds, in whatever
order the store returns them. `TopicStore` has the answers (`AnswersOf`, `Page`) as functions
of these rows. On Oracle a count raises, because `select` of `sqlalchemy.future` takes no plain
text (`topic_oracle_template.py:358`; the sum next to it is wrapped in `text`), so that `ReadsAgree`
compares it with the others in MySQL and Mongo only. A page is a query of its own that nothing
sorts (`query_service.py:8` passes no sort), so each comes in an order of its own (`Orders`): a
client may see one row twice and another not at all, and `PagesAddUp` promises the number of
rows, and every row once only where one order lasts for all the pages. `TopicReads` adds the query: it puts the trigger data and the variables of the
run beside the steps of `TopicStore`, and `Read` is a read action that finds its rows by a
condition (`FoundRows`) and sets a variable. Every step of its `ReadsSpec` is a step of
`TopicStore`'s `Spec` or leaves the variables of that unchanged.

### Reports and Conditions

`Reports` applies to rows what the code builds as SQL: `ReportJoint` is
`parser/console_paramter_parser.py`, `Dataset` the joins, space filters and columns of
`dataset_engine.py`, `ChartRows`, `ConsumeRows` and `SubjectRows` the other builders of tests. A
query Presto refuses (a number next to a text, a topic that is in no FROM) is `Refused`.
`Conditions` asks one task and keeps its answer; the tasks are what `MCConditions` lists.

A page of a dataset, too, is the query again with a limit and an offset and in any order
(`LoadDataset`); `DatasetIsWhatTheSpaceAllows` is about each page and about the count.

What the properties leave out, because the code does differ there: an "or" of nothing is met
by every row of a report and by none in a pipeline; a constant that memory compares as a text
and the report as a number or a day, `3.0` or `03` with a number and `20200101` with a day
(`WrittenAsPrinted`); a constant that is the first of three operands or more, which the report's
parser loses at the second (`KeepsItsOperands`); `not-in` of `/subject/query` is answered
with `in`; lists for a number whose parts are not all digits; a float, which Python compares
by its own rules; a number on the left of a text such as `5.0`, which raises from that side only.
Without any one of its exemptions TLC finds `ReportMeansCondition` violated.

### ConsoleSpace

A space lists subjects, a subject lists reports, and the three are stored apart. A handler is
one step of one process, but a sequence of writes, in batches (a subject with its reports is
one): `Request` performs all of them, or nothing, or those up to some place (`Beginnings`) when
the store fails or an insert meets an id that is there, or all and raises. A table is a
function from the ids that are stored to the lists of their documents. What a load finds is in
no particular order (`Content`), and copies get new ids in the order of their places
(`Renumberings`). `copy` is the space a browser has
loaded; `SaveSpace`, `SaveSubject` and the imports store from it whatever happened since.
`loose` and `kept` are history: the subjects that a failure or a save from an older copy may
have lost to their space, and the reports that were saved and not given up. Duplicated ids,
which `SaveSubject` makes with every save, are in the lists as they are in the code. A subject
created in a space that is gone is stored, and then the handler raises. Report ids that a client
puts into a subject it creates are left out: the console sends none.

### RawSchema

Version 1 (`generate_schema.py`) keeps one schema per key wherever it occurs, versions 2 and 3
walk a queue of objects by path; version 3 also derives the surrogate keys of nested objects
(`SurrogateKeys`), which an import (`ListDictionary`) fills in by looking for the names of
objects in the text of paths. The records are queued under the key `root`, so that a key of
this name loses its place in the paths (`Prefix`, `PathOf`), and the walk for the surrogate keys
never ends; the walk of the queue is one nested call for each object, and raises when there are
more than Python nests (`MaxCalls`). Version 1 raises on a list of anything but records. What the code finds in the letters of names (underscores, one
name inside another) is given by constants. `AidsFindParents` is claimed for names without
underscores and not inside a later name of their path (`Hidden`); for the others the code
finds another object, skips the key or raises, and so does the model.

## 3. What is checked

| Run | Bounds | Distinct states | Shows |
|---|---|---|---|
| `topic_row_safety` | 4 runs, 1 retry, 1 patch, all 16 deployments | 227,618 | `TypeOK`, `ExactlyOnce`, `NoForkedUpdate`, `OldIsPrefix`, `VersionCountsUpdates`, `ExhaustionIsEarned`, `InsertOrMergeNeverFails` |
| `topic_row_atomic` | 3 runs, 1 retry, no patch, all deployments | 19,986 | `RefinesAtomic`, `Termination` |
| `topic_row_recovery` | 5 runs, 2 retries, one deployment | – | finding: the recovery is never reached |
| `pipeline_cascade` | 1 push, 25 programs, 2 faults | 110,935 | `TypeOK`, `EveryWriteIsTriggered`, `CascadeSeesAllWrites`, `ErrorsStopWhereTheyBelong`, `MonitoringIsQuiet`, `LogsComeChildrenFirst` |
| `pipeline_eventloop` | 2 pushes, 1 fault, 1 crash | 88,820 | `ReceivedIsProcessed`, `ComesToRest` |
| `pipeline_cache` | 2 replicas, 1 pipeline, 2 topics, 4 changes | 619,069 | `ByIdIsFresh`, `ByTopicIsFresh` |
| `membership` | 2 processes, 1 user, 2 groups, 1 space, 3 requests | 701,582 | `LinksAgree`, `SaveRepairs`, `SaveTouchesItsLinksOnly` |
| `conditions` | pairs of 25 values, joints of two levels, nested data, 2 topics, 5 spaces | 46,087 | `ComparisonsDenyEachOther`, `EqualsIsEquivalence`, `OrderingsMirror`, `PathFindsAllLeaves`, `RowsAreReadAlike`, `ReportMeansCondition`, `DatasetIsWhatTheSpaceAllows`, `QueriesAgree` |
| `conditions_constants` | the same | – | finding: only the first variable of a constant is used |
| `topic_store` (`TopicReads.cfg`) | 2 source rows, 5 data, 3 changes, 3 dialects, 3 mappings, 3 sets of defaults | 84,424 | `OneRowPerKey`, `TotalsFollowSources`, `QueryMeansCondition`, `ReadsAgree`, `PagesAddUp` |
| `console` | 2 spaces, 3 subjects, 4 reports, 6 requests | 414,408 | `OneOwner`, `SubjectsAreListed`, `ReportsAreKept` |
| `raw_schema` | 5 names, samples of up to 2 records, 4 levels, 6 nested calls | 14,665 | `FactorsCoverData`, `AidsFindParents` |

The type invariants of `PipelineCache`, `GroupMembership` and `ConsoleSpace` are proved and not
checked again.
Symmetry is used for runs, replicas, pipelines, processes, groups and source rows, and never
in a run with a liveness property.

Why the bounds are enough to be interesting:

* *Write actions.* A conflict needs two runs, exhaustion with one retry needs three (two
  others commit between this run's reads and writes); the fourth run adds an insert race on
  top of an exhaustion. `MaxAttempts` is 3 in the code; the model takes it as a parameter
  because only its relation to the number of runs matters, and the proofs cover every value.
* *Cascade.* A merged update needs two updates of one row, the re-trigger a second row, the
  order of updates and inserts one of each; three writes allow all. Two faults allow an error
  inside an error (a stage of a child, then the parent's next call). Depth three is reached
  by raw → mid → out, and the log pipeline gives the monitor topic a consumer that writes.
* *Event loop.* Two pushes and one crash allow a crash before, between and after them.
* *Caches.* One pipeline and two topics allow it to move and to move back; two replicas, one
  of which does not know. Four changes are a creation and three more: change, load, change
  elsewhere, clear.
* *Membership.* Two processes are what it takes to overlap, two groups to move a user from one
  to the other, and three requests to disturb, save and save again. A property about links
  looks at two documents at a time.
* *Conditions.* A comparison looks at the kinds of two values, at how texts read and at the
  order of numbers: the 25 values hold every kind, every form of a text, equal and unequal
  pairs of each, and null. Transitivity is checked against every third value. Joints of two
  levels hold every operator, an empty joint and a joint in a joint; paths go through lists
  in lists; computed parameters have none to three operands, constants, texts and dates among them;
  datasets are those of each join type with and without filters of the space on
  either topic, in pages of one and of two rows.
* *Topic store.* Two source rows allow two of one key and one of each; three changes allow a
  row to be stored, changed and joined by the other. The data hold a missing amount, a
  missing key, numbers in text and an amount that is no number, so that an action raises; the
  mappings hold a count before and after a sum, two sums, and an average.
* *Console.* Six requests are enough to connect, create, load, save a report, save from the
  older copy and delete; a second space is needed for a copy, the third subject and fourth
  report for the copies of two that are there.
* *Raw schema.* Two records are needed to type a path a second time, four levels for a name
  that comes back further down; the names are one with an underscore, one inside another, two
  that are neither, and `root`. Six nested calls (a thousand or so in Python) let all samples of
  one record through, and stop the deep ones of two.

Deadlock is checked for `PipelineCache`, where a clearing is always possible. The others stop
when all bounded input is used up or the one task is answered (`CHECK_DEADLOCK FALSE`); `Termination` and `ComesToRest` say of `TopicRow` and
`PipelineRun` that they stop nowhere else.

**Fairness.** `WF_vars(Work(w))`: an action in progress waits for nothing but the database,
and backs off for a fixed time, so a run that can take its next step takes it. Nothing is
assumed about `Start`, so the liveness does not assume that all runs happen. `WF_vars(Engine)`:
uvicorn's event loop runs as long as it has a callback; nothing is assumed about pushes, and
nothing that makes a crash not happen.

**Findings.** (1) `retry_template.execute` reads `result` after the loop. After the last conflict
it was never assigned, so an `UnboundLocalError` ends the action and the recovery that
`update_recovery_callback` announces in its log line is not reached. The other properties
hold because of it as much as in spite of it: the run is cleanly rejected.

(2) `parse_parameter.py` returns the value of the first variable of a constant from within the
loop over its parts, so that `{y}-{z}` is answered with the value of `y`. The guide says
"Multiple variables in one constant is allowed" (`doc/guide/doll-guide.md:131`).

## 4. What is proved

`TopicRow_proofs` (for any set of runs, any `MaxAttempts`, `MaxPatches` and any set of
deployments; assumption `ConstantsAssumption`):

* `TypeCorrect`: `Spec => []TypeOK`.
* `ExactlyOnceHolds`: `Spec => []ExactlyOnce`. `ExactlyOnce` alone is not inductive: a run
  about to write could have a `target` that is no longer, or never was, a live row, and its
  contribution would vanish or resurrect one. The inductive invariant `CountInv` adds
  `OnLiveRows`, that targets and copies are rows that exist and that a row no one inserted
  holds nothing, as long as nobody has patched. Each step then either leaves `rows` alone or
  adds one contribution of a run that had none.

`PipelineCache_proofs` (any number of replicas, pipelines, topics and changes; assumption
`CacheAssumption`):

* `TypeCorrect`, `ByIdIsAlwaysFresh`, `ByTopicIsAlwaysFresh`. The inductive invariant
  `FreshInv` adds to the two properties that the load under way will fill in what the store
  held at its query (`LoadIsFresh`), that no revision or floor is from the future (`InThePast`), so that a
  change makes a row newer than every floor but its own, and that a row which does not exist
  is cached nowhere (`OnlyRows`), which is why a creation can leave the caches alone. The
  lemma `ChangeKeeps` covers all four changes, as families of entries that were overwritten.

`TopicRow_order_proofs` (the same assumption; it extends `TopicRow_proofs`):

* `UpdatesNeverFork`, `OldAlwaysIsPrefix`. A version check is about the moment of the write and
  the OLD value about the read before it, so the invariant `RowInv` has to speak of runs
  between the two: `Reached` (every version below that of a row was the OLD version of exactly
  one update), `HeldIsPrefix` (what a run about to write holds is the insert and the updates
  older than the version it holds, neither more nor less), `Unforked` and `OldPrefix` (the two
  properties, over all runs). The update goes through only if the version is still the one
  held; then nothing was written since, and the row becomes the prefix one longer.
* `ExhaustionIsAlwaysEarned`: `OneRow` (under a unique index all targets are one row) and
  `Passed` (a run with n conflicts holds a version of at least n).
* `VersionsCountUpdates`: the set of updaters of a row grows by the run that wrote, with the
  cardinality theorems of the library.
* `InsertOrMergeDoesNotFail`: where a row was found its version is there to be checked, patches
  or not, because a patch stores a row with its version.
* `CallsRefineAtomic`: `Spec => RefinesAtomic` if nobody patches. `ExactlyOnce` makes the mapped
  counter 1 exactly for the runs that are done, so a step that completes a run is `Apply`, one
  that ends it otherwise is `Reject`, and all others stutter.

`PipelineRun_proofs` (any pipelines, any programs, any number of pushes, faults and crashes;
assumption `ConstantsAssumption`):

* `StackIsTheRunsInProgress`, `EveryWriteIsAlwaysTriggered`, `CascadesAlwaysSeeAllWrites`,
  `ErrorsAlwaysStopThere`, `MonitoringIsAlwaysQuiet`, `LogsAlwaysComeChildrenFirst`: the six
  invariants of `pipeline_cascade`. None of them is inductive, because each speaks of a run at
  its end and the steps are made by the frames of the stack. The inductive invariant `IInv` says
  of each frame what it still owes:
  * `Base`: types, what names a write or a run names one (`Ranges`), and the stack is the chain
    of the runs in progress, each the parent of the one above, only the innermost in its stages
    (`Frames`).
  * `Writing`: a frame holds exactly its run's writes, all of them once it cascades; a run in
    its stages has triggered nothing.
  * `Cascades`: the calls a run has made and those its frame has still to make are together the
    calls of its cascade, and all made come before all to be made. A finished run has made all.
    `CascadesTriggerAll` then derives `EveryWriteIsTriggered` from what the set `Cascade` is: its
    calls for an updated row are as many as the updates from the row's first on, and the last of
    them, in the order of places, is merged from all.
  * `Raising`: a run that called one that raised is an ERROR, and that was its last call.
  * `Counting`: there are no more runs with ERROR than there were failures, whether in a stage, in
    a run that was called or in a lookup between two calls.
  * `Logging`: the log tasks that wait are those of the runs whose log is queued, one each, the
    child's before its parent's.
  * `Quiet`: runs on system topics have neither children nor logs, and owe no calls; there is
    one log row for each log that is stored.
* The calls are a set with places, and the order is what `Calling` picks, because a fold over
  sequences could be unfolded for a given input only; a place says in first-order terms where in
  the loops a call is.

`GroupMembership_proofs` (any number of processes, users, groups, spaces and requests;
assumption `MembershipAssumption`):

* `TypeCorrect`, `LinksAlwaysAgree`, `AloneSavesRepair`, `AloneSavesTouchTheirLinksOnly`. A save is
  several calls long, and in between the two sides differ. The invariant `LinkInv` says how:
  `DocumentKinds` and `RequestKinds` keep links between the kinds that have them, `AloneInv`
  says of a save that meets no other what each side looks like at each of its calls (sides
  already synchronised, the side at hand pulled, written as far as no copy is left, sides to
  come as before), and `UndisturbedInv` that without a disturbance both sides agreed when it
  began. At `Finish` this leaves the two properties of steps and, with no save under way,
  `LinksAgree`.

`ConsoleSpace_proofs` (any number of ids and requests; assumption `ConsoleAssumption`):

* `ListsHoldGivenIds` (`TypeOK`), `NothingIsShared` (`OneOwner`), `SubjectsAlwaysListed`,
  `ReportsAlwaysKept`. `OneOwner` is not inductive: a save from the browser's copy could store a
  list which another document has got meanwhile. `IInv` adds `CopyIsTree`, that the copy is
  itself a tree, and `CopyIsOwner`, that what it lists is listed by no other document, however
  much was stored since; so a copy may be stored back later, and what it overwrites is what
  `loose` and `kept` say.
* A request may stop after any of its writes. The lemma `RequestKeeps` treats all stops at once:
  if the writes of a request fit, which is that each document is written once, with lists of
  given ids that are its own, and that what is left unlisted is among what the request gives up,
  then any beginning of it keeps the invariant. One lemma for each action shows that its writes
  fit.

`TopicStore_proofs` (any finite set of source rows, any trigger data, mappings, defaults and page
sizes, any number of changes, all three stores; `SourceAssumption`, `MappingAssumption`,
`DefaultAssumption` and `PageAssumption` say that the mapped factors are read as whole numbers,
that a mapping gives each column once and writes the key, that defaults are values of the columns
and that a page has rows; TLC evaluates the four for the values of `MCTopicReads`):

* `Invariant`, `KeysAreUnique`, `TotalsAreCurrent`, `ReadsAlwaysAgree`, `PagesAlwaysAddUp`. A total
  changes by NEW − OLD, which says something about the sum of all source rows only if the change
  reaches the row the older ones are in, and if every amount is a number that can be subtracted
  again. So the inductive invariant `IInv` adds to the two properties about rows that a source row
  whose key is not off has a row of its key (`SourcesHaveRows`) and amounts that are numbers
  (`SumsAreNumbers`). `SourcesHaveRows` needs that a key is found again after it was inserted, which
  is what `KeyIsKept` is about, and `OneRowPerKey` that the row found is the only one. Then a change
  either makes the first row of a key, with no source before it, or adds to the sum over the
  sources the difference of one of them (`SumTakes`, `SumAgrees`).
* `ReadsAgree` and `PagesAddUp` hold of whatever rows a query may find, so their proofs are
  about sequences: what `FlattenSeq` makes of a sequence of sequences (`FlattenIs`), that an order
  of the rows has as many of them (`OrderFacts`), so that how long a page is does not depend on it
  (`PageLength`, `PagesLength`), and that the last page ends where the rows do.
* They are theorems about `Spec` of `TopicStore`, and hold of `ReadsSpec`, whose steps are steps of
  `Spec` or leave its variables unchanged.

`Comparison_proofs` (any two or three values, of whatever size and depth; `TasksAssumption`: what is
compared is a value, `IsValue`):

* `ComparisonsAlwaysDeny`, `EqualsIsAlwaysEquivalence`, `OrderingsAlwaysMirror`: the first three
  properties of the run `conditions`, for all values. They are theorems about `ComparisonSpec`, whose
  steps are those of `Conditions` that answer a comparison; no other step of `Conditions` answers
  one. The state is no more than the answer (`AnswersOfTheTask`); the work is in what it is:
  `EqualsAmountsTo` shows that equality without floats is emptiness of both, one text of both or
  identity, and `EqualsIsTransitive` that these three do not get into each other's way; the
  orderings need that whatever is read as a number or a day is an integer (`NumbersAreIntegers`,
  `DaysAreIntegers`).
* `TestMeansComparison`: what `QueryMeansCondition` says of conditions, for one test of a text or a
  number column and any value. `SameMeansEquals` compares what the store compares, the value
  converted for the column, with what memory compares, the two texts. `TestReadAlike` says where the
  two readings are meant to agree. It leaves out what the code does differ in: lists and dicts asked
  with anything but `in`, numbers in a form such as `5.0`, NULL with `not-equals`, `not-in` and
  orderings, and a negative number in text, which an ordering in memory refuses.

What the theorems do not reach, and only TLC checks:

* `QueryMeansCondition` for conditions joined from several tests, `PathFindsAllLeaves`,
  `RowsAreReadAlike`, `ReportMeansCondition`, `DatasetIsWhatTheSpaceAllows`, `QueriesAgree`,
  `FactorsCoverData`, `AidsFindParents`: they are about conditions and data of any depth, which
  `Parameters`, `Criteria`, `Reports`, `Conditions` and `RawSchema` walk with recursive operators.
  The prover has no SMT backend where there are such operators, and the library's induction theorems
  take an operator as a parameter, which it cannot instantiate. Induction over positions of a
  sequence is within reach (`Inductive` in `TopicStore_proofs`: a set that holds 0 and the successor
  of each of its members holds all), because the sequences are folded by recursive functions;
  induction over trees of any depth is not.
* Liveness (`Termination`, `ReceivedIsProcessed`, `ComesToRest`): `ENABLED` and fairness are out
  of the prover's reach.

## 5. Not modelled

* *Topic metadata and its caches* (`topic/`): four more caches, by name and by id, with the load,
  fill and drop of `PipelineCache`; a rename that leaves the old name answering is listed as a
  hazard. In the other models topics are constants.
* *Loops on Dask* (`unit_worker.py`): `PipelineRun` runs a loop's writes one after the other. How
  tasks are scheduled, copied and cancelled is Dask's; that the writes themselves race is
  `TopicRow`, whose workers may as well be Dask tasks.
* *Connectors* (`connector/`): delivery, acknowledgement and restart are those of aiokafka and
  aio_pika; what a message does is a row of `RawSchema` and a push of `PipelineRun`. A *rerun*
  pushes a stored row again, with its sums, and the code keeps nothing to tell the two apart.
* *Cycles of pipelines*: the lists of the runs are acyclic; the code has no check, and a cycle
  recurses to Python's limit.
* *Indexes* (`analysis/`): rows deleted and inserted again that only a search page reads.
* *Data sources* (`database/datasource`): which storage a topic has is a constant here.
* *Table definitions, DDL, bulk inserts, sorting, JSON columns* of the storages: no decision of
  the service depends on them but the primary keys, which `ConsoleSpace` has.
* *Weeks, the day of the week, formats of dates, the order of texts, fractions, texts multiplied
  by numbers and differences of dates*: library and language calls on single values.
* *Charts' indicators and dimensions, dashboards, favorites, last snapshots, renames, pipeline
  graphs*: one row, no list of ids and no cache.
* *Security* and encryption of values; *alarms* and *external writers*: no state in the service.
* *Tenants*: each model is of one; the cached list that serves every tenant what the first
  user's tenant may see is outside them. Wording, logging and monitoring content are
  abstracted everywhere.
