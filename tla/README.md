# NexAssure: a TLA+ model of its engine, its store and its service

NexAssure (`src/src/nexassure`) runs suites of data checks against warehouses, records what it
found, fires suites from cron expressions, profiles tables and suggests checks for them. This
directory holds the TLA+ modules that model it, the TLC configurations that check them, and the
TLAPS proofs about them. Paths below are relative to `src/src/nexassure/` unless they begin with
`src/`.

- [The system](#the-system)
- [The modules](#the-modules)
- [What the runs check](#what-the-runs-check)
- [What is proved](#what-is-proved)
- [Where the code and its documentation disagree](#where-the-code-and-its-documentation-disagree)
- [What is not modelled](#what-is-not-modelled)
- [Plan](#plan)

Run a configuration with `tlc -config MCScheduler.cfg MCScheduler.tla`, check the proofs of a
module with `tlapm SchedulerProofs.tla`. The module a configuration belongs to is named in
`PROJECT.json`; those that begin with `MC` and have no module of their own use that of the same
subject.

## The system

| Part | State it keeps | Operations | What is hard about it | What makes it correct |
|---|---|---|---|---|
| **Suite engine** (`core/engine.py`) | one run: selected checks, waves, results, the futures of a pool, the abort flag | `run`: select, plan, partition, execute, report | worker threads against the collecting and cancelling main thread; fail_fast; cyclic graphs | dependencies gate checks; every check accounted for once, with its own verdict; no hidden failure; no check left running; it returns |
| **Result model** (`core/models.py`, `core/enums.py`) | a `RunResult`: results and a status | `recompute`, `exit_code`, `failures` | precedence of statuses | a failing result gives a failing exit code |
| **Scheduler** (`scheduler/scheduler.py`) | jobs by name, a `_running` flag and next slot per job, a list of threads, a stop event | `add`, `remove`, `run_now`, `start`, `stop`, the loop, the job threads | loops, job threads, callers and a signal handler, with one lock that covers only part of it; overruns | a job never overlaps itself, never gets stuck, fires once per slot; the worker ceiling; a stop that waits and ends |
| **Metastore** (`metastore/`) | tables of connections, datasets, columns, checks, runs, results, profiles, schedules; a `_ready` flag per object and a lock per process | `bootstrap`, upserts, `sync_suite`, descriptions, `record_run`, `record_profile`, reads, `purge`: one transaction or several per operation | operations of several transactions from several threads and processes; an UPDATE that is followed by an INSERT; writes that fail, and in a store that is not strict are dropped; a purge during reads; the first use of a new database | the registry is what was last declared; an entry is read whole; what is recorded stays until it is old |
| **Facade** (`api.py`) | configuration, a connector per name, which names are catalogued, the metastore | `connect`, `run_suite`, `run_all`, `profile`, `discover`, `describe_table`, `query`, `register_connection`, `test_connection`, `close` | check-then-act on the caches when shared by the threads of a server; each of several steps may raise | what the cache holds is usable; a run that is answered was recorded and announced once; nothing stays open after the end |
| **Connectors** (`connectors/`) | an SQLAlchemy engine | `connect`, `close`, `execute`, `test_connection` | a connector closed by one request while another uses it | a probe closes what it opened |
| **Checks** (`checks/`) | none | `run`: evaluate, threshold, severity, sample; every exception becomes `errored` | several statements while others write to one table or several; thresholds, nulls, empty tables | the verdict says what the rows said at a moment of the run; the evidence is evidence |
| **Suite loader** (`suites/loader.py`) | none | parse, validate, find cycles | a second cycle detection beside the engine's | it reports what the engine would refuse |
| **Profiler, inference** (`profiling/`) | none | count, batch with a fallback per column, top values; rules that suggest checks | a statement that fails; limits that cut off | a suggestion rests on evidence |
| **Notifications** (`notifications/dispatch.py`) | none | one POST per channel | failures must not fail the run | announced as the policy asks, once |
| **REST and MCP servers** (`server/app.py`, `mcp/server.py`) | the shared facade, made at the first request | one call of the facade per request | requests on several threads; the first two make two instances | what was opened is closed when the server stops |
| **Command line** (`cli.py`) | none | one call of the facade per command; `schedule run` is a foreground scheduler | shutdown | |
| **Configuration, reporting, SQL helpers** | read once, or none | parsing and formatting | | |

How they interact: the command line and the servers call the facade; the facade opens a connector,
loads a suite, hands both to the engine, and records and announces the finished run. The engine
calls the checks on its pool's threads, the checks query through the connector, and the engine
calls back `on_result` from its main thread. The scheduler calls the facade's `run_suite` from the
thread of each job and writes the outcome to the metastore's `schedules` table.

The hazards found in this code, each at its line and with the properties that cover it, are listed
in `PROJECT.json`.

## The modules

| Module | Models | Rests on |
|---|---|---|
| `CheckResults` | the statuses, and how a run's status and exit code follow from them | |
| `RunContract` | what one call of `SuiteRunner.run` promises its caller, without waves, pool or threads | `CheckResults` |
| `SuiteRunner` | one call of `SuiteRunner.run`, thread by thread; shown to implement `RunContract` | `CheckResults`, `RunContract` |
| `SuiteRunnerProofs` | theorems about `SuiteRunner` and the cycle search of `ValidatedRun` | |
| `MCSuiteRunner` | its instances for TLC | |
| `ValidatedRun` | `SuiteRunner` with the cycle search of `validate_suite` beside it | `SuiteRunner` |
| `Scheduler` | the scheduler, its callers, its threads, and the `schedules` rows it writes | |
| `SchedulerProofs` | theorems about `Scheduler` | |
| `MCScheduler` | its instances for TLC | |
| `Metastore` | what the callers of one metastore do to a shared database, statement by statement | `History` |
| `History` | what the metastore promises of runs and profiles, in three steps | |
| `MetastoreProofs` | theorems about `Metastore` | |
| `Facade` | `NexAssure` objects, the server and command lines that share them, on top of `Metastore` | `Metastore` |
| `FacadeProofs` | theorems about `Facade` | `MetastoreProofs` |
| `CacheProofs` | theorems about the connectors of `Facade` | `FacadeProofs` |
| `CatalogueProofs` | a theorem about the catalogues of `Facade` | `FacadeProofs` |
| `MCFacade` | its instance for TLC | |
| `Warehouse` | the table a check looks at, the table it refers to, and those who write to them | |
| `Checks` | one check run against the warehouse, for every type of check | `Warehouse` |
| `Profiling` | the profile of a column, the checks it suggests, and their run | `Checks` |
| `WarehouseProofs` | theorems about what a warehouse counts | |
| `EvaluationProofs` | theorems about `Checks` and `Profiling` | `WarehouseProofs` |
| `MCEvaluation` | the instances of `Profiling` for TLC | |

### SuiteRunner

| Code | Model |
|---|---|
| `run`: selection, dry run (81-115) | `Select`; `chosen`, `dryRun` |
| `plan_waves` (285-318) | `PlanWave`, one wave a step; `Planned`; `waveOf`, `waves`; `phase = "refused"` is the raised error |
| the wave loop, after an abort (129-133) | `SkipWave` |
| `_partition` (227-244) | `Partition`, `Blockers`; `runnable` |
| `_execute`: submission (195-203) | `Submit`; `future` |
| `as_completed` and the consumer (140-150, 204-218) | `Collect`, `AllCollected`; `completed`, `emitted`, `aborted` |
| the cancelling loop (219-225) | `Cancel`, one future a step |
| leaving the pool (205-207) | `Drained`: `as_completed` and the executor's exit wait for all futures |
| what an abort left (152-159) | `WrapUp` |
| report (161-180) | `Report`; `status` |
| the executor's threads (external) | `Start`, `Discard`: the queue is served in submission order |
| `Check.run` (`checks/base.py` 105-148) | `Finish` with any verdict: it traps every exception |

Abstractions. A wave of one check is run by the main thread without a pool; it takes the same
steps as a pool of one worker and has none of its own. The order in which `as_completed` yields
finished futures is arbitrary. Check names are their positions (the models require unique names).
A check's query is a step that may take arbitrarily long and end with any verdict. `build_check`,
which `_execute` calls outside `Check.run` (`core/engine.py` 195-203), raises for a type nobody has
registered (`checks/base.py` 342-347); the facade validates the suite first and refuses it, and the
model is of runs of known types: a caller that gives the engine an unvalidated suite can get that
exception in the middle of a wave. Tags, names and
exclusions only determine `chosen`, so `chosen` is any subset.

### Scheduler

| Code | Model |
|---|---|
| `next_fire_time` (61-67) | `NextFire`: a cron is the period of its slots |
| `ScheduledJob` (77-96) | a record of `obj`, `Fresh` when made; `jobs` are the objects in `_jobs` |
| `add` (150-162) | `Add` (the part under the lock), then `Upsert` (the row) |
| `remove` (176-181) | `Remove`, then `Delete` |
| `run_now` (316-322) | `RunNow`, `RunNowEnds` |
| `start` (193-215) | `StartLoop` for `block=False`; in the foreground `Init` has the loop at its top |
| the signal handler (229-238) | `Signal` |
| `stop` (217-227) | `Stop` (set the event), `Snapshot` (`list(self._threads)`), `Joined` or `GaveUp` (the timeout), `Stopped` (the pruning) |
| `_loop` (240-249) | `LoopTop` (test the event, read the clock), `Wake` |
| `_due_jobs` (251-266) | `DueJobs`, under the lock: `IsDue`, `Capacity`, `Taken`, `Flag` |
| `_dispatch` (268-274) | `Dispatch`, one job a step |
| `_execute` (276-314) | `Record` (the run ends and the lock is taken), `MarkRun` (the row), `Notify` (the callback) |
| `upsert_schedule`, `mark_schedule_run`, `delete_schedule` and `_guard` of `metastore/repository.py` | `Upsert`, `MarkRun`, `Delete` on `row`; `Write` may lose a write |
| `schedule run` of `cli.py` | `Foreground = TRUE`: preset jobs, one loop, one client that calls `stop` when the loop is left; `Closed` is its end |

Abstractions. A job is an object, not a name: `add` replaces the object while the thread of the
old one goes on with it, which is what the properties turn on. Time is a counter and a cron
expression a period; an invalid expression makes `add` raise before anything has changed, and has
no step. `add` computes the first slot from the clock a moment before it takes the lock; the model
takes both at once. Starting a thread, appending it to `_threads` and pruning the list are one
step, and every line that changes `_threads` is atomic; `Thread.start` succeeds; `Event.wait` is
atomic, and a wait ends after some time or at once when the event is set, so `Wake` has no guard.
`on_complete` callbacks may take long but change nothing here. `failure_count`, `last_run_id` and
`last_run_at` are left out (`run_count` is kept). The metastore's own status of a raised run,
`errored`, is written `raised`, to keep it apart from a run that returned with that status. A process that exits kills its daemon threads; `Closed` is reached before, and nothing is
claimed after it. `fired` and `since` are history: they number the threads of a job and remember
when it was registered.

### ValidatedRun

`DetectCycles` is the depth-first search of `_detect_cycles` with its stack and colours; a step of
the loop is `Visit`, a root that is still white restarts it. The stack may hold a check several
times, which is why a check is coloured when it is popped. The checks a step pushes come in one
fixed order, since a model of the dependencies as sets has no order of its own; the theorem about
the search uses nothing of it. `validate_suite` itself only collects what the search reports.

### Metastore and History

A call of the metastore is a short script. `Call` begins it; when the object does not know that
the tables exist it goes through `bootstrap` first (`Lock`, `Probe`, `Create`, `Stamp`,
`InsertVersion`), under the lock of the process; then one transaction follows another until it
returns. Calls of different threads, and of processes that share only the database, interleave
between statements.

| Code (`metastore/repository.py`) | Model |
|---|---|
| `_DDL_LOCK`, `bootstrap` (54-59, 121-146) | `lock` of each process, `Lock` with its second look at `_ready`, `Usable`, `BootstrapFails` |
| `create_all`, `_record_schema_version` (137, 148-165) | `Probe`, `Create`, `Stamp`, `InsertVersion`: another process may come between the look and the write |
| `engine` raising for a bad URL (112-119) | `BadUrl`: not trapped, in any store |
| `_upsert` (197-221) | `Update` and, when it found nothing, `Insert`, which fails when the row is there by then |
| `register_connection`, `upsert_dataset` | a list of rows to upsert, one after another |
| `sync_suite` (357-390) | the checks upserted one by one, then `Prune` |
| `set_dataset_description`, `set_column_description` (317-355) | `Annotate`; only an existing row |
| the list queries, `check_history`, `failing_checks`, `summary` (640-704, 731-842) | `ListRows` |
| `record_run`, `record_profile` (421-520) | `Record`: one transaction |
| `get_run`, `latest_profile` (706-729, 774-784) | `ReadHeader`, `ReadDetails`: two transactions |
| `purge` (844-889) | `SelectStale`, `DeleteStale`: two steps of one transaction |
| `_guard`, `_rows` (189-193, 640-646) | `Guard`, `TransactionFails`: raised or lost; a lost read of details is empty |
| `close` (176-180) | `Close` |

`purge` is one transaction, in which runs and then profiles are selected and deleted; as two steps,
with the commits of others between them, it has every behaviour of the code and some a database that
isolates the transaction excludes. What holds of the model holds of the code all the more. The
`schedules` table and its three writes are in `Scheduler`, which is about what they turn on.

A row is its key; the columns of a row are data. Rows of
which nobody else can know are written in one step, and so is a transaction that only writes rows
it has found. A database that serialises writers, as SQLite does, has fewer behaviours than the
model and no other ones. `Age` is the clock passing the cutoff of `purge`. `recorded` and
`settled` are history: which entries a call was made for, and what the last undisturbed sync of a
suite declared. An entry is recorded once, as its identifier is made for it.

`History` has an entry that is kept or lost when it settles, expires, and may be purged from then
on, for good. `ImplementsHistory` maps an entry to "kept" when its row is there, to "gone" when it
was recorded, its call is over and it is not there, and to "new" otherwise.

### Facade

A client is a thread; it asks for one of its `Jobs` (`Arrive`) and is then served step by step
until it answers. A `NexAssure` object is named by its `Metastore`.

| Code | Model |
|---|---|
| `get_nexassure` (`server/app.py` 91-94) | `Arrive` tests, `Make` makes and assigns, `Take` reads: nothing locks them |
| `connect` (`api.py` 121-139) | `Lookup`, `Open` (the engine and its ping), `Cache`, `Boot` |
| `_bootstrap`, `bootstrap_on_connect` (`api.py` 141-155, `repository.py` 892-958) | `Register`, `Registered`, `ListTables`, `WalkTables`, `Upserted`; what it raises is swallowed after a connect and raised by `discover`. `scanned`, `counted` and `truncated` are what the outcome says: `schemas_scanned`, the tables behind `datasets_registered`, the cap |
| `run_suite`, `run_all` (`api.py` 324-407) | `Execute`, `Sync`, `Keep`, `Notify` with a wait for the metastore after the middle two; `Fail` |
| `profile`, `describe_table`, `query`, `discover` | `Execute` and `Keep`, or `Catalogue`, or an answer |
| the routes over the metastore (`server/app.py` 327-342, 389-426), but the HTML report | `Direct` |
| `test_connection` | `Test`, `Report`, `CloseProbe` |
| `register_connection` (105-113) | `Configure`, `Pop`, `Forget` |
| `close`, the end of the application | `Shutdown`, when its requests have been answered |

A run's outcome is a choice, since `SuiteRunner` and `Checks` say what it may be. A configuration
is its version number, a connector remembers the version it was built from. The boundary between
a test and the assignment that follows it is a step where two threads can meet: `get_nexassure`,
the cache lookup, the pop and close of `register_connection`. The lazily made metastore of an
object (`api.py` 96-101) and the test and marking in `Boot` are one step. Recording and
notification are on, with one webhook; a job that turns them off takes fewer steps. `overlapped`
remembers whether two requests were ever served at once.

### Warehouse, Checks and Profiling

A table is how many rows hold each value of the column in question (`Null` among them), the other
table the same, and the columns with their types. A check runs its statements (`Query`); between
any two of them others may commit to the table, the other one or both (`Others`), any of them may
fail (`QueryFails`), and the sample is fetched afterwards (`Sample`). The checks whose SQL is the
user's fetch none: the rows of their query are the sample (`Shown`). `Evaluate` has one operator per type of check, translated from
its `evaluate`; `Status` applies the threshold and the severity as `_status` does. `worlds` is
history: every state of the warehouse while the check ran.

A profile is a count, a batch (`Batch`) or, if that is refused, a statement per column (`Single`,
`SingleFails`), and the top values. `Suggested` has the rules of `suggest_checks`; a suggested
check is then run like any other.

`Declared` is what a `CheckSpec` may hold; a check that is refused (`Undeclared`) is errored before
its first statement. Of the refusals those that depend on the values of a parameter are spelled out;
a dataset, column, query or parameter that is not there, a parameter nobody knows
(`checks/base.py` 83-103, 214-221) and a function `aggregate` does not have are the flag `valid`.
A type in the catalog matches the type a `schema` check wants when that text occurs in it
(`checks/builtin.py` 646: `int` in `bigint`); `NamesIn` is which texts occur in which. `Blind` names the two kinds of check that see no failure by
what they were declared with: `accepted_values` with a null among its values, whose `NOT IN` is
never true, and `sql_returns_no_rows` with `max_rows` 0, which fetches no row. What these report is
modelled, and the properties leave them out. `not_empty` declares no parameters and yet looks at
those of `row_count`; with one set it is a row count with a floor of 1, and `Holds` takes it for that.

Abstractions: ratios are in ten-thousandths; `where` is a set of cells; the bounds of
`InferenceOptions` are smaller in the instances; `mean` is `avg`, and `stddev`, percentiles,
sampling, lengths, numbers with a tolerance, patterns of expectations and multi-column keys are left
out. An empty list of rejected values renders `IN ()`, which SQLite takes for no value and most other
engines refuse: the first is `RejectedFails`, the second `QueryFails`. The values a profile keeps are
texts, by `str()` (`profiling/profiler.py` 369), and so are the values of an `accepted_values` check
suggested from them; of a text column that is the identity, of a boolean one it is not, and whether
`True` is among `'True'` and `'False'` is up to the warehouse: boolean columns are excluded by
`ProfilingAssumption`.

## What the runs check

| Run | Instance | Result |
|---|---|---|
| `suite_runner` | 3 checks, all 64 graphs without self-loops, every selection, caps -1, 1, 2, 8, fail_fast and dry_run on and off; `FairSpec` | all safety properties, the two action properties, the refinement of `RunContract`, the agreement with the linter and `Terminates` hold |
| `suite_runner_silent`, `suite_runner_transitive` | 3 checks | violated: see below |
| `scheduler` | `schedule run`, three jobs with periods 1, 2 and 2, two workers, runs that pass or raise, lost writes, clock to 3 | all hold |
| `scheduler_embedded` | an embedding program with one job that re-registers it, adds a second one, removes, fires by hand, starts up to two loops and stops; two workers, clock to 2 | `NoOverlap`, `RowsFollowJobs` hold |
| `scheduler_live` | `schedule run`, two jobs, a worker for each; `FairSpec` | `ShutdownCompletes`, `DueJobsRun` hold |
| `scheduler_outcome`, `scheduler_overlap`, `scheduler_stop` | `schedule run` with two jobs, or the embedding program, with one worker | violated: see below |
| `service` | two threads of a server, a command line with a strict store and one whose store has a wrong URL; one database with a run recorded before; two requests of any two clients, one connection, three schemas with two tables, one suite, failures in seven places; 981,402 states | all nine properties hold |
| `evaluation` | every type of check with its edges, small tables beside either of two others with one commit by others to one or both, tables of a thousand rows for the profiler, failing statements; 410,710 states | all five hold |
| `suggestions` | a profile of a text column, nobody writes, nothing fails | violated: see below |

Each property of a passing run has a mutant, a plausible bug in the definition it is about
(`\* Mutant` in the modules), under which TLC finds it violated.

**SuiteRunner.** `PlanOrdered`, `PlanTight`, `RefusedIffCyclic`: the plan respects the
dependencies, keeps no check longer than needed, and is refused exactly for a cycle among the
selected checks. `DependencyGate`: whatever order the futures land in, no check starts before its
selected dependencies have an ok result. `EveryCheckAccounted`, `ReportsWhatRan`,
`NoHiddenFailure`, `ResultsFinal`, `EmittedOnce`: the accounting, through the race of the
cancelling loop with the workers; verdicts that land after an abort are dropped, but never so that
a failure goes with exit code 0. `InFlightBounded`, `ReturnsQuiet`, `AbortIsFinal`: the pool.
Three checks give a wave of one, two and three, a wave after an aborted one, a blocked check whose
dependents run, and cycles of two and three, the least of each; the proofs cover larger suites.
`LinterAgrees`: the depth-first search of the loader finds a cycle exactly in the suites the engine
refuses.

**Scheduler.** `NoOverlap` and `NoStuckJob`: the flag of a job is held by exactly one thread or
one place in a loop's batch, so that no two runs of a job object overlap and no job is forgotten.
`OncePerSlot`: a job fires at most once per slot that has passed, although the clock is read
before the lock and runs overrun their slots. `SuiteNoOverlap`, `WorkerCeiling` and `StopWaits` hold
for `schedule run` and are the very properties an embedding program can break. `RowsFollowJobs`:
without lost writes the table lists the registered jobs; a late `mark_schedule_run` does not
bring back a removed one. With a clock up to 3 a job comes due again while it runs and has overrun its slot, and at time 2
three jobs come due at once under two workers, so that one is skipped. One worker would hide the
overlap of a job with itself, which the worker count alone then excludes; that is why these
instances have two. Two loops and two job objects are the fewest that make the embedded races.

**Metastore and Facade** (`service`). `OneBuilder`: the lock of bootstrap is held by the thread
that is creating tables and by nobody else, on every way out. `RegistrySettles`: after a sync that
met no other of its suite the rows are what it declared, whatever else the clients do; two syncs
that overlap may leave a mixture, which the next one repairs. `ReadsWhole`: a read of two
transactions finds all the details; or none, when the run was old and a purge deleted it between
the two, or a statement failed; never some. A server thread or the command line reads the run the
database had before while the other thread purges it.
`ImplementsHistory`: as above. `RunAccounted`: through the sync, the record and the notification,
each of which may raise or be lost, a run that is answered was given to the metastore and announced
as often as the policy asks. `CacheUsable` and `PoolsDisposed`: the connectors through concurrent
lookups, replacement and shutdown; their second halves are stated for requests served one at a
time, because two first requests do make two connectors or two instances, one of which nobody
closes. `CatalogueCounted`: what a discovery counts as registered is in the metastore with all its
columns and comes from a schema it names as scanned; it describes no more tables than the cap and says
`truncated` only at the cap. That is all its outcome says. A schema that cannot be listed, a table
that cannot be described or an upsert the metastore loses is logged or passed over, and the answer
is `truncated: False` all the same (`metastore/repository.py` 930-948): an incomplete catalogue then
differs from a complete one only in its counters and in `schemas_scanned`.

Two requests of different clients are the fewest that interleave, and each of the races above
needs two. A table that cannot be described (`"walk"` among the faults) is left to the proofs, which
cover every set of faults. The jobs are chosen so that each step of the facade
and each call of the metastore is taken. The two objects a server may make are interchangeable: the
constants and the properties mention neither, so permuting them is a symmetry (`Twins`), and no
property of the run is a liveness property.

**Checks and Profiling** (`evaluation`). `VerdictsTrue` compares a verdict with `Holds`, what a
check says of a table, stated from the tables alone: a failure is true of some moment of the run,
and so is a pass. Two types look more than once, and of these the verdict is of two moments
(`HoldsAcross`): a `primary_key` that passes was unique at one and without nulls at a later one;
`compare_queries` has compared the left rows of one moment with the right rows of another, whether it
passes or fails. So while others write a false verdict of these two types does come of the code:
two tables that agreed at every moment fail when one transaction changes both between the two queries,
and a key that was never in order passes when the duplicate arrives after the one statement and the
null goes before the other. `Tolerated` says what a
threshold forgives, `Evidence` what a sample shows: that each row of it was there and broke the rule
at some moment of the run, not at that of the count. `SuggestionsApply`: a suggested check holds of
the table it was inferred from, with three exceptions it names. The values 0 to 11 are one more
than the profiler keeps (10) and than the instance's `MaxDistinct` allows (11), tables of 1000 rows
are above `MinRows`, small ones below.

**Fairness.** `Terminates` assumes that the main thread and the pool's threads are scheduled and
that a check ends: connectors give the driver's own timeouts, and the engine has none of its own.
`FairSpec` of `Scheduler` assumes that the clock advances, that the loop is scheduled, and that the
thread in `stop()` is: its joins have a timeout, so `GaveUp` needs no thread to end.
`ShutdownCompletes` therefore holds with runs that never end. `DueJobsRun` needs runs to end, which
no code ensures; it is stated under `RunsEnd`, for a worker per job: with fewer workers a job late
in the dictionary can be left behind as long as earlier ones fill the pool.

**Deadlock** is checked in every run. `Over`, `Closed` and `Rest` are the places where the system
has stopped by design, and have stuttering steps for it; `Rest` is enabled only when no request is
being served, so that a request stuck for ever would be reported.

**Bounds.** `MaxTime` bounds the clock, `MaxObjects` the registrations, `MaxLoops` the calls of
`start`; `N` and `Graphs` the suite; `MaxRequests` the jobs of `service`; `MaxWrites` the writes of
others. The proofs below hold for every value of each of them.

## What is proved

Every safety invariant and action property that a passing run checks is proved too, for every value
of the constants: any number of checks and any graphs, any caps;
any jobs, crons, clients, loops, workers, outcomes and bounds; any processes, stores, requests,
listings and faults; any tables, values, parameters, writes and limits. The proofs use only the
named assumptions of the modules, which TLC evaluates in the runs. `RequestsAssumption`,
`JobsAssumption` and their like say that a caller passes what the signatures take;
`ChecksAssumption` that specs are `Declared` and a table has finitely many columns;
`WritesAssumption`, `WorkersAssumption`, `CapAssumption` and `NumberedAssumption` that bounds and
limits are numbers and an identifier is not given twice. A theorem that needs more says so:
`Foreground`, or one caller, or a metastore that loses no write.

`SuiteRunnerProofs`: `IInv` (a conjunction of `PlanInv`, `ProgressInv`, `FutureInv`, `VerdictInv`,
`EmitInv`, `OutcomeInv` and the types) is inductive (`Invariance`). It is needed because none of
the safety properties is inductive alone: that a finished run reports everything rests on which
waves are behind the loop, which futures can still land, and that a cyclic set of checks is never
planned even in part. From it follow `DependencyGateHolds`, `PlanSound`, `PlanShort`,
`RefusalExact`, `ReportComplete`, `ReportFaithful`, `ReportHonest`, `EmissionHonest`, `QuietReturn`,
`ResultsStayFinal`, `AbortStaysFinal`, with
`CapHolds` from an invariant on the workers of a wave, and `Implementation`: every step of the
engine is a step of `RunContract` or leaves its variables alone.

The same module proves the search of the loader exact (`LinterExact`): for every graph it finds
something just when there is a `Loop`, a set of checks each of which depends on one of the set.
`SearchInv` says what the stack and the colours know.

- `MarkedInv`: a grey check is still on the stack, at the place where it was put back, its marker.
- `TrailInv`: between a marker and the next lie checks that the marked one depends on, so that the
  markers are a path and a grey dependency closes a loop. `FoundInv`: what was found is a loop.
- `OwedInv`, `BlackInv`: as long as nothing was found, what a grey check depends on is black or above
  its marker, what a black one depends on is black, and there is no loop of black checks.

That the search ends, and so has a result at all, is shown of the recursive function itself: each
restart and each first visit leaves fewer white checks, and every other step a shorter stack.
`LinterAgreement` concludes `LinterAgrees`, since what the engine refuses is a loop.

Two theorems are what `Terminates` rests on beside fairness. `RunsAreFinite`: every step lowers
`Rank`, five numbers compared from the left (whether the run is planning, running or over; the
checks still to plan; the waves to go; where the main thread is in a wave; what is left to do for
its checks), an order in which nothing goes down for ever. `NeverStuck`: until the run is over the
guard of a step of the main thread or of a worker holds. Its invariant, `ReadyInv`, is that the main
thread submits and cancels only while there is something to submit or cancel, leaves the pool with
every check submitted, and that futures are cancelled only by an abort.

`SchedulerProofs`: the invariant has four parts beside the types (`TypeCorrect`), each with its
own theorems; `Invariance` puts them together. The rows have an invariant apart, `RowsInv`, which
needs one caller and no lost writes.

- `FlagInv`: the flag of a job is up exactly when one thread is running it or one loop is about
  to start it; threads have increasing numbers; a loop holds a batch only while dispatching.
  `FlagsHonest` and `FlagsComeDown` conclude `NoOverlap` and `NoStuckJob`, whatever the clients do
  meanwhile.
- `SlotInv`: the slots used up (`Spent`: the one a job was registered in, plus those fired, plus
  one for a batch it is in) are no more than have passed, and while the job waits they are fewer
  than its next slot. The second half is why `DueJobs` may spend one more, and `Record` restores
  it by scheduling from the present time. `OneFirePerSlot` concludes `OncePerSlot`.
- `ForegroundInv`: under `schedule run` the registrations stay, one loop runs, `stop()` begins
  when it is over, and every job thread alive is in `_threads` and in the snapshot `stop()` joins.
  `ForegroundStopWaits` concludes `StopWaits`, and, with `FlagInv`, `SuitesApart` concludes
  `SuiteNoOverlap` for jobs of different suites, which is what `add_suites` makes.
- `WorkersInv`: jobs registered together have different places and names, and no more of them are
  flagged than there are workers. The places are why the batch `_due_jobs` takes fits: the jobs
  with fewer than `Capacity` due before them are at most `Capacity`, as the number of those before it
  tells each of them from the rest. `RegisteredCeiling` concludes that the jobs registered keep to the ceiling in
  an embedding program as well; `ForegroundCeiling` concludes `WorkerCeiling` for `schedule run`,
  where every run belongs to a registered job. With jobs replaced `WorkerCeiling` is false (see
  below).
- `RowsInv`: the row of a name is there exactly when a job has the name, but for the write of the
  call under way (`Pending`), and what that will write agrees with the jobs. `OneCallerKeepsRows`
  concludes `RowsFollowJobs` for one caller whose writes are not lost. Two callers
  can write in the other order than they registered, and a lost write is not repeated, so that the
  theorem is false without either.
- `TicksFillThePool` is about a step: of the due jobs `_due_jobs` leaves one out only when as many
  are then flagged as there are workers. A due job is therefore passed over only because the
  pool is full or its own last run is not over.
- `ShutdownGoesOn` is what `ShutdownCompletes` rests on beside fairness. `Left` counts the steps to
  the end of `schedule run`, at most the batch of a tick under way and a few more. Once the flag is
  up it stays up, no step of anyone raises `Left`, each step of the loop or of `stop()` lowers it,
  and until the end the guard of one of them holds, job threads that never end or not. `LoopInv`
  is that a loop is dispatching only while it has a batch, and that the command's loop was started.

`MetastoreProofs`: `CallsOK`, the types with what each step of a call knows of its operation, is
inductive (`Typing`, `StoreTypes`).

- `LockOK`: a thread under the lock holds that of its process, and the reverse; a thread that is
  not has left it. `BuildersExclude` concludes `OneBuilder`.
- `RegistryOK`: as long as it is known what the last sync of a suite declared, and no sync is under
  way, its rows are just that; a sync that has met no other has in the table all it has upserted so
  far, and when it prunes leaves what it declared. `RegistryReflects` concludes
  `RegistrySettles`: no other operation touches the rows of checks, which is an assumption about
  `Requests` the code justifies.
- `HistoryOK`: an entry has all its details or is not there; what a purge is about to delete is
  old; an entry being recorded is not there. `ReadsAreWhole` follows, and
  `StoreImplementsHistory`: each step of each call, failures included, settles, expires or purges
  entries, or changes nothing in `History`.

`FacadeProofs`: `ServiceOK` says what a request holds at each label, given its job; it is inductive
(`ServiceTyping`), and with it each step of the facade either leaves the metastore alone, is one of
its steps, or is a call of one of `Requests` of an object that was made. So
`ServiceUsesMetastore`: the facade implements `Metastore`, and all that was proved of it holds of
the service (`ServiceTypes`, `ServiceBuildersExclude`, `ServiceRegistrySettles`,
`ServiceReadsAreWhole`, `ServiceImplementsHistory`). `RunsAccounted` concludes `RunAccounted` from
two more invariants: `RecordsEnd`, a call that recorded an entry ends with the entry kept, lost in
a store that is not strict, or an exception; and `AccountOK`, the request of a run has an
identifier of its own for which nothing is sent before its last step, and is past a call of the
metastore only when that has not raised.

`CacheProofs` has three invariants of the connectors. `PlaceOK`: a request is served by an object
of its process, which has not stopped. `PoolOK`: no connector is in the cache twice, and one in the
hand of a request that has made it or is about to close it is not in the cache and not in another's
hand; so what is closed is never what is cached, and what `connect()` caches has been opened.
`AloneOK`, for requests served one at a time: the cache has the connectors of the newest
configuration, and every open engine is in the cache or in the hand of the request that will close
it. A shutdown may come while another process is being served, which is why the objects of
`AloneOK` are those of their processes. `CachesUsable` and `PoolsAreDisposed` follow.

`CatalogueProofs` concludes `CatalogueCounted` in `CataloguesAreCounted`. `UpsertsEnd`: a call
that upserts has written the rows it has been through, and answers "ok" only at the end of them;
what is written stays, since only rows of checks are ever deleted (`RowsLast`), so that a sync or a
purge of another client takes nothing away. `CatalogueOK` is the walk: what is counted is in the
metastore and in the listing of a schema named as scanned, counted tables are no more than described
ones, described ones no more than the cap, fewer when one more is being described, and the walk is
only cut short at the cap. The table in the hand of a request is in the schema it has named last.

`WarehouseProofs` has the facts about counts that the next module cites: a count is a number, is
additive, grows with the set, counts the values present, and is what is left when one value is
taken away (`CountRest`); `Least` and `Largest` bound what is there; a surplus is a count less
the distinct values (`SurplusCounts`). `Count` and `Surplus` are folds, and what they compute is shown by induction over
a finite set. The theorems for induction take an operator, which the provers here cannot
instantiate, so the induction is by a minimal counterexample (`SetInduction`, from `WFMin`).

`EvaluationProofs`: `IInv` of `Profiling` is inductive, and the five properties of `evaluation` follow.

- `RunInv`: the run has seen states of the table in `worlds`, as many as it has made statements, and
  its result is the `Verdict` of what it has seen. Without it a verdict could rest on a state
  no one ever had. `VerdictsAreTrue` then goes by the type of check: for each, `Evaluate`
  of what was seen is `HoldsAcross` of one or two of the tables seen.
- `WorldsInv`: the table is in `worlds` while a check runs, whatever was committed to it and the other.
  `ToleranceIsExact` concludes `Tolerated`.
- `SamplesInv`: a sample is taken only when something offends, and holds what offended then; that of
  the user's SQL is what its query has seen.
  `EvidenceIsEvidence` concludes `Evidence`.
- `ProfileInv`: while nobody has written, what the profile says so far is so (`Told`), whichever
  statements failed, and the check being run is one that it suggested. `SuggestionsAreSound` goes
  through the rules of `suggest_checks` one by one, with their margins, and concludes
  `SuggestionsApply`.

Only model-checked: liveness (`Terminates`, `ShutdownCompletes`, `DueJobsRun`), which this prover
does not do under fairness. Of the first two the part that is about the code is proved (no step
goes the wrong way, and some guard holds); what remains to TLC is that a guard that holds is
`ENABLED`, that weak fairness then brings the step, and the conclusion from both. `DueJobsRun`
also needs the runs to end, and is the least proved of the three: of it there is
`TicksFillThePool` and `NoStuckJob`.

## Where the code and its documentation disagree

Each is a run whose one property states what the documentation says, and which TLC violates.

- `EveryResultEmitted` (`core/engine.py:37`): `on_result` is "called with each result as it
  lands". The waves after a fail_fast abort are recorded as skipped and never announced.
- `DependenciesPassed` (`src/docs/checks.md:28`): `depends_on` names "checks that must pass
  first". A skipped dependency counts as ok, so that in a chain a, b, c where a fails and b is
  skipped, c runs.
- `RowHoldsLastOutcome` (`src/README.md:120`): the table holds the jobs' "last outcome". The
  row is written after the lock is released, so a delayed write of one run can replace the outcome
  of the next.
- `SuiteNoOverlap` (`src/README.md:368`): "The scheduler never overlaps a suite with itself".
  `run_now` does not look at the flag, and a re-registered job has a new one.
- `StopWaits` (`scheduler/scheduler.py:218`): `stop()` is to "wait for in-flight runs to finish".
  A background loop may start threads after the snapshot that `stop()` joins.

- `SuggestionsHold` (`profiling/inference.py:9`): "A suggested check that fails on the very next
  run teaches people to ignore the tool, so each rule below only fires when the evidence is
  strong." `accepted_values` is suggested for up to 25 distinct values from a list of top values the
  profiler cuts off at 10; a column with an eleventh value in less than a hundredth of its rows gets
  a check that warns on the unchanged table.

More were seen and have no run of their own.

- With the instance of `scheduler_overlap` `WorkerCeiling` fails too: `_due_jobs` counts the running
  jobs among those registered (line 254), so the thread of a removed or replaced job is not counted,
  although `max_workers` is a "ceiling on concurrently executing suites" (line 130). And a job skipped
  because the pool is full can be skipped again at the next tick, while the log says "it will fire on
  the next tick" (lines 261-262).
- A metastore whose URL `create_engine` does not accept makes `run_suite` raise although it is not
  strict (`BadUrl`), and a run that passed is answered with an error; "Every write path therefore
  catches, logs and continues, except when the caller explicitly asks for strict mode"
  (`metastore/repository.py` 9-13).
- Two more suggestions go against `profiling/inference.py` 9-11. `not_null` is suggested for a column
  no statement could profile, from the defaults of `ColumnProfile`
  (`profiling/profiler.py` 239), and `freshness` from the name of a column. `SuggestionsApply` names
  them among its exceptions.

## What is not modelled

Configuration, reporting, the payloads of notifications and the SQL text helpers are parsing and
formatting with no state of their own, and are left out; so are the parsing of suites and the lints
of the loader other than cycles, the pydantic models' validation (its consequences are assumed), the
SQL of the dialects and the connection URLs. The MCP server is argument checks and truncation around
one facade, called by one client at a time, and adds no behaviour to `Facade`. Of the command line
`schedule run` is a `Foreground` scheduler, and the other commands are a client of `Facade` that makes
one call. `suggest` and `profile_schema` repeat `profile`; `list_tables` and `run_check` are queries.

The engine of a connector and its ping are one step: a second thread that meets a connector between
them would need an engine of its own in the state. Migration from an older schema version, the read-only
guard and the lock of single-connection engines are not modelled.

Within the modelled parts: the unlocked read-modify-write of `_threads`, an `Event` whose
lock the signal handler may find taken, and a `Thread.start` that raises are hazards of the
scheduler the model abstracts from, as `PROJECT.json` says at each.

## Plan

| | Module | State |
|---|---|---|
| A | `CheckResults` | done |
| B | `SuiteRunner`, `RunContract`: engine, contract, refinement | done |
| C | `SuiteRunnerProofs`: invariant, refinement, the linter, ranks and guards of termination | done |
| D | `Scheduler`, `SchedulerProofs` | done |
| E | `Metastore`, `History`, `MetastoreProofs` | done |
| F | `Facade`, `FacadeProofs`, `CacheProofs`, `CatalogueProofs` | done |
| G | `Warehouse`, `Checks`, `WarehouseProofs`, `EvaluationProofs`; `ValidatedRun` | done; the column, row and table shapes of expectations, tolerances and patterns are left |
| H | `Profiling`, `EvaluationProofs` | done for one column; sampling, percentiles and duplicate rows are left |

What would come next: the engine of a connector apart from its ping, and the unlocked list of
threads of the scheduler load by load; `run_suite` with `SuiteRunner` in the place of its choice of
an outcome.
