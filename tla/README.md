# sqlseed in TLA+

This directory is a verification project for sqlseed, a generator of test data
for relational databases. It models the parts of the program whose correctness
depends on order and on the meeting of several rules: the web interface and the
processes around it, the workbench from the browser to the database, the row
generator and the fill around it, the algorithms that choose a generator for
each column, and the AI plugin's healing and repair. TLC checks the models on
small instances; TLAPS proves the theorems in the `*Proofs` modules for every
value of the constants.

## 1. The system

sqlseed is shipped as a core package and four plugins. Paths below are relative
to the repository; `web/` abbreviates
`plugins/sqlseed-web/src/sqlseed_web/`, `ai/` is
`plugins/sqlseed-ai/src/sqlseed_ai/`, and `core/` is `src/sqlseed/core/`.

| Part | Where | State it keeps | Operations |
|---|---|---|---|
| Connection and job registry | `web/state.py`, used by `web/api.py`, `web/workbench.py` | connections, a lock per connection, operation owners, jobs | add, close, `connection_operation`, `create_job`, `complete_job`, `job_completion` |
| Runtime gate | `web/runtime_lifecycle.py` | paused flag, lease counters | acquire, release, `pause_if_idle`, `close_admission`, `resume`, `start_background`, HTTP middleware |
| Worker process | `web/managed_worker.py`, `web/runtime_session.py` | phase of `run_worker`, HTTP thread, restored session | restore, serve, drain, exit; `prepare`, `resume`, `shutdown`; export, restore and close a session |
| Control channel | `web/worker_control.py` | pending calls, running answers | send, call with timeout, dispatch, close |
| Supervisor | `web/supervisor.py`, `web/supervised_plugins.py` | current process and channel, mode, task phases | spawn, stop, pause, resume, maintenance, recovery |
| Package manager | `web/plugin_management.py`, `plugin_environment.py`, `plugin_updates.py`, `plugin_process.py` | the plan, the task, the lock of the environment, the installer's process group | plan, review, execute, download, install, verify, recover, close |
| Version checks | `web/settings_updates.py` | reads under way, cached versions | ask, join a read, discard a late one |
| Workspace store | `web/workbench_store.py` | SQLite file of drafts and runs | save, rename, copy, delete, create and update runs |
| Workbench runs | `web/workbench_runtime.py`, `web/workbench_cycles.py`, `web/workbench_execution.py` | plan, run status | plan, start, execute atomically or table by table, publish the end |
| AI analyses | `web/workbench_ai*.py`, `js/workbench/ai*.js` | one operation per connection, event queue, the modal | start, publish, cancel, stream, review, preview, apply |
| Workbench page | `js/pages/workbench.js`, `js/workbench/session.js` | document, epochs, saved revision, cached sessions | edit, save, check, preview, run, open by link, rename, delete |
| Row stream and solver | `core/stream.py`, `core/constraints.py` | keys in use, current row, batch, coverage queues, attempt budget | `generate`, register, roll back |
| Fill | `core/orchestrator/`, `database/` | adapter, transaction, settings to restore, counters | connect, clear, insert batches, link self-references, restore |
| Relations | `core/relation.py` | shared pools | order tables, resolve references |
| Column specifications | `core/mapper.py`, `check_adapt.py`, `schema_fallback.py`, `unique_adjuster.py` | none | the generator of a column |
| AI healing | `ai/auto_heal/`, `ai/healer/`, `ai/repair/`, `ai/validator/` | rules, reports, attempt history | infer, validate, repair, heal, degrade |
| AI suggestions | `ai/refiner.py`, `ai/analyzer/` | retries, prompt level, cache | ask, retry, check, cache |
| CLI, MCP server | `plugins/sqlseed-cli/`, `plugins/mcp-server-sqlseed/` | none | front ends |

How they interact. A browser talks HTTP to the *worker process*. The admission
middleware takes a lease in the *gate* for each request; the request thread
uses the *registry*, and through it an orchestrator; a long task becomes a job
with a background thread, which holds a lease of its own. The *supervisor* is
the parent process and sends the worker commands over the *control channel*:
`prepare` (pause if idle and export the session), `resume`, `shutdown`. When
the channel closes, the worker drains and exits. The *page* edits a document,
saves it as a revision in the *store*, has it checked, and starts a *run* of
that revision, which plans and fills tables. A *fill* takes the specification
of each column, creates a `DataStream` with a solver per table, and writes its
batches through an adapter whose settings it changes for the time of the fill.
The AI plugin produces rules for columns: from a model (*suggestions*), from
CHECKs and types, repaired and validated until they can be filled (*healing*).

What is hard here:

* threads of requests, jobs, commands and processes interleave between short
  critical sections, and a reservation outlives the thread that made it;
* calls to another process, to a server or to a model are lost, late or
  refused, and are retried by loops within loops;
* a page acts on what it has read: another tab, a schema change or its own
  next edit may overtake the answer;
* the row generator and the fill reserve, insert and commit in small steps, and
  must give back exactly their own on every failure path;
* rules for one column are rewritten by one pass after another, each of which
  looks at one constraint.

## 2. Modules

    ConnectionLeases         RemoteCalls               RowStream   (abstract)
       ^ refined by             ^ refined by              ^ refined by
    UIState, RuntimeGate     ControlChannel               DataStream, RowConstraints
         \   /
      WebRuntime    Supervisor   PackageManager   VersionChecks

    WorkspaceStore   WorkbenchRun   Analysis   WorkbenchPage

    PlanCheck   TableFill   SelfReference   TableRelations   ColumnSpecs
    Healing   Subgraphs   CheckPatterns   ColumnRules   ColumnRepair   Refinement

| Module | Models |
|---|---|
| `UIState` | `state.py` with every thread that enters it |
| `ConnectionLeases` | abstract: exclusive leases on connections and endpoints |
| `RuntimeGate`, `WebRuntime` | the gate; the registry behind it in a worker with commands and an HTTP server |
| `ControlChannel` | both ends of `worker_control.py`: callers, one reader, answer threads, send lock, full pipe |
| `RemoteCalls` | abstract: a call runs at most once on the other side and returns its own answer or a failure |
| `Supervisor` | the launcher's main thread, the page's request thread, the operation thread, their two locks, and the workers they replace |
| `PackageManager` | plans, their review and execution, the installer and its process group, the lock of the environment, other servers and other tools |
| `VersionChecks` | requests for a project's newest version that share reads, deadlines and a cache |
| `WorkspaceStore` | drafts shared by pages, with optimistic revisions, and the runs made of them |
| `WorkbenchRun` | one run from its request to its record and job, with faults of the workspace file, other writers and deaths of the process |
| `PlanCheck` | the layers, cycles and replacement plan of a run, and the statements of an accepted one |
| `Analysis` | an AI analysis: modal, worker, queue, stream, review, preview, application |
| `WorkbenchPage` | the workbench in the browser with another tab on the same drafts |
| `RowConstraints`, `DataStream` | the constraints of one table; `stream.py` with the exact mode of `constraints.py` |
| `RowStream` | abstract: what `generate` promises its caller |
| `TableFill` | `FillSession`, the adapter's transactions and the PRAGMA optimizer around one fill |
| `SelfReference` | the pass that links rows of a table to earlier ones |
| `TableRelations` | the order of tables and what a fill makes of their references |
| `ColumnSpecs` | the generator each column gets (`_resolve_specs` and what it calls) |
| `Subgraphs`, `Healing` | the split of the schema; the healer's rounds and levels, oscillation, degradation |
| `CheckPatterns` | the rules inferred from single- and cross-column CHECKs, matcher by matcher |
| `ColumnRules` | the passes over all rules of a table after inference |
| `ColumnRepair` | the first rules, `FastValidator`, `RepairExecutor` and the second validation |
| `Refinement` | the nested retry loops around a model, the dry run, the cache |
| `*Proofs` | theorems and their lemmas |
| `MC*` | instances for TLC; the `.cfg` files choose constants and properties |

Parts that share no state in the code are checked together: an MC module has
the variables of several modules, `part` says which of them a behaviour is
about, and the others stay where they start. `MCControl`, `MCWorkspace`,
`MCFill`, `MCRules` and `MCWorkbenchPage` EXTEND the modules that have theorems, so that the
property a run checks is the very definition a theorem states; that is why these
modules name their formulas after themselves (`RunInit`, `StoreNext`, `FillSpec`,
...). The others are instances. The type invariant and the lesser invariants of a module
are conjuncts of the property that names its main one.

A definition whose comment starts with "A mistake" is a plausible bug next to
the definition it would replace. Specifications do not use them; they show that
the properties can fail.

### The registry, the gate and the worker

`conn` stands for `_conns` and `_conn_locks` (whose keys come and go together;
identifiers are uuid4, so each is registered at most once), `lock` for the
per-connection locks, `owner` for `_operation_owners`, `job` for `_jobs`,
`adapter` for the connection inside the orchestrator (`_ensure_connected`
reopens on demand, which is why a query is an action). `req` and `wrk` are the
program counters of request and job threads. One action is one critical section
of `UIState._lock`, or the code between two of them where a query or an
adapter's close happens. Fill, workbench and auto-heal jobs differ as they do in
the code: a fill reserves its job and leaves, a workbench run first stores its
run, auto-heal holds no operation and no lock. `Target` is the *set* of
endpoints of a connection, since a multihost URL reserves each of its hosts.

`WebRuntime` adds `phase` (where the main thread and each command handler are),
`todo` (connections a restore or close loop has left), `http`, `exiting`,
`connected`, `released` and `exported`. `Launch` takes the lease *before* the
thread exists, as `start_background` does; `ReleaseLease` comes after
`JobCompletion`. The main thread goes restore, serve, drain, list, close, join,
exited; a busy connection raises out of `close_session` (`CloseRefused`).

Assumptions: `Serial`, TRUE in the runs, says that the supervisor sends one
command at a time and none after the worker stopped serving; the supervisor
serialises its operations with its lifecycle lock, but
`SupervisedPluginManager.execute` prepares and resumes under the manager's lock
only, and a supervisor that dies leaves whatever handler was running, so it is not
a theorem of the code. The runs therefore leave out a `resume` that still runs when
the drain begins. The theorems do not assume `Serial`: they name the step that this
race takes, and exclude only it (`GateStaysShut`, section 5). Disposing of an
engine does not raise. Maintenance workers and
`/api/settings/plugins/`, which use no connection, are not in `WebRuntime`.

### The channel and the supervisor

In `ControlChannel` a call is "new", "sending", "waiting" or "returned"; a side
has a set of threads that want its send lock, the writer that has it, a bounded
pipe, a reader that is in `recv_bytes` or dispatching, and answer threads. The
busy reply is sent by the reader itself, as in the code. In `Supervisor` each
worker has its life, its gate (`paused`, leases) and its session; commands and
reports travel and may be lost (`Slow` names what can time out), workers crash
or fail to start (`Faults`), users change the session (`Edits`), and a signal
may arrive (`MayStop`). What the installer does is one outcome here, and is
followed in `PackageManager`.

### Packages and versions

`PackageManager` is one manager in its environment. A tab asks for a plan (`plan`
is the one the manager keeps, `shown` what each tab was shown), an update is
reviewed by a thread that waits for the network, and `execute` takes the plan
whose identifier it is given. `step` follows the operation's thread: entering and
preparing, the download, the last look at the environment, the installer, its
verification, the end, and the recovery of a supervised manager. The lock of the
environment is a file that the installer's processes inherit, so that it stays
taken while any of them lives (`group`), after the manager gave up on them
(`unclean`) or died. What an installer writes is left open, at every moment it
runs, except that an uninstallation only removes; and other tools may change the
packages whenever they like (`meddled` remembers since when). A server that was
started where no installation tool is found takes no lock and is outside
`InstallersRunAlone`; a server that starts beside an installer is refused.
`VersionChecks` has the clock, the deadlines and the reads, which cannot be
stopped: a read past its deadline is discarded but keeps its place until its
thread ends.

### The workbench

A document is a set of changes, a draft has a revision, and `seen` and `acked`
are ghosts for what a page knew and was told. `WorkbenchRun` takes a run
through request checks, record, worker, second check, fill and close; `db`,
`staged` and `old` are the rows committed, pending and of before the run.
`WorkbenchPage` keeps the model's epoch, lifecycle version, dirty and saved
state, and each asynchronous function of the page as a flow with its captured
values; another tab saves, and the list of configurations renames and deletes. In
`Analysis` a proposal is the analysis it came from; constraints that tie columns are
sets of columns, and the group of a column, which `group_patches` computes with
parents and roots, is the smallest set with it that no constraint leaves (`Group`).

### Filling

`DataStream`: a *key* is the part of a row on the columns of one UNIQUE
constraint; one set `seen` stands for all of the solver's sets. `pc` follows
`generate`. The generator is a black box: a candidate is any value of
`Domain[c]` or an error. `TableFill` follows one or several fills through
`clear_before`, batches, failures of any statement, and the optimizer's
settings on each connection of the pool. A statement takes the next idle
connection and gives it back last, so the pool after k statements is the pool
turned by k, and each setting is read from, and written back to, the connection
at its place in the order of `PragmaProfile` (`Nth`, `Rotated`). `TableRelations` has rows as counts and
references as sets of keys. `ColumnSpecs`, `CheckPatterns`, `ColumnRules` and
`ColumnRepair` are algorithms over small integers: values of an integer column,
grid points of a real one, lengths of a text; each names its scale. They are
compared with what SQL says of the CHECKs.

### What is abstracted

In `Healing`, a rule has a head, what it draws from (generator, parameters,
`derive_from`, expression), and the rest (null ratio, constraints, provider), because
giving a column up restores the one and not the other. A column that is degraded takes along what derives from it: the least
set that is closed under the derivations (`Cascade`). A request
of `Refinement` reads the columns of its table once, when it begins, while the
table may be altered until it ends; what is refined is checked against that
reading. The cache file of an old version is served as it is (`LegacyFiles`).

Job labels, progress, snapshots, wording, serialization; the solver's
probabilistic mode, which the orchestrator never selects; prompts and answers,
which are any rule or error; SQL text. A regular expression of a matcher is the
SHAPE of check it recognises, an expression it builds is the set of values it
can produce.

## 3. Runs

| Run | Instance | States | Shows |
|---|---|---|---|
| `registry` | 2 connections, one multihost and sharing an endpoint; 2 requests; 2 jobs | 4.1 M | reservations are exclusive, operations hold their connection, refinement of `ConnectionLeases` |
| `web_runtime` | 2 connections, one in memory; 2 clients, main thread, 1 command thread, 1 job; serial | 2 M | the gate's promises in every interleaving with restore, drain and commands |
| `data_stream` | 4 columns (UNIQUE and sampled for coverage, nullable, derived, skipped), a composite, a CHECK, existing keys, 3 rows, budget 14 | 1 M | exact reservations, refinement of `RowStream` |
| `control` | supervisor: 2 requests, 2 faults, 1 edit, slow `prepare`, `shutdown`, boot, exit; channel: 3 calls, one slot of each kind, pipe of 1; packages: 2 tabs, another server, 2 plans and 2 starts, 1 change from outside, 1 write of the installer; versions: 2 requests, 2 reads | 1.5 M | safe package changes as reviewed, kept sessions, no late answers, refinement of `RemoteCalls` |
| `workspace` | 2 pages and 2 drafts, two changes a save may make and one it may not; a run of 3 tables of 2 rows, 2 changes, 2 faults, 1 death, a second server; 2 analyses of 3 tied columns | 1.2 M | no lost update, true counts, atomicity, kept outcomes |
| `rules` | plans of 3 tables; 5 worlds of the healer; every graph of 4 tables; every pair of CHECKs of which one is looked for with the other; every column kind; 5 ways to reach a model | 4.6 M | what is accepted can be filled |
| `fill` | 2 fills of 3 rows in batches of 2, a pool of 2 connections, `journal_mode` may refuse to be restored; 3 rows to link; 3 tables with every kind of reference; every column specification; every table of rules | 2.2 M | exact reports, settings, order, sound generators |
| `page` | one document through schema changes, lost answers and a run; two documents through links and another tab | 3.9 M | the page tells the truth, no edit is discarded |
| `liveness` | one connection and job; 2 rows; 2 calls, and 4 of two sides on full pipes; 2 requests and a fault; a run with faults and a death | 282 K | what must end, ends |
| `overflow_escapes`, `stop_deadlock`, `rename_adopts` | | | *violations*, see section 4 |

The properties, and the code they are about:

* `WriteExclusion`, `ReservedConnectionIsQuiet`: the reservation made by
  `create_job` holds from that moment until the worker has published, including
  the gap in which no thread holds the lock. `OperationsHoldTheirConnection`: no
  operation runs beside a close or another one.
* `IdleMeansQuiet`: the meaning of the gate's counters; everything that pauses
  relies on it. `ExportedSessionIsCurrent`: what `prepare` hands to the next
  worker is still the session when that worker restores it.
  `SessionCloseIsNeverRefused`, `ExitedWorkerLeftNothing`: shutting down
  completes and leaves no job or connection, as long as no resume opens the gate
  behind it.
* `InstallAlone`, `SessionKept`: packages change beside no business worker; the
  worker that serves has what users changed, or they have been told of the loss.
* `PackagesAsReviewed`: installers run alone, on the environment that was reviewed,
  with what the user was shown; a task that succeeded made that change and broke no
  requirement. `LateAnswersAreDropped`: a version that was read too late is neither
  shown nor cached, and one thread reads per project.
* `SeenIsExact`, `NothingLeftBehind`: keys are neither leaked nor freed early.
* `ConfirmedChangesSurvive`: optimistic revisions lose no update that was
  acknowledged. `CountsAreTrue`, `AllOrNothing`, `ErasedAsReviewed`: records tell
  what the database holds, atomic runs are atomic, and rows are deleted only on
  the state the user reviewed. `OutcomeIsKept`, `AppliedAsPreviewed`: the
  outcome of an analysis reaches its stream (with a queue of 2; the code's 16 are
  never filled by the 5 events of one analysis), tied rules are applied as one preview has shown them.
* `PageIsTruthful`: what counts as saved is saved, results and clearing plans
  shown belong to the document, runs are of what was seen. `NoEditIsDiscarded`: a
  document that makes way has been stored.
* `ReportIsExact`, `SettingsReturn`: a fill reports the rows it left and gives
  back the settings of the connection it worked on, whatever failed; excepted are a
  setting that SQLite refuses to change back and connections that a fill used along
  with another (section 4). `HierarchyIsSound`, `EveryTableIsFilled`:
  linked rows form a hierarchy that keeps keys and CHECKs; cycles that can be
  opened are.
* `SpecsFitTheSchema`, `EmittedRulesFit`, `RulesAreUsable` (`InferredValuesPass`
  and `RepairsHold`): a rule that leaves an algorithm draws values that the table
  accepts. `GraphsAreExact` (`AcceptedRunsNeverStarve` and `ComponentsAreExact`): an
  accepted plan can be carried out, and components are what they should be.
* `HealingIsSound`: a table the healer accepted passes its validation and no later
  table undoes that (`AcceptedIsValid`), a column it gave up draws from what it drew from
  before the model (`FailedReturnsToItsRule`), and the caller's columns that nothing
  reported, changed or marked as degraded come back (`CallersColumnsAreKept`).
* `RefusedIsNotRepeated`, `SuggestionFits`: retries make progress; no rules for
  other columns than the table has.
* `OrphanedWorkerExits`, `GenerationEnds`, `EveryCallReturns`, `PageAvailable`,
  `RecordEnds`: what must end, ends; a call unless the channel is jammed (section 4).

Bounds. Threads only interact through one connection or one endpoint at a time,
so two requests, two jobs and two connections exhibit every pairwise conflict.
`MaxRows` of 3 allows a batch after a failed one, a batch within a call and a
last short batch; `MaxTries` and `MaxRetries` are 2 instead of 100 and 1000,
which the code only compares with counters that start at 0. Two workers suffice
for a supervisor that forgets the one before last. Three tables are the smallest
number with a cycle beside a dependent table; four give two components with an
edge between. A column meets at most two CHECKs or strategies that can disagree,
so pairs are enumerated: of the CHECKs, every pair of which one matcher looks for the
other (`LooksFor`), in both orders. `page` keeps drafts of two revisions; an instance with three
(15.4 M states) has been checked too, and is too long to be a run. Every counter that the code leaves unbounded has a
constant that names its bound (`MaxFaults`, `MaxChanges`, `MaxEpoch`, ...).

The instances leave out, besides what section 4 names: a second fault of a recovery in
`liveness`; references of a table to itself in the graphs of `rules`, which are split
above 2 tables instead of the default 3; time-outs of the four calls over full pipes; a table with a nullable and a required
reference in `fill`, between which `core/relation.py:221-227` chooses; an alteration of
a table that keeps its columns' names between a suggestion and its use (the cache knows
names only); `journal_mode = OFF` of the aggressive level, with which SQLite does not
promise a rollback.

Deadlock checking is on where the system always has a step (`registry`,
`data_stream`); elsewhere the system may stop: a worker exits, a run is over, an
algorithm returns.

Fairness is weak and per thread: threads that have started are scheduled, timers
fire, the pipe delivers, a died process is started again (`liveness` only).
Nobody is obliged to send a request or a command, to close a channel, or to ask
for another batch. No strong fairness is used: acquisitions refuse instead of
waiting, and the send lock and the lifecycle lock are held for finite sections,
each with a step of its own. It is assumed that a query, a callback, a generator
or a call to a model returns.

## 4. What the code does not keep

Three runs refute a statement of the repository.

* `rename_adopts`. A rename from the list of configurations gives a cached
  document the revision it returned, although another tab has saved in between;
  the next save undoes that, and no conflict is shown.
* `stop_deadlock`. `stop()` joins the operation thread under the lifecycle lock;
  an operation accepted after the first join waits for that lock.
* `overflow_escapes`. `ContextOverflowError` at the shortest prompt is none of
  the exceptions that callers report.

The models contain the following as well, as properties that no run claims or
behind a constant whose name is given. `Odd` admits columns that the algorithms
do not handle.

| Where | What happens | To see it |
|---|---|---|
| `web/api.py:123` | a read that looked up its connection before a close reopens the adapter | `UIState!ClosedAdapterStaysClosed` |
| `web/managed_worker.py:131` | a `resume` that still runs when the channel closes reopens the gate behind the drain | `WebRuntime!DrainFinishesLeasesFirst`, `Serial = FALSE` |
| `web/supervised_plugins.py:85` | a `prepare` that times out leaves the worker paused | `Supervisor!PauseEnds`, `Slow = {"prepare"}` |
| `web/supervisor.py:261` | when both workers of a recovery fail, no page is left | `Supervisor!PageAvailable`, `Faults = 2` |
| `web/supervisor.py:304` | `stop()` gives up on a worker that drains too long | `Supervisor!StopWaits`, `Slow = {"exit"}`, `MayStop = TRUE` |
| `web/supervisor.py:86` | a report of an earlier worker speaks for its successor | `Supervisor!AdmissionConfirmed`, `LateReports = TRUE`, `Slow = {"boot"}`, 2 requests |
| `web/supervisor.py:152` | changes made after a `resume` whose answer was lost are forgotten | `Supervisor!SessionKept`, `Slow = {"resume"}`, 3 requests |
| `web/workbench_store.py:242` | a second server marks a live run as interrupted | `WorkbenchRun!InterruptedMeansGone` |
| `core/stream.py:936` | a parent drawn for a rejected row is missing from its round | `DataStream!CoverageIsBalanced` |
| `core/stream.py:618` | columns that are no source are regenerated | `DataStream!OnlySourcesAreRegenerated` |
| `database/optimizer.py:128` | with two connections in the pool, settings are restored on another one | `TableFill!SettingsReturn` without `c \in mixed` |
| `database/optimizer.py:148` | a PRAGMA that cannot be restored is logged, and the original value is forgotten | `TableFill!SettingsReturn` without `unrestored` |
| `web/worker_control.py:122` | with calls both ways and full pipes, both readers wait to answer busy, and nobody reads | `ControlChannel!EveryCallReturns` without `\/ <>Jammed` |
| `ai/auto_heal/_cross_column_checks.py` | rules for two CHECKs that disagree, listed below | `CheckPatterns!InferredValuesPass`, `Odd = TRUE` |
| `ai/healer/orchestrator.py:506` | a column given up gets its generator back, but keeps the `null_ratio`, constraints and provider of the model's patch (528-535), although the docstring (424-439) says that the inferred configuration is restored | `Healing!Restored` |
| `ai/auto_heal/degrader.py:173` | what derives from a degraded column is rewritten too, and a caller's column with it, which then no longer counts as the caller's (`ai/auto_heal/orchestrator.py:659`) | `Healing!Preserved` |
| `core/relation.py:163` | breaking one cycle puts a table outside it before its parent | `TableRelations!OnlyCyclesAreBroken` |
| `core/orchestrator/_specs.py:169` | a rule for a column's name is replaced by the fallback | `ColumnSpecs!BusinessHintsWin` |
| `ai/healer/oscillation.py:19` | one subgraph's history ends another's healing | `Healing!OscillationIsItsOwn` |
| `ai/healer/orchestrator.py:349` | columns healed at level 2 are dropped when another overflows | `Healing!HealedColumnsAreMerged` |
| `ai/repair/strategies.py`, `ai/auto_heal/orchestrator.py:1104` | telephone numbers of an exact length | `ColumnRepair!DigitsOfTheLength`, `ColumnRules`, `Odd = TRUE` |

Met while modelling and kept out of the instances, so that what is checked holds
of the rest:

* *Emitter* (`ai/auto_heal/orchestrator.py`): the stabilizer truncates bounds to
  integers (2326-2341); a text template `{...}` leaves the passes early
  (1014-1017); a restored fallback keeps `derive_from` beside a generator
  (2694-2765); a self-reference with `!=` or `NOT IN` is not restricted.
* *Inference* (`ai/auto_heal/_cross_column_checks.py`). `Breaks` names, for each pair
  of CHECKs, the rows of the other columns on which the rule is known to fail, and
  `rules` leaves out those rows only; with `Odd = TRUE` it has them.
  - The fallback of a conditional equality (2607-2621) with sibling bounds outside
    [step, 100]: [200, 500] becomes `random_int(100, 200)`.
  - Three-way (3389-3509) with a literal or a lower column on the wrong side of the
    source, where NULL alone would do: only `>` on reals knows (3422-3442). Strict
    bounds of a sibling are taken as if they were not.
  - A nullable order (638-656, 3717-3721) clamped into a range beyond the source.
  - Conditional comparisons (1722-1785, 2222-2282): a strict sibling `<` on the same
    column; `>` beside a nullable order, of which the first in the list decides.
  - A conditional NULL (420-480) beside `>` on integers draws from 0, which the
    sibling excludes.
  - The bounds of one category (2750-2856) are given to all, past a bound of the column.
  - Days apart (3348-3386, 3648) above 365: `random_int(lo, hi)` with `lo > hi` raises.
  - A NULL source of an order or of a two-way nullable order, and a NULL lower column:
    the expression compares with None, raises, and the fill ends with a configuration
    error (`core/stream.py:366-386`).
* *Repair*: a `max_value` of 0 counts as 9999 (`ai/validator/single_column.py:165`);
  pools are sized for 1000 rows (`ai/repair/strategies.py:384`); lengths above 20,
  start years beyond the cap, `!= 0` and inexact lengths are lost; the result of
  the second validation is dropped by one caller (`ai/auto_heal/orchestrator.py:2954`).
* *Specifications* (`core/`): a width without an upper length CHECK, a user's rule
  with `null_ratio` alone, UNIQUE on a choice found by name, a one-sided CHECK
  beyond a generator's default range, enrichment of columns with defaults.
* *Fill*: `clear_before` commits before references are resolved, which may fail
  (`core/orchestrator/_specs.py:183`); the raw adapter commits a partial batch
  when it restores settings (`database/raw_sqlite_adapter.py:320`); the shared
  pool of an association is keyed by the column's name only.
* *Suggestions*: some infrastructure errors are retried although `errors.py`
  means them not to be (158-185); a cache file without `_meta` is served
  unchecked (`LegacyFiles` with an answer for other columns); the key of the cache
  has column names only.
* *Packages*: a `recover` whose thread cannot start leaves its task "running"
  (`web/plugin_management.py`); a server started without an installation tool takes
  no lock.
* *Page*: opening by link the draft that is being edited may show an older
  revision (`js/pages/workbench.js:506-531`); a late rename or delete during a
  mount leaves the page loading.

## 5. What is proved

All proofs use only the assumptions declared with the constants, which say that
identifiers are distinct, that sets of threads are finite where they are
counted, and what types the configuration has; TLC evaluates each of them on the
instance of a run. Hypotheses on the behaviour stand in the theorem and are
named below. An invariant that a proof needs was first checked by TLC.

* `WebRuntimeProofs`, for the registry: `Invariance` (the invariant `IInv`), and from it
  `TypeCorrect`, `WritesAreExclusive`, `OperationsAreProtected`,
  `ReservedConnectionsAreQuiet`, `StartedWorkerIsAdmitted`, `ResultsAreFinal` (a
  job that has ended keeps its result) and the refinement
  `RegistryImplementsLeases`: each step of the registry opens, closes, grants or
  ends a lease of `ConnectionLeases`, or changes nothing a client sees.
  `WriteExclusion` alone is not inductive: it needs that a worker exists only for
  a running job, that a ticket (a reserved job not yet started) belongs to exactly
  one request, and that a held lock names a thread that is where it will release
  it. These are `WorkersMatchJobs`, `Ticketed`, `HoldersAreInside` and
  `ClosersHoldTheLock`.
* `WebRuntimeProofs`, for the worker: `IdleGateIsQuiet`, by an invariant `LeaseInv` that counts
  leases exactly (`LeasesAreExact`) and ties each running job to a thread or a
  request that carries it; then `SessionAlwaysCloses`, by
  `RuntimeInv`, which adds that whoever lists or closes connections does so
  behind a closed and idle gate. `ExportsStayCurrent` and `ExitsAreClean` rest on
  `SessionInv`: outside `restore_session` the runtime's own threads only ever
  close connections; while a session is being exported, or has been, and while
  the worker exits, the gate is closed and idle; and what the drain has yet to
  close is in the list it took. The three hold however commands overlap and whenever
  the channel is lost, and have one hypothesis on the behaviour,
  `[][GateStaysShut]_runtimeVars`: no step opens the gate while a thread has it closed
  and counts on that (a drain, a `close_session`, an export, an exit). The only code
  that could is the handler of a `resume`, or of a `prepare` that undoes its pause,
  that still runs when the drain begins (section 4); with
  `Serial = FALSE` the instance of `web_runtime` then violates
  `SessionCloseIsNeverRefused` and `ExitedWorkerLeftNothing`.
  `SerialCommandsKeepGateShut` derives the hypothesis where commands are serial, as
  in the runs. The steps of `UIState` are not proved again: each
  step of the runtime is a step of the registry or leaves it alone.
* `ControlProofs`, for the channel: the refinement `ChannelImplementsRemoteCalls` and
  `MessagesAreTheirCalls`, for any number of calls and any capacity. The
  refinement needs `ChannelInv`: a request is in one place at a time (its sender's
  thread, the writer, the pipe), and while it is there its handler has not begun
  and no refusal of it exists, so that nothing is handled twice or handled and
  refused; and a value or an error on its way, or stored, is the one its own
  handler produced. That its slots are taken by the calls and the answers that
  run, and no others, is a part of it. The assumptions are that there are two endpoints and that
  every call belongs to one of them.
* `ControlProofs`, for the supervisor: `SupervisorInvariance` and `PackagesAreInstalledAlone`, for
  any number of requests, faults and edits, whatever is slow. `SupervisorInv` says
  where each of the three threads can be while the phase, the task and the locks
  are what they are (`PlacesOK`, `LocksInOrder`), that there is one worker and that
  its mode is the one its place in the job calls for (`WorkerInOrder`), what
  `_business_ready` stands for (`FlagsInOrder`), and that a command is on its way
  only to a live worker, for a thread that waits for it (`CommandsInOrder`). The
  part `AdmissionConfirmed` of `InstallAlone` holds without late reports only
  (`ReadyIsTrue`); section 4 has the behaviour with them. `SessionsAreKept` has one
  hypothesis, `[][AdmissionInTime]`: no wait for the answer that admits a worker
  times out. Section 4 shows that without it the property fails. Its invariant
  `SessionInv` follows the latest change of the page from the worker into the
  answer to `prepare`, the supervisor and the next worker. A by-product of the proof:
  the branch of `restore_business` that keeps the worker it has (`Kept`) is never
  taken, since `_stop_worker` has cleared `_business_ready` before it is reached.
* `WorkspaceProofs`, for the store: `ConfirmedChangesAreKept` and its parts
  `SavesAreKept`, `RunsExecuteSavedDocuments`, `RevisionsNameDocuments`. The
  invariant speaks of snapshots, which are what a page displays, what a request to
  run has read and what a run holds: all snapshots of one revision of a draft
  agree, none is newer than the stored revision, and one of the stored revision
  equals the stored document. Whoever saves at the stored revision has therefore
  seen every change that the save replaces. The only assumption is that "none", the
  value of an empty page, is no draft.
* `WorkspaceProofs`, for a run: `RunCountsAreTrue`, `RunsAreAtomic` and
  `RowsAreErasedAsReviewed`, for any number of tables, rows, faults, deaths and
  second servers, from `RunInvariance`. The properties speak of what a run leaves;
  `RunInv` says how it gets there: in append mode the tables before the current one
  are done and committed in full and those after it untouched (`AppendInOrder`); an
  atomic run changes nothing but its transaction until the commit, and what it
  erased in it is what was reviewed (`AtomicInTransaction`); at the end the worker
  knows every count but those it declared unknown (`KnownAtTheEnd`); and the record
  never gets ahead of the worker (`RecordFollows`).
* `WorkspaceProofs`, for analyses: `OutcomesAreKept` and `TiedRulesAreSampled`, for any number of
  analyses and columns, any constraints between columns and any capacity of the
  queue, from `AnalysisInvariance`. That rules are applied as previewed needs to be
  followed backwards: from the document to the review (`ReviewIsSampled`), to the
  result that waits in a queue, to the candidate the worker is previewing. A review
  is applied by groups, and a constraint either lies in a group or does not meet
  it, so that what is chosen of a constraint is all of it or nothing.
* `WorkbenchPageProofs`: `PageStaysTruthful` and `EditsAreKept`, for any documents,
  drafts, tabs, lost answers and number of handlers that wait at once. Neither
  property says anything of the handlers, and both depend on them: `PageInv` says
  for each handler at its `await` that its ticket is not ahead of the document,
  that a ticket at the document's epoch comes with the document's content, and that
  what a save or a read was told is in a draft (`HandlersOK`); the same of the
  execution dialog and of the recovery (`DialogOK`); and where the page can be while
  each of them waits (`PlacesOK`). `EditsAreKept` needs no more. The part
  `RevisionIsKnown` needs `RenameInv`: a rename that the server has answered stored
  the content of the revision before it once more, and the page is still at that one.
  This is where the hypothesis `~LateRename` enters: renames and deletions build on
  the revision the page has, or is about to hear of from a save whose answer is on its
  way, and are answered before the page is mounted. Section 4 shows what happens
  without it. The proof corrected the model: with two revisions, as
  TLC had it, a rename could not meet a save whose answer is on its way, and
  `~LateRename` did not exclude that; with three, TLC finds it. The earlier
  `NoEditIsDiscarded` also excused what only a run held, which is not needed.
* `PackageProofs`: `PackagesChangeAsReviewed`, for any packages, requirements,
  indexes, tabs and servers. `PackageInv` says who can have the lock of the
  environment (`LockInv`) and the network (`NetworkInv`); what the place of the
  operation's thread says of the task, the service and the installer (`ThreadInv`);
  that plans with one identifier are one plan (`PlansInv`), which ties what is
  executed to what was shown; and that the packages are those of the plan's snapshot
  for as long as nobody interferes (`Unmeddled`). `LateAnswersNeverCount`, for any
  requests, reads and timeouts: `ChecksInv` adds which read has the place of the
  project (`ReadsFit`), which one each request waits for (`CallersFit`), and that a
  read that has not been given up has a request that waits as long as it may take
  (`Attended`).
* `AIPluginProofs`, for suggestions: `SuggestionsFit` and `RefusalsAreFinal` from
  `RefinementInvariance`, for any tables, answers, models and retries: what is cached
  passed the check for the columns it is filed under, and whatever was refused comes
  before what is asked for now in the order in which levels, models and forms are
  tried.
* `AIPluginProofs`, for healing: `HealingStaysSound`, for any columns, constraints
  between them, rounds and answers. `HealInv` adds that a patch, a queue and the
  reports are about the subgraph at work (`WithinSubgraph`), that later tables and the
  rules a round falls back to are of before the model (`OriginalRules`), and what the
  last look at the rules has read (`VerifiedRules`). The proof found a flaw in an
  earlier version of the model: a patch left over from one round made the end of
  level 2 merge where the code gives up. `Merge` now leaves none, as in the code.
* `FillProofs`, for fills: `ReportsAreExact`, for any number of rows, batch size, pool
  and sequence of fills, inside or outside a transaction of the caller, from
  `CountsInvariance`: before the insertions the counter is 0, after each stage it
  is at most what the table has gained, and exactly that unless a batch failed
  inside the caller's transaction. `SettingsAreGivenBack` has no hypothesis on the behaviour: whatever
  fails, for every pool, every cursor the caller keeps and every set of settings that
  SQLite may refuse, a setting that is not the connection's own after a fill is one
  whose restore was refused, or of a connection that was idle together with another
  when a fill used it. `SettingsInv` says that on a connection that is in neither case
  such settings are on the one idle connection, and that the optimizer remembers the
  original of all of them until they are back.
* `FillProofs`, for self-references: `HierarchyStaysSound`, for tables of any size
  and whatever is drawn. With the shapes of rows (`SelfShapes`) the property is
  inductive; what takes lemmas is that a row's identity is the row itself, that
  the row it is linked to comes before it, and that keys stay apart. It has the hypothesis `~Unlisted`: a CHECK that ties the reference to
  a kind in both directions comes with the list of the kinds, which is how the schema
  reader finds it; without the list the pass cannot know the rows that must have no
  parent.
* `DataStreamProofs`: `StreamInvariance` (the invariant `StreamInv`), and from it
  `ReservationsAreExact`, `FailuresLeaveNothing` and the refinement
  `StreamImplementsRowStream`. The invariant says that `seen` is the disjoint
  union of the accepted rows' keys and the current row's. Disjointness is what
  makes a rollback, which subtracts, exact, and it holds because a key is only
  reserved when it is fresh. Lemmas about keys of a table one row longer, and of
  a prefix, carry finalization and abort.

Only model-checked:

* the liveness properties, which are out of the prover's reach;
* `GraphsAreExact` and `RulesAreUsable` of `rules`, and `EveryTableIsFilled`,
  `SpecsFitTheSchema` and `EmittedRulesFit` of `fill`: they say what algorithms
  compute for every input of a bounded set. `PlanCheck`, `ColumnSpecs` and others
  use recursive operators, with which the prover has no arithmetic, and what a
  recursion computes would need induction over data.

## 6. What is not modelled

* *Values*: generators, providers, locales, templates, the parsing of
  configuration and of SQL. They have no state, and a model would be their text.
* *Prompts and answers* of models: any rule, any error.
* *Other engines*: the raw SQLite adapter, the bulk optimizers of MySQL and
  PostgreSQL, reflection, dialects.
* *Column order* (`core/column_dag.py`): `DataStream` takes its result as the
  numbering of columns.
* *Other pages*, settings files, diagnostics, CLI and MCP front ends; what an
  installer writes, the files of a task, the origin checks of requests; processes
  that a supervised worker starts and that inherit the lock of the environment.
* *Composite foreign key pairing* in the stream, whose values are any of the
  domain; the time budget of auto-heal; plugin hooks.

`PROJECT.json` lists every component with its status, every hazard with the
line where it bites, and the code that each definition stands for.

Next: `Supervisor` composed with `WebRuntime`, which would derive `Serial` where it holds; the workbench
page composed with `WorkspaceStore`.
