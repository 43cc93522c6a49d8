# A TLA+ model of oracle-schema-refresh

`oracle-schema-refresh` copies tables between two Oracle schemas. A Python process gives the
orders, Oracle does the work, and most of what can go wrong happens between the two: DDL that
commits, statements that fail halfway, processes that die, two commands that use one job.
This project models those parts in TLA+, checks them with TLC and proves the properties that
matter with TLAPS. Paths below are relative to the repository; `engine.py` and the others are
in `src/oracle_schema_refresh/`.

## The system

| Component | State | Operations | Model |
|---|---|---|---|
| Refresh engine, `engine.py` | the target schema (tables, rows, FK status), the session's transaction, the lists of a run | `run`, `_execute`'s five phases | `RefreshEngine` |
| Load strategies, `strategy/`, `executor/dpe.py` | staging tables, a parallel task, sequences | `pick_strategy`, `load`, `run_parallel_task` | `LoadStrategies` |
| Table order, `introspect.py` | a queue, a visited set, in-degrees | `discover_fk_parents`, `build_dependency_graph`, `topological_sort` | `TableOrder` |
| Job lifecycle, `oracdb_cli.py`, `state/` | `oracdb$jobs`, `oracdb$tables`, row locks | `plan`, `run`, `_worker`, `cancel`, `cleanup` | `JobLifecycle` |
| Waiting commands, `oracdb_cli.py` | a deadline | `wait`, `status --watch` | `Commands` |
| Reading commands, `oracdb_cli.py` | none | `verify`, `jobs list`, `logs`, `status` | no |
| Database links, `endpoints/dblink.py` | a private link per run | create, drop, `cleanup --leaked-dblinks` | `LoadStrategies` |
| Local files, `endpoints/registry.py`, `jobs_index.py` | two files | load, add, remove, save | `Commands` |
| Configuration, `config.py` | none | validators | the fields that change control flow, in `RefreshEngine` and `LoadStrategies` |
| `cli.py`, `oracdb_io.py`, `endpoints/endpoint.py` | none | options, output, one connect | no |

How they interact: `plan` orders the tables and writes a job; `run` and `_worker` read the job,
write RUNNING, and call the engine, which orders the tables again, loads them and polls a callback
before each one; the callback reads the job's row, which `cancel` writes. When the engine is
through, the run writes a record per table and the final status. The engine has connections of its
own, so its transactions and those of the job row are independent. `wait` and `status --watch`
poll the same row. `plan` and `cleanup` also edit the local index of jobs, from which every
command that is given a job id takes its target when `--target` is missing, and all of them look
endpoints up in the registry.

### What makes it hard, and what makes it correct

- *Engine.* TRUNCATE, ENABLE and ALTER SEQUENCE commit. A failure is caught in one place
  (a DatabaseError of a load), lets a run escape in all others, and is never followed by a
  rollback of its own. FKs are off from phase 3 to phase 5. Correct means: no enabled FK is
  violated; what a run reports as loaded is loaded, committed and stays so; success is not
  claimed over a failure; a run that returns has restored its FKs; a run touches neither FKs
  that were off before it nor, when dry, anything.
- *Loads.* A strategy is several statements; `chunked_staging` is also several sessions, and some
  of its statements commit. Correct means: whatever it does, the engine and the target schema see
  a load that succeeded, failed, or was never made; every row is staged once; what a successful
  load created it has dropped; sequences end up beyond the keys of their tables.
- *Jobs.* The status is read long before it is written, the lock lasts only until RUNNING is
  committed, a background run takes none, and updates of deleted rows do nothing. Correct
  means: RUNNING is always settled by somebody, DONE is earned and agrees with the records,
  a deletion is final, nobody waits for a load, every command ends.
- *Commands.* Files are read and written whole, without a lock, in two steps. A poll is old
  as soon as it is made. Correct means: an entry is lost to overlapping or interrupted saves only, the
  index names no job that was not committed, waiting ends, and a settled job is not reported as late.
- *Table order.* FK graphs have cycles, parents in other schemas, and parents listed twice.
  Correct means: parents first, nothing missing, nothing twice, refused exactly when there is
  a cycle, and always an end.

`PROJECT.json` lists each hazard at its line with the properties that cover it.

## The modules

    TargetSchema   <--implements--  RefreshEngine         what other sessions of the target see
    EngineCall     <--implements--  RefreshEngine         what the caller of engine.run sees
    RefreshEngine  <--implements--  LoadStrategies        the engine, and the inside of its loads
    EngineCall     <--implements--  JobLifecycle          a run command and the engine it calls
    JobRow         <--implements--  JobLifecycle          the row of a job, and who writes it
    JobRow         <--extends-----  Commands              the commands around that row
    TableOrder                                            phase 1

`TargetSchema`, `EngineCall` and `JobRow` are contracts: small specifications of what one side
promises and the other relies on. `RefreshEngine` is a specification of its own and the contract
of `LoadStrategies`, which has all its actions and splits its load in statements. `JobLifecycle`
has no phases and no target tables, only a call of `EngineCall` per run; it hides locks, records and
engines behind `JobRow`, and `Commands` relies on nothing else of a job than that.

### RefreshEngine

One action per database call that can fail, commit or be the last before a crash. `pc` names
the phase, `i` is the position of the loops over `table_order`. Rows are identities: row `r` of
a child refers to row `r` of its parent, so an FK holds when the rows of the child are a subset
of those of the parent. `rows` is what is committed; `pending` what the target session has
inserted and not committed; DDL is `Commit` followed by its effect.

| Code | Action |
|---|---|
| `run`, head of `_execute` | `StartRun`: connections, this run's SCN (`snap`) and configuration |
| phase 2 | `PrepareKeep`, `PrepareDrop`, `PrepareCreate` |
| phase 3 | `ReadConstraints`, `DisableConstraint`, `DisableDone` |
| phase 4, reverse loop | `Truncate` |
| phase 4, loop | `Cancel`, `SkipMissing`, `LoadDry`, `BeginLoad`; then `DirectLoad`, `ChunkedLoad` or `LoadFails`; then `CountsMatch`, `CountsDiffer` or `CountFails`; then `ResetSequences` or `ReadSequencesFails` |
| end of phase 4 | `FinishTransaction` (a step without effect in per_table mode) |
| phase 5 | `Reenable`, `ReenableRaises`, `ReenableDone` |
| an exception that nothing in `_execute` catches | `Raise`, which may happen, and `Refused`, which must |
| `finally` of `run` and of `session_dblink` | `Close` |
| the environment | `Crash`, `DropSourceTable` |

Every table may meet every strategy, and a strategy is one step: `DirectLoad` (`direct_copy` and
`parallel_dml`, which differ in speed only), `ChunkedLoad`, or `LoadFails`. `ImplicitCommit`
stands for the statements in between that commit. An INSERT may put in a subset of the snapshot (a
trigger of the target filters), which is what the comparison of counts is for.

### TargetSchema

What a session that only reads the target can tell of the runs: tables and FKs come and go, tables
are emptied, filled, each once and from one snapshot, while their FKs are off, and a run gives back
only FKs it has taken. `phase` is the phase of a run that writes (a dry one has none), and a
commit, wherever it comes from, is `Publish`. `RefreshEngine` implements it with `phase` from
`pc` and `owned` from `disabled_constraints` (`ImplementsTargetSchema`).

### EngineCall

`engine.run(check_cancellation=...)` for whoever calls it. A call is at a poll (`ask`), in a load,
or behind the last table (`finish`: the deferred commit and phase 5); it leaves one result per
table in `table_order`; a True at a poll cancels the table and all that are left (`Stop`); and it
may raise at any of these places, with all the results there too. In `RefreshEngine` there is one
caller, who may answer True at any poll. In `JobLifecycle` the callers are the run commands, and
True means that the row says CANCELLED.

### LoadStrategies

`RefreshEngine` with a second program counter, `step`, that moves while the engine stands at
`dispatch` or at `sequences`.

| Code | Action |
|---|---|
| `_dispatch_strategy`, `pick_strategy` | `EnterLoad`, `Pick` over the profiles a table may have, `AutoStrategy` with the thresholds of the code |
| `DirectCopyStrategy.load`, `ParallelDmlStrategy.load` | `Insert`, `InsertRefused` |
| `ChunkedStagingStrategy.load` | `CreateStaging` (one table each), `CreateTask`, `RunChunk`, `EndTask`, `Merge`, `DropStaging` (one each, failures swallowed) |
| the count that ends each strategy | `CountLoaded` |
| any statement that raises | `LoadRaises`: what was inserted stays pending, what was created stays |
| `_reset_identity_sequences` | `RestartSequence`, `RestartFails`, `EndSequences`, `SequencesRaise` |
| `session_dblink` | `OpenLink`, `CloseRun` (the DROP may fail) |
| `cleanup --leaked-dblinks`, of another terminal | `CleanupLinks` |

`loaded` is what the strategy has inserted and not committed, `staged` what the slaves have
committed to the staging tables, `leaked` what a load leaves behind. `RunChunk` is one transaction
of a slave: chunks run in any order, a chunk may fail, and the task comes back all the same. The
refinement (`Implements`) maps the inside of a load to stuttering; its one trick is `enginePc`:
once the DROP of a staging table has published the merge, the engine of the abstract module has
already gone on to the comparison of counts; what may still fail then is the strategy's last
count, and that is `CountFails` there.

### JobLifecycle

One job, its records and the locks of both, any number of `run` and `cleanup` commands and of
cancels. An action is what a process does between two commits or reads. `lock` is the session that
holds `SELECT ... FOR UPDATE`: `LockJob` takes it without waiting, the other writers of the row
wait (`RowFree`, `lock = NoOwner`), and a commit or the end of the process releases it. A run at
its end updates the records first (`LockRecords`) and then the row (`Report`); a cleanup deletes
the row first (`CleanupLocks`), and the records go by cascade (`CleanupDeletes`). Those orders are
opposite: the two can wait for each other (`Deadlock`), and Oracle raises ORA-00060 in one of them
(`BreakDeadlock`), which neither handles. The engine is seen through its callback (`GoOn`,
`StopOnCancel`), its results (`LoadTable`), its return once phase 5 is over (`EngineReturns`) and
its exceptions (`EngineRaises`): a call of `EngineCall` (`ImplementsEngineCall`). An update of a
record may fail and is then lost (`lost`), as in the code. A killed run, or one whose connection
breaks, is `Crash`.

### JobRow

The contract: a job is planned once, any run of it that begins writes RUNNING whatever the status
has become, a run that is going on has one last word or dies, a cancel and a delete come at any
time, and a deleted row stays deleted. `JobLifecycle` implements it with `running` as the runs
between RUNNING and their last commit (`ImplementsJobRow`).

### Commands

`JobRow` and, in each terminal, one command at a time as a process: `plan`, `cancel`, `cleanup`,
`endpoints add`, `endpoints remove`, `wait`, `status --watch`. `copy` is the file as the command
has read it; a save is `Truncate` and then `Write`, and a `Crash` in between leaves the file
empty. `plan` commits its job before it edits the index, and `cleanup` deletes before. A waiting
command goes `poll`, `decide`, `sleep`; `Expire` is the deadline of a `wait`, which passes
whenever it likes. What runs do to the row is `Execute` of `JobRow`. `due` and `clean` are history
variables, for one property only.

### TableOrder

Phase 1, one action per round of a loop. The deques are sets, so every order of equally ready
tables is covered. The lists of `graph` are sets of triples, whose last component tells apart
the entries that a table named twice in the configuration appends. The FK catalog does not
change during planning.

## What is checked

| Run | Instance | Distinct states | Shows |
|---|---|---|---|
| `engine` | 2 tables to load and one outside that refers to them, 2 FKs, 2 rows, 4 configurations, 2 source snapshots, 2 runs | 352,250 | all properties of `RefreshEngine`, among them that it implements `TargetSchema` and `EngineCall` |
| `load` | 2 tables and their FK, 2 rows, 2 staging tables, 10 profiles, a sequence, 2 configurations, 2 source snapshots, 1 run | 101,852 | all properties of `LoadStrategies`, among them that it implements `RefreshEngine` |
| `job` | 2 runs, 1 cleanup, 2 tables, any number of cancels | 231,245 | all properties of `JobLifecycle`, among them that it implements `JobRow` and `EngineCall` |
| `commands` | 2 terminals, 2 jobs, 1 run, 2 endpoints; any number of commands | 204,252 | all properties of `Commands` |
| `order` | 4 tables, 256 FK graphs of the schema, 4 namesakes, 4 requests, both settings of `auto_include_fk_parents` | 83,879 | all properties of `TableOrder` |

Why the bounds are enough. Two runs: the second one meets whatever the first one left, and a
third would find nothing else, since only the target schema is carried over. Two
loaded tables: one comes before the other in both loops, so each failure of the second happens after a
success of the first; the table outside makes TRUNCATE fail and RECREATE lose an FK of
somebody else. Two rows: a load can be partial and counts can differ. Four configurations:
each flag meets each mode or phase it changes. `MaxRuns` bounds the runs of a
behaviour, and `Finished` lets the engine idle after them; nothing else is bounded.

In `load` one run is enough: of what the module adds, only links, sequences and leaks outlive a
run, and no load reads them. Two chunks differ in outcome and order; two rows fall into different
staging tables, and one of the snapshots fills one staging table only. The profiles lie on both
sides of every threshold, in rows and in bytes. The configurations are per_table with a session
link and deferred without: a load reads neither but to find its link. Dry runs and
`recreate_tables` never reach a strategy, or reach it with the same tables.

In
`JobLifecycle` each command is given at most once per process, which bounds the overlap and not
the length of a run; `CHECK_DEADLOCK FALSE` is there because every command may have ended.

In `commands` the constant `Given` says which commands each terminal may be given: every two that
write one file can overlap, and so can `wait` and `status --watch` with `cancel` and `cleanup`;
nothing bounds how many are given one after the other. Two jobs, because one save must be able to
undo another's entry. A save writes one buffer: a file longer than that is not modelled.

Four tables hold every shape the algorithms treat differently: a chain, a diamond, a fork, a cycle
with and without a tail, a self-reference.

The properties:

- `EnabledFksHold`, `ReturnedRunRestoresFks`, `EnablesOnlyItsOwn`: FKs.
- `OkIsDurable`, `SuccessMeansSnapshot`, `EveryTableIsReported`: what a report is worth.
  `SuccessMeansSnapshot` excepts tables that are skipped because their source is gone: they are
  left truncated although the run succeeds.
- `DryRunTouchesNothing`, `EveryRunEnds`, and `RunsMoveForward`, the variant of a run's loops: each
  step leads to a later stage, round or place, takes a constraint off a list, or commits something.
- `ImplementsTargetSchema`, `ImplementsEngineCall`: what the readers of the target and the callers
  of the engine may rely on.
- `RunningWillBeSettled`, `DoneAgreesWithRecords`, `DoneIsEarned`, `DeletedIsGone`: the job row,
  under overlapping runs.
- `NoLockWhileLoading`, `EveryCommandEnds`: locks.
- `Implements`: `RefreshEngine`'s safety properties hold of the loads in detail.
  `ChunksPartitionSnapshot`, `OkLeavesNothing`, `RestartedIsAhead`: staging tables, tasks and sequences.
  `HeavierTableHeavierStrategy`: the thresholds of the picker, compared pair by pair. `EveryLoadEnds`.
- `ImplementsJobRow`: what `Commands` takes for granted about jobs.
- `EntryNamesAJob`, `OnlyOverlapsLoseUpdates`: the local files. The second says what the code
  gives and no more: two saves that overlap do lose updates, and a killed save loses the whole
  file.
- `EveryWaitEnds`, `SettledWhileAsleepIsReported`, `WatchersEndOnceSettled`: waiting. A `status
  --watch` over a job that a killed run left RUNNING polls forever; the third property is what is
  left to claim.
- `ParentsFirst`, `OrderIsComplete`, `RefusedIffCyclic`, `DiscoveryIsExact`, `PlanningEnds`: the
  order, against reference definitions (`Closed`, `Knotted`) that share nothing with the
  algorithms.

For each property `PROJECT.json` names a mutant of the code's model (a guard dropped, an off-by-one, a
missing reset) under which TLC finds it violated.

### Fairness

- `WF_vars(Proceed)`: a run is a process that keeps executing. `Raise`, `Crash`, `LoadFails`
  alone and `Cancel` are never relied on; `Proceed` is fair as a whole because the process takes
  some step, not a certain one.
- `WF_allVars(Progress)` in `LoadStrategies`: the same, with the slaves of a parallel task and
  `Close`. `LoadFault`, `CrashRun` and `CleanupLinks` are not part of it: no failure is relied on,
  but for `InsertRefused`, the one that must come when the source or its link is gone.
- `WF_vars(Run(p))` and `WF_vars(CleanUp(c))`: a command that has been given runs on, and a
  session that waits for a lock gets it when it is free. Nobody has to give a command.
- `WF_vars(BreakDeadlock)`: Oracle detects deadlocks.
- `WF_commandVars(Proceed(c))` and `WF_commandVars(Expire(c))` in `Commands`: a process goes on,
  and time passes. No run has to begin or to end, so a `wait` cannot rely on the job.
- `WF_vars(Plan)` in `TableOrder`: one thread.

### Where the code and its documentation disagree

Seven runs each refute one statement of the documentation. The counterexamples are in the
code, not in the abstraction; each is a sequence of calls that a test could replay.

| Run | What the documents say | What happens |
|---|---|---|
| `left_disabled_fks` | exit code 0: constraints re-enabled (README.md:150) | FKs that an interrupted run left disabled stay so under later successful runs |
| `known_bad_commit` | COMMIT iff counts match (config.example.yaml:20) | a load that raised after its INSERT is committed by the next commit; chunked_staging commits before the comparison |
| `deferred_batch` | otherwise ROLLBACK the batch (config.example.yaml:22) | the DDL of a sequence reset or of staging commits the batch so far |
| `two_executors` | two simultaneous runs can't both proceed (oracdb_cli.py:636) | they can: the status is read before the lock, which ends with the commit of RUNNING |
| `lost_cancel` | --resume re-runs CANCELLED jobs (oracdb_cli.py:540) | a cancel before RUNNING is overwritten |
| `orphaned_job` | kill it, move machines, resume (state/\_\_init\_\_.py:4) | a killed job is RUNNING and cannot be resumed |
| `spurious_cycle` | cross-schema parents are ignored (introspect.py:183) | not by `build_dependency_graph`: a namesake closes a cycle |

The first three start from a schema with every FK in force (`FreshSpec`), so that what they show is
the run's own doing.

## What is proved

`RefreshEngineProofs`, `TargetSchemaProofs`, `LoadStrategiesProofs`, `JobLifecycleProofs`,
`CommandsProofs` and `TableOrderProofs` prove, for every value of the constants, every safety
property, action property and refinement the passing runs check. `EngineCallProofs` and
`CompositionProofs` prove what follows from those. The theorems are listed in `PROJECT.json`. The assumptions
are those of the modules, which TLC evaluates on each run: an order without repetitions over known
tables, FKs between known tables, finitely many rows and tables, at least one chunk, hashes and
keys that are numbers, a `NoOwner` that is no process, at least one table per job, two different
endpoints.

- *Engine.* `EnabledFksHold` is not inductive: a commit could publish rows of a child with an
  enabled FK. `FkInv` adds that from the end of phase 3 to phase 5 no FK of the run's
  tables is enabled and that a table with an enabled FK has no pending rows. `LoadInv` adds, for
  durability, that a table is empty from its TRUNCATE to its load, has no status before its
  turn, and gets rows of its snapshot only; equal counts then mean equal rows
  (`EqualCountsEqualRows`, from a fact about cardinalities of finite sets). `ReportInv` follows
  the deferred transaction until it is committed. `RestoreInv` and `OwnershipInv` say what the loops of
  phases 3 and 5 have settled and still owe.
- *The engine's contracts.* `PublishInv` says what a commit can publish at any moment: rows of the
  snapshot, for tables of the run that are empty; with `FkInv`, `LoadInv` and `OwnershipInv` each
  step is one of `TargetSchema` or none (`EngineKeepsTargetSchema`). What a reader is promised
  (`ReadersSeeOneSnapshot`) is proved of `TargetSchema` alone. `EngineKeepsCall` needs that the
  results are those of the positions before `i` (`CallTurn`, from `LoadInv` and `ReportInv`) and
  that a run has an outcome when it is over and not before (`OutcomeInv`). `RunsHaveVariant` is
  what can be proved of termination: the order it uses is well-founded, because stages and rounds
  are bounded and a schema has finitely many FKs and tables, so a run that does not stop steps only finitely often; that it
  does not get stuck either is `EveryRunEnds`, which TLC checks.
- *Loads.* `StepInv` says which `step` is possible at which `pc` of the engine, `DataInv` what is
  staged, loaded and published at each `step`, `LeftoverInv` which staging tables and which task
  exist; `ChunksPartition` follows from the second. `LeakInv` adds that a table that left a
  staging table nobody tried to drop, or a task, has failed, or died with the process, and needs
  that a table is loaded at most once in a run (`TurnStep`, `FailedStaysFailed`). `RestartInv`
  says that a sequence is restarted after its table's load, to which nothing is added any more
  (`OnlyLoadsAddRows`); that `MAX + 1` exceeds every key needs a greatest element of a finite set
  (`FiniteIsBounded`, from the well-foundedness of the naturals). `LoadImplementsEngine` goes
  action by action: the actions of `RefreshEngine` are the same under the mapping where nothing is
  published (`SameSteps`), and the inner ones are a step of the engine or none (`InnerSteps`).
- *Jobs.* Each property rests on what a run holds at each `pc`. The step that takes most work is
  `Report`: the records it writes are those of the status it writes (`ReportDone`).
  `JobImplementsRow` needs that nothing happens to a job before it is planned (`PlannedFirst`),
  and that both processes of a broken deadlock take a step that `JobRow` knows
  (`DeadlockIsBroken`, `RowStep`). `TurnInv` says which results a run has at which `pc`; from it
  `JobCallsEngine` shows that every run calls the engine as `EngineCall` says, and
  `JobTakesAnyEngine` the converse, that the job's engine may do whatever `EngineCall` allows (a table
  that is skipped at the poll takes two steps there instead of one). The two together are why `JobLifecycle` may leave the inside of the engine out.
  `ReportsAreWhole` is proved of `EngineCall` alone, and `JobReportsAreWhole` carries it over to
  what `_execute_job` mirrors to the records.
- *Commands.* `PlannedOnly` adds to `EntryNamesAJob` that copies in memory and the commands in the
  terminals name planned jobs, since an old copy may be written back at any time. `CleanSaves`
  says, for a file whose history is clean, that at most one save is between truncation and write,
  and that its copy is what the saves before it come to. `CommandsKeepRow` shows that the commands
  do to a row only what `JobRow` allows.
- *Table order.* `PlanInvariant` says that at each moment of the sort a table's in-degree is the
  number of its entries that name a table not yet placed (`InDegreeCounts`), that the queue is
  the unplaced tables with no such entry (`QueueIsReady`), and that no set of placed tables
  is knotted (`NoKnotOrdered`). When the queue is empty, the unplaced tables each have a parent among
  themselves: that is the cycle a refusal reports. The walk over the FKs has an
  invariant of its own: every set closed under own parents that holds the seeds holds the tables found.

The theorems compose, and `CompositionProofs` does it. By `LoadImplementsEngine` a behaviour of
`LoadSpec`, seen through the mapping, is one of `RefreshEngine`'s `SafeSpec`, and the theorems of
the engine are proved of `SafeSpec`, without fairness (`SameRuns`, `LoadIsRun`). The mapping
leaves the target, the results and the outcome alone and differs in `pc` only within a load
(`SamePhase`), so integrity, durability, honest reports, restored FKs and both contracts hold of
the runs statement by statement (`LoadsAreSafe`, `LoadsKeepOff`, `LoadsKeepTargetSchema`,
`LoadsKeepEngineCall`). `SuccessIsUsable` joins them with what only the loads know: after a
successful run a table holds its snapshot, nothing of its load is left over that was not tried to be
dropped, and its restarted sequence is ahead of its keys.

Only model-checked: the liveness properties `EveryRunEnds`, `EveryLoadEnds`, `EveryCommandEnds`,
`EveryWaitEnds`, `SettledWhileAsleepIsReported`, `WatchersEndOnceSettled` and `PlanningEnds`,
which need fairness, ENABLED or a nested temporal premise, out of this prover's reach. That the
mutants violate, and what the seven runs refute, is TLC's too. None of the modules has a recursive
definition, so nothing about recursion is left open.

## Not modelled, and why

- Text: DDL, column lists, hints, envelopes, logs. With it goes what only the text decides: the
  nested `q'[...]'` literals of `dpe.py` and the bind `:scn` of the chunks' SQL, which no
  statement there binds; in the model such a task or chunk is one that fails. The error column
  that is too short for multi-byte text (`state/schema.py:31`) is a `Crash` at `fail`.
- Source rows that change during a run: every read of a run is at one SCN, so a snapshot
  stands for the source. Undo that has expired is `CountFails`, `LoadFails` or a chunk that fails.
- `verify` and a job's own SCN: it compares with the SCN of `plan`, while a run takes its own;
  nothing in the repository says what the comparison is worth then. `jobs list`, `logs` and plain
  `status` change nothing; `copy` is the engine without a job.
- A sequence that feeds two tables, which the second restart may set back below the keys of the
  first: a sequence belongs to one table here.
- What an endpoint's name points to, passwords, and files longer than one write.
- Other sessions that write to the target tables during a run: README.md excludes them.
- Two engines on the same target tables at once: `JobLifecycle` shows that it can happen
  (`two_executors`); each engine's module has one target session, and what two of them do to each
  other's rows is Oracle's locking of DDL, which the code does not handle in any way.
- Durations, error texts, timestamps, and the counts in the records.
- `schema-refresh` (`cli.py`) is one call of the engine; `oracdb_io.py` formats;
  `Endpoint.connect` is I/O.

## Running it

    tlc -config RefreshEngine.cfg MCRefreshEngine      # likewise the others, see PROJECT.json
    tlapm RefreshEngineProofs.tla                       # likewise the others
