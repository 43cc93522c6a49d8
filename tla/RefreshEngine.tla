---------------------------- MODULE RefreshEngine ----------------------------
(***************************************************************************)
(* The five-phase refresh of engine.py: RefreshEngine.run and _execute,    *)
(* and the strategies _dispatch_strategy calls, one action per database    *)
(* call that can fail, commit or be the last one before a crash.           *)
(*                                                                         *)
(* Data is abstracted to sets of rows.  A row r of a child refers to the   *)
(* row r of its parent, so an FK holds when the child's rows are a subset  *)
(* of the parent's.  rows is what is committed, pending what the target    *)
(* session has inserted and not yet committed; every DDL statement commits *)
(* the session's pending rows before it does anything else.                *)
(***************************************************************************)
EXTENDS Integers, FiniteSets

CONSTANTS
    Tables,     \* tables of the target schema
    N, Order,   \* table_order: N tables, parents first (TableOrder)
    FKs,        \* names of the FK constraints between target tables
    Child, Parent,  \* the table an FK is declared on, and the one it refers to
    Rows,       \* row identities
    SeqTables,  \* tables with a sequence the server can RESTART
    Configs,    \* the configurations a run may have
    Snapshots,  \* what the source may hold at a run's SCN
    MaxRuns     \* bound on the runs of a behaviour

Modes == {"per_table", "defer_insert_commits"}

ConfigType ==
    [mode : Modes, recreate : BOOLEAN, dry : BOOLEAN, session : BOOLEAN]

ASSUME TablesAssumption ==
    /\ N \in Nat \ {0}
    /\ Order \in [1..N -> Tables]
    /\ \A i, j \in 1..N : Order[i] = Order[j] => i = j

ASSUME SchemaAssumption ==
    /\ Child \in [FKs -> Tables]
    /\ Parent \in [FKs -> Tables]
    /\ SeqTables \subseteq Tables

ASSUME RunAssumption ==
    /\ IsFiniteSet(Rows)
    /\ Configs \subseteq ConfigType
    /\ Snapshots \subseteq [Tables -> SUBSET Rows]
    /\ MaxRuns \in Nat

VARIABLES
    tables,     \* target tables that exist
    rows,       \* committed rows of each target table
    fk,         \* status of each FK on the target
    srcTables,  \* requested tables that exist in the source schema
    pending,    \* rows inserted by the run's target session, uncommitted
    pc,         \* where _execute stands
    i,          \* position in table_order
    cfg, snap,  \* the run's configuration and its SCN snapshot
    todo,       \* constraints a phase 3 or phase 5 loop has still to visit
    disabled,   \* disabled_constraints
    results,    \* table_results: the status of each table
    success,    \* overall_success
    outcome,    \* how the last run ended
    runs        \* runs started so far

target == <<tables, rows, fk>>
vars == <<tables, rows, fk, srcTables, pending, pc, i, cfg, snap, todo,
          disabled, results, success, outcome, runs>>

Loaded == {Order[j] : j \in 1..N}
Current == Order[i]
NothingPending == [t \in Tables |-> {}]
WithPending == [t \in Tables |-> rows[t] \cup pending[t]]

TypeOK ==
    /\ tables \subseteq Tables
    /\ rows \in [Tables -> SUBSET Rows]
    /\ fk \in [FKs -> {"ENABLED", "DISABLED", "ABSENT"}]
    /\ srcTables \subseteq Loaded
    /\ pending \in [Tables -> SUBSET Rows]
    /\ pc \in {"idle", "prepare", "recreate", "read_fks", "disable", "truncate",
               "check", "dispatch", "validate", "sequences", "finish",
               "reenable", "close"}
    /\ i \in 1..N
    /\ cfg \in ConfigType
    /\ snap \in [Tables -> SUBSET Rows]
    /\ todo \subseteq FKs
    /\ disabled \subseteq FKs
    /\ results \in [Tables -> {"none", "ok", "failed", "skipped", "cancelled"}]
    /\ success \in BOOLEAN
    /\ outcome \in {"none", "running", "returned", "raised", "crashed"}
    /\ runs \in 0..MaxRuns

(* A target schema before the first run: an FK exists where both its tables *)
(* do, and Oracle has kept every enabled FK satisfied.                      *)
Init ==
    /\ tables \in SUBSET Tables
    /\ rows \in [Tables -> {{}, Rows}]
    /\ \A t \in Tables \ tables : rows[t] = {}
    /\ fk \in [FKs -> {"ENABLED", "DISABLED", "ABSENT"}]
    /\ \A c \in FKs :
         /\ fk[c] = "ABSENT" <=> {Child[c], Parent[c]} \cap tables # {Child[c], Parent[c]}
         /\ fk[c] = "ENABLED" => rows[Child[c]] \subseteq rows[Parent[c]]
    /\ srcTables = Loaded
    /\ pending = NothingPending
    /\ pc = "idle" /\ i = 1
    /\ cfg \in Configs /\ snap \in Snapshots
    /\ todo = {} /\ disabled = {}
    /\ results = [t \in Tables |-> "none"]
    /\ success = FALSE /\ outcome = "none" /\ runs = 0

-----------------------------------------------------------------------------
(* What Oracle does with the session's transaction.                         *)

Commit == rows' = WithPending /\ pending' = NothingPending
Rollback == pending' = NothingPending /\ UNCHANGED rows

(* MUTANT: the loop runs one past the end of table_order.                   *)
MutantAdvance(here, next) ==
    IF i <= N THEN i' = i + 1 /\ pc' = here ELSE i' = 1 /\ pc' = next

(* The for loop over table_order: the next table, or the next phase.        *)
Advance(here, next) ==
    IF i < N THEN i' = i + 1 /\ pc' = here ELSE i' = 1 /\ pc' = next

(* MUTANT: overall_success is not cleared when a table fails.               *)
MutantRecord(status) ==
    /\ results' = [results EXCEPT ![Current] = status]
    /\ UNCHANGED success
    /\ Advance("check", "finish")

(* A result is appended and the load loop goes on.                          *)
Record(status) ==
    /\ results' = [results EXCEPT ![Current] = status]
    /\ success' = (success /\ status # "failed")
    /\ Advance("check", "finish")

RunFrame == UNCHANGED <<cfg, snap, srcTables, runs>>
LoadFrame == RunFrame /\ UNCHANGED <<tables, fk, todo, disabled, outcome>>
PrepareFrame ==
    RunFrame /\ UNCHANGED <<pending, todo, disabled, results, success, outcome>>

-----------------------------------------------------------------------------
(* run and the head of _execute: the connections are opened and the SCN of  *)
(* this run is captured.                                                    *)
StartRun ==
    /\ pc = "idle" /\ runs < MaxRuns
    /\ runs' = runs + 1
    /\ cfg' \in Configs /\ snap' \in Snapshots
    /\ pc' = "prepare" /\ i' = 1
    /\ todo' = {} /\ disabled' = {}
    /\ results' = [t \in Tables |-> "none"]
    /\ success' = TRUE /\ outcome' = "running"
    /\ UNCHANGED <<target, srcTables, pending>>

(* Phase 2: nothing to do, the source table is missing or the target table  *)
(* keeps its structure.                                                     *)
PrepareKeep ==
    /\ pc = "prepare"
    /\ Current \in srcTables =>
         (Current \in tables /\ ~cfg.recreate) \/ cfg.dry
    /\ Advance("prepare", "read_fks")
    /\ UNCHANGED target /\ PrepareFrame

(* DROP TABLE ... CASCADE CONSTRAINTS: the FKs on and to the table go too.  *)
PrepareDrop ==
    /\ pc = "prepare" /\ cfg.recreate /\ ~cfg.dry
    /\ Current \in srcTables \cap tables
    /\ tables' = tables \ {Current}
    /\ rows' = [rows EXCEPT ![Current] = {}]
    /\ fk' = [c \in FKs |->
                IF Current \in {Child[c], Parent[c]} THEN "ABSENT" ELSE fk[c]]
    /\ pc' = "recreate" /\ UNCHANGED i
    /\ PrepareFrame

(* CREATE TABLE from the source's DDL, which carries no FK.                 *)
PrepareCreate ==
    /\ pc \in {"prepare", "recreate"} /\ ~cfg.dry
    /\ Current \in srcTables \ tables
    /\ tables' = tables \cup {Current}
    /\ Advance("prepare", "read_fks")
    /\ UNCHANGED <<rows, fk>> /\ PrepareFrame

(* Phase 3: the FKs of the run's tables are read once, with their status.   *)
ReadConstraints ==
    /\ pc = "read_fks"
    /\ todo' = {c \in FKs : Child[c] \in Loaded /\ fk[c] = "ENABLED"}
    /\ pc' = "disable"
    /\ RunFrame
    /\ UNCHANGED <<target, pending, i, disabled, results, success, outcome>>

DisableConstraint(c) ==
    /\ pc = "disable" /\ c \in todo
    /\ fk' = IF cfg.dry THEN fk ELSE [fk EXCEPT ![c] = "DISABLED"]
    /\ todo' = todo \ {c} /\ disabled' = disabled \cup {c}
    /\ RunFrame
    /\ UNCHANGED <<tables, rows, pending, pc, i, results, success, outcome>>

DisableDone ==
    /\ pc = "disable" /\ todo = {}
    /\ pc' = "truncate" /\ i' = N
    /\ RunFrame
    /\ UNCHANGED <<target, pending, todo, disabled, results, success, outcome>>

MutantTruncates == Current \in tables  \* MUTANT: the dry_run guard is missing
Truncates == Current \in tables /\ ~cfg.dry

(* MUTANT: the reverse loop does not move to the next table.                *)
MutantStepBack == IF i > 1 THEN UNCHANGED <<i, pc>> ELSE i' = 1 /\ pc' = "check"

(* The for loop over reversed(table_order).                                 *)
StepBack ==
    IF i > 1 THEN i' = i - 1 /\ UNCHANGED pc ELSE i' = 1 /\ pc' = "check"

(* Phase 4, children first.  Oracle refuses to truncate a table an enabled  *)
(* FK refers to (ORA-02266, see Refused).                                   *)
TruncateBlocked(t) == \E c \in FKs : Parent[c] = t /\ Child[c] # t /\ fk[c] = "ENABLED"

Truncate ==
    /\ pc = "truncate"
    /\ Truncates => ~TruncateBlocked(Current)
    /\ rows' = IF Truncates THEN [rows EXCEPT ![Current] = {}] ELSE rows
    /\ StepBack
    /\ LoadFrame /\ UNCHANGED <<pending, results, success>>

-----------------------------------------------------------------------------
(* Phase 4, parents first: one round of the load loop per table.            *)

(* MUTANT: the slice of remaining tables starts after the current one.      *)
MutantRemaining == {Order[j] : j \in i+1..N}
Remaining == {Order[j] : j \in i..N}

(* check_cancellation answered True: this table and the rest are cancelled. *)
Cancel ==
    /\ pc = "check"
    /\ results' = [t \in Tables |-> IF t \in Remaining THEN "cancelled" ELSE results[t]]
    /\ success' = FALSE
    /\ pc' = "finish"
    /\ LoadFrame /\ UNCHANGED <<rows, pending, i>>

SkipMissing ==
    /\ pc = "check" /\ Current \notin srcTables
    /\ Record("skipped")
    /\ LoadFrame /\ UNCHANGED <<rows, pending>>

LoadDry ==
    /\ pc = "check" /\ Current \in srcTables /\ cfg.dry
    /\ Record("ok")
    /\ LoadFrame /\ UNCHANGED <<rows, pending>>

BeginLoad ==
    /\ pc = "check" /\ Current \in srcTables /\ ~cfg.dry
    /\ pc' = "dispatch"
    /\ LoadFrame /\ UNCHANGED <<rows, pending, i, results, success>>

(* Statements in the middle of a table's load that commit what is pending:  *)
(* CREATE of a staging table, ALTER SEQUENCE ... RESTART.                   *)
ImplicitCommit ==
    /\ \/ pc = "dispatch"
       \/ pc = "sequences" /\ Current \in SeqTables
    /\ Commit
    /\ LoadFrame /\ UNCHANGED <<pc, i, results, success>>

(* direct_copy and parallel_dml: one INSERT ... SELECT AS OF SCN.  Triggers *)
(* of the target may keep rows out: that is what the row count looks for.   *)
(* The source table may have gone since its rows were read.                 *)
DirectLoad ==
    /\ pc = "dispatch" /\ Current \in tables
    /\ \E inserted \in SUBSET snap[Current] :
         pending' = [pending EXCEPT ![Current] = @ \cup inserted]
    /\ pc' = "validate"
    /\ LoadFrame /\ UNCHANGED <<rows, i, results, success>>

(* chunked_staging: the DROP of the staging tables commits the merge.       *)
ChunkedLoad ==
    /\ pc = "dispatch" /\ Current \in tables
    /\ \E merged \in SUBSET snap[Current] :
         rows' = [WithPending EXCEPT ![Current] = @ \cup merged]
    /\ pending' = NothingPending
    /\ pc' = "validate"
    /\ LoadFrame /\ UNCHANGED <<i, results, success>>

(* The strategy raises a DatabaseError the loop catches: before its INSERT, *)
(* or after it, from the row count that ends every strategy.  Nothing is    *)
(* rolled back.                                                             *)
LoadFails ==
    /\ pc = "dispatch"
    /\ \/ UNCHANGED <<rows, pending>>
       \/ /\ Current \in tables
          /\ \E inserted \in SUBSET snap[Current] :
               pending' = [pending EXCEPT ![Current] = @ \cup inserted]
          /\ UNCHANGED rows
       \/ Commit
    /\ Record("failed")
    /\ LoadFrame

Match == Cardinality(WithPending[Current]) = Cardinality(snap[Current])

(* MUTANT: the per_table commit is forgotten.                               *)
MutantCommitPerTable == UNCHANGED <<rows, pending>>
CommitPerTable ==
    IF cfg.mode = "per_table" THEN Commit ELSE UNCHANGED <<rows, pending>>

CountsMatch ==
    /\ pc = "validate" /\ Current \in srcTables /\ Match
    /\ CommitPerTable
    /\ pc' = "sequences"
    /\ LoadFrame /\ UNCHANGED <<i, results, success>>

CountsDiffer ==
    /\ pc = "validate" /\ Current \in srcTables /\ ~Match
    /\ IF cfg.mode = "per_table" THEN Rollback ELSE UNCHANGED <<rows, pending>>
    /\ Record("failed")
    /\ LoadFrame

(* A row count raises (ORA-01555, a call timeout, the source table has      *)
(* gone): caught, not rolled back.                                          *)
CountFails ==
    /\ pc = "validate"
    /\ Record("failed")
    /\ LoadFrame /\ UNCHANGED <<rows, pending>>

SourceGone == CountFails /\ Current \notin srcTables

(* The sequences have been restarted (see ImplicitCommit), or what failed   *)
(* has been swallowed.                                                      *)
ResetSequences ==
    /\ pc = "sequences"
    /\ Record("ok")
    /\ LoadFrame /\ UNCHANGED <<rows, pending>>

(* get_identity_columns raises (what else can fail here is swallowed): the  *)
(* table that has just been loaded is recorded as failed.                   *)
ReadSequencesFails ==
    /\ pc = "sequences"
    /\ Record("failed")
    /\ LoadFrame /\ UNCHANGED <<rows, pending>>

(* MUTANT: phase 5 visits every disabled FK of the tables, not this run's.  *)
MutantToReenable == {c \in FKs : Child[c] \in Loaded /\ fk[c] = "DISABLED"}
ToReenable == disabled

(* The end of phase 4 in defer_insert_commits mode.                         *)
FinishTransaction ==
    /\ pc = "finish"
    /\ IF cfg.dry \/ cfg.mode = "per_table" THEN UNCHANGED <<rows, pending>>
       ELSE IF \E t \in Tables : results[t] = "failed" THEN Rollback ELSE Commit
    /\ pc' = "reenable" /\ todo' = ToReenable
    /\ RunFrame /\ UNCHANGED <<tables, fk, i, disabled, results, success, outcome>>

-----------------------------------------------------------------------------
(* Phase 5: ENABLE VALIDATE of the constraints this run disabled.           *)
MutantValidates(c) == TRUE  \* MUTANT: ENABLE NOVALIDATE
Validates(c) == WithPending[Child[c]] \subseteq WithPending[Parent[c]]

(* MUTANT: ORA-02298 is logged and success is left alone.                   *)
MutantVerdict(c) == UNCHANGED success
Verdict(c) == success' = (success /\ Validates(c))

Reenable(c) ==
    /\ pc = "reenable" /\ c \in todo
    /\ todo' = todo \ {c}
    /\ IF cfg.dry
         THEN UNCHANGED <<rows, pending, fk, success>>
         ELSE /\ Commit
              /\ fk' = [fk EXCEPT ![c] = IF Validates(c) THEN "ENABLED" ELSE @]
              /\ Verdict(c)
    /\ RunFrame /\ UNCHANGED <<tables, pc, i, disabled, results, outcome>>

(* An error other than ORA-02298 leaves the loop; the DDL has committed.    *)
ReenableRaises ==
    /\ pc = "reenable" /\ todo # {} /\ ~cfg.dry
    /\ Commit
    /\ pc' = "close" /\ outcome' = "raised" /\ success' = FALSE
    /\ RunFrame /\ UNCHANGED <<tables, fk, i, todo, disabled, results>>

ReenableDone ==
    /\ pc = "reenable" /\ todo = {}
    /\ pc' = "close" /\ outcome' = "returned"
    /\ RunFrame
    /\ UNCHANGED <<target, pending, i, todo, disabled, results, success>>

(* An exception nothing in _execute catches goes up to run.                 *)
Escape ==
    /\ pc' = "close" /\ outcome' = "raised" /\ success' = FALSE
    /\ RunFrame /\ UNCHANGED <<target, pending, i, todo, disabled, results>>

(* It may come from any DDL or catalog query outside the try block, and     *)
(* from a ValueError of the dispatch (no common column, a LONG column, a    *)
(* strategy that is not implemented).                                       *)
Raise ==
    /\ pc \in {"prepare", "recreate", "read_fks", "disable", "truncate",
               "check", "dispatch", "finish"}
    /\ Escape

(* It must come when Oracle refuses the TRUNCATE, or when the source table  *)
(* has gone since it was looked up: no DDL to copy, or no common column.    *)
Refused ==
    /\ \/ pc = "truncate" /\ Truncates /\ TruncateBlocked(Current)
       \/ pc = "recreate" /\ Current \notin srcTables
       \/ pc = "dispatch" /\ Current \notin srcTables \cap tables
    /\ Escape

(* The context managers and the finally of run: a session link is dropped,  *)
(* which is DDL and commits, unless it fails before it gets that far (it is *)
(* best-effort); closing the connection rolls back the rest.                *)
Close ==
    /\ pc = "close"
    /\ Rollback \/ (cfg.session /\ ~cfg.dry /\ Commit)
    /\ pc' = "idle"
    /\ RunFrame
    /\ UNCHANGED <<tables, fk, i, todo, disabled, results, success, outcome>>

-----------------------------------------------------------------------------
(* The process dies; Oracle rolls the dead session back.                    *)
Crash ==
    /\ pc # "idle"
    /\ pc' = "idle" /\ outcome' = "crashed" /\ success' = FALSE
    /\ Rollback
    /\ RunFrame /\ UNCHANGED <<tables, fk, i, todo, disabled, results>>

(* Somebody drops a table of the source schema, at any time.                *)
DropSourceTable(t) ==
    /\ t \in srcTables
    /\ srcTables' = srcTables \ {t}
    /\ UNCHANGED <<target, pending, pc, i, cfg, snap, todo, disabled, results,
                   success, outcome, runs>>

Finished == pc = "idle" /\ runs = MaxRuns /\ UNCHANGED vars

Prepare == PrepareKeep \/ PrepareDrop \/ PrepareCreate
Phase3 == ReadConstraints \/ DisableDone \/ \E c \in FKs : DisableConstraint(c)
Load == BeginLoad \/ ImplicitCommit \/ DirectLoad \/ ChunkedLoad \/ CountsMatch
        \/ CountsDiffer \/ SourceGone \/ ResetSequences
Phase4 == Truncate \/ Cancel \/ SkipMissing \/ LoadDry \/ Load \/ FinishTransaction
Phase5 == ReenableDone \/ ReenableRaises \/ \E c \in FKs : Reenable(c)

Proceed == Prepare \/ Phase3 \/ Phase4 \/ Phase5 \/ Refused \/ Close

Fault == LoadFails \/ CountFails \/ ReadSequencesFails \/ Raise \/ Crash

Next ==
    \/ StartRun
    \/ Proceed
    \/ Fault
    \/ \E t \in Loaded : DropSourceTable(t)
    \/ Finished

(* A run that is going on is a Python process that keeps executing.  That a *)
(* call raises which need not is possible and never relied on.              *)
SafeSpec == Init /\ [][Next]_vars
Spec == SafeSpec /\ WF_vars(Proceed)

-----------------------------------------------------------------------------
(* Properties.                                                              *)

(* Oracle's integrity is never bypassed: whatever the phases, the failures  *)
(* and the crashes, every FK that is ENABLED is satisfied by committed rows *)
(* although no INSERT of the engine is checked against it.                  *)
EnabledFksHold ==
    \A c \in FKs : fk[c] = "ENABLED" => rows[Child[c]] \subseteq rows[Parent[c]]

(* A run that returns has put back every FK it disabled, except those whose *)
(* data really violates them, and then it does not report success.          *)
ReturnedRunRestoresFks ==
    pc = "idle" /\ outcome = "returned" /\ ~cfg.dry =>
        \A c \in disabled :
            \/ fk[c] = "ENABLED"
            \/ ~success /\ ~(rows[Child[c]] \subseteq rows[Parent[c]])

(* In per_table mode a table recorded as ok is committed with exactly the   *)
(* rows of the SCN snapshot, and nothing a later table, phase 5, an escaped *)
(* exception or a crash does takes that back.                               *)
OkIsDurable ==
    cfg.mode = "per_table" /\ ~cfg.dry =>
        \A t \in Tables : results[t] = "ok" => rows[t] = snap[t]

(* A run that reports success has loaded the snapshot of every table it did *)
(* not skip, in both commit modes.                                          *)
SuccessMeansSnapshot ==
    pc = "idle" /\ outcome = "returned" /\ success /\ ~cfg.dry =>
        \A t \in Loaded : results[t] = "skipped" \/ rows[t] = snap[t]

(* The report is complete: a run that returns, cancelled or not, has a      *)
(* status for every table, and success means none failed or was cancelled.  *)
EveryTableIsReported ==
    pc = "idle" /\ outcome = "returned" =>
        \A t \in Loaded :
            /\ results[t] # "none"
            /\ success => results[t] \in {"ok", "skipped"}

(* What a dry run never does: touch the target schema.                      *)
DryRunTouchesNothing == [][cfg.dry /\ pc # "idle" => UNCHANGED target]_vars

(* A run counts as its own only FKs it found ENABLED, and turns on no other *)
(* one: an FK that a DBA disabled on purpose stays so.                      *)
EnablesOnlyItsOwn ==
    [][\A c \in FKs :
         /\ c \in disabled' \ disabled => fk[c] = "ENABLED"
         /\ fk[c] # "ENABLED" /\ fk'[c] = "ENABLED" => c \in disabled]_vars

(* What the other sessions see of the runs is TargetSchema: tables are      *)
(* emptied before any is filled, filled from one snapshot only, each once,  *)
(* while their FKs are off, and a run gives back only FKs it has taken.     *)
Phase ==
    IF pc = "idle" \/ cfg.dry THEN "idle"
    ELSE CASE pc \in {"prepare", "recreate", "read_fks"} -> "restructure"
           [] pc = "disable" -> "release"
           [] pc = "truncate" -> "empty"
           [] pc = "reenable" -> "restore"
           [] pc = "close" -> "close"
           [] OTHER -> "fill"

Schema == INSTANCE TargetSchema WITH
    phase <- Phase, owned <- IF cfg.dry THEN {} ELSE disabled

ImplementsTargetSchema == Schema!SchemaSpec

(* To its caller a run is a call of EngineCall: polled before each table,   *)
(* one result per table in table_order, and the rest cancelled at once.     *)
CallAt ==
    IF outcome \in {"returned", "raised"} THEN outcome
    ELSE CASE pc = "idle" -> "out"
           [] pc \in {"prepare", "recreate", "read_fks", "disable", "truncate", "check"} -> "ask"
           [] pc \in {"finish", "reenable"} -> "finish"
           [] OTHER -> "load"

CallResults ==
    [j \in 1..N |-> IF outcome \in {"none", "crashed"} THEN "none" ELSE results[Order[j]]]

Call == INSTANCE EngineCall WITH
    Callers <- {"run"}, at <- [c \in {"run"} |-> CallAt],
    res <- [c \in {"run"} |-> CallResults]

ImplementsEngineCall == Call!CallSpec

(* The variant of a run's loops: how far it is, in which round of the       *)
(* phase's loop over table_order, and how far in that round.                *)
Stage ==
    CASE pc \in {"prepare", "recreate"} -> 1
      [] pc = "read_fks" -> 2
      [] pc = "disable" -> 3
      [] pc = "truncate" -> 4
      [] pc \in {"check", "dispatch", "validate", "sequences"} -> 5
      [] pc = "finish" -> 6
      [] pc = "reenable" -> 7
      [] pc = "close" -> 8
      [] OTHER -> 9
Round == IF pc = "truncate" THEN N - i ELSE i
Step ==
    CASE pc \in {"recreate", "dispatch"} -> 2
      [] pc = "validate" -> 3
      [] pc = "sequences" -> 4
      [] OTHER -> 1

(* No step of a run is ever taken back, no table or constraint visited      *)
(* twice: each takes the run to a later stage, a later round or a later     *)
(* place in the round, or a constraint off the list, or commits something.  *)
(* The rest are the drops of source tables.                                 *)
RunsMoveForward ==
    [][pc # "idle" =>
         \/ Stage < Stage'
         \/ Stage' = Stage /\ Round < Round'
         \/ Stage' = Stage /\ Round' = Round /\ Step < Step'
         \/ UNCHANGED <<pc, i>> /\ todo' \subseteq todo /\ todo' # todo
         \/ /\ UNCHANGED <<pc, i, todo>>
            /\ pending # NothingPending /\ pending' = NothingPending
         \/ srcTables' \subseteq srcTables /\ srcTables' # srcTables]_vars

(* No run goes on forever, whatever it meets on its way.                    *)
EveryRunEnds == pc # "idle" ~> pc = "idle"

-----------------------------------------------------------------------------
(* What the documentation says and the code does not keep: each is refuted  *)
(* by a run of its own.                                                     *)

(* README, exit code 0: constraints re-enabled.  (Of the FKs that were      *)
(* ENABLED before the first run, see MCRefreshEngine.)                      *)
SuccessMeansFksEnabled ==
    pc = "idle" /\ outcome = "returned" /\ success /\ ~cfg.dry =>
        \A c \in FKs : Child[c] \in Loaded => fk[c] # "DISABLED"

(* The tests: never commit a known-bad load.  config.example.yaml: COMMIT   *)
(* iff source and target row counts match.                                  *)
CommitsOnlyMatchingLoads ==
    pc = "idle" /\ outcome = "returned" /\ ~cfg.dry /\ cfg.mode = "per_table" =>
        \A t \in Loaded :
            rows[t] = {} \/ Cardinality(rows[t]) = Cardinality(snap[t])

(* config.example.yaml: COMMIT at the end iff every table matched,          *)
(* otherwise ROLLBACK the batch.                                            *)
DeferredBatchIsAtomic ==
    /\ pc = "idle" /\ outcome = "returned" /\ ~cfg.dry
    /\ cfg.mode = "defer_insert_commits"
    /\ \E t \in Loaded : results[t] = "failed"
    => \A t \in Loaded : rows[t] = {}
=============================================================================
