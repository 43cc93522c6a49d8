---------------------------- MODULE JobLifecycle -----------------------------
(***************************************************************************)
(* One job of oracdb_cli.py: its row of oracdb$jobs and its records of     *)
(* oracdb$tables on the target, and the oracdb processes that use them at  *)
(* the same time: run (foreground, or --background with its _worker),      *)
(* cancel and cleanup.  plan creates the job.                              *)
(*                                                                         *)
(* An action is what one process does between two of its commits or reads  *)
(* of the row.  The engine is seen through its callback, which is polled   *)
(* before every table, and its result (its inside is RefreshEngine).       *)
(***************************************************************************)
EXTENDS Integers, FiniteSets

CONSTANTS
    Runners,    \* the oracdb run commands of a behaviour
    Cleaners,   \* the oracdb cleanup commands
    N,          \* tables of the job, 1..N in table_order
    NoOwner     \* nobody holds the lock

ASSUME ProcessAssumption ==
    NoOwner \notin Runners \cup Cleaners /\ Runners \cap Cleaners = {}
ASSUME SizeAssumption == N \in Nat \ {0}

VARIABLES
    row,        \* status of the oracdb$jobs row, UNPLANNED or DELETED: no row
    records,    \* status of each oracdb$tables record, NONE: no record
    lost,       \* records whose last update failed: the mirror is best-effort
    lock,       \* the session that has the row locked
    mirror,     \* the run that has the records locked: updated, not committed
    pc,         \* where each run command stands
    resume,     \* whether it was given --resume
    pos, res,   \* the table its engine is at, and the results so far
    cleaner     \* where each cleanup command stands

vars == <<row, records, lost, lock, mirror, pc, resume, pos, res, cleaner>>
jobState == <<row, records, lost>>
locks == <<lock, mirror>>

TERMINAL_STATUSES == {"DONE", "FAILED", "CANCELLED"}
JOB_STATUSES == {"PLANNED", "RUNNING"} \cup TERMINAL_STATUSES
TABLE_STATUSES == {"PLANNED", "RUNNING", "DONE", "FAILED", "SKIPPED"}
(* What _execute_job writes besides is not listed there.                    *)
RecordStatuses == TABLE_STATUSES \cup {"CANCELLED"}

Exists == row \in JOB_STATUSES
Engine == {"check", "load", "finish"}       \* engine.run is going on
(* From the commit of RUNNING to the last commit.                           *)
Executing == Engine \cup {"fail", "report", "settle"}
Active == Executing \cup {"lock", "spawned", "begin"}

TypeOK ==
    /\ row \in JOB_STATUSES \cup {"UNPLANNED", "DELETED"}
    /\ records \in [1..N -> RecordStatuses \cup {"NONE"}]
    /\ lost \subseteq 1..N
    /\ lock \in Runners \cup Cleaners \cup {NoOwner}
    /\ mirror \in Runners \cup {NoOwner}
    /\ pc \in [Runners -> Active \cup {"idle", "done", "dead"}]
    /\ resume \in [Runners -> BOOLEAN]
    /\ pos \in [Runners -> 1..N]
    /\ res \in [Runners -> [1..N -> {"none", "ok", "failed", "skipped", "cancelled"}]]
    /\ cleaner \in [Cleaners -> {"idle", "delete", "cascade", "done"}]

NoResults == [j \in 1..N |-> "none"]

Init ==
    /\ row = "UNPLANNED"
    /\ records = [j \in 1..N |-> "NONE"]
    /\ lost = {}
    /\ lock = NoOwner /\ mirror = NoOwner
    /\ pc = [p \in Runners |-> "idle"]
    /\ resume = [p \in Runners |-> FALSE]
    /\ pos = [p \in Runners |-> 1]
    /\ res = [p \in Runners |-> NoResults]
    /\ cleaner = [c \in Cleaners |-> "idle"]

Goto(p, label) == pc' = [pc EXCEPT ![p] = label]
(* A process that ends, or dies, takes its local variables along.           *)
Exit(p, label) ==
    /\ Goto(p, label)
    /\ resume' = [resume EXCEPT ![p] = FALSE]
    /\ pos' = [pos EXCEPT ![p] = 1]
    /\ res' = [res EXCEPT ![p] = NoResults]

MutantSetStatus(status) == row' = status  \* MUTANT: a missing row is inserted
(* UPDATE ... WHERE job_id = :job_id: no row, no effect.                    *)
SetStatus(status) == row' = IF Exists THEN status ELSE row

(* MUTANT: the status is written by another session than the locking one.   *)
MutantRowFree(p) == lock = NoOwner
(* An UPDATE or DELETE of the row waits while another session has it locked. *)
RowFree(p) == lock \in {NoOwner, p}

MutantRelease(p) == UNCHANGED lock  \* MUTANT: nothing is committed
(* What ends a transaction: a commit, or the end of the session.            *)
Release(p) == lock' = IF lock = p THEN NoOwner ELSE lock
Unlock(p) == Release(p) /\ mirror' = IF mirror = p THEN NoOwner ELSE mirror

-----------------------------------------------------------------------------
(* plan: the job row and its table records, in one transaction.             *)
Plan ==
    /\ row = "UNPLANNED"
    /\ row' = "PLANNED" /\ records' = [j \in 1..N |-> "PLANNED"]
    /\ UNCHANGED <<lost, locks, pc, resume, pos, res, cleaner>>

(* cmd_run reads the job and decides on the status it has read.             *)
Runnable(r) == row = "PLANNED" \/ (r /\ row \in TERMINAL_STATUSES)

StartRun(p, r, background) ==
    /\ pc[p] = "idle" /\ Runnable(r)
    /\ Goto(p, IF background THEN "spawned" ELSE "lock")
    /\ resume' = [resume EXCEPT ![p] = r]
    /\ UNCHANGED <<jobState, locks, pos, res, cleaner>>

RefuseRun(p, r) ==
    /\ pc[p] = "idle" /\ ~Runnable(r)
    /\ Exit(p, "done")
    /\ UNCHANGED <<jobState, locks, cleaner>>

(* lock_job in the foreground path: NOWAIT, and a missing row is no error.  *)
LockJob(p) ==
    /\ pc[p] = "lock"
    /\ \/ /\ lock = NoOwner
          /\ lock' = IF Exists THEN p ELSE lock
          /\ Goto(p, "begin") /\ UNCHANGED <<resume, pos, res>>
       \/ lock # NoOwner /\ Exit(p, "done") /\ UNCHANGED lock
    /\ UNCHANGED <<jobState, mirror, cleaner>>

(* cmd_worker reads the job again and looks only whether there is one.      *)
WorkerReads(p) ==
    /\ pc[p] = "spawned"
    /\ \/ Exists /\ Goto(p, "begin") /\ UNCHANGED <<resume, pos, res>>
       \/ ~Exists /\ Exit(p, "done")
    /\ UNCHANGED <<jobState, locks, cleaner>>

(* The head of _execute_job: RUNNING is committed, and the lock with it.    *)
BeginRunning(p) ==
    /\ pc[p] = "begin" /\ RowFree(p)
    /\ SetStatus("RUNNING")
    /\ Release(p)
    /\ Goto(p, "check")
    /\ UNCHANGED <<records, lost, mirror, resume, pos, res, cleaner>>

(* An endpoint is not registered any more, or the config is refused.        *)
BeginFails(p) ==
    /\ pc[p] = "begin"
    /\ Release(p) /\ Exit(p, "done")
    /\ UNCHANGED <<jobState, mirror, cleaner>>

(* check_cancelled answers False: also when there is no row any more, and   *)
(* when the query itself fails.                                             *)
GoOn(p) ==
    /\ pc[p] = "check"
    /\ Goto(p, "load")
    /\ UNCHANGED <<jobState, locks, resume, pos, res, cleaner>>

(* MUTANT: the slice of remaining tables starts after the current one.      *)
MutantRemaining(p) == pos[p]+1..N
Remaining(p) == pos[p]..N

StopOnCancel(p) ==
    /\ pc[p] = "check" /\ row = "CANCELLED"
    /\ res' = [res EXCEPT ![p] =
                 [j \in 1..N |-> IF j \in Remaining(p) THEN "cancelled" ELSE @[j]]]
    /\ Goto(p, "finish")
    /\ UNCHANGED <<jobState, locks, resume, pos, cleaner>>

MutantHasNext(p) == pos[p] <= N  \* MUTANT: off by one
HasNext(p) == pos[p] < N

LoadTable(p) ==
    /\ pc[p] = "load"
    /\ \E r \in {"ok", "failed", "skipped"} : res' = [res EXCEPT ![p][pos[p]] = r]
    /\ IF HasNext(p)
         THEN pos' = [pos EXCEPT ![p] = @ + 1] /\ Goto(p, "check")
         ELSE UNCHANGED pos /\ Goto(p, "finish")
    /\ UNCHANGED <<jobState, locks, resume, cleaner>>

(* The commit of a deferred batch and phase 5 are over.                     *)
EngineReturns(p) ==
    /\ pc[p] = "finish"
    /\ Goto(p, "report")
    /\ UNCHANGED <<jobState, locks, resume, pos, res, cleaner>>

(* engine.run raises, in any of its phases, and the job is FAILED.          *)
EngineRaises(p) ==
    /\ pc[p] \in Engine
    /\ Goto(p, "fail")
    /\ UNCHANGED <<jobState, locks, resume, pos, res, cleaner>>

MutantRecordError == UNCHANGED row  \* MUTANT: FAILED is not written
RecordError == SetStatus("FAILED")

RecordFailure(p) ==
    /\ pc[p] = "fail" /\ RowFree(p)
    /\ RecordError
    /\ Exit(p, "done")
    /\ UNCHANGED <<records, lost, locks, cleaner>>

(* The results are mirrored and the final status set, whatever the status   *)
(* is by now, in one transaction: the records it has updated stay locked    *)
(* while it waits for the row.  result.success may be FALSE although no     *)
(* table failed: a constraint did not validate.                             *)
RecordStatus(r) ==
    IF r = "ok" THEN "DONE"
    ELSE IF r = "skipped" THEN "SKIPPED"
    ELSE IF r = "failed" THEN "FAILED" ELSE "CANCELLED"

Success(p) == \A j \in 1..N : res[p][j] \in {"ok", "skipped"}
(* MUTANT: whatever was not cancelled is a success.                         *)
MutantFinalStatuses(p) ==
    IF \E j \in 1..N : res[p][j] = "cancelled" THEN {"CANCELLED"} ELSE {"DONE", "FAILED"}
FinalStatuses(p) ==
    IF \E j \in 1..N : res[p][j] = "cancelled" THEN {"CANCELLED"}
    ELSE IF Success(p) THEN {"DONE", "FAILED"} ELSE {"FAILED"}

(* MUTANT: a record that has its outcome already is not written again.      *)
MutantUpdated(failing) ==
    IF Exists THEN {j \in 1..N \ failing : records[j] = "PLANNED"} ELSE {}
MutantUpsert(failing) == 1..N \ failing  \* MUTANT: a missing record is inserted
Updated(failing) == IF Exists THEN 1..N \ failing ELSE {}

LockRecords(p) ==
    /\ pc[p] = "report" /\ mirror = NoOwner
    /\ mirror' = IF Exists THEN p ELSE mirror
    /\ Goto(p, "settle")
    /\ UNCHANGED <<jobState, lock, resume, pos, res, cleaner>>

Mirror(p, failing) ==
    /\ records' = [j \in 1..N |-> IF j \in Updated(failing)
                                  THEN RecordStatus(res[p][j]) ELSE records[j]]
    /\ lost' = IF Exists THEN failing ELSE lost

Report(p) ==
    /\ pc[p] = "settle" /\ RowFree(p)
    /\ \E failing \in SUBSET (1..N) : Mirror(p, failing)
    /\ \E status \in FinalStatuses(p) : SetStatus(status)
    /\ Exit(p, "done") /\ Unlock(p)
    /\ UNCHANGED cleaner

(* The process is killed, or loses its connection; Oracle frees its locks.  *)
Crash(p) ==
    /\ pc[p] \in Active
    /\ Exit(p, "dead") /\ Unlock(p)
    /\ UNCHANGED <<jobState, cleaner>>

-----------------------------------------------------------------------------
(* cancel, at any time and from any status.                                 *)
Cancel ==
    /\ Exists /\ lock = NoOwner
    /\ SetStatus("CANCELLED")
    /\ UNCHANGED <<records, lost, locks, pc, resume, pos, res, cleaner>>

(* cleanup reads the status, then deletes: the row is locked first, and the *)
(* records, which go by ON DELETE CASCADE, may be locked by a report.       *)
CleanupReads(c) ==
    /\ cleaner[c] = "idle"
    /\ cleaner' = [cleaner EXCEPT ![c] =
                     IF Exists /\ row # "RUNNING" THEN "delete" ELSE "done"]
    /\ UNCHANGED <<jobState, locks, pc, resume, pos, res>>

CleanupLocks(c) ==
    /\ cleaner[c] = "delete" /\ lock = NoOwner
    /\ lock' = c
    /\ cleaner' = [cleaner EXCEPT ![c] = "cascade"]
    /\ UNCHANGED <<jobState, mirror, pc, resume, pos, res>>

CleanupDeletes(c) ==
    /\ cleaner[c] = "cascade" /\ mirror = NoOwner
    /\ row' = "DELETED"
    /\ records' = [j \in 1..N |-> "NONE"] /\ lost' = {}
    /\ cleaner' = [cleaner EXCEPT ![c] = "done"] /\ Release(c)
    /\ UNCHANGED <<mirror, pc, resume, pos, res>>

CleanupDies(c) ==
    /\ cleaner[c] \in {"delete", "cascade"}
    /\ cleaner' = [cleaner EXCEPT ![c] = "done"] /\ Release(c)
    /\ UNCHANGED <<jobState, mirror, pc, resume, pos, res>>

(* A report has the records and waits for the row, a cleanup has the row    *)
(* and waits for the records: Oracle raises ORA-00060 in one of the two.    *)
(* Neither handles it, so its process ends and its session rolls back; the  *)
(* run's does so without a final status, as if it had been killed.          *)
Deadlock(p, c) ==
    pc[p] = "settle" /\ mirror = p /\ cleaner[c] = "cascade" /\ lock = c

BreakDeadlock ==
    \E p \in Runners, c \in Cleaners : Deadlock(p, c) /\ (Crash(p) \/ CleanupDies(c))

-----------------------------------------------------------------------------
Run(p) ==
    \/ LockJob(p) \/ WorkerReads(p) \/ BeginRunning(p)
    \/ GoOn(p) \/ StopOnCancel(p) \/ LoadTable(p) \/ EngineReturns(p)
    \/ RecordFailure(p) \/ LockRecords(p) \/ Report(p)

CleanUp(c) == CleanupLocks(c) \/ CleanupDeletes(c)

Invoke(p) ==
    \E r \in BOOLEAN : RefuseRun(p, r) \/ \E background \in BOOLEAN : StartRun(p, r, background)

Fault(p) == BeginFails(p) \/ EngineRaises(p) \/ Crash(p)

Next ==
    \/ Plan
    \/ \E p \in Runners : Run(p) \/ Invoke(p) \/ Fault(p)
    \/ Cancel
    \/ \E c \in Cleaners : CleanupReads(c) \/ CleanUp(c) \/ CleanupDies(c)
    \/ BreakDeadlock

(* A command that has been given runs on; nobody has to give one.  Oracle   *)
(* detects its deadlocks.                                                   *)
Spec ==
    /\ Init /\ [][Next]_vars
    /\ \A p \in Runners : WF_vars(Run(p))
    /\ \A c \in Cleaners : WF_vars(CleanUp(c))
    /\ WF_vars(BreakDeadlock)

-----------------------------------------------------------------------------
(* Properties.                                                              *)

(* The row says RUNNING only as long as some executor will still write a    *)
(* final status, unless one died on the way: every path through             *)
(* _execute_job, the raising one included, ends in a terminal status.       *)
RunningWillBeSettled ==
    row = "RUNNING" => \E p \in Runners : pc[p] \in Executing \cup {"dead"}

(* The two tables of state agree: a DONE job has no record that is not DONE *)
(* or SKIPPED (but those whose update failed), also after resumed and       *)
(* overlapping runs.                                                        *)
DoneAgreesWithRecords ==
    row = "DONE" => \A j \in 1..N : records[j] \in {"DONE", "SKIPPED"} \/ j \in lost

(* Deleting a job takes its records along, and a run that is still going on *)
(* does not bring any of it back.                                           *)
DeletedIsGone == row = "DELETED" => records = [j \in 1..N |-> "NONE"]

(* No run holds the row lock while it loads: status, cancel and cleanup     *)
(* never wait for a load to end.                                            *)
NoLockWhileLoading == \A p \in Runners : pc[p] \in Executing => lock # p

(* A job becomes DONE only by a run that has gone through all its tables,   *)
(* none failed and none cancelled.                                          *)
DoneIsEarned ==
    [][row # "DONE" /\ row' = "DONE" =>
         \E p \in Runners : pc[p] = "settle" /\ Success(p)]_vars

(* Every run and cleanup that has begun comes to an end, or dies: nobody    *)
(* waits for a lock for ever, also when a report and a cleanup have each    *)
(* what the other waits for.                                                *)
EveryCommandEnds ==
    /\ \A p \in Runners : pc[p] \in Active ~> pc[p] \in {"done", "dead"}
    /\ \A c \in Cleaners : cleaner[c] \in {"delete", "cascade"} ~> cleaner[c] = "done"

(* The job's row, as the other commands see it, keeps JobRow's contract:    *)
(* RUNNING and the final status are written by runs that have planned jobs, *)
(* a run has one last word, and a deleted row stays deleted.                *)
Row == INSTANCE JobRow WITH
    Jobs <- {"job"}, JobOf <- [p \in Runners |-> "job"],
    row <- [j \in {"job"} |-> row],
    running <- {p \in Runners : pc[p] \in Executing}

ImplementsJobRow == Row!RowSpec

(* Every run calls the engine as EngineCall says, whatever becomes of the   *)
(* job meanwhile: what is mirrored to the records is the report of one      *)
(* call, whole and in order.                                                *)
CallAt(label) ==
    CASE label = "check" -> "ask"
      [] label \in {"load", "finish"} -> label
      [] label \in {"report", "settle"} -> "returned"
      [] label = "fail" -> "raised"
      [] OTHER -> "out"

Call == INSTANCE EngineCall WITH
    Callers <- Runners, at <- [p \in Runners |-> CallAt(pc[p])]

ImplementsEngineCall == Call!CallSpec

-----------------------------------------------------------------------------
(* What the source's own comments say and the code does not keep.           *)

(* cmd_run: lock the job row first so two simultaneous runs can't both      *)
(* proceed.                                                                 *)
OneExecutor == \A p, q \in Runners : pc[p] \in Executing /\ pc[q] \in Executing => p = q

(* --resume: re-run a non-PLANNED job (FAILED, CANCELLED).  So a cancelled  *)
(* job is not executed without it.                                          *)
CancelledNeedsResume ==
    [][row = "CANCELLED" /\ row' = "RUNNING" =>
         \E p \in Runners : pc[p] = "begin" /\ resume[p]]_vars

(* state/__init__.py: the CLI is stateless (kill it, move machines,         *)
(* resume).  So when no run is alive, a run --resume is not refused.        *)
KilledJobCanBeResumed ==
    Exists /\ (\A p \in Runners : pc[p] \notin Active) => Runnable(TRUE)
=============================================================================
