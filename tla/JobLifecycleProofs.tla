------------------------- MODULE JobLifecycleProofs --------------------------
(***************************************************************************)
(* Proofs about JobLifecycle, for every set of run and cleanup commands    *)
(* and any number of tables.  Type correctness comes first.  Who holds the *)
(* row lock, what DELETED and DONE say of the records and who is behind a  *)
(* RUNNING row are each inductive next to it.                              *)
(***************************************************************************)
EXTENDS JobLifecycle, TLAPS

(* The lock is held only from lock_job to the commit of RUNNING.            *)
LockIsShort == \A p \in Runners : lock = p => pc[p] = "begin"

(* Every status that Report writes is a status of JOB_STATUSES.             *)
LEMMA FinalStatusType == \A p : FinalStatuses(p) \subseteq TERMINAL_STATUSES
BY DEF FinalStatuses, TERMINAL_STATUSES

(* Whatever its result, a table's record becomes one of RecordStatuses.     *)
LEMMA RecordStatusType == \A r : RecordStatus(r) \in RecordStatuses
BY DEF RecordStatus, RecordStatuses, TABLE_STATUSES

(* UPDATE of the status keeps the row in its type, and never brings a       *)
(* deleted or an unplanned job to life.                                     *)
LEMMA SetStatusEffect ==
    ASSUME TypeOK, NEW status \in JOB_STATUSES, SetStatus(status)
    PROVE  /\ row' \in JOB_STATUSES \cup {"UNPLANNED", "DELETED"}
           /\ Exists => row' = status
           /\ ~Exists => row' = row
BY DEF TypeOK, SetStatus, Exists

(* A deadlock takes a run or a cleanup, as a crash might have done.         *)
LEMMA DeadlockIsBroken ==
    BreakDeadlock => \/ \E p \in Runners : Fault(p)
                     \/ \E c \in Cleaners : CleanupDies(c)
BY DEF BreakDeadlock, Fault

-----------------------------------------------------------------------------
(* JobLifecycle's TypeOK: positions stay within the job's tables, records   *)
(* and results within their statuses, whatever the commands do.             *)
THEOREM TypeCorrect == Spec => []TypeOK
<1>1. Init => TypeOK
  BY SizeAssumption DEF Init, TypeOK, NoResults
<1>2. TypeOK /\ [Next]_vars => TypeOK'
  <2> SUFFICES ASSUME TypeOK, [Next]_vars PROVE TypeOK'
    OBVIOUS
  <2> USE SizeAssumption, ProcessAssumption
  <2>1. ASSUME NEW p \in Runners, NEW l \in Active \cup {"idle", "done", "dead"}, Exit(p, l)
        PROVE  /\ pc' \in [Runners -> Active \cup {"idle", "done", "dead"}]
               /\ resume' \in [Runners -> BOOLEAN]
               /\ pos' \in [Runners -> 1..N]
               /\ res' \in [Runners -> [1..N -> {"none", "ok", "failed", "skipped", "cancelled"}]]
    BY <2>1 DEF TypeOK, Exit, Goto, NoResults
  <2>2. CASE Plan
    BY <2>2 DEF TypeOK, Plan, locks, JOB_STATUSES, RecordStatuses, TABLE_STATUSES
  <2>3. CASE Cancel
    BY <2>3 DEF TypeOK, Cancel, SetStatus, locks, JOB_STATUSES, TERMINAL_STATUSES
  <2>4. ASSUME NEW c \in Cleaners, CleanupReads(c) \/ CleanUp(c) \/ CleanupDies(c) PROVE TypeOK'
    <3>1. CASE CleanupReads(c) \/ CleanupLocks(c)
      BY <3>1 DEF TypeOK, CleanupReads, CleanupLocks, jobState, locks
    <3>2. CASE CleanupDeletes(c) \/ CleanupDies(c)
      BY <3>2 DEF TypeOK, CleanupDeletes, CleanupDies, Release, jobState
    <3> QED
      BY <2>4, <3>1, <3>2 DEF CleanUp
  <2>5. ASSUME NEW p \in Runners, LockJob(p) PROVE TypeOK'
    BY <2>1, <2>5 DEF TypeOK, LockJob, Goto, Active, jobState
  <2>6. ASSUME NEW p \in Runners, WorkerReads(p) PROVE TypeOK'
    BY <2>1, <2>6 DEF TypeOK, WorkerReads, Goto, Active, jobState, locks
  <2>7. ASSUME NEW p \in Runners, BeginRunning(p) PROVE TypeOK'
    BY <2>7 DEF TypeOK, BeginRunning, SetStatus, Release, Goto, Active, Executing, Engine,
                JOB_STATUSES
  <2>8. ASSUME NEW p \in Runners, GoOn(p) \/ EngineReturns(p) PROVE TypeOK'
    BY <2>8 DEF TypeOK, GoOn, EngineReturns, Goto, Active, Executing, Engine, jobState, locks
  <2>9. ASSUME NEW p \in Runners, StopOnCancel(p) PROVE TypeOK'
    BY <2>9 DEF TypeOK, StopOnCancel, Goto, Active, Executing, Engine, jobState, locks
  <2>10. ASSUME NEW p \in Runners, LoadTable(p) PROVE TypeOK'
    <3>1. PICK r \in {"ok", "failed", "skipped"} : res' = [res EXCEPT ![p][pos[p]] = r]
      BY <2>10 DEF LoadTable
    <3>2. res' \in [Runners -> [1..N -> {"none", "ok", "failed", "skipped", "cancelled"}]]
      BY <3>1 DEF TypeOK
    <3>3. CASE HasNext(p)
      <4>1. pos[p] \in 1..N /\ pos[p] + 1 \in 1..N
        BY <3>3 DEF TypeOK, HasNext
      <4>2. pos' = [pos EXCEPT ![p] = pos[p] + 1] /\ Goto(p, "check")
        BY <2>10, <3>3 DEF LoadTable
      <4>3. pos' \in [Runners -> 1..N]
        BY <4>1, <4>2 DEF TypeOK
      <4> QED
        BY <2>10, <3>2, <4>2, <4>3 DEF TypeOK, LoadTable, Goto, Active, Executing, Engine,
               jobState, locks
    <3>4. CASE ~HasNext(p)
      BY <2>10, <3>2, <3>4 DEF TypeOK, LoadTable, Goto, Active, Executing, Engine,
               jobState, locks
    <3> QED
      BY <3>3, <3>4
  <2>11. ASSUME NEW p \in Runners, RecordFailure(p) PROVE TypeOK'
    BY <2>1, <2>11 DEF TypeOK, RecordFailure, RecordError, SetStatus, locks,
                       JOB_STATUSES, TERMINAL_STATUSES
  <2>12. ASSUME NEW p \in Runners, Report(p) PROVE TypeOK'
    <3>1. PICK failing \in SUBSET (1..N) : Mirror(p, failing)
      BY <2>12 DEF Report
    <3>2. records' \in [1..N -> RecordStatuses \cup {"NONE"}] /\ lost' \subseteq 1..N
      BY <3>1, RecordStatusType DEF TypeOK, Mirror
    <3>3. row' \in JOB_STATUSES \cup {"UNPLANNED", "DELETED"}
      BY <2>12, FinalStatusType, SetStatusEffect DEF Report, JOB_STATUSES
    <3> QED
      BY <2>1, <2>12, <3>2, <3>3 DEF TypeOK, Report, Unlock, Release
  <2>13. ASSUME NEW p \in Runners, Invoke(p) PROVE TypeOK'
    BY <2>1, <2>13 DEF TypeOK, Invoke, StartRun, RefuseRun, Goto, Active, jobState, locks
  <2>14. ASSUME NEW p \in Runners, Fault(p) PROVE TypeOK'
    <3>1. CASE BeginFails(p) \/ EngineRaises(p)
      BY <2>1, <3>1 DEF TypeOK, BeginFails, EngineRaises, Goto, Release, Active, Executing,
                        jobState, locks
    <3>2. CASE Crash(p)
      BY <2>1, <3>2 DEF TypeOK, Crash, Unlock, Release, jobState
    <3> QED
      BY <2>14, <3>1, <3>2 DEF Fault
  <2>15. ASSUME NEW p \in Runners, LockRecords(p) PROVE TypeOK'
    BY <2>15 DEF TypeOK, LockRecords, Goto, Active, Executing, Engine, jobState
  <2>16. CASE UNCHANGED vars
    BY <2>16 DEF TypeOK, vars
  <2> QED
    BY <2>2, <2>3, <2>4, <2>5, <2>6, <2>7, <2>8, <2>9, <2>10, <2>11, <2>12, <2>13, <2>14,
       <2>15, <2>16, DeadlockIsBroken DEF Next, Run
<1> QED
  BY <1>1, <1>2, PTL DEF Spec

-----------------------------------------------------------------------------
(* Whoever has the lock stands between lock_job and the commit of RUNNING.  *)
LEMMA LockInvariant == Spec => []LockIsShort
<1>1. Init => LockIsShort
  BY ProcessAssumption DEF Init, LockIsShort
<1>2. TypeOK /\ LockIsShort /\ [Next]_vars => LockIsShort'
  <2> SUFFICES ASSUME TypeOK, LockIsShort, [Next]_vars PROVE LockIsShort'
    OBVIOUS
  <2> USE ProcessAssumption DEF TypeOK, LockIsShort
  <2>1. CASE Plan \/ Cancel
    BY <2>1 DEF Plan, Cancel, locks
  <2>2. ASSUME NEW c \in Cleaners, CleanupReads(c) \/ CleanUp(c) \/ CleanupDies(c)
        PROVE  LockIsShort'
    BY <2>2 DEF CleanupReads, CleanUp, CleanupLocks, CleanupDeletes, CleanupDies, Release, locks
  <2>3. ASSUME NEW p \in Runners, LockJob(p) \/ WorkerReads(p) PROVE LockIsShort'
    BY <2>3 DEF LockJob, WorkerReads, Goto, Exit, locks
  <2>4. ASSUME NEW p \in Runners, BeginRunning(p) PROVE LockIsShort'
    BY <2>4 DEF BeginRunning, Goto, Release
  <2>5. ASSUME NEW p \in Runners, GoOn(p) \/ EngineReturns(p) \/ StopOnCancel(p) \/ LoadTable(p)
        PROVE  LockIsShort'
    BY <2>5 DEF GoOn, EngineReturns, StopOnCancel, LoadTable, Goto, locks
  <2>6. ASSUME NEW p \in Runners, RecordFailure(p) \/ LockRecords(p) \/ Report(p)
        PROVE  LockIsShort'
    BY <2>6 DEF RecordFailure, LockRecords, Report, Goto, Exit, Unlock, Release, locks
  <2>7. ASSUME NEW p \in Runners, Invoke(p) PROVE LockIsShort'
    BY <2>7 DEF Invoke, StartRun, RefuseRun, Goto, Exit, locks
  <2>8. ASSUME NEW p \in Runners, Fault(p) PROVE LockIsShort'
    BY <2>8 DEF Fault, BeginFails, EngineRaises, Crash, Goto, Exit, Unlock, Release, Engine, locks
  <2>9. CASE UNCHANGED vars
    BY <2>9 DEF vars
  <2> QED
    BY <2>1, <2>2, <2>3, <2>4, <2>5, <2>6, <2>7, <2>8, <2>9,
       DeadlockIsBroken DEF Next, Run
<1> QED
  BY <1>1, <1>2, TypeCorrect, PTL DEF Spec

(* NoLockWhileLoading: no executor keeps status, cancel or cleanup waiting  *)
(* for the length of a load.                                                *)
THEOREM LocksAreShort == Spec => []NoLockWhileLoading
<1>1. LockIsShort => NoLockWhileLoading
  BY DEF LockIsShort, NoLockWhileLoading, Executing, Engine
<1> QED
  BY <1>1, LockInvariant, PTL

-----------------------------------------------------------------------------
(* DeletedIsGone: once cleanup has committed, no executor that is still     *)
(* going on leaves a record behind.                                         *)
THEOREM DeletionIsFinal == Spec => []DeletedIsGone
<1>1. Init => DeletedIsGone
  BY DEF Init, DeletedIsGone
<1>2. TypeOK /\ DeletedIsGone /\ [Next]_vars => DeletedIsGone'
  <2> SUFFICES ASSUME TypeOK, DeletedIsGone, [Next]_vars PROVE DeletedIsGone'
    OBVIOUS
  <2> USE DEF DeletedIsGone
  <2>1. CASE Plan
    BY <2>1 DEF Plan
  <2>2. CASE Cancel
    BY <2>2 DEF Cancel, SetStatus
  <2>3. ASSUME NEW c \in Cleaners, CleanupReads(c) \/ CleanUp(c) \/ CleanupDies(c)
        PROVE  DeletedIsGone'
    BY <2>3 DEF CleanupReads, CleanUp, CleanupLocks, CleanupDeletes, CleanupDies, jobState
  <2>4. ASSUME NEW p \in Runners, BeginRunning(p) \/ RecordFailure(p) PROVE DeletedIsGone'
    BY <2>4 DEF BeginRunning, RecordFailure, RecordError, SetStatus
  <2>5. ASSUME NEW p \in Runners, Report(p) PROVE DeletedIsGone'
    <3>1. PICK status \in FinalStatuses(p) : SetStatus(status)
      BY <2>5 DEF Report
    <3>2. PICK failing \in SUBSET (1..N) : Mirror(p, failing)
      BY <2>5 DEF Report
    <3>3. CASE Exists
      BY <3>1, <3>3, FinalStatusType DEF SetStatus, TERMINAL_STATUSES
    <3>4. CASE ~Exists
      <4>1. row' = row
        BY <3>1, <3>4 DEF SetStatus
      <4>2. records' = [j \in 1..N |-> records[j]]
        BY <3>2, <3>4 DEF Mirror, Updated
      <4> QED
        BY <4>1, <4>2
    <3> QED
      BY <3>3, <3>4
  <2>6. ASSUME NEW p \in Runners, \/ LockJob(p) \/ WorkerReads(p) \/ GoOn(p) \/ EngineReturns(p)
                                  \/ StopOnCancel(p) \/ LoadTable(p) \/ LockRecords(p)
        PROVE  DeletedIsGone'
    BY <2>6 DEF LockJob, WorkerReads, GoOn, EngineReturns, StopOnCancel, LoadTable, LockRecords,
                jobState
  <2>7. ASSUME NEW p \in Runners, Invoke(p) \/ Fault(p) PROVE DeletedIsGone'
    BY <2>7 DEF Invoke, StartRun, RefuseRun, Fault, BeginFails, EngineRaises, Crash, jobState
  <2>8. CASE UNCHANGED vars
    BY <2>8 DEF vars
  <2> QED
    BY <2>1, <2>2, <2>3, <2>4, <2>5, <2>6, <2>7, <2>8,
       DeadlockIsBroken DEF Next, Run
<1> QED
  BY <1>1, <1>2, TypeCorrect, PTL DEF Spec

-----------------------------------------------------------------------------
(* RunningWillBeSettled: behind a RUNNING row there is an executor that has *)
(* its final status still to write, or one that died.                       *)
THEOREM RunningHasAnExecutor == Spec => []RunningWillBeSettled
<1>1. Init => RunningWillBeSettled
  BY DEF Init, RunningWillBeSettled
<1>2. TypeOK /\ RunningWillBeSettled /\ [Next]_vars => RunningWillBeSettled'
  <2> SUFFICES ASSUME TypeOK, RunningWillBeSettled, [Next]_vars PROVE RunningWillBeSettled'
    OBVIOUS
  <2> USE DEF TypeOK, RunningWillBeSettled
  <2>1. CASE Plan
    BY <2>1 DEF Plan
  <2>2. CASE Cancel
    BY <2>2 DEF Cancel, SetStatus
  <2>3. ASSUME NEW c \in Cleaners, CleanupReads(c) \/ CleanUp(c) \/ CleanupDies(c)
        PROVE  RunningWillBeSettled'
    BY <2>3 DEF CleanupReads, CleanUp, CleanupLocks, CleanupDeletes, CleanupDies, jobState
  <2>4. ASSUME NEW p \in Runners, BeginRunning(p) PROVE RunningWillBeSettled'
    BY <2>4 DEF BeginRunning, Goto, Executing, Engine
  <2>5. ASSUME NEW p \in Runners, RecordFailure(p) PROVE RunningWillBeSettled'
    BY <2>5 DEF RecordFailure, RecordError, SetStatus, Exists, JOB_STATUSES
  <2>6. ASSUME NEW p \in Runners, Report(p) PROVE RunningWillBeSettled'
    <3>1. row' # "RUNNING"
      BY <2>6, FinalStatusType DEF Report, SetStatus, Exists, JOB_STATUSES, TERMINAL_STATUSES
    <3> QED
      BY <3>1
  <2>7. ASSUME NEW p \in Runners, \/ GoOn(p) \/ EngineReturns(p) \/ StopOnCancel(p) \/ LoadTable(p)
                                  \/ LockRecords(p)
        PROVE  RunningWillBeSettled'
    BY <2>7 DEF GoOn, EngineReturns, StopOnCancel, LoadTable, LockRecords, Goto, jobState,
                Executing, Engine
  <2>8. ASSUME NEW p \in Runners, LockJob(p) \/ WorkerReads(p) PROVE RunningWillBeSettled'
    BY <2>8 DEF LockJob, WorkerReads, Goto, Exit, jobState, Executing, Engine
  <2>9. ASSUME NEW p \in Runners, Invoke(p) PROVE RunningWillBeSettled'
    BY <2>9 DEF Invoke, StartRun, RefuseRun, Goto, Exit, jobState, Executing, Engine
  <2>10. ASSUME NEW p \in Runners, Fault(p) PROVE RunningWillBeSettled'
    BY <2>10 DEF Fault, BeginFails, EngineRaises, Crash, Goto, Exit, jobState, Executing, Engine
  <2>11. CASE UNCHANGED vars
    BY <2>11 DEF vars
  <2> QED
    BY <2>1, <2>2, <2>3, <2>4, <2>5, <2>6, <2>7, <2>8, <2>9, <2>10, <2>11,
       DeadlockIsBroken DEF Next, Run
<1> QED
  BY <1>1, <1>2, TypeCorrect, PTL DEF Spec

-----------------------------------------------------------------------------
(* A report that makes the job DONE has a good result for every table, and  *)
(* the records it wrote say so.                                             *)
LEMMA ReportDone ==
    ASSUME TypeOK, NEW p \in Runners, Report(p), row' = "DONE"
    PROVE  Exists => /\ Success(p)
                     /\ \A j \in 1..N : records'[j] \in {"DONE", "SKIPPED"} \/ j \in lost'
<1> SUFFICES ASSUME Exists
             PROVE  /\ Success(p)
                    /\ \A j \in 1..N : records'[j] \in {"DONE", "SKIPPED"} \/ j \in lost'
  OBVIOUS
<1>1. "DONE" \in FinalStatuses(p)
  BY DEF Report, SetStatus
<1>2. Success(p)
  BY <1>1 DEF FinalStatuses
<1>3. PICK failing \in SUBSET (1..N) : Mirror(p, failing)
  BY DEF Report
<1>4. ASSUME NEW j \in 1..N PROVE records'[j] \in {"DONE", "SKIPPED"} \/ j \in lost'
  <2>1. RecordStatus(res[p][j]) \in {"DONE", "SKIPPED"}
    BY <1>2, <1>4 DEF Success, RecordStatus
  <2> QED
    BY <1>3, <1>4, <2>1 DEF Mirror, Updated
<1> QED
  BY <1>2, <1>4

(* DoneAgreesWithRecords: the job's row and its records are two copies of   *)
(* one truth, and stay so under overlapping and resumed runs.               *)
THEOREM DoneIsRecorded == Spec => []DoneAgreesWithRecords
<1>1. Init => DoneAgreesWithRecords
  BY DEF Init, DoneAgreesWithRecords
<1>2. TypeOK /\ DoneAgreesWithRecords /\ [Next]_vars => DoneAgreesWithRecords'
  <2> SUFFICES ASSUME TypeOK, DoneAgreesWithRecords, [Next]_vars PROVE DoneAgreesWithRecords'
    OBVIOUS
  <2> USE DEF DoneAgreesWithRecords
  <2>1. CASE Plan
    BY <2>1 DEF Plan
  <2>2. CASE Cancel
    BY <2>2 DEF Cancel, SetStatus
  <2>3. ASSUME NEW c \in Cleaners, CleanupReads(c) \/ CleanUp(c) \/ CleanupDies(c)
        PROVE  DoneAgreesWithRecords'
    BY <2>3 DEF CleanupReads, CleanUp, CleanupLocks, CleanupDeletes, CleanupDies, jobState
  <2>4. ASSUME NEW p \in Runners, BeginRunning(p) \/ RecordFailure(p)
        PROVE  DoneAgreesWithRecords'
    BY <2>4 DEF BeginRunning, RecordFailure, RecordError, SetStatus
  <2>5. ASSUME NEW p \in Runners, Report(p) PROVE DoneAgreesWithRecords'
    <3>1. row' = "DONE" => Exists
      BY <2>5 DEF Report, SetStatus, Exists, JOB_STATUSES, TERMINAL_STATUSES
    <3> QED
      BY <2>5, <3>1, ReportDone
  <2>6. ASSUME NEW p \in Runners, \/ LockJob(p) \/ WorkerReads(p) \/ GoOn(p) \/ EngineReturns(p)
                                  \/ StopOnCancel(p) \/ LoadTable(p) \/ LockRecords(p)
        PROVE  DoneAgreesWithRecords'
    BY <2>6 DEF LockJob, WorkerReads, GoOn, EngineReturns, StopOnCancel, LoadTable, LockRecords,
                jobState
  <2>7. ASSUME NEW p \in Runners, Invoke(p) \/ Fault(p) PROVE DoneAgreesWithRecords'
    BY <2>7 DEF Invoke, StartRun, RefuseRun, Fault, BeginFails, EngineRaises, Crash, jobState
  <2>8. CASE UNCHANGED vars
    BY <2>8 DEF vars
  <2> QED
    BY <2>1, <2>2, <2>3, <2>4, <2>5, <2>6, <2>7, <2>8,
       DeadlockIsBroken DEF Next, Run
<1> QED
  BY <1>1, <1>2, TypeCorrect, PTL DEF Spec

(* DoneIsEarned: only the report of a run whose every table is ok or        *)
(* skipped makes a job DONE; no cancel, cleanup or failure path does.       *)
THEOREM OnlySuccessMakesDone == Spec => DoneIsEarned
<1> DEFINE Earned == row # "DONE" /\ row' = "DONE" =>
                       \E p \in Runners : pc[p] = "settle" /\ Success(p)
<1>1. TypeOK /\ [Next]_vars => Earned
  <2> SUFFICES ASSUME TypeOK, [Next]_vars, row # "DONE", row' = "DONE"
               PROVE  \E p \in Runners : pc[p] = "settle" /\ Success(p)
    OBVIOUS
  <2>1. ~Plan /\ ~Cancel /\ ~UNCHANGED vars
    BY DEF Plan, Cancel, SetStatus, vars
  <2>2. ASSUME NEW c \in Cleaners PROVE ~CleanupReads(c) /\ ~CleanUp(c) /\ ~CleanupDies(c)
    BY <2>2 DEF CleanupReads, CleanUp, CleanupLocks, CleanupDeletes, CleanupDies, jobState
  <2>3. ASSUME NEW p \in Runners, Run(p) \/ Invoke(p) \/ Fault(p) PROVE Report(p)
    <3>1. ~BeginRunning(p) /\ ~RecordFailure(p)
      BY DEF BeginRunning, RecordFailure, RecordError, SetStatus
    <3>2. /\ ~LockJob(p) /\ ~WorkerReads(p) /\ ~GoOn(p) /\ ~EngineReturns(p) /\ ~StopOnCancel(p)
          /\ ~LoadTable(p) /\ ~LockRecords(p)
      BY DEF LockJob, WorkerReads, GoOn, EngineReturns, StopOnCancel, LoadTable, LockRecords,
             jobState
    <3>3. ~Invoke(p) /\ ~Fault(p)
      BY DEF Invoke, StartRun, RefuseRun, Fault, BeginFails, EngineRaises, Crash, jobState
    <3> QED
      BY <2>3, <3>1, <3>2, <3>3 DEF Run
  <2>4. PICK p \in Runners : Report(p)
    BY <2>1, <2>2, <2>3, DeadlockIsBroken DEF Next
  <2>5. pc[p] = "settle" /\ Exists
    BY <2>4 DEF Report, SetStatus
  <2> QED
    BY <2>4, <2>5, ReportDone
<1> QED
  BY <1>1, TypeCorrect, PTL DEF Spec, DoneIsEarned

-----------------------------------------------------------------------------
(* Refinement of JobRow.                                                    *)

(* Whoever has read the job's row has found one.                            *)
PlannedFirst ==
    row = "UNPLANNED" => /\ \A p \in Runners : pc[p] \notin Active
                         /\ \A c \in Cleaners : cleaner[c] \notin {"delete", "cascade"}

(* No command does anything about a job before plan has committed it.       *)
LEMMA PlanComesFirst == Spec => []PlannedFirst
<1>1. Init => PlannedFirst
  BY DEF Init, PlannedFirst, Active, Executing, Engine
<1>2. TypeOK /\ PlannedFirst /\ [Next]_vars => PlannedFirst'
  <2> SUFFICES ASSUME TypeOK, PlannedFirst, [Next]_vars, row' = "UNPLANNED"
               PROVE  PlannedFirst'
    BY DEF PlannedFirst
  <2>1. ASSUME NEW status \in JOB_STATUSES, SetStatus(status) PROVE row = "UNPLANNED"
    BY <2>1 DEF SetStatus, JOB_STATUSES, TERMINAL_STATUSES
  <2>2. row = "UNPLANNED"
    <3>1. ASSUME NEW p \in Runners, Run(p) PROVE row = "UNPLANNED"
      BY <2>1, <3>1, FinalStatusType
         DEF Run, LockJob, WorkerReads, BeginRunning, GoOn, EngineReturns, StopOnCancel, LoadTable,
             RecordFailure, RecordError, LockRecords, Report, jobState, JOB_STATUSES,
             TERMINAL_STATUSES
    <3>2. ASSUME NEW p \in Runners, Invoke(p) \/ Fault(p) PROVE row = "UNPLANNED"
      BY <3>2 DEF Invoke, StartRun, RefuseRun, Fault, BeginFails, EngineRaises, Crash, jobState
    <3>3. ASSUME NEW c \in Cleaners, CleanupReads(c) \/ CleanUp(c) \/ CleanupDies(c)
          PROVE  row = "UNPLANNED"
      BY <3>3 DEF CleanupReads, CleanUp, CleanupLocks, CleanupDeletes, CleanupDies, jobState
    <3>4. ~Plan /\ (Cancel => row = "UNPLANNED")
      BY <2>1 DEF Plan, Cancel, JOB_STATUSES, TERMINAL_STATUSES
    <3> QED
      BY <3>1, <3>2, <3>3, <3>4, DeadlockIsBroken DEF Next, vars
  <2> USE <2>2 DEF TypeOK, PlannedFirst
  <2>3. ~Exists /\ \A r : ~Runnable(r)
    BY DEF Exists, Runnable, JOB_STATUSES, TERMINAL_STATUSES
  <2>4. ASSUME NEW p \in Runners PROVE ~Run(p) /\ ~Fault(p)
    BY DEF Run, LockJob, WorkerReads, BeginRunning, GoOn, EngineReturns, StopOnCancel, LoadTable,
           RecordFailure, LockRecords, Report, Fault, BeginFails, EngineRaises, Crash, Active,
           Executing, Engine
  <2>5. ASSUME NEW p \in Runners, Invoke(p) PROVE PlannedFirst'
    BY <2>3, <2>5 DEF Invoke, StartRun, RefuseRun, Exit, Goto, Active, Executing, Engine
  <2>6. ASSUME NEW c \in Cleaners, CleanupReads(c) \/ CleanUp(c) \/ CleanupDies(c)
        PROVE  PlannedFirst'
    BY <2>3, <2>6 DEF CleanupReads, CleanUp, CleanupLocks, CleanupDeletes, CleanupDies
  <2>7. CASE Plan \/ Cancel \/ UNCHANGED vars
    BY <2>3, <2>7 DEF Plan, Cancel, vars
  <2> QED
    BY <2>4, <2>5, <2>6, <2>7, DeadlockIsBroken DEF Next
<1> QED
  BY <1>1, <1>2, TypeCorrect, PTL DEF Spec

RunningNow == {p \in Runners : pc[p] \in Executing}

LEMMA RowStutters ==
    ASSUME UNCHANGED row, UNCHANGED RunningNow
    PROVE  UNCHANGED Row!rowVars
BY DEF Row!rowVars, RunningNow

LEMMA JobExists == Row!Exists("job") <=> Exists
BY DEF Row!Exists, Exists, Row!JOB_STATUSES, JOB_STATUSES, Row!TERMINAL_STATUSES,
       TERMINAL_STATUSES

LEMMA RowSetStatus ==
    ASSUME NEW status, SetStatus(status)
    PROVE  Row!SetStatus("job", status)
BY JobExists DEF SetStatus, Row!SetStatus

(* A step of one process from one label to another moves it in or out of    *)
(* the running ones, and nobody else.                                       *)
LEMMA RunningMoves ==
    ASSUME TypeOK, NEW p \in Runners, NEW l, Goto(p, l)
    PROVE  /\ l \in Executing => RunningNow' = RunningNow \cup {p}
           /\ l \notin Executing => RunningNow' = RunningNow \ {p}
           /\ (l \in Executing <=> pc[p] \in Executing) => UNCHANGED RunningNow
BY DEF TypeOK, Goto, RunningNow

(* One step of the job is one of JobRow's, or none.                         *)
LEMMA RowStep ==
    ASSUME TypeOK, PlannedFirst, [Next]_vars
    PROVE  [Row!RowNext]_(Row!rowVars)
<1>1. ASSUME NEW p \in Runners, BeginRunning(p) PROVE Row!Begin(p)
  <2>1. p \notin RunningNow /\ RunningNow' = RunningNow \cup {p}
    BY <1>1, RunningMoves DEF BeginRunning, RunningNow, Executing, Engine
  <2>2. row # "UNPLANNED" /\ Row!SetStatus("job", "RUNNING")
    BY <1>1, RowSetStatus DEF BeginRunning, PlannedFirst, Active
  <2> QED
    BY <2>1, <2>2 DEF Row!Begin, RunningNow
<1>2. ASSUME NEW p \in Runners, RecordFailure(p) \/ Report(p) PROVE Row!Settle(p)
  <2>1. p \in RunningNow /\ RunningNow' = RunningNow \ {p}
    BY <1>2, RunningMoves DEF RecordFailure, Report, Exit, RunningNow, Executing, Engine
  <2>2. PICK status \in TERMINAL_STATUSES : SetStatus(status)
    BY <1>2, FinalStatusType DEF RecordFailure, RecordError, Report, TERMINAL_STATUSES
  <2>3. Row!SetStatus("job", status) /\ status \in Row!TERMINAL_STATUSES
    BY <2>2, RowSetStatus DEF TERMINAL_STATUSES, Row!TERMINAL_STATUSES
  <2> QED
    BY <2>1, <2>3 DEF Row!Settle, RunningNow
<1>3. ASSUME NEW p \in Runners, \/ LockJob(p) \/ WorkerReads(p) \/ GoOn(p) \/ EngineReturns(p)
                                \/ StopOnCancel(p) \/ LoadTable(p) \/ LockRecords(p)
      PROVE  UNCHANGED Row!rowVars
  <2>1. UNCHANGED row
    BY <1>3 DEF LockJob, WorkerReads, GoOn, EngineReturns, StopOnCancel, LoadTable, LockRecords,
                jobState
  <2>2. UNCHANGED RunningNow
    BY <1>3, RunningMoves DEF LockJob, WorkerReads, GoOn, EngineReturns, StopOnCancel, LoadTable,
                              LockRecords, Exit, Executing, Engine
  <2> QED
    BY <2>1, <2>2, RowStutters
<1>4. ASSUME NEW p \in Runners, Invoke(p) PROVE UNCHANGED Row!rowVars
  <2>1. UNCHANGED row
    BY <1>4 DEF Invoke, StartRun, RefuseRun, jobState
  <2>2. UNCHANGED RunningNow
    BY <1>4, RunningMoves DEF Invoke, StartRun, RefuseRun, Exit, Executing, Engine
  <2> QED
    BY <2>1, <2>2, RowStutters
<1>5. ASSUME NEW p \in Runners, Fault(p) PROVE Row!Die(p) \/ UNCHANGED Row!rowVars
  <2>1. UNCHANGED row
    BY <1>5 DEF Fault, BeginFails, EngineRaises, Crash, jobState
  <2>2. CASE BeginFails(p) \/ EngineRaises(p)
    BY <2>1, <2>2, RunningMoves, RowStutters DEF BeginFails, EngineRaises, Exit, Executing, Engine
  <2>3. CASE Crash(p)
    <3>1. RunningNow' = RunningNow \ {p}
      BY <2>3, RunningMoves DEF Crash, Exit, Executing, Engine
    <3>2. CASE p \in RunningNow
      BY <2>1, <3>1, <3>2 DEF Row!Die, RunningNow
    <3>3. CASE p \notin RunningNow
      BY <2>1, <3>1, <3>3, RowStutters
    <3> QED
      BY <3>2, <3>3
  <2> QED
    BY <1>5, <2>2, <2>3 DEF Fault
<1>6. ASSUME NEW c \in Cleaners, CleanupReads(c) \/ CleanUp(c) \/ CleanupDies(c)
      PROVE  Row!Delete("job") \/ UNCHANGED Row!rowVars
  <2>1. UNCHANGED RunningNow
    BY <1>6 DEF CleanupReads, CleanUp, CleanupLocks, CleanupDeletes, CleanupDies, RunningNow
  <2>2. CASE CleanupDeletes(c)
    <3>1. row' = "DELETED" /\ row # "UNPLANNED"
      BY <2>2 DEF CleanupDeletes, PlannedFirst
    <3>2. CASE Exists
      BY <2>1, <3>1, <3>2, JobExists DEF Row!Delete, RunningNow
    <3>3. CASE ~Exists
      <4>1. row = "DELETED"
        BY <3>1, <3>3 DEF TypeOK, Exists
      <4> QED
        BY <2>1, <3>1, <4>1, RowStutters
    <3> QED
      BY <3>2, <3>3
  <2>3. CASE CleanupReads(c) \/ CleanupLocks(c) \/ CleanupDies(c)
    BY <2>1, <2>3, RowStutters DEF CleanupReads, CleanupLocks, CleanupDies, jobState
  <2> QED
    BY <1>6, <2>2, <2>3 DEF CleanUp
<1>7. ASSUME Plan PROVE Row!Plan("job")
  BY <1>7 DEF Plan, Row!Plan
<1>8. ASSUME Cancel PROVE Row!Cancel("job")
  <2>1. Row!Exists("job") /\ Row!SetStatus("job", "CANCELLED")
    BY <1>8, JobExists, RowSetStatus DEF Cancel
  <2> QED
    BY <1>8, <2>1 DEF Cancel, Row!Cancel
<1>9. CASE UNCHANGED vars
  BY <1>9, RowStutters DEF vars, RunningNow
<1> QED
  BY <1>1, <1>2, <1>3, <1>4, <1>5, <1>6, <1>7, <1>8, <1>9, DeadlockIsBroken
     DEF Next, Run, Row!RowNext, Row!Execute

(* ImplementsJobRow: to status, wait and the local files the job behaves as *)
(* JobRow says, whatever the locks, the engine, cleanup and crashes do.     *)
THEOREM JobImplementsRow == Spec => ImplementsJobRow
<1>1. Init => Row!RowInit
  BY DEF Init, Row!RowInit, Executing, Engine
<1>2. TypeOK /\ PlannedFirst /\ [Next]_vars => [Row!RowNext]_(Row!rowVars)
  BY RowStep
<1> QED
  BY <1>1, <1>2, TypeCorrect, PlanComesFirst, PTL DEF Spec, ImplementsJobRow, Row!RowSpec

-----------------------------------------------------------------------------
(* Refinement of EngineCall.                                                *)

(* The results so far are those of the tables before pos, none of them      *)
(* cancelled; a call that has come to its end has all of them; and a        *)
(* command that has no call has none.                                       *)
TurnOf(p) ==
    /\ pc[p] \in {"check", "load"} => \A j \in 1..N :
         res[p][j] \in IF j < pos[p] THEN {"ok", "failed", "skipped"} ELSE {"none"}
    /\ pc[p] \in {"finish", "report", "settle"} => \A j \in 1..N : res[p][j] # "none"
    /\ pc[p] \notin Executing => pos[p] = 1 /\ res[p] = NoResults

TurnInv == \A p \in Runners : TurnOf(p)

(* A command that ends takes its results along ...                          *)
LEMMA ExitKeepsTurns ==
    ASSUME TypeOK, TurnInv, NEW p \in Runners, NEW l \in {"done", "dead"}, Exit(p, l)
    PROVE  TurnInv'
BY DEF TypeOK, TurnInv, TurnOf, Exit, Goto, Executing, Engine

(* ... and one that goes on to a label of the same kind keeps them.         *)
LEMMA GotoKeepsTurns ==
    ASSUME TypeOK, TurnInv, NEW p \in Runners, NEW l, Goto(p, l), UNCHANGED <<pos, res>>,
           l \in {"check", "load"} => pc[p] \in {"check", "load"} \/ pc[p] \notin Executing,
           l \in {"finish", "report", "settle"} => pc[p] \in {"finish", "report", "settle"},
           l \notin Executing => pc[p] \notin Executing
    PROVE  TurnInv'
BY SizeAssumption DEF TypeOK, TurnInv, TurnOf, Goto, NoResults

(* Results come in table_order, one for each table that has had its turn.   *)
LEMMA TurnInvariant == Spec => []TurnInv
<1>1. Init => TurnInv
  BY DEF Init, TurnInv, TurnOf, Executing, Engine
<1>2. TypeOK /\ TurnInv /\ [Next]_vars => TurnInv'
  <2> SUFFICES ASSUME TypeOK, TurnInv, [Next]_vars PROVE TurnInv'
    OBVIOUS
  <2>1. CASE UNCHANGED <<pc, pos, res>>
    BY <2>1 DEF TurnInv, TurnOf
  <2>2. CASE Plan \/ Cancel \/ UNCHANGED vars
    BY <2>1, <2>2 DEF Plan, Cancel, vars
  <2>3. ASSUME NEW c \in Cleaners, CleanupReads(c) \/ CleanUp(c) \/ CleanupDies(c)
        PROVE  TurnInv'
    BY <2>1, <2>3 DEF CleanupReads, CleanUp, CleanupLocks, CleanupDeletes, CleanupDies
  <2>4. ASSUME NEW p \in Runners, LockJob(p) \/ WorkerReads(p) \/ Invoke(p) PROVE TurnInv'
    <3>1. CASE LockJob(p) \/ WorkerReads(p) \/ \E r \in BOOLEAN : RefuseRun(p, r)
      BY <3>1, ExitKeepsTurns, GotoKeepsTurns
      DEF LockJob, WorkerReads, RefuseRun, Executing, Engine
    <3>2. ASSUME NEW r \in BOOLEAN, NEW background \in BOOLEAN, StartRun(p, r, background)
          PROVE  TurnInv'
      <4>1. PICK l \in {"spawned", "lock"} : Goto(p, l)
        BY <3>2 DEF StartRun
      <4> QED
        BY <3>2, <4>1, GotoKeepsTurns DEF StartRun, Executing, Engine
    <3> QED
      BY <2>4, <3>1, <3>2 DEF Invoke
  <2>5. ASSUME NEW p \in Runners, BeginRunning(p) \/ GoOn(p) \/ EngineReturns(p) \/ LockRecords(p)
        PROVE  TurnInv'
    BY <2>5, GotoKeepsTurns
    DEF BeginRunning, GoOn, EngineReturns, LockRecords, Executing, Engine
  <2>6. ASSUME NEW p \in Runners, StopOnCancel(p) PROVE TurnInv'
    <3>1. pc' = [pc EXCEPT ![p] = "finish"] /\ pos' = pos /\ pc[p] = "check"
      BY <2>6 DEF StopOnCancel, Goto
    <3>2. /\ \A j \in 1..N : res'[p][j] = IF j \in pos[p]..N THEN "cancelled" ELSE res[p][j]
          /\ \A q \in Runners \ {p} : res'[q] = res[q]
      BY <2>6 DEF StopOnCancel, Remaining, TypeOK
    <3>3. ASSUME NEW j \in 1..N PROVE res'[p][j] # "none"
      <4>1. j \in Int /\ pos[p] \in 1..N /\ N \in Int
        BY SizeAssumption DEF TypeOK
      <4>2. j < pos[p] => res[p][j] # "none"
        BY <3>1 DEF TurnInv, TurnOf
      <4> QED
        BY <3>2, <4>1, <4>2
    <3>4. TurnOf(p)'
      BY <3>1, <3>3 DEF TurnOf, TypeOK, Executing, Engine
    <3>5. ASSUME NEW q \in Runners, q # p PROVE TurnOf(q)'
      BY <3>1, <3>2, <3>5 DEF TurnInv, TurnOf, TypeOK
    <3> QED
      BY <3>4, <3>5 DEF TurnInv
  <2>7. ASSUME NEW p \in Runners, LoadTable(p) PROVE TurnInv'
    <3> SUFFICES ASSUME NEW q \in Runners PROVE TurnOf(q)'
      BY DEF TurnInv
    <3> USE SizeAssumption DEF TypeOK, TurnInv, TurnOf, Executing, Engine
    <3>0. CASE q # p
      <4>1. \E r \in {"ok", "failed", "skipped"} : res' = [res EXCEPT ![p][pos[p]] = r]
        BY <2>7 DEF LoadTable
      <4>2. \E l : pc' = [pc EXCEPT ![p] = l]
        BY <2>7 DEF LoadTable, Goto
      <4>3. pos' = [pos EXCEPT ![p] = pos[p] + 1] \/ pos' = pos
        BY <2>7 DEF LoadTable
      <4>4. pc'[q] = pc[q] /\ pos'[q] = pos[q] /\ res'[q] = res[q]
        BY <3>0, <4>1, <4>2, <4>3
      <4> QED
        BY <4>4
    <3>1. PICK r \in {"ok", "failed", "skipped"} : res' = [res EXCEPT ![p][pos[p]] = r]
      BY <2>7 DEF LoadTable
    <3>2. CASE q = p /\ HasNext(p)
      <4>1. pos'[p] = pos[p] + 1 /\ pc'[p] = "check" /\ pc[p] = "load"
        BY <2>7, <3>2 DEF LoadTable, Goto
      <4> QED
        BY <3>1, <3>2, <4>1
    <3>3. CASE q = p /\ ~HasNext(p)
      <4>1. pc'[p] = "finish" /\ pc[p] = "load" /\ pos[p] = N
        BY <2>7, <3>3 DEF LoadTable, HasNext, Goto
      <4>2. ASSUME NEW j \in 1..N PROVE res'[p][j] # "none"
        <5>1. res'[p][j] = IF j = N THEN r ELSE res[p][j]
          BY <3>1, <4>1
        <5>2. ASSUME j # N PROVE res[p][j] \in {"ok", "failed", "skipped"}
          <6>1. j < N
            BY <5>2
          <6>2. \A k \in 1..N : k < N => res[p][k] \in {"ok", "failed", "skipped"}
            BY <4>1
          <6> QED
            BY <6>1, <6>2
        <5> QED
          BY <5>1, <5>2
      <4> QED
        BY <3>3, <4>1, <4>2
    <3> QED
      BY <3>0, <3>2, <3>3
  <2>8. ASSUME NEW p \in Runners, RecordFailure(p) \/ Report(p) PROVE TurnInv'
    BY <2>8, ExitKeepsTurns DEF RecordFailure, Report
  <2>9. ASSUME NEW p \in Runners, Fault(p) PROVE TurnInv'
    BY <2>9, ExitKeepsTurns, GotoKeepsTurns
    DEF Fault, BeginFails, EngineRaises, Crash, Executing, Engine
  <2> QED
    BY <2>2, <2>3, <2>4, <2>5, <2>6, <2>7, <2>8, <2>9, DeadlockIsBroken DEF Next, Run
<1> QED
  BY <1>1, <1>2, TypeCorrect, PTL DEF Spec

(* A command that moves on moves its call as CallAt says.                   *)
LEMMA CallMoves ==
    ASSUME TypeOK, NEW p \in Runners, NEW l, Goto(p, l)
    PROVE  Call!Goto(p, CallAt(l))
BY DEF TypeOK, Goto, Call!Goto, CallAt

LEMMA CallStutters == UNCHANGED <<pc, res>> => UNCHANGED Call!callVars
BY DEF Call!callVars, CallAt

LEMMA CallStays ==
    ASSUME TypeOK, NEW p \in Runners, NEW l, Goto(p, l), CallAt(l) = CallAt(pc[p]),
           UNCHANGED res
    PROVE  UNCHANGED Call!callVars
<1>1. Call!Goto(p, CallAt(pc[p]))
  BY CallMoves
<1> QED
  BY <1>1 DEF Call!Goto, Call!callVars

LEMMA CallLeaves ==
    ASSUME TypeOK, TurnInv, NEW p \in Runners, NEW l \in {"done", "dead"}, Exit(p, l)
    PROVE  Call!Leave(p) \/ UNCHANGED Call!callVars
<1>1. Call!Goto(p, "out") /\ res' = [res EXCEPT ![p] = Call!NoResults]
  BY CallMoves DEF Exit, CallAt, NoResults, Call!NoResults
<1>2. CASE pc[p] \in Executing
  BY <1>1, <1>2 DEF Call!Leave, CallAt, Executing, Engine
<1>3. CASE pc[p] \notin Executing
  <2>1. res' = res /\ CallAt(pc[p]) = "out"
    BY <1>1, <1>3 DEF TypeOK, TurnInv, TurnOf, NoResults, Call!NoResults, CallAt, Executing,
                      Engine
  <2> QED
    BY <1>1, <2>1 DEF Call!Goto, Call!callVars
<1> QED
  BY <1>2, <1>3

(* The next table is the one at pos.                                        *)
LEMMA CallTurn ==
    ASSUME TypeOK, TurnInv, NEW p \in Runners, pc[p] \in {"check", "load"}
    PROVE  /\ \A j \in 1..N : res[p][j] = "none" <=> j \in Remaining(p)
           /\ \A j \in 1..N : Call!Turn(p, j) <=> j = pos[p]
<1>1. pos[p] \in 1..N
  BY DEF TypeOK
<1>2. \A j \in 1..N : res[p][j] = "none" <=> ~(j < pos[p])
  BY DEF TurnInv, TurnOf
<1>3. \A j \in 1..N : j \in Remaining(p) <=> ~(j < pos[p])
  BY <1>1, SizeAssumption DEF Remaining
<1> QED
  BY <1>1, <1>2, <1>3, SizeAssumption DEF Call!Turn

(* One step of a run is one of EngineCall's, or none.                       *)
LEMMA RunCallStep ==
    ASSUME TypeOK, TurnInv, NEW p \in Runners, Run(p) \/ Invoke(p) \/ Fault(p)
    PROVE  [Call!CallNext]_(Call!callVars)
<1> USE DEF CallAt
<1>1. CASE BeginRunning(p)
  <2>1. Call!Call(p)
    BY <1>1, CallMoves DEF BeginRunning, TypeOK, TurnInv, TurnOf, NoResults, Executing, Engine,
                           Call!Call, Call!NoResults, Call!Going
  <2> QED
    BY <2>1 DEF Call!CallNext
<1>2. CASE GoOn(p)
  <2>1. Call!GoOn(p)
    BY <1>2, CallMoves DEF GoOn, Call!GoOn
  <2> QED
    BY <2>1 DEF Call!CallNext, Call!Proceed
<1>3. CASE StopOnCancel(p)
  <2>1. [j \in 1..N |-> IF j \in Remaining(p) THEN "cancelled" ELSE res[p][j]]
          = [j \in 1..N |-> IF res[p][j] = "none" THEN "cancelled" ELSE res[p][j]]
    BY <1>3, CallTurn DEF StopOnCancel
  <2>2. \E j \in 1..N : Call!Turn(p, j)
    BY <1>3, CallTurn DEF StopOnCancel, TypeOK
  <2>3. Call!Stop(p)
    BY <1>3, <2>1, <2>2, CallMoves DEF StopOnCancel, TypeOK, Call!Stop
  <2> QED
    BY <2>3 DEF Call!CallNext, Call!Proceed
<1>4. CASE LoadTable(p)
  <2>1. pos[p] \in 1..N /\ Call!Turn(p, pos[p])
    BY <1>4, CallTurn DEF LoadTable, TypeOK
  <2>2. Call!Goto(p, IF pos[p] < N THEN "ask" ELSE "finish")
    <3>1. CASE pos[p] < N
      <4>1. Goto(p, "check")
        BY <1>4, <3>1 DEF LoadTable, HasNext
      <4> QED
        BY <3>1, <4>1, CallMoves DEF Call!Goto
    <3>2. CASE ~(pos[p] < N)
      <4>1. Goto(p, "finish")
        BY <1>4, <3>2 DEF LoadTable, HasNext
      <4> QED
        BY <3>2, <4>1, CallMoves DEF Call!Goto
    <3> QED
      BY <3>1, <3>2
  <2>3. Call!Load(p, pos[p])
    BY <1>4, <2>1, <2>2 DEF LoadTable, Call!Load, Call!Results
  <2> QED
    BY <2>1, <2>3 DEF Call!CallNext, Call!Proceed
<1>5. CASE EngineReturns(p) \/ EngineRaises(p)
  <2>1. Call!Return(p) \/ Call!Raise(p)
    BY <1>5, CallMoves
    DEF EngineReturns, EngineRaises, Call!Return, Call!Raise, Call!Going, Engine
  <2> QED
    BY <2>1 DEF Call!CallNext, Call!Proceed
<1>6. CASE RecordFailure(p) \/ Report(p) \/ Crash(p) \/ BeginFails(p)
  BY <1>6, CallLeaves DEF RecordFailure, Report, Crash, BeginFails, Call!CallNext
<1>7. CASE LockRecords(p) \/ LockJob(p) \/ WorkerReads(p)
  BY <1>7, CallStays, CallLeaves DEF LockRecords, LockJob, WorkerReads, Call!CallNext
<1>8. ASSUME NEW r \in BOOLEAN, RefuseRun(p, r) PROVE [Call!CallNext]_(Call!callVars)
  BY <1>8, CallLeaves DEF RefuseRun, Call!CallNext
<1>9. ASSUME NEW r \in BOOLEAN, NEW background \in BOOLEAN, StartRun(p, r, background)
       PROVE  UNCHANGED Call!callVars
  <2>1. PICK l \in {"spawned", "lock"} : Goto(p, l)
    BY <1>9 DEF StartRun
  <2> QED
    BY <1>9, <2>1, CallStays DEF StartRun
<1> QED
  BY <1>1, <1>2, <1>3, <1>4, <1>5, <1>6, <1>7, <1>8, <1>9 DEF Run, Invoke, Fault

(* ImplementsEngineCall: every run calls the engine once, as EngineCall     *)
(* says, and mirrors to the records what that call has left.                *)
THEOREM JobCallsEngine == Spec => ImplementsEngineCall
<1>1. Init => Call!CallInit
  BY DEF Init, NoResults, CallAt, Call!CallInit, Call!NoResults
<1>2. TypeOK /\ TurnInv /\ [Next]_vars => [Call!CallNext]_(Call!callVars)
  <2> SUFFICES ASSUME TypeOK, TurnInv, [Next]_vars PROVE [Call!CallNext]_(Call!callVars)
    OBVIOUS
  <2>1. CASE Plan \/ Cancel \/ UNCHANGED vars
    BY <2>1, CallStutters DEF Plan, Cancel, vars
  <2>2. ASSUME NEW c \in Cleaners, CleanupReads(c) \/ CleanUp(c) \/ CleanupDies(c)
        PROVE  UNCHANGED Call!callVars
    BY <2>2, CallStutters
    DEF CleanupReads, CleanUp, CleanupLocks, CleanupDeletes, CleanupDies
  <2> QED
    BY <2>1, <2>2, RunCallStep, DeadlockIsBroken DEF Next
<1> QED
  BY <1>1, <1>2, TypeCorrect, TurnInvariant, PTL DEF Spec, ImplementsEngineCall, Call!CallSpec

(* Conversely the job takes whatever an engine may do: each step of         *)
(* EngineCall that is the engine's own is one of this run, with a True from *)
(* check_cancelled only when the row says so.  (A table that has its result *)
(* at the poll, without a load, takes GoOn and LoadTable.)                  *)
THEOREM JobTakesAnyEngine ==
    ASSUME TypeOK, TurnInv, NEW p \in Runners, Call!Proceed(p),
           Call!Stop(p) => row = "CANCELLED",
           ASSUME NEW j \in 1..N, Call!Load(p, j) PROVE pc[p] = "load",
           NEW label \in Executing \ {"settle"}, Goto(p, label),
           pos' = [pos EXCEPT ![p] = IF pc[p] = "load" /\ label = "check" THEN @ + 1 ELSE @],
           UNCHANGED <<jobState, locks, resume, cleaner>>
    PROVE  Run(p) \/ EngineRaises(p)
<1> USE DEF CallAt, Executing, Engine
<1>0. pc[p] \in Active \cup {"idle", "done", "dead"} /\ pc'[p] = label
  BY DEF TypeOK, Goto
<1>1. CASE Call!GoOn(p)
  <2>1. pc[p] = "check" /\ label = "load"
    BY <1>0, <1>1 DEF Call!GoOn, Call!Goto
  <2> QED
    BY <1>1, <2>1 DEF Call!GoOn, GoOn, Run, TypeOK
<1>2. CASE Call!Stop(p)
  <2>1. pc[p] = "check" /\ label = "finish"
    BY <1>0, <1>2 DEF Call!Stop, Call!Goto
  <2>2. [j \in 1..N |-> IF j \in Remaining(p) THEN "cancelled" ELSE res[p][j]]
          = [j \in 1..N |-> IF res[p][j] = "none" THEN "cancelled" ELSE res[p][j]]
    BY <2>1, CallTurn
  <2>3. StopOnCancel(p)
    BY <1>2, <2>1, <2>2 DEF Call!Stop, StopOnCancel, TypeOK
  <2> QED
    BY <2>3 DEF Run
<1>3. ASSUME NEW j \in 1..N, Call!Load(p, j) PROVE Run(p)
  <2>1. pc[p] = "load" /\ j = pos[p]
    BY <1>3, CallTurn DEF Call!Load
  <2>2. label = IF j < N THEN "check" ELSE "finish"
    BY <1>0, <1>3 DEF Call!Load, Call!Goto
  <2>3. \E r \in {"ok", "failed", "skipped"} : res' = [res EXCEPT ![p][pos[p]] = r]
    BY <1>3, <2>1 DEF Call!Load, Call!Results
  <2>4. LoadTable(p)
    BY <2>1, <2>2, <2>3 DEF LoadTable, HasNext, TypeOK
  <2> QED
    BY <2>4 DEF Run
<1>4. CASE Call!Return(p)
  <2>1. pc[p] = "finish" /\ label = "report"
    BY <1>0, <1>4 DEF Call!Return, Call!Goto
  <2> QED
    BY <1>4, <2>1 DEF Call!Return, EngineReturns, Run, TypeOK
<1>5. CASE Call!Raise(p)
  <2>1. pc[p] \in Engine /\ label = "fail"
    BY <1>0, <1>5 DEF Call!Raise, Call!Goto, Call!Going
  <2> QED
    BY <1>5, <2>1 DEF Call!Raise, EngineRaises, TypeOK
<1> QED
  BY <1>1, <1>2, <1>3, <1>4, <1>5 DEF Call!Proceed

(* What EngineCall promises its callers holds of the reports that are       *)
(* mirrored to the records.                                                 *)
Calls == INSTANCE EngineCallProofs WITH
    Callers <- Runners, at <- [p \in Runners |-> CallAt(pc[p])]

LEMMA SameCalls == Call!CallSpec => Calls!CallSpec
BY PTL
DEF Call!CallSpec, Calls!CallSpec, Call!CallInit, Calls!CallInit, Call!CallNext, Calls!CallNext,
    Call!callVars, Calls!callVars, Call!NoResults, Calls!NoResults, Call!Results, Calls!Results,
    Call!Going, Calls!Going, Call!Turn, Calls!Turn, Call!Goto, Calls!Goto, Call!Call, Calls!Call,
    Call!GoOn, Calls!GoOn, Call!Stop, Calls!Stop, Call!Load, Calls!Load, Call!Return,
    Calls!Return, Call!Raise, Calls!Raise, Call!Leave, Calls!Leave, Call!Proceed, Calls!Proceed

THEOREM JobReportsAreWhole == Spec => []Call!ReportIsWhole
<1>1. Calls!ReportIsWhole => Call!ReportIsWhole
  BY DEF Calls!ReportIsWhole, Call!ReportIsWhole
<1>2. Calls!CallSpec => []Calls!ReportIsWhole
  BY Calls!ReportsAreWhole, SizeAssumption
<1> QED
  BY <1>1, <1>2, SameCalls, JobCallsEngine, PTL DEF ImplementsEngineCall
=============================================================================
