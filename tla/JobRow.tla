------------------------------- MODULE JobRow --------------------------------
(***************************************************************************)
(* What everybody else sees of the jobs in oracdb$jobs: the status of each *)
(* row, and which run commands are between RUNNING and their last word.    *)
(* It leaves out locks, records, tables and the engine: JobLifecycle has   *)
(* them and implements this module, Commands builds on it.                 *)
(***************************************************************************)
EXTENDS FiniteSets

CONSTANTS
    Jobs,       \* job ids
    Runners,    \* run commands
    JobOf       \* the job that each run command is given

ASSUME JobOfAssumption == JobOf \in [Runners -> Jobs]

VARIABLES
    row,        \* status of each job's row; UNPLANNED or DELETED: no row
    running     \* run commands that have committed RUNNING and go on

rowVars == <<row, running>>

TERMINAL_STATUSES == {"DONE", "FAILED", "CANCELLED"}
JOB_STATUSES == {"PLANNED", "RUNNING"} \cup TERMINAL_STATUSES

Exists(j) == row[j] \in JOB_STATUSES

RowInit ==
    /\ row = [j \in Jobs |-> "UNPLANNED"]
    /\ running = {}

(* UPDATE ... WHERE job_id = :job_id: no row, no effect.                    *)
SetStatus(j, status) == row' = [row EXCEPT ![j] = IF Exists(j) THEN status ELSE @]

Plan(j) ==
    /\ row[j] = "UNPLANNED"
    /\ row' = [row EXCEPT ![j] = "PLANNED"]
    /\ UNCHANGED running

(* RUNNING is written whatever the status has become since run read it.     *)
Begin(r) ==
    /\ r \notin running /\ row[JobOf[r]] # "UNPLANNED"
    /\ SetStatus(JobOf[r], "RUNNING")
    /\ running' = running \cup {r}

(* A run has the last word on its job, over other runs and over a cancel.   *)
Settle(r) ==
    /\ r \in running
    /\ \E status \in TERMINAL_STATUSES : SetStatus(JobOf[r], status)
    /\ running' = running \ {r}

Die(r) == r \in running /\ running' = running \ {r} /\ UNCHANGED row

Cancel(j) == Exists(j) /\ SetStatus(j, "CANCELLED") /\ UNCHANGED running

(* Deleted for good: no run, cancel or plan brings the row back.            *)
Delete(j) == Exists(j) /\ row' = [row EXCEPT ![j] = "DELETED"] /\ UNCHANGED running

Execute == \E r \in Runners : Begin(r) \/ Settle(r) \/ Die(r)

RowNext == Execute \/ \E j \in Jobs : Plan(j) \/ Cancel(j) \/ Delete(j)

RowSpec == RowInit /\ [][RowNext]_rowVars
=============================================================================
