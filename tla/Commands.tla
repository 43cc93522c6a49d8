------------------------------ MODULE Commands -------------------------------
(***************************************************************************)
(* The oracdb commands around a job's row, as the processes they are: plan *)
(* and cleanup, which also edit the local index of jobs, endpoints add and *)
(* remove, which edit the registry, and wait and status --watch, which     *)
(* poll the row, and cancel.  What runs do to the row is JobRow's.         *)
(*                                                                         *)
(* jobs.json and endpoints.yaml are read whole, changed in memory and      *)
(* written back whole: write_text truncates the file and then writes it in *)
(* one piece (a file beyond one buffer is not modelled), and no command    *)
(* locks it.  An empty file reads as one without entries.                  *)
(***************************************************************************)
EXTENDS JobRow

CONSTANTS
    Terminals,      \* in each, one oracdb command at a time
    Given,          \* the commands that may be given in each
    Source, Target  \* endpoint names: of every job here

ASSUME EndpointAssumption == Source # Target

VARIABLES
    file,       \* what the two files say
    cmd,        \* the command of each terminal
    pc,         \* where it stands
    copy,       \* its copy of the file it edits
    late,       \* the deadline of its wait has passed
    due,        \* HISTORY: what every save, one after the other, comes to
    clean       \* HISTORY: files no save has met another's, and none was cut short

files == <<file, due, clean>>
commandVars == <<rowVars, files, cmd, pc, copy, late>>

Endpoints == {Source, Target}
Index == "jobs.json"
Registry == "endpoints.yaml"

Nothing == [verb |-> "none"]
NewPlan == [verb |-> "plan"]            \* its job has no id yet
Commands ==
    {NewPlan} \cup [verb : {"cancel", "cleanup", "wait", "watch"}, name : Jobs]
              \cup [verb : {"add", "remove"}, name : Endpoints]

Edits(c) == IF cmd[c].verb \in {"add", "remove"} THEN Registry ELSE Index
Adds(c) == cmd[c].verb \in {"add", "plan"}
Polling == {"poll", "decide", "sleep"}
Saving == {"load", "truncate", "write"}
Labels == Polling \cup Saving \cup
          {"idle", "name", "endpoint", "insert", "cancel", "read", "delete", "gave up"}

ASSUME GivenAssumption == Given \in [Terminals -> SUBSET Commands]

CommandsTypeOK ==
    /\ row \in [Jobs -> JOB_STATUSES \cup {"UNPLANNED", "DELETED"}]
    /\ running \subseteq Runners
    /\ file[Index] \subseteq Jobs /\ file[Registry] \subseteq Endpoints
    /\ cmd \in [Terminals -> Commands \cup [verb : {"plan"}, name : Jobs] \cup {Nothing}]
    /\ pc \in [Terminals -> Labels]
    /\ \A c \in Terminals : copy[c] \subseteq Jobs \/ copy[c] \subseteq Endpoints
    /\ late \subseteq {c \in Terminals : pc[c] \in Polling /\ cmd[c].verb = "wait"}
    /\ due[Index] \subseteq Jobs /\ due[Registry] \subseteq Endpoints
    /\ clean \subseteq {Index, Registry}

(* A machine where the endpoints have been registered and no job planned.   *)
FirstFiles == [f \in {Index, Registry} |-> IF f = Registry THEN Endpoints ELSE {}]

CommandsInit ==
    /\ RowInit
    /\ file = FirstFiles /\ due = FirstFiles /\ clean = {Index, Registry}
    /\ cmd = [c \in Terminals |-> Nothing]
    /\ pc = [c \in Terminals |-> "idle"]
    /\ copy = [c \in Terminals |-> {}]
    /\ late = {}

Goto(c, label) == pc' = [pc EXCEPT ![c] = label] /\ UNCHANGED <<cmd, copy, late>>
MutantForget(c) == UNCHANGED late  \* MUTANT: the next wait finds it expired
Forget(c) == late' = late \ {c}

(* The process ends, and its memory with it.                                *)
End(c) ==
    /\ pc' = [pc EXCEPT ![c] = "idle"]
    /\ cmd' = [cmd EXCEPT ![c] = Nothing]
    /\ copy' = [copy EXCEPT ![c] = {}]
    /\ Forget(c)

-----------------------------------------------------------------------------
Give(c, command) ==
    /\ pc[c] = "idle"
    /\ cmd' = [cmd EXCEPT ![c] = command]
    /\ pc' = [pc EXCEPT ![c] = CASE command.verb = "plan" -> "endpoint"
                                 [] command.verb \in {"add", "remove"} -> "load"
                                 [] OTHER -> "name"]
    /\ UNCHANGED <<rowVars, files, copy, late>>

(* _resolve_target_name: --target, or else the index has to know the job.   *)
ResolveName(c) ==
    /\ pc[c] = "name"
    /\ \/ Goto(c, "endpoint")
       \/ cmd[c].name \notin file[Index] /\ End(c)
    /\ UNCHANGED <<rowVars, files>>

Needed(c) == IF cmd[c].verb = "plan" THEN Endpoints ELSE {Target}

ResolveEndpoint(c) ==
    /\ pc[c] = "endpoint"
    /\ IF Needed(c) \subseteq file[Registry]
         THEN Goto(c, CASE cmd[c].verb = "plan" -> "insert"
                        [] cmd[c].verb = "cancel" -> "cancel"
                        [] cmd[c].verb = "cleanup" -> "read"
                        [] OTHER -> "poll")
         ELSE End(c)
    /\ UNCHANGED <<rowVars, files>>

(* MUTANT: the connection is closed without a commit.                       *)
MutantCommitted(j) == row[j] = "UNPLANNED" /\ UNCHANGED rowVars
Committed(j) == Plan(j)

(* plan commits a job of a fresh id on the target, and then enters it in    *)
(* the index; engine.plan may fail before.                                  *)
InsertJob(c) ==
    /\ pc[c] = "insert"
    /\ \/ \E j \in Jobs : Committed(j) /\ cmd' = [cmd EXCEPT ![c] = [verb |-> "plan", name |-> j]]
          /\ pc' = [pc EXCEPT ![c] = "load"] /\ UNCHANGED <<copy, late>>
       \/ End(c) /\ UNCHANGED rowVars
    /\ UNCHANGED files

(* cancel, from any status.                                                 *)
CancelJob(c) ==
    /\ pc[c] = "cancel"
    /\ IF Exists(cmd[c].name) THEN Cancel(cmd[c].name) ELSE UNCHANGED rowVars
    /\ End(c)
    /\ UNCHANGED files

(* cleanup decides on a status, deletes, and then looks at the index.       *)
ReadStatus(c) ==
    /\ pc[c] = "read"
    /\ IF Exists(cmd[c].name) /\ row[cmd[c].name] # "RUNNING" THEN Goto(c, "delete") ELSE End(c)
    /\ UNCHANGED <<rowVars, files>>

DeleteJob(c) ==
    /\ pc[c] = "delete"
    /\ IF Exists(cmd[c].name) THEN Delete(cmd[c].name) ELSE UNCHANGED rowVars
    /\ Goto(c, "load")
    /\ UNCHANGED files

-----------------------------------------------------------------------------
(* Editing a file.  The registry refuses a name it has, or has not; the     *)
(* index takes both.                                                        *)
Refused(c) ==
    /\ Edits(c) = Registry
    /\ Adds(c) <=> cmd[c].name \in file[Registry]

Load(c) ==
    /\ pc[c] = "load"
    /\ IF Refused(c) THEN End(c)
       ELSE /\ copy' = [copy EXCEPT ![c] = file[Edits(c)]]
            /\ pc' = [pc EXCEPT ![c] = "truncate"]
            /\ UNCHANGED <<cmd, late>>
    /\ UNCHANGED <<rowVars, files>>

Edited(c, entries) ==
    IF Adds(c) THEN entries \cup {cmd[c].name} ELSE entries \ {cmd[c].name}

BeingWritten(f) == \E c \in Terminals : pc[c] = "write" /\ Edits(c) = f

(* The history stops once a file has met an overlap or a half-done save.    *)
Spoil(f) == clean' = clean \ {f} /\ due' = [due EXCEPT ![f] = {}]

Truncate(c) ==
    /\ pc[c] = "truncate"
    /\ file' = [file EXCEPT ![Edits(c)] = {}]
    /\ IF BeingWritten(Edits(c)) \/ copy[c] # file[Edits(c)]
         THEN Spoil(Edits(c)) ELSE UNCHANGED <<clean, due>>
    /\ Goto(c, "write")
    /\ UNCHANGED rowVars

(* MUTANT: only what the command has just added is written.                 *)
MutantWritten(c) == Edited(c, {})
Written(c) == Edited(c, copy[c])

Write(c) ==
    /\ pc[c] = "write"
    /\ file' = [file EXCEPT ![Edits(c)] = Written(c)]
    /\ due' = [due EXCEPT ![Edits(c)] = IF Edits(c) \in clean THEN Edited(c, @) ELSE {}]
    /\ End(c)
    /\ UNCHANGED <<rowVars, clean>>

-----------------------------------------------------------------------------
(* wait and status --watch.                                                 *)

(* MUTANT: CANCELLED is not among the terminal statuses.                    *)
MutantSettled(j) == row[j] \in {"DONE", "FAILED"}
Settled(j) == row[j] \in TERMINAL_STATUSES

(* Without a row the job is unknown, and that is an answer as well.         *)
Poll(c) ==
    /\ pc[c] = "poll"
    /\ IF Settled(cmd[c].name) \/ ~Exists(cmd[c].name) THEN End(c) ELSE Goto(c, "decide")
    /\ UNCHANGED <<rowVars, files>>

(* MUTANT: the deadline is computed anew in every round.                    *)
MutantStillLate(c) == FALSE
StillLate(c) == c \in late

(* Only wait has a deadline.  TRANSIENT is what it answers then.            *)
Decide(c) ==
    /\ pc[c] = "decide"
    /\ IF StillLate(c)
         THEN /\ pc' = [pc EXCEPT ![c] = "gave up"] /\ Forget(c)
              /\ UNCHANGED <<cmd, copy>>
         ELSE Goto(c, "sleep")
    /\ UNCHANGED <<rowVars, files>>

(* MUTANT: the deadline is looked at before the row.                        *)
MutantAfterSleep(c) == IF c \in late THEN "decide" ELSE "poll"
AfterSleep(c) == "poll"

Wake(c) == pc[c] = "sleep" /\ Goto(c, AfterSleep(c)) /\ UNCHANGED <<rowVars, files>>

Answer(c) == pc[c] = "gave up" /\ End(c) /\ UNCHANGED <<rowVars, files>>

(* Time passes, whatever the process does.                                  *)
Expire(c) ==
    /\ pc[c] \in Polling /\ cmd[c].verb = "wait" /\ c \notin late
    /\ late' = late \cup {c}
    /\ UNCHANGED <<rowVars, files, cmd, pc, copy>>

(* The process is killed, Ctrl-C ends a watch.  A file that was truncated   *)
(* stays empty.                                                             *)
Crash(c) ==
    /\ pc[c] # "idle"
    /\ IF pc[c] = "write" THEN Spoil(Edits(c)) ELSE UNCHANGED <<clean, due>>
    /\ End(c)
    /\ UNCHANGED <<rowVars, file>>

-----------------------------------------------------------------------------
Proceed(c) ==
    \/ ResolveName(c) \/ ResolveEndpoint(c)
    \/ InsertJob(c) \/ CancelJob(c) \/ ReadStatus(c) \/ DeleteJob(c)
    \/ Load(c) \/ Truncate(c) \/ Write(c)
    \/ Poll(c) \/ Decide(c) \/ Wake(c) \/ Answer(c)

RunsGoOn == Execute /\ UNCHANGED <<files, cmd, pc, copy, late>>

CommandsNext ==
    \/ \E c \in Terminals : \/ \E command \in Given[c] : Give(c, command)
                            \/ Proceed(c) \/ Expire(c) \/ Crash(c)
    \/ RunsGoOn

(* A process that is alive goes on, and time does; nobody has to give a     *)
(* command, and no run has to begin or to end.                              *)
CommandsSpec ==
    /\ CommandsInit /\ [][CommandsNext]_commandVars
    /\ \A c \in Terminals : WF_commandVars(Proceed(c)) /\ WF_commandVars(Expire(c))

-----------------------------------------------------------------------------
(* Properties.                                                              *)

(* The index may lack a job, but never names one that was not committed:    *)
(* not when plan dies half-way, nor when an old copy is written back.       *)
EntryNamesAJob == \A j \in file[Index] : row[j] # "UNPLANNED"

(* A file loses or resurrects an entry only when two saves overlap or one   *)
(* is cut short; any other sequence of commands leaves in it what they say. *)
OnlyOverlapsLoseUpdates ==
    \A f \in clean : BeingWritten(f) \/ file[f] = due[f]

GivenJobs(c, verb) == {j \in Jobs : [verb |-> verb, name |-> j] \in Given[c]}
Polls(c, verb, j) == pc[c] \in Polling /\ cmd[c] = [verb |-> verb, name |-> j]

(* wait comes to an end whatever becomes of the job: settled and resumed    *)
(* between two polls, orphaned by a killed run, or deleted.                 *)
EveryWaitEnds ==
    \A c \in Terminals : \A j \in GivenJobs(c, "wait") :
        Polls(c, "wait", j) ~> ~Polls(c, "wait", j)

(* A job that settles for good while wait sleeps is reported as settled,    *)
(* however long the sleep was: the timeout does not win over the answer.    *)
SettledWhileAsleepIsReported ==
    \A c \in Terminals : \A j \in GivenJobs(c, "wait") :
        []( /\ Polls(c, "wait", j) /\ pc[c] = "sleep"
            /\ [](row[j] \in TERMINAL_STATUSES)
            => [](pc[c] = "gave up" => cmd[c].name # j))

(* status --watch has no deadline, and ends once the job has settled for    *)
(* good or is gone, also when it was cancelled before any run began.        *)
WatchersEndOnceSettled ==
    \A c \in Terminals : \A j \in GivenJobs(c, "watch") :
        []( /\ Polls(c, "watch", j)
            /\ [](row[j] \in TERMINAL_STATUSES \cup {"DELETED"})
            => <>~Polls(c, "watch", j))
=============================================================================
