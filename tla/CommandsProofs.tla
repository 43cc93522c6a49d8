--------------------------- MODULE CommandsProofs ----------------------------
(***************************************************************************)
(* Proofs about Commands, for any number of terminals, jobs and runs and   *)
(* whatever commands are given.  Type correctness fixes which command has  *)
(* reached which label; what the index names and what a file has lost are  *)
(* inductive next to it.                                                   *)
(***************************************************************************)
EXTENDS Commands, TLAPS

(* A command that has a job or an endpoint has got to where it uses it.     *)
NamedCommands ==
    [verb : {"plan", "cancel", "cleanup", "wait", "watch"}, name : Jobs]
        \cup [verb : {"add", "remove"}, name : Endpoints]

CommandFits(c) ==
    /\ pc[c] \in Saving => /\ cmd[c] \in NamedCommands
                           /\ cmd[c].verb \in {"plan", "cleanup", "add", "remove"}
    /\ pc[c] \in Polling \cup {"gave up", "name", "cancel", "read", "delete"} =>
         cmd[c] \in [verb : {"cancel", "cleanup", "wait", "watch"}, name : Jobs]
    /\ pc[c] \in {"read", "delete"} => cmd[c].verb = "cleanup"
    /\ pc[c] = "endpoint" =>
         cmd[c] \in {NewPlan} \cup [verb : {"cancel", "cleanup", "wait", "watch"}, name : Jobs]

(* The part of the type that the terminals' own variables make up.          *)
TerminalsOK ==
    /\ cmd \in [Terminals -> Commands \cup [verb : {"plan"}, name : Jobs] \cup {Nothing}]
    /\ pc \in [Terminals -> Labels]
    /\ copy \in [Terminals -> (SUBSET Jobs) \cup (SUBSET Endpoints)]
    /\ late \subseteq {c \in Terminals : pc[c] \in Polling /\ cmd[c].verb = "wait"}
    /\ \A c \in Terminals : CommandFits(c)

FilesOK ==
    /\ file \in [{Index, Registry} -> SUBSET (Jobs \cup Endpoints)]
    /\ due \in [{Index, Registry} -> SUBSET (Jobs \cup Endpoints)]
    /\ file[Index] \subseteq Jobs /\ file[Registry] \subseteq Endpoints
    /\ due[Index] \subseteq Jobs /\ due[Registry] \subseteq Endpoints
    /\ clean \subseteq {Index, Registry}
    /\ \A c \in Terminals : pc[c] \in {"truncate", "write"} =>
         copy[c] \subseteq IF Edits(c) = Index THEN Jobs ELSE Endpoints

RowOK ==
    /\ row \in [Jobs -> JOB_STATUSES \cup {"UNPLANNED", "DELETED"}]
    /\ running \subseteq Runners

TypeInv == RowOK /\ TerminalsOK /\ FilesOK

-----------------------------------------------------------------------------
(* JobRow's steps keep its type, and a job once planned is never unplanned. *)
LEMMA RowSteps ==
    ASSUME RowOK, RowNext \/ UNCHANGED rowVars
    PROVE  /\ RowOK'
           /\ \A j \in Jobs : row[j] # "UNPLANNED" => row'[j] # "UNPLANNED"
<1> USE JobOfAssumption DEF RowOK, rowVars, JOB_STATUSES, TERMINAL_STATUSES
<1>1. CASE UNCHANGED rowVars
  BY <1>1
<1>2. ASSUME NEW r \in Runners, Begin(r)
      PROVE  /\ RowOK'
             /\ \A j \in Jobs : row[j] # "UNPLANNED" => row'[j] # "UNPLANNED"
  BY <1>2 DEF Begin, SetStatus
<1>3. ASSUME NEW r \in Runners, Settle(r)
      PROVE  /\ RowOK'
             /\ \A j \in Jobs : row[j] # "UNPLANNED" => row'[j] # "UNPLANNED"
  BY <1>3 DEF Settle, SetStatus
<1>4. ASSUME NEW r \in Runners, Die(r)
      PROVE  /\ RowOK'
             /\ \A j \in Jobs : row[j] # "UNPLANNED" => row'[j] # "UNPLANNED"
  BY <1>4 DEF Die
<1>5. ASSUME NEW i \in Jobs, Plan(i) \/ Cancel(i) \/ Delete(i)
      PROVE  /\ RowOK'
             /\ \A j \in Jobs : row[j] # "UNPLANNED" => row'[j] # "UNPLANNED"
  BY <1>5 DEF Plan, Cancel, Delete, SetStatus
<1> QED
  BY <1>1, <1>2, <1>3, <1>4, <1>5 DEF RowNext, Execute

-----------------------------------------------------------------------------
(* No command does to the row what JobRow does not allow: files, deadlines  *)
(* and crashes of the clients leave the contract with the runs alone.       *)
LEMMA StepKeepsRow ==
    ASSUME TypeInv, [CommandsNext]_commandVars
    PROVE  RowNext \/ UNCHANGED rowVars
<1>1. ASSUME NEW c \in Terminals, InsertJob(c) PROVE RowNext \/ UNCHANGED rowVars
  BY <1>1 DEF InsertJob, Committed, RowNext
<1>2. ASSUME NEW c \in Terminals, CancelJob(c) \/ DeleteJob(c)
      PROVE  RowNext \/ UNCHANGED rowVars
  <2>1. cmd[c].name \in Jobs
    BY <1>2 DEF CancelJob, DeleteJob, TypeInv, TerminalsOK, CommandFits
  <2> QED
    BY <1>2, <2>1 DEF CancelJob, DeleteJob, RowNext
<1>3. ASSUME NEW c \in Terminals,
             \/ ResolveName(c) \/ ResolveEndpoint(c) \/ ReadStatus(c)
             \/ Load(c) \/ Truncate(c) \/ Write(c)
             \/ Poll(c) \/ Decide(c) \/ Wake(c) \/ Answer(c) \/ Expire(c) \/ Crash(c)
             \/ \E command \in Given[c] : Give(c, command)
      PROVE  UNCHANGED rowVars
  BY <1>3 DEF ResolveName, ResolveEndpoint, ReadStatus, Load, Truncate, Write, Poll, Decide, Wake,
              Answer, Expire, Crash, Give
<1>4. CASE RunsGoOn
  BY <1>4 DEF RunsGoOn, RowNext
<1>5. CASE UNCHANGED commandVars
  BY <1>5 DEF commandVars
<1> QED
  BY <1>1, <1>2, <1>3, <1>4, <1>5 DEF CommandsNext, Proceed

-----------------------------------------------------------------------------
(* A label that asks for no more of the command than the one before.        *)
LEMMA GotoType ==
    ASSUME TerminalsOK, NEW c \in Terminals, NEW l \in Labels, Goto(c, l),
           (pc[c] \in Polling) <=> (l \in Polling),
           l \in Saving => /\ cmd[c] \in NamedCommands
                           /\ cmd[c].verb \in {"plan", "cleanup", "add", "remove"},
           l \in Polling \cup {"gave up", "name", "cancel", "read", "delete"} =>
             cmd[c] \in [verb : {"cancel", "cleanup", "wait", "watch"}, name : Jobs],
           l \in {"read", "delete"} => cmd[c].verb = "cleanup",
           l = "endpoint" =>
             cmd[c] \in {NewPlan} \cup [verb : {"cancel", "cleanup", "wait", "watch"}, name : Jobs]
    PROVE  TerminalsOK'
<1>1. pc' \in [Terminals -> Labels] /\ UNCHANGED <<cmd, copy, late>>
  BY DEF Goto, TerminalsOK
<1>2. late' \subseteq {d \in Terminals : pc'[d] \in Polling /\ cmd'[d].verb = "wait"}
  BY DEF Goto, TerminalsOK
<1>3. ASSUME NEW d \in Terminals PROVE CommandFits(d)'
  <2>1. CASE d = c
    BY <2>1 DEF Goto, TerminalsOK, CommandFits
  <2>2. CASE d # c
    BY <2>2 DEF Goto, TerminalsOK, CommandFits
  <2> QED
    BY <2>1, <2>2
<1> QED
  BY <1>1, <1>2, <1>3 DEF TerminalsOK

(* The end of a process leaves nothing behind.                              *)
LEMMA EndType ==
    ASSUME TerminalsOK, NEW c \in Terminals, End(c)
    PROVE  TerminalsOK'
<1>1. /\ pc' \in [Terminals -> Labels]
      /\ copy' \in [Terminals -> (SUBSET Jobs) \cup (SUBSET Endpoints)]
      /\ cmd' \in [Terminals -> Commands \cup [verb : {"plan"}, name : Jobs] \cup {Nothing}]
  BY DEF End, TerminalsOK, Labels
<1>2. late' \subseteq {d \in Terminals : pc'[d] \in Polling /\ cmd'[d].verb = "wait"}
  BY DEF End, Forget, TerminalsOK
<1>3. ASSUME NEW d \in Terminals PROVE CommandFits(d)'
  <2>1. CASE d = c
    BY <2>1 DEF End, TerminalsOK, CommandFits, Saving, Polling
  <2>2. CASE d # c
    BY <2>2 DEF End, TerminalsOK, CommandFits
  <2> QED
    BY <2>1, <2>2
<1> QED
  BY <1>1, <1>2, <1>3 DEF TerminalsOK

(* Every step keeps the terminals' part of the type.                        *)
LEMMA TerminalsStep ==
    ASSUME TypeInv, [CommandsNext]_commandVars
    PROVE  TerminalsOK'
<1> USE DEF TypeInv
<1> DEFINE OnJobs == [verb : {"cancel", "cleanup", "wait", "watch"}, name : Jobs]
<1>1. ASSUME NEW c \in Terminals, NEW command \in Given[c], Give(c, command)
      PROVE  TerminalsOK'
  <2>1. command \in Commands
    BY GivenAssumption
  <2>2. /\ pc' \in [Terminals -> Labels] /\ UNCHANGED copy
        /\ cmd' \in [Terminals -> Commands \cup [verb : {"plan"}, name : Jobs] \cup {Nothing}]
    BY <1>1, <2>1 DEF Give, TerminalsOK, Labels, Saving
  <2>3. late' \subseteq {d \in Terminals : pc'[d] \in Polling /\ cmd'[d].verb = "wait"}
    BY <1>1 DEF Give, TerminalsOK, Polling
  <2>4. ASSUME NEW d \in Terminals PROVE CommandFits(d)'
    <3>1. CASE d # c
      BY <1>1, <3>1 DEF Give, TerminalsOK, CommandFits
    <3>2. CASE d = c
      <4>1. cmd'[c] = command
        BY <1>1 DEF Give, TerminalsOK
      <4>2. CASE command = NewPlan
        <5>1. pc'[c] = "endpoint"
          BY <1>1, <4>2 DEF Give, TerminalsOK, NewPlan
        <5> QED
          BY <3>2, <4>1, <4>2, <5>1 DEF CommandFits, Saving, Polling
      <4>3. CASE command \in OnJobs
        <5>1. pc'[c] = "name"
          BY <1>1, <4>3 DEF Give, TerminalsOK
        <5> QED
          BY <3>2, <4>1, <4>3, <5>1 DEF CommandFits, Saving, Polling
      <4>4. CASE command \in [verb : {"add", "remove"}, name : Endpoints]
        <5>1. pc'[c] = "load"
          BY <1>1, <4>4 DEF Give, TerminalsOK
        <5> QED
          BY <3>2, <4>1, <4>4, <5>1 DEF CommandFits, Saving, Polling, NamedCommands
      <4> QED
        BY <2>1, <4>2, <4>3, <4>4 DEF Commands
    <3> QED
      BY <3>1, <3>2
  <2> QED
    BY <1>1, <2>2, <2>3, <2>4 DEF TerminalsOK, Give
<1>2. ASSUME NEW c \in Terminals, ResolveName(c) PROVE TerminalsOK'
  <2>1. cmd[c] \in OnJobs
    BY <1>2 DEF ResolveName, TerminalsOK, CommandFits
  <2>2. CASE Goto(c, "endpoint")
    BY <1>2, <2>1, <2>2, GotoType DEF ResolveName, Labels, Saving, Polling
  <2> QED
    BY <1>2, <2>2, EndType DEF ResolveName
<1>3. ASSUME NEW c \in Terminals, ResolveEndpoint(c) PROVE TerminalsOK'
  <2>1. cmd[c] \in {NewPlan} \cup OnJobs
    BY <1>3 DEF ResolveEndpoint, TerminalsOK, CommandFits
  <2>2. CASE cmd[c].verb = "plan" /\ Goto(c, "insert")
    BY <1>3, <2>2, GotoType DEF ResolveEndpoint, Labels, Saving, Polling
  <2>3. CASE cmd[c].verb = "cancel" /\ Goto(c, "cancel")
    <3>1. cmd[c] \in OnJobs
      BY <2>1, <2>3 DEF NewPlan
    <3> QED
      BY <1>3, <2>3, <3>1, GotoType DEF ResolveEndpoint, Labels, Saving, Polling
  <2>4. CASE cmd[c].verb = "cleanup" /\ Goto(c, "read")
    <3>1. cmd[c] \in OnJobs
      BY <2>1, <2>4 DEF NewPlan
    <3> QED
      BY <1>3, <2>4, <3>1, GotoType DEF ResolveEndpoint, Labels, Saving, Polling
  <2>5. CASE cmd[c].verb \in {"wait", "watch"} /\ pc' = [pc EXCEPT ![c] = "poll"]
             /\ UNCHANGED <<cmd, copy, late>>
    <3>1. cmd[c] \in OnJobs /\ "poll" \in Labels
      BY <2>1, <2>5 DEF NewPlan, Labels, Polling
    <3>2. late' \subseteq {d \in Terminals : pc'[d] \in Polling /\ cmd'[d].verb = "wait"}
      BY <2>5 DEF TerminalsOK, Polling
    <3>3. ASSUME NEW d \in Terminals PROVE CommandFits(d)'
      <4>1. CASE d = c
        BY <2>5, <3>1, <4>1 DEF TerminalsOK, CommandFits, Saving, Polling
      <4>2. CASE d # c
        BY <2>5, <4>2 DEF TerminalsOK, CommandFits
      <4> QED
        BY <4>1, <4>2
    <3> QED
      BY <2>5, <3>1, <3>2, <3>3 DEF TerminalsOK
  <2>6. CASE End(c)
    BY <2>6, EndType
  <2> QED
    BY <1>3, <2>1, <2>2, <2>3, <2>4, <2>5, <2>6 DEF ResolveEndpoint, Goto, NewPlan
<1>4. ASSUME NEW c \in Terminals, InsertJob(c) PROVE TerminalsOK'
  <2>1. CASE End(c)
    BY <2>1, EndType
  <2>2. ASSUME NEW j \in Jobs, cmd' = [cmd EXCEPT ![c] = [verb |-> "plan", name |-> j]],
               pc' = [pc EXCEPT ![c] = "load"], UNCHANGED <<copy, late>>
        PROVE  TerminalsOK'
    <3>1. /\ pc' \in [Terminals -> Labels]
          /\ cmd' \in [Terminals -> Commands \cup [verb : {"plan"}, name : Jobs] \cup {Nothing}]
      BY <2>2 DEF TerminalsOK, Labels, Saving
    <3>2. late' \subseteq {d \in Terminals : pc'[d] \in Polling /\ cmd'[d].verb = "wait"}
      BY <1>4, <2>2 DEF InsertJob, TerminalsOK, Polling
    <3>3. ASSUME NEW d \in Terminals PROVE CommandFits(d)'
      <4>1. CASE d = c
        BY <2>2, <4>1 DEF TerminalsOK, CommandFits, Saving, Polling, NamedCommands
      <4>2. CASE d # c
        BY <2>2, <4>2 DEF TerminalsOK, CommandFits
      <4> QED
        BY <4>1, <4>2
    <3> QED
      BY <2>2, <3>1, <3>2, <3>3 DEF TerminalsOK
  <2> QED
    BY <1>4, <2>1, <2>2 DEF InsertJob
<1>5. ASSUME NEW c \in Terminals, CancelJob(c) \/ Answer(c) \/ Write(c) \/ Crash(c)
      PROVE  TerminalsOK'
  BY <1>5, EndType DEF CancelJob, Answer, Write, Crash
<1>6. ASSUME NEW c \in Terminals, ReadStatus(c) PROVE TerminalsOK'
  <2>1. CASE Goto(c, "delete")
    <3>1. cmd[c] \in OnJobs /\ cmd[c].verb = "cleanup"
      BY <1>6 DEF ReadStatus, TerminalsOK, CommandFits
    <3> QED
      BY <1>6, <2>1, <3>1, GotoType DEF ReadStatus, Labels, Saving, Polling
  <2> QED
    BY <1>6, <2>1, EndType DEF ReadStatus
<1>7. ASSUME NEW c \in Terminals, DeleteJob(c) PROVE TerminalsOK'
  <2>1. cmd[c] \in OnJobs /\ cmd[c].verb = "cleanup"
    BY <1>7 DEF DeleteJob, TerminalsOK, CommandFits
  <2> QED
    BY <1>7, <2>1, GotoType DEF DeleteJob, Labels, Saving, Polling, NamedCommands
<1>8. ASSUME NEW c \in Terminals, Load(c) \/ Truncate(c) PROVE TerminalsOK'
  <2>1. CASE End(c)
    BY <2>1, EndType
  <2>2. CASE Truncate(c)
    <3>1. /\ cmd[c] \in NamedCommands
          /\ cmd[c].verb \in {"plan", "cleanup", "add", "remove"}
      BY <2>2 DEF Truncate, TerminalsOK, CommandFits, Saving
    <3> QED
      BY <2>2, <3>1, GotoType DEF Truncate, Labels, Saving, Polling
  <2>3. CASE Load(c) /\ ~Refused(c)
    <3>1. copy' \in [Terminals -> (SUBSET Jobs) \cup (SUBSET Endpoints)]
      BY <2>3 DEF Load, TerminalsOK, FilesOK, Edits
    <3>2. pc' \in [Terminals -> Labels] /\ UNCHANGED <<cmd, late>>
      BY <2>3 DEF Load, TerminalsOK, Labels, Saving
    <3>3. late' \subseteq {d \in Terminals : pc'[d] \in Polling /\ cmd'[d].verb = "wait"}
      BY <2>3 DEF Load, TerminalsOK, Polling
    <3>4. ASSUME NEW d \in Terminals PROVE CommandFits(d)'
      <4>1. CASE d = c
        BY <2>3, <4>1 DEF Load, TerminalsOK, CommandFits, Saving, Polling
      <4>2. CASE d # c
        BY <2>3, <4>2 DEF Load, TerminalsOK, CommandFits
      <4> QED
        BY <4>1, <4>2
    <3> QED
      BY <3>1, <3>2, <3>3, <3>4 DEF TerminalsOK
  <2> QED
    BY <1>8, <2>1, <2>2, <2>3 DEF Load
<1>9. ASSUME NEW c \in Terminals, Poll(c) \/ Decide(c) \/ Wake(c) PROVE TerminalsOK'
  <2>1. cmd[c] \in OnJobs /\ pc[c] \in Polling
    BY <1>9 DEF Poll, Decide, Wake, TerminalsOK, CommandFits, Polling
  <2>2. ASSUME NEW l \in Polling, Goto(c, l) PROVE TerminalsOK'
    BY <2>1, <2>2, GotoType DEF Labels, Saving, Polling
  <2>3. CASE pc' = [pc EXCEPT ![c] = "gave up"] /\ Forget(c) /\ UNCHANGED <<cmd, copy>>
    <3>1. pc' \in [Terminals -> Labels]
      BY <2>3 DEF TerminalsOK, Labels
    <3>2. late' \subseteq {d \in Terminals : pc'[d] \in Polling /\ cmd'[d].verb = "wait"}
      BY <2>3 DEF TerminalsOK, Forget
    <3>3. ASSUME NEW d \in Terminals PROVE CommandFits(d)'
      <4>1. CASE d = c
        BY <2>1, <2>3, <4>1 DEF TerminalsOK, CommandFits, Saving, Polling
      <4>2. CASE d # c
        BY <2>3, <4>2 DEF TerminalsOK, CommandFits
      <4> QED
        BY <4>1, <4>2
    <3> QED
      BY <2>3, <3>1, <3>2, <3>3 DEF TerminalsOK
  <2> QED
    BY <1>9, <2>2, <2>3, EndType DEF Poll, Decide, Wake, AfterSleep, Polling
<1>10. ASSUME NEW c \in Terminals, Expire(c) PROVE TerminalsOK'
  BY <1>10 DEF Expire, TerminalsOK, CommandFits
<1>11. CASE RunsGoOn \/ UNCHANGED commandVars
  BY <1>11 DEF RunsGoOn, commandVars, TerminalsOK, CommandFits
<1> QED
  BY <1>1, <1>2, <1>3, <1>4, <1>5, <1>6, <1>7, <1>8, <1>9, <1>10, <1>11 DEF CommandsNext, Proceed

-----------------------------------------------------------------------------
(* Steps that neither edit a file nor begin an edit, and the ends of        *)
(* processes, leave the files to the edits that are going on.               *)
Elsewhere(c) ==
    /\ \/ ResolveName(c) \/ ResolveEndpoint(c) \/ InsertJob(c) \/ CancelJob(c) \/ ReadStatus(c)
       \/ DeleteJob(c) \/ Poll(c) \/ Decide(c) \/ Wake(c) \/ Answer(c) \/ Expire(c)
       \/ \E command \in Given[c] : Give(c, command)

LEMMA ElsewhereKeepsFiles ==
    ASSUME TypeInv, NEW c \in Terminals, Elsewhere(c)
    PROVE  /\ UNCHANGED files
           /\ pc[c] \notin {"truncate", "write"} /\ pc'[c] \notin {"truncate", "write"}
           /\ \A d \in Terminals \ {c} : UNCHANGED <<pc[d], cmd[d], copy[d]>>
<1> USE DEF TypeInv, TerminalsOK, Polling
<1>1. CASE ResolveName(c) \/ ResolveEndpoint(c)
  BY <1>1 DEF ResolveName, ResolveEndpoint, Goto, End
<1>2. CASE InsertJob(c) \/ CancelJob(c)
  BY <1>2 DEF InsertJob, CancelJob, End
<1>3. CASE ReadStatus(c) \/ DeleteJob(c)
  BY <1>3 DEF ReadStatus, DeleteJob, Goto, End
<1>4. CASE Poll(c) \/ Decide(c) \/ Wake(c) \/ Answer(c) \/ Expire(c)
  BY <1>4 DEF Poll, Decide, Wake, AfterSleep, Answer, Expire, Goto, End
<1>5. CASE \E command \in Given[c] : Give(c, command)
  BY <1>5 DEF Give
<1> QED
  BY <1>1, <1>2, <1>3, <1>4, <1>5 DEF Elsewhere

LEMMA ElsewhereOrEdit ==
    [CommandsNext]_commandVars =>
        \/ \E c \in Terminals : Elsewhere(c) \/ Load(c) \/ Truncate(c) \/ Write(c) \/ Crash(c)
        \/ RunsGoOn \/ UNCHANGED commandVars
BY DEF CommandsNext, Proceed, Elsewhere

(* A name that is edited is a name of its file.                             *)
LEMMA EditStays ==
    ASSUME TypeInv, NEW c \in Terminals, pc[c] \in Saving, NEW entries,
           entries \subseteq IF Edits(c) = Index THEN Jobs ELSE Endpoints
    PROVE  Edited(c, entries) \subseteq IF Edits(c) = Index THEN Jobs ELSE Endpoints
<1>1. cmd[c] \in NamedCommands
  BY DEF TypeInv, TerminalsOK, CommandFits
<1>2. cmd[c].name \in IF Edits(c) = Index THEN Jobs ELSE Endpoints
  BY <1>1 DEF NamedCommands, Edits, Index, Registry
<1> QED
  BY <1>2 DEF Edited

(* Files of names, of which one gets new entries.                           *)
LEMMA NewEntries ==
    ASSUME NEW F \in [{Index, Registry} -> SUBSET (Jobs \cup Endpoints)],
           F[Index] \subseteq Jobs, F[Registry] \subseteq Endpoints,
           NEW f \in {Index, Registry}, NEW entries,
           entries \subseteq IF f = Index THEN Jobs ELSE Endpoints
    PROVE  /\ [F EXCEPT ![f] = entries] \in [{Index, Registry} -> SUBSET (Jobs \cup Endpoints)]
           /\ [F EXCEPT ![f] = entries][Index] \subseteq Jobs
           /\ [F EXCEPT ![f] = entries][Registry] \subseteq Endpoints
<1>1. entries \subseteq Jobs \cup Endpoints /\ Index # Registry
  BY DEF Index, Registry
<1> QED
  BY <1>1

(* Every step keeps the files' part of the type.                            *)
LEMMA FilesStep ==
    ASSUME TypeInv, [CommandsNext]_commandVars
    PROVE  FilesOK'
<1> DEFINE Copied(d) == pc[d] \in {"truncate", "write"} =>
                          copy[d] \subseteq IF Edits(d) = Index THEN Jobs ELSE Endpoints
<1>0. \A d \in Terminals : Copied(d) /\ Edits(d) \in {Index, Registry}
  BY DEF TypeInv, FilesOK, Edits
<1>1. ASSUME NEW c \in Terminals, Elsewhere(c) PROVE FilesOK'
  <2>1. ASSUME NEW d \in Terminals PROVE Copied(d)'
    BY <1>0, <1>1, <2>1, ElsewhereKeepsFiles DEF Edits
  <2> QED
    BY <1>1, <2>1, ElsewhereKeepsFiles DEF files, TypeInv, FilesOK
<1>2. ASSUME NEW c \in Terminals, Load(c) PROVE FilesOK'
  <2>1. ASSUME NEW d \in Terminals PROVE Copied(d)'
    <3>1. CASE d # c
      BY <1>0, <1>2, <3>1 DEF Load, End, Edits, TypeInv, TerminalsOK
    <3>2. CASE d = c /\ Refused(c)
      BY <1>2, <3>2 DEF Load, End, TypeInv, TerminalsOK
    <3>3. CASE d = c /\ ~Refused(c)
      <4>1. Edits(c)' = Edits(c) /\ copy'[c] = file[Edits(c)]
        BY <1>2, <3>3 DEF Load, Edits, TypeInv, TerminalsOK
      <4> QED
        BY <1>0, <3>3, <4>1 DEF TypeInv, FilesOK
    <3> QED
      BY <3>1, <3>2, <3>3
  <2> QED
    BY <1>2, <2>1 DEF Load, files, TypeInv, FilesOK
<1>3. ASSUME NEW c \in Terminals, Truncate(c) PROVE FilesOK'
  <2>1. UNCHANGED <<cmd, copy>> /\ (\A d \in Terminals : Edits(d)' = Edits(d))
    BY <1>3 DEF Truncate, Goto, Edits
  <2>2. ASSUME NEW d \in Terminals PROVE Copied(d)'
    BY <1>0, <1>3, <2>1, <2>2 DEF Truncate, Goto, TypeInv, TerminalsOK
  <2>3. /\ file' \in [{Index, Registry} -> SUBSET (Jobs \cup Endpoints)]
        /\ file'[Index] \subseteq Jobs /\ file'[Registry] \subseteq Endpoints
    BY <1>0, <1>3 DEF Truncate, TypeInv, FilesOK
  <2>4. /\ due' \in [{Index, Registry} -> SUBSET (Jobs \cup Endpoints)]
        /\ due'[Index] \subseteq Jobs /\ due'[Registry] \subseteq Endpoints
        /\ clean' \subseteq {Index, Registry}
    BY <1>0, <1>3 DEF Truncate, Spoil, TypeInv, FilesOK
  <2> QED
    BY <2>2, <2>3, <2>4 DEF FilesOK
<1>4. ASSUME NEW c \in Terminals, Write(c) PROVE FilesOK'
  <2>1. ASSUME NEW d \in Terminals PROVE Copied(d)'
    <3>1. CASE d # c
      BY <1>0, <1>4, <3>1 DEF Write, End, Edits, TypeInv, TerminalsOK
    <3>2. CASE d = c
      BY <1>4, <3>2 DEF Write, End, TypeInv, TerminalsOK
    <3> QED
      BY <3>1, <3>2
  <2>2. /\ Edited(c, copy[c]) \subseteq IF Edits(c) = Index THEN Jobs ELSE Endpoints
        /\ Edited(c, due[Edits(c)]) \subseteq IF Edits(c) = Index THEN Jobs ELSE Endpoints
    BY <1>0, <1>4, EditStays DEF Write, Saving, TypeInv, FilesOK
  <2>3. /\ file' \in [{Index, Registry} -> SUBSET (Jobs \cup Endpoints)]
        /\ file'[Index] \subseteq Jobs /\ file'[Registry] \subseteq Endpoints
    <3>1. file' = [file EXCEPT ![Edits(c)] = Edited(c, copy[c])]
      BY <1>4 DEF Write, Written
    <3> QED
      BY <1>0, <2>2, <3>1, NewEntries DEF TypeInv, FilesOK
  <2>4. /\ due' \in [{Index, Registry} -> SUBSET (Jobs \cup Endpoints)]
        /\ due'[Index] \subseteq Jobs /\ due'[Registry] \subseteq Endpoints
        /\ clean' \subseteq {Index, Registry}
    <3>1. PICK entries : /\ due' = [due EXCEPT ![Edits(c)] = entries]
                         /\ entries \in {Edited(c, due[Edits(c)]), {}}
      BY <1>0, <1>4 DEF Write, TypeInv, FilesOK
    <3>2. entries \subseteq IF Edits(c) = Index THEN Jobs ELSE Endpoints
      BY <2>2, <3>1
    <3>3. UNCHANGED clean
      BY <1>4 DEF Write
    <3> QED
      BY <1>0, <3>1, <3>2, <3>3, NewEntries DEF TypeInv, FilesOK
  <2> QED
    BY <2>1, <2>3, <2>4 DEF FilesOK
<1>5. ASSUME NEW c \in Terminals, Crash(c) PROVE FilesOK'
  <2>1. ASSUME NEW d \in Terminals PROVE Copied(d)'
    <3>1. CASE d # c
      BY <1>0, <1>5, <3>1 DEF Crash, End, Edits, TypeInv, TerminalsOK
    <3>2. CASE d = c
      BY <1>5, <3>2 DEF Crash, End, TypeInv, TerminalsOK
    <3> QED
      BY <3>1, <3>2
  <2>2. /\ due' \in [{Index, Registry} -> SUBSET (Jobs \cup Endpoints)]
        /\ due'[Index] \subseteq Jobs /\ due'[Registry] \subseteq Endpoints
        /\ clean' \subseteq {Index, Registry}
    BY <1>0, <1>5 DEF Crash, Spoil, TypeInv, FilesOK
  <2> QED
    BY <1>5, <2>1, <2>2 DEF Crash, TypeInv, FilesOK
<1>6. CASE RunsGoOn \/ UNCHANGED commandVars
  BY <1>6 DEF RunsGoOn, commandVars, files, TypeInv, FilesOK, Edits
<1> QED
  BY <1>1, <1>2, <1>3, <1>4, <1>5, <1>6, ElsewhereOrEdit

LEMMA CommandsTypes == CommandsSpec => []TypeInv
<1>1. CommandsInit => TypeInv
  BY DEF CommandsInit, RowInit, FirstFiles, TypeInv, RowOK, TerminalsOK, FilesOK, CommandFits,
         Labels, Saving, Polling, Index, Registry
<1>2. TypeInv /\ [CommandsNext]_commandVars => TypeInv'
  <2> SUFFICES ASSUME TypeInv, [CommandsNext]_commandVars PROVE TypeInv'
    OBVIOUS
  <2>1. RowOK'
    BY StepKeepsRow, RowSteps DEF TypeInv
  <2> QED
    BY <2>1, TerminalsStep, FilesStep DEF TypeInv
<1> QED
  BY <1>1, <1>2, PTL DEF CommandsSpec

(* CommandsTypeOK: files hold names of their kind, and no deadline outlives *)
(* the wait it was set for.                                                 *)
THEOREM CommandsTypeCorrect == CommandsSpec => []CommandsTypeOK
<1>1. TypeInv => CommandsTypeOK
  BY DEF TypeInv, RowOK, TerminalsOK, FilesOK, CommandsTypeOK
<1> QED
  BY <1>1, CommandsTypes, PTL

(* Composed with the commands, the rows keep JobRow's contract: no command  *)
(* undoes what a run has written, but by cancel and cleanup.                *)
THEOREM CommandsKeepRow == CommandsSpec => RowSpec
<1>1. CommandsInit => RowInit
  BY DEF CommandsInit
<1>2. TypeInv /\ [CommandsNext]_commandVars => [RowNext]_rowVars
  BY StepKeepsRow
<1> QED
  BY <1>1, <1>2, CommandsTypes, PTL DEF CommandsSpec, RowSpec

-----------------------------------------------------------------------------
(* Whatever a command has read, or is about to write, was planned.          *)
PlannedOnly ==
    /\ EntryNamesAJob
    /\ \A c \in Terminals : pc[c] \in {"truncate", "write"} /\ Edits(c) = Index =>
         \A j \in copy[c] : row[j] # "UNPLANNED"
    /\ \A c \in Terminals : pc[c] \in Saving /\ cmd[c].verb = "plan" =>
         row[cmd[c].name] # "UNPLANNED"

LEMMA PlannedOnlyStep ==
    ASSUME TypeInv, PlannedOnly, [CommandsNext]_commandVars
    PROVE  PlannedOnly'
<1> DEFINE Copied(d) == pc[d] \in {"truncate", "write"} /\ Edits(d) = Index =>
                          \A j \in copy[d] : row[j] # "UNPLANNED"
           Named(d) == pc[d] \in Saving /\ cmd[d].verb = "plan" => row[cmd[d].name] # "UNPLANNED"
<1>0. \A d \in Terminals : Copied(d) /\ Named(d)
  BY DEF PlannedOnly
<1>1. \A j \in Jobs : row[j] # "UNPLANNED" => row'[j] # "UNPLANNED"
  BY StepKeepsRow, RowSteps DEF TypeInv
<1>2. /\ file[Index] \subseteq Jobs
      /\ \A d \in Terminals : pc[d] \in {"truncate", "write"} /\ Edits(d) = Index =>
           copy[d] \subseteq Jobs
      /\ \A d \in Terminals : pc[d] \in Saving /\ cmd[d].verb = "plan" => cmd[d].name \in Jobs
  BY DEF TypeInv, FilesOK, TerminalsOK, CommandFits, NamedCommands
<1>3. ASSUME NEW d \in Terminals, UNCHANGED <<pc[d], cmd[d], copy[d]>>
      PROVE  Copied(d)' /\ Named(d)'
  BY <1>0, <1>1, <1>2, <1>3 DEF Edits
<1>4. UNCHANGED file => EntryNamesAJob'
  BY <1>1, <1>2 DEF PlannedOnly, EntryNamesAJob
<1>5. ASSUME NEW c \in Terminals, End(c)
      PROVE  \A d \in Terminals : Copied(d)' /\ Named(d)'
  <2>1. pc'[c] = "idle" /\ \A d \in Terminals \ {c} : UNCHANGED <<pc[d], cmd[d], copy[d]>>
    BY <1>5 DEF End, TypeInv, TerminalsOK
  <2> QED
    BY <1>3, <2>1 DEF Saving
<1>6. ASSUME NEW c \in Terminals, Elsewhere(c) PROVE PlannedOnly'
  <2>1. EntryNamesAJob'
    BY <1>4, <1>6, ElsewhereKeepsFiles DEF files
  <2>2. Copied(c)'
    BY <1>6, ElsewhereKeepsFiles
  <2>3. Named(c)'
    <3> SUFFICES ASSUME (pc[c] \in Saving /\ cmd[c].verb = "plan")'
                 PROVE  row'[cmd'[c].name] # "UNPLANNED"
      OBVIOUS
    <3>1. pc'[c] = "load"
      BY <1>6, ElsewhereKeepsFiles DEF Saving
    <3>2. InsertJob(c) \/ DeleteJob(c) \/ \E command \in Given[c] : Give(c, command)
      BY <1>6, <3>1 DEF Elsewhere, ResolveName, ResolveEndpoint, CancelJob, ReadStatus, Poll,
                        Decide, Wake, AfterSleep, Answer, Expire, Goto, End, TypeInv, TerminalsOK,
                        Polling
    <3>3. ~DeleteJob(c)
      BY DEF DeleteJob, Goto, TypeInv, TerminalsOK, CommandFits
    <3>4. ASSUME NEW command \in Given[c], Give(c, command) PROVE FALSE
      BY <3>1, <3>4 DEF Give, TypeInv, TerminalsOK
    <3>5. PICK j \in Jobs : Plan(j) /\ cmd' = [cmd EXCEPT ![c] = [verb |-> "plan", name |-> j]]
      BY <3>1, <3>2, <3>3, <3>4 DEF InsertJob, Committed, End, TypeInv, TerminalsOK
    <3> QED
      BY <3>5 DEF Plan, TypeInv, TerminalsOK, RowOK
  <2> QED
    BY <1>3, <1>6, <2>1, <2>2, <2>3, ElsewhereKeepsFiles DEF PlannedOnly
<1>7. ASSUME NEW c \in Terminals, Load(c) PROVE PlannedOnly'
  <2>1. EntryNamesAJob'
    BY <1>4, <1>7 DEF Load, files
  <2>2. CASE Refused(c)
    BY <1>5, <1>7, <2>1, <2>2 DEF Load, PlannedOnly
  <2>3. CASE ~Refused(c)
    <3>1. /\ copy'[c] = file[Edits(c)] /\ UNCHANGED <<cmd, row>> /\ pc[c] = "load"
          /\ \A d \in Terminals \ {c} : UNCHANGED <<pc[d], cmd[d], copy[d]>>
      BY <1>7, <2>3 DEF Load, rowVars, TypeInv, TerminalsOK
    <3>2. Copied(c)'
      BY <3>1 DEF Edits, PlannedOnly, EntryNamesAJob
    <3>3. Named(c)'
      BY <1>0, <3>1 DEF Saving
    <3> QED
      BY <1>3, <2>1, <3>1, <3>2, <3>3 DEF PlannedOnly
  <2> QED
    BY <2>2, <2>3
<1>8. ASSUME NEW c \in Terminals, Truncate(c) PROVE PlannedOnly'
  <2>1. UNCHANGED <<cmd, copy, row>> /\ pc[c] = "truncate" /\ pc' = [pc EXCEPT ![c] = "write"]
    BY <1>8 DEF Truncate, Goto, rowVars
  <2>2. ASSUME NEW d \in Terminals PROVE Copied(d)' /\ Named(d)'
    BY <1>0, <2>1 DEF Edits, Saving, TypeInv, TerminalsOK
  <2>3. EntryNamesAJob'
    BY <1>8, <2>1 DEF Truncate, PlannedOnly, EntryNamesAJob, TypeInv, FilesOK
  <2> QED
    BY <2>2, <2>3 DEF PlannedOnly
<1>9. ASSUME NEW c \in Terminals, Write(c) PROVE PlannedOnly'
  <2>1. UNCHANGED row /\ file' = [file EXCEPT ![Edits(c)] = Edited(c, copy[c])] /\ pc[c] = "write"
    BY <1>9 DEF Write, Written, rowVars
  <2>2. CASE Edits(c) = Registry
    <3>1. file'[Index] = file[Index]
      BY <2>1, <2>2 DEF TypeInv, FilesOK, Index, Registry
    <3> QED
      BY <1>5, <1>9, <2>1, <3>1 DEF Write, PlannedOnly, EntryNamesAJob
  <2>3. CASE Edits(c) = Index
    <3>1. file'[Index] = Edited(c, copy[c])
      BY <2>1, <2>3 DEF TypeInv, FilesOK
    <3>2. \A j \in Edited(c, copy[c]) : row[j] # "UNPLANNED"
      <4>1. \A j \in copy[c] : row[j] # "UNPLANNED"
        BY <1>0, <2>1, <2>3
      <4>2. Adds(c) => row[cmd[c].name] # "UNPLANNED"
        BY <1>0, <2>1, <2>3 DEF Adds, Edits, Index, Registry, Saving
      <4> QED
        BY <4>1, <4>2 DEF Edited
    <3> QED
      BY <1>5, <1>9, <2>1, <3>1, <3>2 DEF Write, PlannedOnly, EntryNamesAJob
  <2> QED
    BY <2>2, <2>3 DEF Edits
<1>10. ASSUME NEW c \in Terminals, Crash(c) PROVE PlannedOnly'
  BY <1>4, <1>5, <1>10 DEF Crash, PlannedOnly
<1>11. CASE RunsGoOn \/ UNCHANGED commandVars
  BY <1>3, <1>4, <1>11 DEF RunsGoOn, commandVars, files, PlannedOnly
<1> QED
  BY <1>6, <1>7, <1>8, <1>9, <1>10, <1>11, ElsewhereOrEdit

(* EntryNamesAJob: the index names committed jobs only, under lost updates, *)
(* stale copies and crashes between the commit and the save.                *)
THEOREM IndexNamesJobs == CommandsSpec => []EntryNamesAJob
<1>1. CommandsInit => PlannedOnly
  BY DEF CommandsInit, FirstFiles, PlannedOnly, EntryNamesAJob, Saving, Index, Registry
<1>2. PlannedOnly => EntryNamesAJob
  BY DEF PlannedOnly
<1> QED
  BY <1>1, <1>2, PlannedOnlyStep, CommandsTypes, PTL DEF CommandsSpec

-----------------------------------------------------------------------------
(* A file that is clean has one writer at most, which holds what every save *)
(* before it comes to.                                                      *)
Writes(c, f) == pc[c] = "write" /\ Edits(c) = f

CleanSave(f) ==
    /\ \A c, d \in Terminals : Writes(c, f) /\ Writes(d, f) => c = d
    /\ \A c \in Terminals : Writes(c, f) => copy[c] = due[f]
    /\ BeingWritten(f) \/ file[f] = due[f]

CleanSaves == \A f \in clean : CleanSave(f)

LEMMA CleanSavesStep ==
    ASSUME TypeInv, CleanSaves, [CommandsNext]_commandVars
    PROVE  CleanSaves'
<1> SUFFICES ASSUME NEW f \in clean' PROVE CleanSave(f)'
  BY DEF CleanSaves
<1>1. ASSUME UNCHANGED <<file[f], due[f]>>, f \in clean,
             \A d \in Terminals : Writes(d, f)' <=> Writes(d, f),
             \A d \in Terminals : Writes(d, f) => UNCHANGED copy[d]
      PROVE  CleanSave(f)'
  <2>1. CleanSave(f) /\ (BeingWritten(f)' <=> BeingWritten(f))
    BY <1>1 DEF CleanSaves, BeingWritten, Writes
  <2> QED
    BY <1>1, <2>1 DEF CleanSave
<1>2. ASSUME NEW c \in Terminals, NEW d \in Terminals \ {c},
             \/ Load(c) \/ Truncate(c) \/ Write(c) \/ Crash(c)
      PROVE  (Writes(d, f)' <=> Writes(d, f)) /\ UNCHANGED copy[d]
  <2>1. CASE Load(c)
    BY <2>1 DEF Load, End, Writes, Edits, TypeInv, TerminalsOK
  <2>2. CASE Truncate(c)
    BY <2>2 DEF Truncate, Goto, Writes, Edits, TypeInv, TerminalsOK
  <2>3. CASE Write(c) \/ Crash(c)
    BY <2>3 DEF Write, Crash, End, Writes, Edits, TypeInv, TerminalsOK
  <2> QED
    BY <1>2, <2>1, <2>2, <2>3
<1>3. ASSUME NEW c \in Terminals, Elsewhere(c) PROVE CleanSave(f)'
  <2>1. ASSUME NEW d \in Terminals
        PROVE  (Writes(d, f)' <=> Writes(d, f)) /\ (Writes(d, f) => UNCHANGED copy[d])
    BY <1>3, ElsewhereKeepsFiles DEF Writes, Edits
  <2> QED
    BY <1>1, <1>3, <2>1, ElsewhereKeepsFiles DEF files
<1>4. ASSUME NEW c \in Terminals, Load(c) PROVE CleanSave(f)'
  <2>1. ~Writes(c, f) /\ ~Writes(c, f)'
    BY <1>4 DEF Load, End, Writes, TypeInv, TerminalsOK
  <2> QED
    BY <1>1, <1>2, <1>4, <2>1 DEF Load, files
<1>5. ASSUME NEW c \in Terminals, Truncate(c) PROVE CleanSave(f)'
  <2>1. ~Writes(c, f) /\ (Writes(c, f)' <=> Edits(c) = f) /\ UNCHANGED copy
    BY <1>5 DEF Truncate, Goto, Writes, Edits, TypeInv, TerminalsOK
  <2>2. f \in clean /\ f \in {Index, Registry} /\ CleanSave(f)
    BY <1>5 DEF Truncate, Spoil, TypeInv, FilesOK, CleanSaves
  <2>3. CASE Edits(c) = f
    <3>1. ~BeingWritten(f) /\ copy[c] = file[f] /\ UNCHANGED due
      BY <1>5, <2>2, <2>3 DEF Truncate, Spoil
    <3>2. copy'[c] = due'[f]
      BY <2>1, <2>2, <3>1 DEF CleanSave
    <3>3. ASSUME NEW d \in Terminals PROVE Writes(d, f)' <=> d = c
      BY <1>2, <1>5, <2>1, <2>3, <3>1 DEF BeingWritten, Writes
    <3>4. BeingWritten(f)'
      BY <3>3 DEF BeingWritten, Writes
    <3> QED
      BY <3>2, <3>3, <3>4 DEF CleanSave
  <2>4. CASE Edits(c) # f
    <3>1. UNCHANGED <<file[f], due[f]>>
      BY <1>5, <2>2, <2>4 DEF Truncate, Spoil, TypeInv, FilesOK
    <3> QED
      BY <1>1, <1>2, <1>5, <2>1, <2>2, <2>4, <3>1
  <2> QED
    BY <2>3, <2>4
<1>6. ASSUME NEW c \in Terminals, Write(c) PROVE CleanSave(f)'
  <2>1. ~Writes(c, f)' /\ (Writes(c, f) <=> Edits(c) = f)
    BY <1>6 DEF Write, End, Writes, TypeInv, TerminalsOK
  <2>2. f \in clean /\ f \in {Index, Registry} /\ CleanSave(f)
    BY <1>6 DEF Write, TypeInv, FilesOK, CleanSaves
  <2>3. CASE Edits(c) = f
    <3>1. copy[c] = due[f] /\ \A d \in Terminals : Writes(d, f) => d = c
      BY <2>1, <2>2, <2>3 DEF CleanSave
    <3>2. file'[f] = due'[f]
      BY <1>6, <2>2, <2>3, <3>1 DEF Write, Written, TypeInv, FilesOK
    <3>3. \A d \in Terminals : ~Writes(d, f)'
      BY <1>2, <1>6, <2>1, <3>1
    <3> QED
      BY <3>2, <3>3 DEF CleanSave
  <2>4. CASE Edits(c) # f
    <3>1. UNCHANGED <<file[f], due[f]>>
      BY <1>6, <2>2, <2>4 DEF Write, TypeInv, FilesOK
    <3> QED
      BY <1>1, <1>2, <1>6, <2>1, <2>2, <2>4, <3>1
  <2> QED
    BY <2>3, <2>4
<1>7. ASSUME NEW c \in Terminals, Crash(c) PROVE CleanSave(f)'
  <2>1. ~Writes(c, f)' /\ ~Writes(c, f)
    BY <1>7 DEF Crash, Spoil, End, Writes, TypeInv, TerminalsOK
  <2>2. f \in clean /\ UNCHANGED <<file[f], due[f]>>
    BY <1>7 DEF Crash, Spoil, TypeInv, FilesOK
  <2> QED
    BY <1>1, <1>2, <1>7, <2>1, <2>2
<1>8. CASE RunsGoOn \/ UNCHANGED commandVars
  BY <1>1, <1>8 DEF RunsGoOn, commandVars, files, Writes, Edits
<1> QED
  BY <1>3, <1>4, <1>5, <1>6, <1>7, <1>8, ElsewhereOrEdit

(* OnlyOverlapsLoseUpdates: in any sequence of commands, each file says     *)
(* what they have put there, until two saves of it overlap or one is cut    *)
(* short.                                                                   *)
THEOREM FilesKeepEntries == CommandsSpec => []OnlyOverlapsLoseUpdates
<1>1. CommandsInit => CleanSaves
  BY DEF CommandsInit, CleanSaves, CleanSave, Writes
<1>2. CleanSaves => OnlyOverlapsLoseUpdates
  BY DEF CleanSaves, CleanSave, OnlyOverlapsLoseUpdates
<1> QED
  BY <1>1, <1>2, CleanSavesStep, CommandsTypes, PTL DEF CommandsSpec
=============================================================================
