----------------------------- MODULE MCCommands ------------------------------
(* Two terminals, so that any two commands can overlap, and two jobs, so    *)
(* that one save can undo another's entry.  Runs are given for one of the   *)
(* jobs; the other is planned, cancelled and cleaned up.                    *)
EXTENDS Commands
CONSTANTS t1, t2, r1, j1, j2, e1, e2
MCTerminals == {t1, t2}
MCRunners == {r1}
MCJobs == {j1, j2}
MCGiven == [c \in MCTerminals |->
    {[verb |-> "plan"]} \cup
    IF c = t1 THEN [verb : {"cancel", "cleanup"}, name : {j1}] \cup
                   [verb : {"add", "remove"}, name : {e1}]
              ELSE [verb : {"wait", "watch"}, name : {j1}] \cup
                   [verb : {"remove"}, name : {e1}]]
MCJobOf == [r \in MCRunners |-> j1]
=============================================================================
