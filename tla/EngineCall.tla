------------------------------ MODULE EngineCall ------------------------------
(***************************************************************************)
(* engine.run as its callers see it: it polls check_cancellation before    *)
(* every table, and leaves one result per table, in table_order, or raises.*)
(* RefreshEngine implements this module for a caller that may answer True  *)
(* at any poll; JobLifecycle implements it for each run command, and takes *)
(* whatever an engine may do by it.                                        *)
(***************************************************************************)
EXTENDS Naturals

CONSTANTS
    Callers,    \* the commands that call engine.run
    N           \* tables of a call, 1..N in table_order

VARIABLES
    at,         \* where each call stands
    res         \* its results so far

callVars == <<at, res>>

Results == {"ok", "failed", "skipped"}  \* of a table whose turn has come
NoResults == [j \in 1..N |-> "none"]
Going == {"ask", "load", "finish"}

CallTypeOK ==
    /\ at \in [Callers -> Going \cup {"out", "returned", "raised"}]
    /\ res \in [Callers -> [1..N -> Results \cup {"none", "cancelled"}]]

CallInit ==
    /\ at = [c \in Callers |-> "out"]
    /\ res = [c \in Callers |-> NoResults]

(* The first table that has no result is next.                              *)
Turn(c, j) == res[c][j] = "none" /\ \A k \in 1..j-1 : res[c][k] # "none"

Goto(c, label) == at' = [at EXCEPT ![c] = label]

Call(c) ==
    /\ at[c] \notin Going
    /\ Goto(c, "ask") /\ res' = [res EXCEPT ![c] = NoResults]

(* The poll answers False, and the load of the table begins ...             *)
GoOn(c) == at[c] = "ask" /\ Goto(c, "load") /\ UNCHANGED res

(* ... or True, and this table and all that are left are cancelled.         *)
Stop(c) ==
    /\ at[c] = "ask"
    /\ Goto(c, "finish")
    /\ \E j \in 1..N : Turn(c, j)
    /\ res' = [res EXCEPT ![c] = [j \in 1..N |-> IF @[j] = "none" THEN "cancelled" ELSE @[j]]]

(* A table has its result; one that is skipped has it at once.              *)
Load(c, j) ==
    /\ at[c] \in {"ask", "load"} /\ Turn(c, j)
    /\ \E r \in Results : res' = [res EXCEPT ![c][j] = r]
    /\ Goto(c, IF j < N THEN "ask" ELSE "finish")

Return(c) == at[c] = "finish" /\ Goto(c, "returned") /\ UNCHANGED res
(* From any phase, and also with all the results there.                     *)
Raise(c) == at[c] \in Going /\ Goto(c, "raised") /\ UNCHANGED res

(* The caller has ended, or has been killed with the call.                  *)
Leave(c) == at[c] # "out" /\ Goto(c, "out") /\ res' = [res EXCEPT ![c] = NoResults]

(* What is the engine's own doing.                                          *)
Proceed(c) == GoOn(c) \/ Stop(c) \/ Return(c) \/ Raise(c) \/ \E j \in 1..N : Load(c, j)

CallNext == \E c \in Callers : Call(c) \/ Proceed(c) \/ Leave(c)

CallSpec == CallInit /\ [][CallNext]_callVars

-----------------------------------------------------------------------------
(* What a caller may rely on.                                               *)

(* A call that returns has a result for every table, and a table is         *)
(* cancelled only with all that come after it.                              *)
ReportIsWhole ==
    \A c \in Callers :
        /\ at[c] = "returned" => \A j \in 1..N : res[c][j] # "none"
        /\ \A j, k \in 1..N : j <= k /\ res[c][j] = "cancelled" => res[c][k] = "cancelled"
=============================================================================
