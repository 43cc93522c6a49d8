----------------------------- MODULE TargetSchema -----------------------------
(***************************************************************************)
(* What the other sessions of the target schema see of the runs: the       *)
(* tables, their committed rows and the status of the FKs.  It leaves out  *)
(* the engine's transaction, its loops, failures and reports: all that is  *)
(* left of a run is the phase it is in, its snapshot and the FKs it has    *)
(* taken.  RefreshEngine implements this module.                           *)
(***************************************************************************)
CONSTANTS
    Tables,     \* tables of the target schema
    Loaded,     \* the tables a run refreshes
    FKs, Child, Parent, Rows, Snapshots  \* as in RefreshEngine

VARIABLES
    tables, rows, fk,   \* the target schema, committed
    snap,       \* the source's rows at the SCN of the run
    owned,      \* the FKs the run has disabled
    phase       \* of the run that writes; a dry run never does

schema == <<tables, rows, fk>>
schemaVars == <<schema, snap, owned, phase>>

SchemaTypeOK ==
    /\ tables \subseteq Tables
    /\ rows \in [Tables -> SUBSET Rows]
    /\ fk \in [FKs -> {"ENABLED", "DISABLED", "ABSENT"}]
    /\ snap \in [Tables -> SUBSET Rows]
    /\ owned \subseteq FKs
    /\ phase \in {"idle", "restructure", "release", "empty", "fill", "restore", "close"}

SchemaInit ==
    /\ tables \subseteq Tables
    /\ rows \in [Tables -> SUBSET Rows]
    /\ fk \in [FKs -> {"ENABLED", "DISABLED", "ABSENT"}]
    /\ \A c \in FKs : fk[c] = "ENABLED" => rows[Child[c]] \subseteq rows[Parent[c]]
    /\ snap \in Snapshots
    /\ owned = {} /\ phase = "idle"

(* The phases in their order.  Tables are emptied when no FK of them is in  *)
(* force, filled when all of them are empty, and any phase may be the last. *)
Onward ==
    \/ UNCHANGED phase
    \/ phase = "restructure" /\ phase' = "release"
    \/ /\ phase = "release" /\ phase' = "empty"
       /\ \A c \in FKs : Child[c] \in Loaded => fk'[c] # "ENABLED"
    \/ phase = "empty" /\ phase' = "fill" /\ \A t \in Loaded : rows'[t] = {}
    \/ phase = "fill" /\ phase' = "restore"
    \/ phase # "idle" /\ phase' \in {"close", "idle"}

Begin ==
    /\ phase = "idle" /\ phase' \in {"idle", "restructure"}
    /\ snap' \in Snapshots /\ owned' = {}
    /\ UNCHANGED schema

Drop(t) ==
    /\ phase = "restructure" /\ t \in tables
    /\ tables' = tables \ {t}
    /\ rows' = [rows EXCEPT ![t] = {}]
    /\ fk' = [c \in FKs |-> IF t \in {Child[c], Parent[c]} THEN "ABSENT" ELSE fk[c]]
    /\ UNCHANGED <<snap, owned, phase>>

Create(t) ==
    /\ phase = "restructure"
    /\ tables' = tables \cup {t}
    /\ UNCHANGED <<rows, fk, snap, owned, phase>>

Release(c) ==
    /\ phase = "release" /\ Child[c] \in Loaded /\ fk[c] = "ENABLED"
    /\ fk' = [fk EXCEPT ![c] = "DISABLED"] /\ owned' = owned \cup {c}
    /\ UNCHANGED <<tables, rows, snap, phase>>

(* Not while an FK of another table that refers to it is in force.          *)
Empty(t) ==
    /\ phase = "empty"
    /\ \A c \in FKs : Parent[c] = t /\ Child[c] # t => fk[c] # "ENABLED"
    /\ rows' = [rows EXCEPT ![t] = {}]
    /\ Onward
    /\ UNCHANGED <<tables, fk, snap, owned>>

(* A commit publishes rows of the snapshot, in tables that were empty and   *)
(* of which no FK is in force.                                              *)
Publish ==
    /\ phase \in {"fill", "restore", "close"}
    /\ rows' \in [Tables -> SUBSET Rows]
    /\ \A t \in Tables : rows'[t] # rows[t] =>
         /\ t \in Loaded /\ rows[t] = {} /\ rows'[t] \subseteq snap[t]
         /\ \A c \in FKs : Child[c] = t => fk[c] # "ENABLED"
    /\ UNCHANGED <<tables, snap, owned>>

Fill == Publish /\ Onward /\ UNCHANGED fk

(* ENABLE VALIDATE, of an FK that the run itself has disabled.              *)
Restore(c) ==
    /\ phase = "restore" /\ c \in owned
    /\ Publish
    /\ fk' = [fk EXCEPT ![c] = "ENABLED"]
    /\ rows'[Child[c]] \subseteq rows'[Parent[c]]
    /\ UNCHANGED phase

Move == Onward /\ UNCHANGED <<schema, snap, owned>>

SchemaNext ==
    \/ Begin \/ Move \/ Fill
    \/ \E t \in Loaded : Drop(t) \/ Create(t) \/ Empty(t)
    \/ \E c \in FKs : Release(c) \/ Restore(c)

SchemaSpec == SchemaInit /\ [][SchemaNext]_schemaVars

-----------------------------------------------------------------------------
(* What a reader of the target may rely on.                                 *)

(* An FK that is in force holds between the committed rows.                 *)
FksInForceHold ==
    \A c \in FKs : fk[c] = "ENABLED" => rows[Child[c]] \subseteq rows[Parent[c]]

(* From the first row that is loaded to the last FK that is restored, all   *)
(* the tables of the run show rows of one and the same SCN, and nothing of  *)
(* what they held before.                                                   *)
OneSnapshot ==
    phase \in {"fill", "restore"} => \A t \in Loaded : rows[t] \subseteq snap[t]
=============================================================================
