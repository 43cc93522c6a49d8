--------------------------- MODULE MCRefreshEngine ---------------------------
(* A small schema: the run loads region and city; visit stays outside it.   *)
(* city refers to region, and visit, which is not refreshed, to city.       *)
EXTENDS RefreshEngine, TLC

CONSTANTS region, city, visit, cityFk, visitFk

MCTables == {region, city, visit}
MCFKs == {cityFk, visitFk}
MCOrder == <<region, city>>
MCChild == cityFk :> city @@ visitFk :> visit
MCParent == cityFk :> region @@ visitFk :> city

(* The source at the SCN: full, or with an empty parent table (its own FK   *)
(* allows NULL, or does not exist there).                                   *)
MCSnapshots == {region :> Rows @@ city :> Rows @@ visit :> {},
                region :> {} @@ city :> Rows @@ visit :> {}}

(* A first run that finds every FK of the schema in force.                  *)
FreshSpec == (Init /\ \A c \in FKs : fk[c] # "DISABLED") /\ [][Next]_vars

PerTable == {[mode |-> "per_table", recreate |-> FALSE, dry |-> FALSE, session |-> FALSE]}
Deferred == {[c EXCEPT !.mode = "defer_insert_commits"] : c \in PerTable}

(* Each flag meets each commit mode or phase it changes.                    *)
MCConfigs ==
    {[mode |-> "per_table", recreate |-> FALSE, dry |-> FALSE, session |-> TRUE],
     [mode |-> "defer_insert_commits", recreate |-> FALSE, dry |-> FALSE, session |-> FALSE],
     [mode |-> "per_table", recreate |-> TRUE, dry |-> FALSE, session |-> FALSE],
     [mode |-> "per_table", recreate |-> TRUE, dry |-> TRUE, session |-> FALSE]}
=============================================================================
