-------------------------- MODULE MCLoadStrategies ---------------------------
(* Two tables and their FK, every statistic pick_strategy tells apart, two  *)
(* staging tables for two rows.                                             *)
EXTENDS LoadStrategies, TLC

CONSTANTS region, city, cityFk

MCTables == {region, city}
MCFKs == {cityFk}
MCOrder == <<region, city>>
MCChild == cityFk :> city
MCParent == cityFk :> region
MCHash == 1 :> 3 @@ 2 :> 2
MCKey == 1 :> 1 @@ 2 :> 2
MCOverrides == <<"auto">>

(* The source has both rows, or has lost one of each table by then.         *)
MCSnapshots == {region :> {1, 2} @@ city :> {1, 2}, region :> {2} @@ city :> {2}}

Profile(r, mb) == [rows |-> r, size_mb |-> mb, has_lob |-> FALSE, has_long |-> FALSE]
MCProfiles ==
    {Profile(999999, 249), Profile(1000000, 249), Profile(999999, 250),
     Profile(49999999, 2047), Profile(50000000, 2047), Profile(49999999, 2048),
     Profile(50000000, 1), Profile(1, 2048),
     [Profile(50000000, 2048) EXCEPT !.has_lob = TRUE],
     [Profile(1, 1) EXCEPT !.has_long = TRUE]}

MCConfigs ==
    {[mode |-> "per_table", recreate |-> FALSE, dry |-> FALSE, session |-> TRUE],
     [mode |-> "defer_insert_commits", recreate |-> FALSE, dry |-> FALSE, session |-> FALSE]}

(* A schema in use: its tables are there, and the FK is in force.           *)
MCInit ==
    /\ LoadInit
    /\ tables = Tables /\ \A c \in FKs : fk[c] = "ENABLED"
    /\ \A t \in Tables : rows[t] # {}

MCSpec == MCInit /\ [][LoadNext]_allVars /\ WF_allVars(Progress)
=============================================================================
