------------------------- MODULE RefreshEngineProofs -------------------------
(* What holds of RefreshEngine for every schema, table order, set of FKs,   *)
(* configuration and source snapshot.                                       *)
EXTENDS RefreshEngine, FiniteSetTheorems, TLAPS

(* What makes the safety properties inductive.    *)

(* Phase 3 has disabled every FK of the run's tables, and until phase 5 has *)
(* committed them, no pending rows belong to a table with an enabled FK.    *)
FkInv ==
    /\ pc = "disable" /\ ~cfg.dry =>
         \A c \in FKs \ todo : Child[c] \in Loaded => fk[c] # "ENABLED"
    /\ pc \in {"truncate", "check", "dispatch", "validate", "sequences", "finish"} /\ ~cfg.dry =>
         \A c \in FKs : Child[c] \in Loaded => fk[c] # "ENABLED"
    /\ pc \in {"dispatch", "validate", "sequences"} => ~cfg.dry
    /\ \A c \in FKs : fk[c] = "ENABLED" => pending[Child[c]] = {}
    /\ pc \in {"idle", "prepare", "recreate", "read_fks", "disable", "truncate"} =>
         pending = NothingPending
    /\ EnabledFksHold

(* A table is empty from its TRUNCATE to its load ...                       *)
Empty(t) == rows[t] = {} /\ pending[t] = {}
AwaitingTablesEmpty ==
    /\ \A t \in Tables \ tables : Empty(t)
    /\ pc = "truncate" /\ ~cfg.dry => \A j \in i+1..N : Empty(Order[j])
    /\ pc \in {"check", "dispatch"} /\ ~cfg.dry => \A j \in i..N : Empty(Order[j])
    /\ pc \in {"validate", "sequences"} => \A j \in i+1..N : Empty(Order[j])

(* ... it has no status before its turn ...                                 *)
NoStatusBeforeTurn ==
    /\ pc \in {"prepare", "recreate", "read_fks", "disable", "truncate"} =>
         \A t \in Tables : results[t] = "none"
    /\ pc \in {"check", "dispatch", "validate", "sequences"} =>
         \A j \in i..N : results[Order[j]] = "none"

(* ... and its load adds rows of the snapshot only.                         *)
LoadAddsSnapshotRows ==
    /\ pc = "validate" => rows[Current] \cup pending[Current] \subseteq snap[Current]
    /\ pc = "sequences" /\ cfg.mode = "per_table" =>
         rows[Current] = snap[Current] /\ pending[Current] = {}

OkIsCommitted ==
    cfg.mode = "per_table" /\ ~cfg.dry =>
        \A t \in Tables : results[t] = "ok" => rows[t] = snap[t] /\ pending[t] = {}

LoadInv == AwaitingTablesEmpty /\ NoStatusBeforeTurn /\ LoadAddsSnapshotRows /\ OkIsCommitted

(* success is never claimed over a failed or cancelled table; in defer mode *)
(* the tables that are ok so far hold their snapshot in the one transaction *)
(* until FinishTransaction commits it; the tables before i have a status.   *)
OngoingLoad == {"check", "dispatch", "validate", "sequences"}
SuccessIsHonest == success => \A t \in Tables : results[t] \notin {"failed", "cancelled"}
DeferredIsHeld ==
    cfg.mode = "defer_insert_commits" /\ ~cfg.dry =>
        /\ pc \in OngoingLoad \cup {"finish"} =>
             \A t \in Tables : results[t] = "ok" => rows[t] \cup pending[t] = snap[t]
        /\ pc = "sequences" => rows[Current] \cup pending[Current] = snap[Current]
        /\ pc \in {"reenable", "close"} /\ success => pending = NothingPending
        /\ pc \in {"reenable", "close", "idle"} /\ success =>
             \A t \in Tables : results[t] = "ok" => rows[t] = snap[t]
ReportedSoFar ==
    /\ pc \in OngoingLoad => \A j \in 1..i-1 : results[Order[j]] # "none"
    /\ pc \in {"finish", "reenable"} \/ (pc \in {"close", "idle"} /\ outcome = "returned") =>
         \A j \in 1..N : results[Order[j]] # "none"
    /\ pc \notin {"close", "idle"} => outcome = "running"

ReportInv == SuccessIsHonest /\ DeferredIsHeld /\ ReportedSoFar

(* The two constraint loops visit what phase 3 selected, nothing else.      *)
OwnershipInv ==
    /\ pc = "disable" => \A c \in todo : fk[c] = "ENABLED"
    /\ pc = "reenable" => todo \subseteq disabled

(* Phase 5 settles its constraints one by one; the first ENABLE commits, so *)
(* no later step of the run changes the rows a verdict was reached on.      *)
Settled(c) ==
    fk[c] = "ENABLED" \/ (~success /\ ~(rows[Child[c]] \subseteq rows[Parent[c]]))
RestoreInv ==
    ~cfg.dry =>
        /\ pc = "reenable" =>
             /\ todo \subseteq disabled
             /\ \A c \in disabled \ todo : Settled(c) /\ pending = NothingPending
        /\ pc \in {"close", "idle"} /\ outcome = "returned" =>
             \A c \in disabled : Settled(c) /\ pending = NothingPending

-----------------------------------------------------------------------------
(* The current table is one of the run's, and each position is another one. *)
LEMMA CurrentLoaded ==
    ASSUME TypeOK
    PROVE  Current \in Loaded /\ Current \in Tables /\ Loaded \subseteq Tables
BY TablesAssumption DEF TypeOK, Current, Loaded

LEMMA Positions ==
    ASSUME TypeOK
    PROVE  /\ N \in Nat /\ N >= 1 /\ i >= 1 /\ i <= N /\ i \in Nat
           /\ i < N => i + 1 \in 1..N
           /\ i > 1 => i - 1 \in 1..N
           /\ 1 \in 1..N /\ N \in 1..N
BY TablesAssumption DEF TypeOK

(* The transaction operators keep rows and pending rows well typed.         *)
LEMMA CommitType ==
    ASSUME TypeOK
    PROVE  WithPending \in [Tables -> SUBSET Rows] /\ NothingPending \in [Tables -> SUBSET Rows]
BY DEF TypeOK, WithPending, NothingPending

-----------------------------------------------------------------------------
(* No step of a run takes a variable out of its type: no loop of _execute   *)
(* leaves table_order, whatever fails.                                      *)
LEMMA TypeStep == ASSUME TypeOK, [Next]_vars PROVE TypeOK'
<1>0. /\ Current \in Tables /\ Current \in Loaded
      /\ WithPending \in [Tables -> SUBSET Rows]
      /\ NothingPending \in [Tables -> SUBSET Rows]
      /\ snap[Current] \in SUBSET Rows
  BY CurrentLoaded, CommitType DEF TypeOK
<1>1. CASE StartRun
  BY <1>1, RunAssumption, Positions DEF StartRun, TypeOK, target
<1>2. CASE PrepareKeep
  BY <1>2, Positions DEF PrepareKeep, TypeOK, target, PrepareFrame, RunFrame, Advance
<1>3. CASE PrepareDrop
  BY <1>3, <1>0 DEF PrepareDrop, TypeOK, target, PrepareFrame, RunFrame
<1>4. CASE PrepareCreate
  BY <1>4, <1>0, Positions DEF PrepareCreate, TypeOK, target, PrepareFrame, RunFrame, Advance
<1>5. CASE ReadConstraints
  BY <1>5 DEF ReadConstraints, TypeOK, target, RunFrame
<1>6. ASSUME NEW c \in FKs, DisableConstraint(c) PROVE TypeOK'
  BY <1>6 DEF DisableConstraint, TypeOK, RunFrame
<1>7. CASE DisableDone
  BY <1>7, Positions DEF DisableDone, TypeOK, target, RunFrame
<1>8. CASE Truncate
  BY <1>8, <1>0, Positions DEF Truncate, Truncates, StepBack, TypeOK, LoadFrame, RunFrame
<1>9. CASE Cancel
  BY <1>9 DEF Cancel, Remaining, TypeOK, LoadFrame, RunFrame
<1>10. CASE SkipMissing
  BY <1>10, <1>0, Positions DEF SkipMissing, Record, Advance, TypeOK, LoadFrame, RunFrame
<1>11. CASE LoadDry
  BY <1>11, <1>0, Positions DEF LoadDry, Record, Advance, TypeOK, LoadFrame, RunFrame
<1>12. CASE BeginLoad
  BY <1>12 DEF BeginLoad, TypeOK, LoadFrame, RunFrame
<1>31. CASE ImplicitCommit
  BY <1>31, <1>0 DEF ImplicitCommit, Commit, TypeOK, LoadFrame, RunFrame
<1>13. CASE DirectLoad
  BY <1>13, <1>0 DEF DirectLoad, TypeOK, LoadFrame, RunFrame
<1>14. CASE ChunkedLoad
  BY <1>14, <1>0 DEF ChunkedLoad, TypeOK, LoadFrame, RunFrame
<1>15. CASE LoadFails
  BY <1>15, <1>0, Positions
  DEF LoadFails, Commit, Record, Advance, TypeOK, LoadFrame, RunFrame
<1>16. CASE CountsMatch
  BY <1>16, <1>0 DEF CountsMatch, CommitPerTable, Commit, TypeOK, LoadFrame, RunFrame
<1>17. CASE CountsDiffer
  BY <1>17, <1>0, Positions
  DEF CountsDiffer, Rollback, Record, Advance, TypeOK, LoadFrame, RunFrame
<1>18. CASE CountFails
  BY <1>18, <1>0, Positions DEF CountFails, Record, Advance, TypeOK, LoadFrame, RunFrame
<1>19. CASE ResetSequences
  BY <1>19, <1>0, Positions
  DEF ResetSequences, Commit, Record, Advance, TypeOK, LoadFrame, RunFrame
<1>20. CASE ReadSequencesFails
  BY <1>20, <1>0, Positions
  DEF ReadSequencesFails, Record, Advance, TypeOK, LoadFrame, RunFrame
<1>21. CASE FinishTransaction
  BY <1>21, <1>0 DEF FinishTransaction, ToReenable, Commit, Rollback, TypeOK, RunFrame
<1>22. ASSUME NEW c \in FKs, Reenable(c) PROVE TypeOK'
  BY <1>22, <1>0 DEF Reenable, Verdict, Validates, Commit, TypeOK, RunFrame
<1>23. CASE ReenableRaises
  BY <1>23, <1>0 DEF ReenableRaises, Commit, TypeOK, RunFrame
<1>24. CASE ReenableDone
  BY <1>24 DEF ReenableDone, TypeOK, target, RunFrame
<1>25. CASE Raise \/ Refused
  BY <1>25 DEF Raise, Refused, Escape, TypeOK, target, RunFrame
<1>26. CASE Close
  BY <1>26, <1>0 DEF Close, Commit, Rollback, TypeOK, RunFrame
<1>27. CASE Crash
  BY <1>27, <1>0 DEF Crash, Rollback, TypeOK, RunFrame
<1>28. ASSUME NEW t \in Loaded, DropSourceTable(t) PROVE TypeOK'
  BY <1>28 DEF DropSourceTable, TypeOK, target
<1>29. CASE Finished \/ UNCHANGED vars
  BY <1>29 DEF Finished, vars, TypeOK
<1>30. QED
  BY <1>1, <1>2, <1>3, <1>4, <1>5, <1>6, <1>7, <1>8, <1>9, <1>10, <1>11,
     <1>12, <1>13, <1>31, <1>14, <1>15, <1>16, <1>17, <1>18, <1>19, <1>20, <1>21,
     <1>22, <1>23, <1>24, <1>25, <1>26, <1>27, <1>28, <1>29
  DEF Next, Fault, SourceGone, Proceed, Prepare, Phase3, Phase4, Phase5, Load

(* Every variable keeps its type.                                           *)
THEOREM TypeCorrect == SafeSpec => []TypeOK
<1>1. Init => TypeOK
  <2> SUFFICES ASSUME Init PROVE TypeOK
    OBVIOUS
  <2>1. rows \in [Tables -> SUBSET Rows]
    BY DEF Init
  <2>2. 1 \in 1..N /\ 0 \in 0..MaxRuns
    BY TablesAssumption, RunAssumption
  <2>3. QED
    BY <2>1, <2>2, RunAssumption DEF Init, TypeOK, NothingPending
<1>2. TypeOK /\ [Next]_vars => TypeOK'
  BY TypeStep
<1>3. QED
  BY <1>1, <1>2, PTL DEF SafeSpec
-----------------------------------------------------------------------------
(* A commit, by DDL or by COMMIT, cannot break an enabled FK: the tables    *)
(* whose rows it publishes have none.                                       *)
LEMMA CommitKeepsFks ==
    ASSUME TypeOK, FkInv, NEW c \in FKs, fk[c] = "ENABLED"
    PROVE  WithPending[Child[c]] \subseteq WithPending[Parent[c]]
BY SchemaAssumption DEF TypeOK, FkInv, EnabledFksHold, WithPending

(* The FK bookkeeping of phases 3 to 5 is inductive.                        *)
LEMMA FkInvariant == SafeSpec => []FkInv
<1>1. Init => FkInv
  BY SchemaAssumption DEF Init, FkInv, EnabledFksHold, NothingPending
<1>2. TypeOK /\ TypeOK' /\ FkInv /\ [Next]_vars => FkInv'
  <2> SUFFICES ASSUME TypeOK, TypeOK', FkInv, [Next]_vars PROVE FkInv'
    OBVIOUS
  <2>0. /\ Current \in Tables /\ Current \in Loaded
        /\ \A c \in FKs : Child[c] \in Tables /\ Parent[c] \in Tables
        /\ \A t \in Tables : NothingPending[t] = {}
    BY CurrentLoaded, SchemaAssumption DEF NothingPending
  <2>a. \A c \in FKs : fk[c] = "ENABLED" =>
          WithPending[Child[c]] \subseteq WithPending[Parent[c]]
    BY CommitKeepsFks
  <2> USE DEF FkInv, EnabledFksHold, TypeOK
  <2>1. CASE StartRun
    BY <2>1, <2>0, <2>a DEF StartRun, target
  <2>2. CASE PrepareKeep
    BY <2>2, <2>0, <2>a DEF PrepareKeep, target, PrepareFrame, RunFrame, Advance
  <2>3. CASE PrepareDrop
    BY <2>3, <2>0, <2>a DEF PrepareDrop, PrepareFrame, RunFrame
  <2>4. CASE PrepareCreate
    BY <2>4, <2>0, <2>a DEF PrepareCreate, PrepareFrame, RunFrame, Advance
  <2>5. CASE ReadConstraints
    BY <2>5, <2>0, <2>a DEF ReadConstraints, target, RunFrame
  <2>6. ASSUME NEW c \in FKs, DisableConstraint(c) PROVE FkInv'
    BY <2>6, <2>0, <2>a DEF DisableConstraint, RunFrame
  <2>7. CASE DisableDone
    BY <2>7, <2>0, <2>a DEF DisableDone, target, RunFrame
  <2>8. CASE Truncate
    BY <2>8, <2>0, <2>a DEF Truncate, Truncates, StepBack, TruncateBlocked, LoadFrame, RunFrame
  <2>9. CASE Cancel
    BY <2>9, <2>0, <2>a DEF Cancel, Remaining, LoadFrame, RunFrame
  <2>10. CASE SkipMissing
    BY <2>10, <2>0, <2>a DEF SkipMissing, Record, Advance, LoadFrame, RunFrame
  <2>11. CASE LoadDry
    BY <2>11, <2>0, <2>a DEF LoadDry, Record, Advance, LoadFrame, RunFrame
  <2>12. CASE BeginLoad
    BY <2>12, <2>0, <2>a DEF BeginLoad, LoadFrame, RunFrame
  <2>31. CASE ImplicitCommit
    BY <2>31, <2>0, <2>a DEF ImplicitCommit, Commit, LoadFrame, RunFrame
  <2>13. CASE DirectLoad
    BY <2>13, <2>0, <2>a DEF DirectLoad, LoadFrame, RunFrame
  <2>14. CASE ChunkedLoad
    <3>1. PICK merged \in SUBSET snap[Current] :
            rows' = [WithPending EXCEPT ![Current] = @ \cup merged]
      BY <2>14 DEF ChunkedLoad
    <3>2. /\ pending' = NothingPending /\ pc = "dispatch" /\ pc' = "validate"
          /\ cfg' = cfg /\ fk' = fk /\ todo' = todo
      BY <2>14 DEF ChunkedLoad, LoadFrame, RunFrame
    <3>3. ASSUME NEW c \in FKs, fk[c] = "ENABLED"
          PROVE  rows'[Child[c]] \subseteq rows'[Parent[c]]
      <4>1. Child[c] # Current
        BY <3>2, <3>3, <2>0
      <4>2. WithPending \in [Tables -> SUBSET Rows]
        BY CommitType
      <4>3. /\ rows'[Child[c]] = WithPending[Child[c]]
            /\ WithPending[Parent[c]] \subseteq rows'[Parent[c]]
        BY <4>1, <4>2, <3>1, <2>0
      <4>4. QED
        BY <4>3, <3>3, <2>a
    <3>4. QED
      BY <3>2, <3>3, <2>0
  <2>15. CASE LoadFails
    BY <2>15, <2>0, <2>a DEF LoadFails, Record, Advance, LoadFrame, RunFrame, Commit
  <2>16. CASE CountsMatch
    BY <2>16, <2>0, <2>a DEF CountsMatch, CommitPerTable, LoadFrame, RunFrame, Commit
  <2>17. CASE CountsDiffer
    BY <2>17, <2>0, <2>a DEF CountsDiffer, Rollback, Record, Advance, LoadFrame, RunFrame
  <2>18. CASE CountFails
    BY <2>18, <2>0, <2>a DEF CountFails, Record, Advance, LoadFrame, RunFrame
  <2>19. CASE ResetSequences
    BY <2>19, <2>0, <2>a DEF ResetSequences, Record, Advance, LoadFrame, RunFrame, Commit
  <2>20. CASE ReadSequencesFails
    BY <2>20, <2>0, <2>a DEF ReadSequencesFails, Record, Advance, LoadFrame, RunFrame
  <2>21. CASE FinishTransaction
    BY <2>21, <2>0, <2>a DEF FinishTransaction, ToReenable, Rollback, RunFrame, Commit
  <2>22. ASSUME NEW c \in FKs, Reenable(c) PROVE FkInv'
    <3>1. CASE cfg.dry
      BY <2>22, <3>1, <2>0 DEF Reenable, Verdict, RunFrame
    <3>2. CASE ~cfg.dry
      <4>1. /\ rows' = WithPending /\ pending' = NothingPending
            /\ pc = "reenable" /\ pc' = pc /\ cfg' = cfg
            /\ fk' = [fk EXCEPT ![c] = IF Validates(c) THEN "ENABLED" ELSE @]
        BY <2>22, <3>2 DEF Reenable, Verdict, RunFrame, Commit
      <4>2. ASSUME NEW d \in FKs, fk'[d] = "ENABLED"
            PROVE  rows'[Child[d]] \subseteq rows'[Parent[d]]
        BY <4>1, <4>2, <2>a DEF Validates
      <4>3. QED
        BY <4>1, <4>2, <2>0
    <3>3. QED
      BY <3>1, <3>2
  <2>23. CASE ReenableRaises
    BY <2>23, <2>0, <2>a DEF ReenableRaises, RunFrame, Commit
  <2>24. CASE ReenableDone
    BY <2>24, <2>0, <2>a DEF ReenableDone, target, RunFrame
  <2>25. CASE Raise \/ Refused
    BY <2>25, <2>0, <2>a DEF Raise, Refused, Escape, target, RunFrame
  <2>26. CASE Close
    BY <2>26, <2>0, <2>a DEF Close, Rollback, RunFrame, Commit
  <2>27. CASE Crash
    BY <2>27, <2>0, <2>a DEF Crash, Rollback, RunFrame
  <2>28. ASSUME NEW t \in Loaded, DropSourceTable(t) PROVE FkInv'
    BY <2>28, <2>0, <2>a DEF DropSourceTable, target
  <2>29. CASE Finished \/ UNCHANGED vars
    BY <2>29, <2>0, <2>a DEF Finished, vars
  <2>30. QED
    BY <2>1, <2>2, <2>3, <2>4, <2>5, <2>6, <2>7, <2>8, <2>9, <2>10, <2>11, <2>12,
       <2>13, <2>31, <2>14, <2>15, <2>16, <2>17, <2>18, <2>19, <2>20, <2>21, <2>22,
       <2>23, <2>24, <2>25, <2>26, <2>27, <2>28, <2>29
    DEF Next, Fault, SourceGone, Proceed, Prepare, Phase3, Phase4, Phase5, Load
<1>3. QED
  BY <1>1, <1>2, TypeCorrect, PTL DEF SafeSpec

(* Whatever phase, failure or crash comes next, every enabled FK of the     *)
(* target is satisfied by its committed rows.                               *)
THEOREM FkIntegrity == SafeSpec => []EnabledFksHold
<1>1. FkInv => EnabledFksHold
  BY DEF FkInv
<1>2. QED
  BY <1>1, FkInvariant, PTL

-----------------------------------------------------------------------------
(* Row counts are the engine's only check of a load: they are enough because *)
(* a load adds rows of the snapshot only, to an empty table.                *)
LEMMA EqualCountsEqualRows ==
    ASSUME TypeOK, rows[Current] \cup pending[Current] \subseteq snap[Current], Match
    PROVE  rows[Current] \cup pending[Current] = snap[Current]
<1>1. snap[Current] \subseteq Rows
  BY CurrentLoaded DEF TypeOK
<1>a. WithPending[Current] = rows[Current] \cup pending[Current]
  BY CurrentLoaded DEF WithPending
<1>2. IsFiniteSet(snap[Current])
  BY <1>1, RunAssumption, FS_Subset
<1>3. QED
  BY <1>a, <1>2, FS_Subset DEF Match

(* The load loop's bookkeeping is inductive.                                *)
LEMMA LoadInvariant == SafeSpec => []LoadInv
<1>1. Init => LoadInv
  BY DEF Init, LoadInv, AwaitingTablesEmpty, NoStatusBeforeTurn,
          LoadAddsSnapshotRows, OkIsCommitted, Empty, NothingPending
<1>2. TypeOK /\ TypeOK' /\ FkInv /\ LoadInv /\ [Next]_vars => LoadInv'
  <2> SUFFICES ASSUME TypeOK, TypeOK', FkInv, LoadInv, [Next]_vars PROVE LoadInv'
    OBVIOUS
  <2>0. /\ Current \in Tables /\ Current = Order[i] /\ N \in Nat /\ i \in 1..N
        /\ \A j \in 1..N : Order[j] \in Tables
        /\ \A j, k \in 1..N : Order[j] = Order[k] => j = k
        /\ \A t \in Tables : NothingPending[t] = {}
        /\ \A t \in Tables : WithPending[t] = rows[t] \cup pending[t]
        /\ \A t \in Tables : pending[t] = {} => WithPending[t] = rows[t]
        /\ pc \in {"dispatch", "validate", "sequences"} => ~cfg.dry
        /\ rows \in [Tables -> SUBSET Rows] /\ pending \in [Tables -> SUBSET Rows]
        /\ WithPending \in [Tables -> SUBSET Rows]
        /\ results \in [Tables -> {"none", "ok", "failed", "skipped", "cancelled"}]
    BY CurrentLoaded, TablesAssumption DEF NothingPending, WithPending, Current, TypeOK, FkInv
  <2> USE DEF LoadInv, AwaitingTablesEmpty, NoStatusBeforeTurn,
              LoadAddsSnapshotRows, OkIsCommitted, Empty, FkInv, Current
  <2>1. CASE StartRun
    BY <2>1, <2>0 DEF StartRun, target
  <2>2. CASE PrepareKeep
    BY <2>2, <2>0 DEF PrepareKeep, target, PrepareFrame, RunFrame, Advance
  <2>3. CASE PrepareDrop
    <3>1. AwaitingTablesEmpty'
      BY <2>3, <2>0 DEF PrepareDrop, PrepareFrame, RunFrame
    <3>2. NoStatusBeforeTurn'
      BY <2>3, <2>0 DEF PrepareDrop, PrepareFrame, RunFrame
    <3>3. LoadAddsSnapshotRows'
      BY <2>3, <2>0 DEF PrepareDrop, PrepareFrame, RunFrame
    <3>4. OkIsCommitted'
      BY <2>3, <2>0 DEF PrepareDrop, PrepareFrame, RunFrame
    <3>5. QED
      BY <3>1, <3>2, <3>3, <3>4
  <2>4. CASE PrepareCreate
    BY <2>4, <2>0 DEF PrepareCreate, PrepareFrame, RunFrame, Advance
  <2>5. CASE ReadConstraints
    BY <2>5, <2>0 DEF ReadConstraints, target, RunFrame
  <2>6. ASSUME NEW c \in FKs, DisableConstraint(c) PROVE LoadInv'
    BY <2>6, <2>0 DEF DisableConstraint, RunFrame
  <2>7. CASE DisableDone
    BY <2>7, <2>0 DEF DisableDone, target, RunFrame
  <2>8. CASE Truncate
    <3>1. AwaitingTablesEmpty'
      BY <2>8, <2>0 DEF Truncate, Truncates, StepBack, LoadFrame, RunFrame
    <3>2. NoStatusBeforeTurn'
      BY <2>8, <2>0 DEF Truncate, Truncates, StepBack, LoadFrame, RunFrame
    <3>3. LoadAddsSnapshotRows'
      BY <2>8, <2>0 DEF Truncate, Truncates, StepBack, LoadFrame, RunFrame
    <3>4. OkIsCommitted'
      BY <2>8, <2>0 DEF Truncate, Truncates, StepBack, LoadFrame, RunFrame
    <3>5. QED
      BY <3>1, <3>2, <3>3, <3>4
  <2>9. CASE Cancel
    BY <2>9, <2>0 DEF Cancel, Remaining, LoadFrame, RunFrame
  <2>10. CASE SkipMissing
    <3>1. AwaitingTablesEmpty'
      BY <2>10, <2>0 DEF SkipMissing, Record, Advance, LoadFrame, RunFrame
    <3>2. NoStatusBeforeTurn'
      BY <2>10, <2>0 DEF SkipMissing, Record, Advance, LoadFrame, RunFrame
    <3>3. LoadAddsSnapshotRows'
      BY <2>10, <2>0 DEF SkipMissing, Record, Advance, LoadFrame, RunFrame
    <3>4. OkIsCommitted'
      BY <2>10, <2>0 DEF SkipMissing, Record, Advance, LoadFrame, RunFrame
    <3>5. QED
      BY <3>1, <3>2, <3>3, <3>4
  <2>11. CASE LoadDry
    BY <2>11, <2>0 DEF LoadDry, Record, Advance, LoadFrame, RunFrame
  <2>12. CASE BeginLoad
    BY <2>12, <2>0 DEF BeginLoad, LoadFrame, RunFrame
  <2>31. CASE ImplicitCommit
    BY <2>31, <2>0 DEF ImplicitCommit, Commit, LoadFrame, RunFrame
  <2>13. CASE DirectLoad
    BY <2>13, <2>0 DEF DirectLoad, LoadFrame, RunFrame
  <2>14. CASE ChunkedLoad
    <3>1. AwaitingTablesEmpty'
      BY <2>14, <2>0 DEF ChunkedLoad, LoadFrame, RunFrame
    <3>2. NoStatusBeforeTurn'
      BY <2>14, <2>0 DEF ChunkedLoad, LoadFrame, RunFrame
    <3>3. LoadAddsSnapshotRows'
      BY <2>14, <2>0 DEF ChunkedLoad, LoadFrame, RunFrame
    <3>4. OkIsCommitted'
      BY <2>14, <2>0 DEF ChunkedLoad, LoadFrame, RunFrame
    <3>5. QED
      BY <3>1, <3>2, <3>3, <3>4
  <2>15. CASE LoadFails
    <3>1. AwaitingTablesEmpty'
      BY <2>15, <2>0 DEF LoadFails, Commit, Record, Advance, LoadFrame, RunFrame
    <3>2. NoStatusBeforeTurn'
      BY <2>15, <2>0 DEF LoadFails, Commit, Record, Advance, LoadFrame, RunFrame
    <3>3. LoadAddsSnapshotRows'
      BY <2>15, <2>0 DEF LoadFails, Commit, Record, Advance, LoadFrame, RunFrame
    <3>4. OkIsCommitted'
      BY <2>15, <2>0 DEF LoadFails, Commit, Record, Advance, LoadFrame, RunFrame
    <3>5. QED
      BY <3>1, <3>2, <3>3, <3>4
  <2>16. CASE CountsMatch
    <3>1. AwaitingTablesEmpty'
      BY <2>16, <2>0 DEF CountsMatch, CommitPerTable, Commit, LoadFrame, RunFrame
    <3>2. NoStatusBeforeTurn'
      BY <2>16, <2>0 DEF CountsMatch, CommitPerTable, Commit, LoadFrame, RunFrame
    <3>3. LoadAddsSnapshotRows'
      <4>1. WithPending[Order[i]] = snap[Order[i]]
        BY <2>16, <2>0, EqualCountsEqualRows DEF CountsMatch
      <4>2. QED
        BY <4>1, <2>16, <2>0 DEF CountsMatch, CommitPerTable, Commit, LoadFrame, RunFrame
    <3>4. OkIsCommitted'
      BY <2>16, <2>0 DEF CountsMatch, CommitPerTable, Commit, LoadFrame, RunFrame
    <3>5. QED
      BY <3>1, <3>2, <3>3, <3>4
  <2>17. CASE CountsDiffer
    BY <2>17, <2>0 DEF CountsDiffer, Rollback, Record, Advance, LoadFrame, RunFrame
  <2>18. CASE CountFails
    BY <2>18, <2>0 DEF CountFails, Record, Advance, LoadFrame, RunFrame
  <2>19. CASE ResetSequences
    <3>1. AwaitingTablesEmpty'
      BY <2>19, <2>0 DEF ResetSequences, Commit, Record, Advance, LoadFrame, RunFrame
    <3>2. NoStatusBeforeTurn'
      BY <2>19, <2>0 DEF ResetSequences, Commit, Record, Advance, LoadFrame, RunFrame
    <3>3. LoadAddsSnapshotRows'
      BY <2>19, <2>0 DEF ResetSequences, Commit, Record, Advance, LoadFrame, RunFrame
    <3>4. OkIsCommitted'
      BY <2>19, <2>0 DEF ResetSequences, Commit, Record, Advance, LoadFrame, RunFrame
    <3>5. QED
      BY <3>1, <3>2, <3>3, <3>4
  <2>20. CASE ReadSequencesFails
    BY <2>20, <2>0 DEF ReadSequencesFails, Record, Advance, LoadFrame, RunFrame
  <2>21. CASE FinishTransaction
    BY <2>21, <2>0 DEF FinishTransaction, ToReenable, Commit, Rollback, RunFrame
  <2>22. ASSUME NEW c \in FKs, Reenable(c) PROVE LoadInv'
    <3>1. AwaitingTablesEmpty'
      BY <2>22, <2>0 DEF Reenable, Verdict, Commit, RunFrame
    <3>2. NoStatusBeforeTurn'
      BY <2>22, <2>0 DEF Reenable, Verdict, Commit, RunFrame
    <3>3. LoadAddsSnapshotRows'
      BY <2>22, <2>0 DEF Reenable, Verdict, Commit, RunFrame
    <3>4. OkIsCommitted'
      BY <2>22, <2>0 DEF Reenable, Verdict, Commit, RunFrame
    <3>5. QED
      BY <3>1, <3>2, <3>3, <3>4
  <2>23. CASE ReenableRaises
    <3>1. AwaitingTablesEmpty'
      BY <2>23, <2>0 DEF ReenableRaises, Commit, RunFrame
    <3>2. NoStatusBeforeTurn'
      BY <2>23, <2>0 DEF ReenableRaises, Commit, RunFrame
    <3>3. LoadAddsSnapshotRows'
      BY <2>23, <2>0 DEF ReenableRaises, Commit, RunFrame
    <3>4. OkIsCommitted'
      BY <2>23, <2>0 DEF ReenableRaises, Commit, RunFrame
    <3>5. QED
      BY <3>1, <3>2, <3>3, <3>4
  <2>24. CASE ReenableDone
    BY <2>24, <2>0 DEF ReenableDone, target, RunFrame
  <2>25. CASE Raise \/ Refused
    BY <2>25, <2>0 DEF Raise, Refused, Escape, target, RunFrame
  <2>26. CASE Close
    <3>1. AwaitingTablesEmpty'
      BY <2>26, <2>0 DEF Close, Commit, Rollback, RunFrame
    <3>2. NoStatusBeforeTurn'
      BY <2>26, <2>0 DEF Close, Commit, Rollback, RunFrame
    <3>3. LoadAddsSnapshotRows'
      BY <2>26, <2>0 DEF Close, Commit, Rollback, RunFrame
    <3>4. OkIsCommitted'
      BY <2>26, <2>0 DEF Close, Commit, Rollback, RunFrame
    <3>5. QED
      BY <3>1, <3>2, <3>3, <3>4
  <2>27. CASE Crash
    BY <2>27, <2>0 DEF Crash, Rollback, RunFrame
  <2>28. ASSUME NEW t \in Loaded, DropSourceTable(t) PROVE LoadInv'
    BY <2>28, <2>0 DEF DropSourceTable, target
  <2>29. CASE Finished \/ UNCHANGED vars
    BY <2>29, <2>0 DEF Finished, vars
  <2>30. QED
    BY <2>1, <2>2, <2>3, <2>4, <2>5, <2>6, <2>7, <2>8, <2>9, <2>10,
       <2>11, <2>12, <2>13, <2>31, <2>14, <2>15, <2>16, <2>17, <2>18, <2>19, <2>20,
       <2>21, <2>22, <2>23, <2>24, <2>25, <2>26, <2>27, <2>28, <2>29
    DEF Next, Fault, SourceGone, Proceed, Prepare, Phase3, Phase4, Phase5, Load
<1>3. QED
  BY <1>1, <1>2, TypeCorrect, FkInvariant, PTL DEF SafeSpec

(* A table reported ok in per_table mode holds the snapshot, committed, and *)
(* no later step of the run or crash takes that back.                       *)
THEOREM OkTablesAreDurable == SafeSpec => []OkIsDurable
<1>1. LoadInv => OkIsDurable
  BY DEF LoadInv, OkIsCommitted, OkIsDurable
<1>2. QED
  BY <1>1, LoadInvariant, PTL

-----------------------------------------------------------------------------
(* The report of a run is built up correctly.                               *)
LEMMA ReportInvariant == SafeSpec => []ReportInv
<1>1. Init => ReportInv
  BY DEF Init, ReportInv, SuccessIsHonest, DeferredIsHeld, ReportedSoFar, OngoingLoad
<1>2. TypeOK /\ TypeOK' /\ FkInv /\ LoadInv /\ ReportInv /\ [Next]_vars => ReportInv'
  <2> SUFFICES ASSUME TypeOK, TypeOK', FkInv, LoadInv, ReportInv, [Next]_vars
               PROVE  ReportInv'
    OBVIOUS
  <2>0. /\ Current \in Tables /\ Current = Order[i] /\ N \in Nat /\ i \in 1..N
        /\ \A j \in 1..N : Order[j] \in Tables
        /\ \A j, k \in 1..N : Order[j] = Order[k] => j = k
        /\ \A t \in Tables : NothingPending[t] = {}
        /\ \A t \in Tables : WithPending[t] = rows[t] \cup pending[t]
        /\ \A t \in Tables : pending[t] = {} => WithPending[t] = rows[t]
        /\ pc \in {"dispatch", "validate", "sequences"} => ~cfg.dry
        /\ rows \in [Tables -> SUBSET Rows] /\ pending \in [Tables -> SUBSET Rows]
        /\ WithPending \in [Tables -> SUBSET Rows]
        /\ results \in [Tables -> {"none", "ok", "failed", "skipped", "cancelled"}]
        /\ cfg.mode \in Modes /\ success \in BOOLEAN
    BY CurrentLoaded, TablesAssumption
    DEF NothingPending, WithPending, Current, TypeOK, FkInv, ConfigType
  <2> USE DEF ReportInv, SuccessIsHonest, DeferredIsHeld, ReportedSoFar, OngoingLoad,
              LoadInv, NoStatusBeforeTurn, Current, Modes
  <2>1. CASE StartRun
    BY <2>1, <2>0 DEF StartRun, target
  <2>2. CASE PrepareKeep
    BY <2>2, <2>0 DEF PrepareKeep, target, PrepareFrame, RunFrame, Advance
  <2>3. CASE PrepareDrop
    BY <2>3, <2>0 DEF PrepareDrop, PrepareFrame, RunFrame
  <2>4. CASE PrepareCreate
    BY <2>4, <2>0 DEF PrepareCreate, PrepareFrame, RunFrame, Advance
  <2>5. CASE ReadConstraints
    BY <2>5, <2>0 DEF ReadConstraints, target, RunFrame
  <2>6. ASSUME NEW c \in FKs, DisableConstraint(c) PROVE ReportInv'
    BY <2>6, <2>0 DEF DisableConstraint, RunFrame
  <2>7. CASE DisableDone
    BY <2>7, <2>0 DEF DisableDone, target, RunFrame
  <2>8. CASE Truncate
    BY <2>8, <2>0 DEF Truncate, Truncates, StepBack, LoadFrame, RunFrame
  <2>9. CASE Cancel
    BY <2>9, <2>0 DEF Cancel, Remaining, LoadFrame, RunFrame
  <2>10. CASE SkipMissing
    BY <2>10, <2>0 DEF SkipMissing, Record, Advance, LoadFrame, RunFrame
  <2>11. CASE LoadDry
    BY <2>11, <2>0 DEF LoadDry, Record, Advance, LoadFrame, RunFrame
  <2>12. CASE BeginLoad
    BY <2>12, <2>0 DEF BeginLoad, LoadFrame, RunFrame
  <2>31. CASE ImplicitCommit
    BY <2>31, <2>0 DEF ImplicitCommit, Commit, LoadFrame, RunFrame
  <2>13. CASE DirectLoad
    BY <2>13, <2>0 DEF DirectLoad, LoadFrame, RunFrame
  <2>14. CASE ChunkedLoad
    BY <2>14, <2>0 DEF ChunkedLoad, LoadFrame, RunFrame
  <2>15. CASE LoadFails
    <3>1. SuccessIsHonest'
      BY <2>15, <2>0 DEF LoadFails, Commit, Record, Advance, LoadFrame, RunFrame
    <3>2. DeferredIsHeld'
      BY <2>15, <2>0 DEF LoadFails, Commit, Record, Advance, LoadFrame, RunFrame
    <3>3. ReportedSoFar'
      BY <2>15, <2>0 DEF LoadFails, Commit, Record, Advance, LoadFrame, RunFrame
    <3>4. QED
      BY <3>1, <3>2, <3>3
  <2>16. CASE CountsMatch
    <3>1. SuccessIsHonest'
      BY <2>16, <2>0 DEF CountsMatch, CommitPerTable, Commit, LoadFrame, RunFrame
    <3>2. DeferredIsHeld'
      <4>1. rows[Current] \cup pending[Current] = snap[Current]
        BY <2>16, EqualCountsEqualRows DEF CountsMatch, LoadAddsSnapshotRows
      <4>2. QED
        BY <4>1, <2>16, <2>0 DEF CountsMatch, CommitPerTable, Commit, LoadFrame, RunFrame
    <3>3. ReportedSoFar'
      BY <2>16, <2>0 DEF CountsMatch, CommitPerTable, Commit, LoadFrame, RunFrame
    <3>4. QED
      BY <3>1, <3>2, <3>3
  <2>17. CASE CountsDiffer
    <3>1. SuccessIsHonest'
      BY <2>17, <2>0 DEF CountsDiffer, Rollback, Record, Advance, LoadFrame, RunFrame
    <3>2. DeferredIsHeld'
      BY <2>17, <2>0 DEF CountsDiffer, Rollback, Record, Advance, LoadFrame, RunFrame
    <3>3. ReportedSoFar'
      BY <2>17, <2>0 DEF CountsDiffer, Rollback, Record, Advance, LoadFrame, RunFrame
    <3>4. QED
      BY <3>1, <3>2, <3>3
  <2>18. CASE CountFails
    <3>1. SuccessIsHonest'
      BY <2>18, <2>0 DEF CountFails, Record, Advance, LoadFrame, RunFrame
    <3>2. DeferredIsHeld'
      BY <2>18, <2>0 DEF CountFails, Record, Advance, LoadFrame, RunFrame
    <3>3. ReportedSoFar'
      BY <2>18, <2>0 DEF CountFails, Record, Advance, LoadFrame, RunFrame
    <3>4. QED
      BY <3>1, <3>2, <3>3
  <2>19. CASE ResetSequences
    BY <2>19, <2>0 DEF ResetSequences, Commit, Record, Advance, LoadFrame, RunFrame
  <2>20. CASE ReadSequencesFails
    <3>1. SuccessIsHonest'
      BY <2>20, <2>0 DEF ReadSequencesFails, Record, Advance, LoadFrame, RunFrame
    <3>2. DeferredIsHeld'
      BY <2>20, <2>0 DEF ReadSequencesFails, Record, Advance, LoadFrame, RunFrame
    <3>3. ReportedSoFar'
      BY <2>20, <2>0 DEF ReadSequencesFails, Record, Advance, LoadFrame, RunFrame
    <3>4. QED
      BY <3>1, <3>2, <3>3
  <2>21. CASE FinishTransaction
    <3>1. SuccessIsHonest'
      BY <2>21, <2>0 DEF FinishTransaction, ToReenable, Commit, Rollback, RunFrame
    <3>2. DeferredIsHeld'
      BY <2>21, <2>0 DEF FinishTransaction, ToReenable, Commit, Rollback, RunFrame
    <3>3. ReportedSoFar'
      BY <2>21, <2>0 DEF FinishTransaction, ToReenable, Commit, Rollback, RunFrame
    <3>4. QED
      BY <3>1, <3>2, <3>3
  <2>22. ASSUME NEW c \in FKs, Reenable(c) PROVE ReportInv'
    BY <2>22, <2>0 DEF Reenable, Verdict, Commit, RunFrame
  <2>23. CASE ReenableRaises
    BY <2>23, <2>0 DEF ReenableRaises, Commit, RunFrame
  <2>24. CASE ReenableDone
    BY <2>24, <2>0 DEF ReenableDone, target, RunFrame
  <2>25. CASE Raise \/ Refused
    BY <2>25, <2>0 DEF Raise, Refused, Escape, target, RunFrame
  <2>26. CASE Close
    BY <2>26, <2>0 DEF Close, Commit, Rollback, RunFrame
  <2>27. CASE Crash
    BY <2>27, <2>0 DEF Crash, Rollback, RunFrame
  <2>28. ASSUME NEW t \in Loaded, DropSourceTable(t) PROVE ReportInv'
    BY <2>28, <2>0 DEF DropSourceTable, target
  <2>29. CASE Finished \/ UNCHANGED vars
    BY <2>29, <2>0 DEF Finished, vars
  <2>30. QED
    BY <2>1, <2>2, <2>3, <2>4, <2>5, <2>6, <2>7, <2>8, <2>9, <2>10,
       <2>11, <2>12, <2>13, <2>31, <2>14, <2>15, <2>16, <2>17, <2>18, <2>19, <2>20,
       <2>21, <2>22, <2>23, <2>24, <2>25, <2>26, <2>27, <2>28, <2>29
    DEF Next, Fault, SourceGone, Proceed, Prepare, Phase3, Phase4, Phase5, Load
<1>3. QED
  BY <1>1, <1>2, TypeCorrect, FkInvariant, LoadInvariant, PTL DEF SafeSpec

(* A run that reports success has loaded the snapshot of every table it did *)
(* not skip, in both commit modes.                                          *)
THEOREM SuccessIsLoaded == SafeSpec => []SuccessMeansSnapshot
<1>1. TypeOK /\ LoadInv /\ ReportInv => SuccessMeansSnapshot
  BY TablesAssumption DEF LoadInv, OkIsCommitted, ReportInv, SuccessIsHonest, DeferredIsHeld,
     ReportedSoFar, SuccessMeansSnapshot, TypeOK, Loaded, ConfigType, Modes
<1>2. QED
  BY <1>1, TypeCorrect, LoadInvariant, ReportInvariant, PTL

(* A run that returns reports on every table, and success means that none   *)
(* failed or was cancelled.                                                 *)
THEOREM ReportIsComplete == SafeSpec => []EveryTableIsReported
<1>1. TypeOK /\ ReportInv => EveryTableIsReported
  BY TablesAssumption DEF ReportInv, SuccessIsHonest, ReportedSoFar, EveryTableIsReported,
     TypeOK, Loaded
<1>2. QED
  BY <1>1, TypeCorrect, ReportInvariant, PTL

-----------------------------------------------------------------------------
(* The verdicts of phase 5 stay true to the end of the run.                 *)
LEMMA RestoreInvariant == SafeSpec => []RestoreInv
<1>1. Init => RestoreInv
  BY DEF Init, RestoreInv
<1>2. TypeOK /\ TypeOK' /\ ReportInv /\ RestoreInv /\ [Next]_vars => RestoreInv'
  <2> SUFFICES ASSUME TypeOK, TypeOK', ReportInv, RestoreInv, [Next]_vars
               PROVE  RestoreInv'
    OBVIOUS
  <2>0. /\ \A c \in FKs : Child[c] \in Tables /\ Parent[c] \in Tables
        /\ pending = NothingPending => WithPending = rows
        /\ disabled \subseteq FKs /\ todo \subseteq FKs
        /\ fk \in [FKs -> {"ENABLED", "DISABLED", "ABSENT"}]
        /\ success \in BOOLEAN
        /\ pc \notin {"close", "idle"} => outcome = "running"
    BY SchemaAssumption DEF NothingPending, WithPending, TypeOK, ReportInv, ReportedSoFar
  <2> USE DEF RestoreInv, Settled
  <2>1. CASE StartRun
    BY <2>1, <2>0 DEF StartRun, target
  <2>2. CASE PrepareKeep
    BY <2>2, <2>0 DEF PrepareKeep, target, PrepareFrame, RunFrame, Advance
  <2>3. CASE PrepareDrop
    BY <2>3, <2>0 DEF PrepareDrop, PrepareFrame, RunFrame
  <2>4. CASE PrepareCreate
    BY <2>4, <2>0 DEF PrepareCreate, PrepareFrame, RunFrame, Advance
  <2>5. CASE ReadConstraints
    BY <2>5, <2>0 DEF ReadConstraints, target, RunFrame
  <2>6. ASSUME NEW c \in FKs, DisableConstraint(c) PROVE RestoreInv'
    BY <2>6, <2>0 DEF DisableConstraint, RunFrame
  <2>7. CASE DisableDone
    BY <2>7, <2>0 DEF DisableDone, target, RunFrame
  <2>8. CASE Truncate
    BY <2>8, <2>0 DEF Truncate, Truncates, StepBack, LoadFrame, RunFrame
  <2>9. CASE Cancel
    BY <2>9, <2>0 DEF Cancel, Remaining, LoadFrame, RunFrame
  <2>10. CASE SkipMissing
    BY <2>10, <2>0 DEF SkipMissing, Record, Advance, LoadFrame, RunFrame
  <2>11. CASE LoadDry
    BY <2>11, <2>0 DEF LoadDry, Record, Advance, LoadFrame, RunFrame
  <2>12. CASE BeginLoad
    BY <2>12, <2>0 DEF BeginLoad, LoadFrame, RunFrame
  <2>31. CASE ImplicitCommit
    BY <2>31, <2>0 DEF ImplicitCommit, Commit, LoadFrame, RunFrame
  <2>13. CASE DirectLoad
    BY <2>13, <2>0 DEF DirectLoad, LoadFrame, RunFrame
  <2>14. CASE ChunkedLoad
    BY <2>14, <2>0 DEF ChunkedLoad, LoadFrame, RunFrame
  <2>15. CASE LoadFails
    BY <2>15, <2>0 DEF LoadFails, Commit, Record, Advance, LoadFrame, RunFrame
  <2>16. CASE CountsMatch
    BY <2>16, <2>0 DEF CountsMatch, CommitPerTable, Commit, LoadFrame, RunFrame
  <2>17. CASE CountsDiffer
    BY <2>17, <2>0 DEF CountsDiffer, Rollback, Record, Advance, LoadFrame, RunFrame
  <2>18. CASE CountFails
    BY <2>18, <2>0 DEF CountFails, Record, Advance, LoadFrame, RunFrame
  <2>19. CASE ResetSequences
    BY <2>19, <2>0 DEF ResetSequences, Commit, Record, Advance, LoadFrame, RunFrame
  <2>20. CASE ReadSequencesFails
    BY <2>20, <2>0 DEF ReadSequencesFails, Record, Advance, LoadFrame, RunFrame
  <2>21. CASE FinishTransaction
    BY <2>21, <2>0 DEF FinishTransaction, ToReenable, Commit, Rollback, RunFrame
  <2>22. ASSUME NEW c \in FKs, Reenable(c) PROVE RestoreInv'
    <3>1. CASE cfg.dry
      BY <2>22, <3>1 DEF Reenable, Verdict, RunFrame
    <3>2. CASE ~cfg.dry
      <4>1. /\ rows' = WithPending /\ pending' = NothingPending
            /\ pc = "reenable" /\ pc' = pc /\ disabled' = disabled
            /\ c \in todo /\ todo' = todo \ {c} /\ todo \subseteq disabled
            /\ fk' = [fk EXCEPT ![c] = IF Validates(c) THEN "ENABLED" ELSE @]
            /\ success' = (success /\ Validates(c))
        BY <2>22, <3>2 DEF Reenable, Verdict, RunFrame, Commit
      <4>2. Settled(c)'
        BY <4>1, <2>0 DEF Validates
      <4>3. ASSUME NEW d \in disabled \ todo PROVE Settled(d)'
        <5>1. Settled(d) /\ rows' = rows
          BY <3>2, <4>1, <4>3, <2>0
        <5>2. QED
          BY <5>1, <4>1, <4>3, <2>0
      <4>4. QED
        BY <4>1, <4>2, <4>3, <3>2
    <3>3. QED
      BY <3>1, <3>2
  <2>23. CASE ReenableRaises
    BY <2>23, <2>0 DEF ReenableRaises, Commit, RunFrame
  <2>24. CASE ReenableDone
    BY <2>24, <2>0 DEF ReenableDone, target, RunFrame
  <2>25. CASE Raise \/ Refused
    BY <2>25, <2>0 DEF Raise, Refused, Escape, target, RunFrame
  <2>26. CASE Close
    BY <2>26, <2>0 DEF Close, Commit, Rollback, RunFrame
  <2>27. CASE Crash
    BY <2>27, <2>0 DEF Crash, Rollback, RunFrame
  <2>28. ASSUME NEW t \in Loaded, DropSourceTable(t) PROVE RestoreInv'
    BY <2>28, <2>0 DEF DropSourceTable, target
  <2>29. CASE Finished \/ UNCHANGED vars
    BY <2>29, <2>0 DEF Finished, vars
  <2>30. QED
    BY <2>1, <2>2, <2>3, <2>4, <2>5, <2>6, <2>7, <2>8, <2>9, <2>10,
       <2>11, <2>12, <2>13, <2>31, <2>14, <2>15, <2>16, <2>17, <2>18, <2>19, <2>20,
       <2>21, <2>22, <2>23, <2>24, <2>25, <2>26, <2>27, <2>28, <2>29
    DEF Next, Fault, SourceGone, Proceed, Prepare, Phase3, Phase4, Phase5, Load
<1>3. QED
  BY <1>1, <1>2, TypeCorrect, ReportInvariant, PTL DEF SafeSpec

(* A run that returns has re-enabled every FK it disabled, unless the data  *)
(* violates it, and then it does not report success.                        *)
THEOREM FksAreRestored == SafeSpec => []ReturnedRunRestoresFks
<1>1. RestoreInv => ReturnedRunRestoresFks
  BY DEF RestoreInv, Settled, ReturnedRunRestoresFks
<1>2. QED
  BY <1>1, RestoreInvariant, PTL

-----------------------------------------------------------------------------
(* The constraint loops work off exactly what was found ENABLED.            *)
LEMMA OwnershipInvariant == SafeSpec => []OwnershipInv
<1>1. Init => OwnershipInv
  BY DEF Init, OwnershipInv
<1>2. TypeOK /\ OwnershipInv /\ [Next]_vars => OwnershipInv'
  <2> SUFFICES ASSUME TypeOK, OwnershipInv, [Next]_vars PROVE OwnershipInv'
    OBVIOUS
  <2>0. fk \in [FKs -> {"ENABLED", "DISABLED", "ABSENT"}]
    BY DEF TypeOK
  <2> USE DEF OwnershipInv
  <2>1. CASE StartRun
    BY <2>1, <2>0 DEF StartRun, target
  <2>2. CASE PrepareKeep
    BY <2>2, <2>0 DEF PrepareKeep, target, PrepareFrame, RunFrame, Advance
  <2>3. CASE PrepareDrop
    BY <2>3, <2>0 DEF PrepareDrop, PrepareFrame, RunFrame
  <2>4. CASE PrepareCreate
    BY <2>4, <2>0 DEF PrepareCreate, PrepareFrame, RunFrame, Advance
  <2>5. CASE ReadConstraints
    BY <2>5, <2>0 DEF ReadConstraints, target, RunFrame
  <2>6. ASSUME NEW c \in FKs, DisableConstraint(c) PROVE OwnershipInv'
    BY <2>6, <2>0 DEF DisableConstraint, RunFrame
  <2>7. CASE DisableDone
    BY <2>7, <2>0 DEF DisableDone, target, RunFrame
  <2>8. CASE Truncate
    BY <2>8, <2>0 DEF Truncate, Truncates, StepBack, LoadFrame, RunFrame
  <2>9. CASE Cancel
    BY <2>9, <2>0 DEF Cancel, Remaining, LoadFrame, RunFrame
  <2>10. CASE SkipMissing
    BY <2>10, <2>0 DEF SkipMissing, Record, Advance, LoadFrame, RunFrame
  <2>11. CASE LoadDry
    BY <2>11, <2>0 DEF LoadDry, Record, Advance, LoadFrame, RunFrame
  <2>12. CASE BeginLoad
    BY <2>12, <2>0 DEF BeginLoad, LoadFrame, RunFrame
  <2>31. CASE ImplicitCommit
    BY <2>31, <2>0 DEF ImplicitCommit, Commit, LoadFrame, RunFrame
  <2>13. CASE DirectLoad
    BY <2>13, <2>0 DEF DirectLoad, LoadFrame, RunFrame
  <2>14. CASE ChunkedLoad
    BY <2>14, <2>0 DEF ChunkedLoad, LoadFrame, RunFrame
  <2>15. CASE LoadFails
    BY <2>15, <2>0 DEF LoadFails, Commit, Record, Advance, LoadFrame, RunFrame
  <2>16. CASE CountsMatch
    BY <2>16, <2>0 DEF CountsMatch, CommitPerTable, Commit, LoadFrame, RunFrame
  <2>17. CASE CountsDiffer
    BY <2>17, <2>0 DEF CountsDiffer, Rollback, Record, Advance, LoadFrame, RunFrame
  <2>18. CASE CountFails
    BY <2>18, <2>0 DEF CountFails, Record, Advance, LoadFrame, RunFrame
  <2>19. CASE ResetSequences
    BY <2>19, <2>0 DEF ResetSequences, Commit, Record, Advance, LoadFrame, RunFrame
  <2>20. CASE ReadSequencesFails
    BY <2>20, <2>0 DEF ReadSequencesFails, Record, Advance, LoadFrame, RunFrame
  <2>21. CASE FinishTransaction
    BY <2>21, <2>0 DEF FinishTransaction, ToReenable, Commit, Rollback, RunFrame
  <2>22. ASSUME NEW c \in FKs, Reenable(c) PROVE OwnershipInv'
    BY <2>22, <2>0 DEF Reenable, Verdict, Commit, RunFrame
  <2>23. CASE ReenableRaises
    BY <2>23, <2>0 DEF ReenableRaises, Commit, RunFrame
  <2>24. CASE ReenableDone
    BY <2>24, <2>0 DEF ReenableDone, target, RunFrame
  <2>25. CASE Raise \/ Refused
    BY <2>25, <2>0 DEF Raise, Refused, Escape, target, RunFrame
  <2>26. CASE Close
    BY <2>26, <2>0 DEF Close, Commit, Rollback, RunFrame
  <2>27. CASE Crash
    BY <2>27, <2>0 DEF Crash, Rollback, RunFrame
  <2>28. ASSUME NEW t \in Loaded, DropSourceTable(t) PROVE OwnershipInv'
    BY <2>28, <2>0 DEF DropSourceTable, target
  <2>29. CASE Finished \/ UNCHANGED vars
    BY <2>29, <2>0 DEF Finished, vars
  <2>30. QED
    BY <2>1, <2>2, <2>3, <2>4, <2>5, <2>6, <2>7, <2>8, <2>9, <2>10,
       <2>11, <2>12, <2>13, <2>31, <2>14, <2>15, <2>16, <2>17, <2>18, <2>19, <2>20,
       <2>21, <2>22, <2>23, <2>24, <2>25, <2>26, <2>27, <2>28, <2>29
    DEF Next, Fault, SourceGone, Proceed, Prepare, Phase3, Phase4, Phase5, Load
<1>3. QED
  BY <1>1, <1>2, TypeCorrect, PTL DEF SafeSpec

(* No step of a run takes an FK for its own that it did not find ENABLED, or *)
(* enables one that is not its own.                                         *)
THEOREM ForeignFksStayDisabled == SafeSpec => EnablesOnlyItsOwn
<1> DEFINE A == \A c \in FKs :
                  /\ c \in disabled' \ disabled => fk[c] = "ENABLED"
                  /\ fk[c] # "ENABLED" /\ fk'[c] = "ENABLED" => c \in disabled
<1>1. TypeOK /\ OwnershipInv /\ [Next]_vars => A
  <2> SUFFICES ASSUME TypeOK, OwnershipInv, [Next]_vars PROVE A
    OBVIOUS
  <2>0. fk \in [FKs -> {"ENABLED", "DISABLED", "ABSENT"}]
    BY DEF TypeOK
  <2> USE DEF OwnershipInv
  <2>1. CASE StartRun
    BY <2>1, <2>0 DEF StartRun, target
  <2>2. CASE PrepareKeep
    BY <2>2, <2>0 DEF PrepareKeep, target, PrepareFrame, RunFrame, Advance
  <2>3. CASE PrepareDrop
    BY <2>3, <2>0 DEF PrepareDrop, PrepareFrame, RunFrame
  <2>4. CASE PrepareCreate
    BY <2>4, <2>0 DEF PrepareCreate, PrepareFrame, RunFrame, Advance
  <2>5. CASE ReadConstraints
    BY <2>5, <2>0 DEF ReadConstraints, target, RunFrame
  <2>6. ASSUME NEW c \in FKs, DisableConstraint(c) PROVE A
    BY <2>6, <2>0 DEF DisableConstraint, RunFrame
  <2>7. CASE DisableDone
    BY <2>7, <2>0 DEF DisableDone, target, RunFrame
  <2>8. CASE Truncate
    BY <2>8, <2>0 DEF Truncate, Truncates, StepBack, LoadFrame, RunFrame
  <2>9. CASE Cancel
    BY <2>9, <2>0 DEF Cancel, Remaining, LoadFrame, RunFrame
  <2>10. CASE SkipMissing
    BY <2>10, <2>0 DEF SkipMissing, Record, Advance, LoadFrame, RunFrame
  <2>11. CASE LoadDry
    BY <2>11, <2>0 DEF LoadDry, Record, Advance, LoadFrame, RunFrame
  <2>12. CASE BeginLoad
    BY <2>12, <2>0 DEF BeginLoad, LoadFrame, RunFrame
  <2>31. CASE ImplicitCommit
    BY <2>31, <2>0 DEF ImplicitCommit, Commit, LoadFrame, RunFrame
  <2>13. CASE DirectLoad
    BY <2>13, <2>0 DEF DirectLoad, LoadFrame, RunFrame
  <2>14. CASE ChunkedLoad
    BY <2>14, <2>0 DEF ChunkedLoad, LoadFrame, RunFrame
  <2>15. CASE LoadFails
    BY <2>15, <2>0 DEF LoadFails, Commit, Record, Advance, LoadFrame, RunFrame
  <2>16. CASE CountsMatch
    BY <2>16, <2>0 DEF CountsMatch, CommitPerTable, Commit, LoadFrame, RunFrame
  <2>17. CASE CountsDiffer
    BY <2>17, <2>0 DEF CountsDiffer, Rollback, Record, Advance, LoadFrame, RunFrame
  <2>18. CASE CountFails
    BY <2>18, <2>0 DEF CountFails, Record, Advance, LoadFrame, RunFrame
  <2>19. CASE ResetSequences
    BY <2>19, <2>0 DEF ResetSequences, Commit, Record, Advance, LoadFrame, RunFrame
  <2>20. CASE ReadSequencesFails
    BY <2>20, <2>0 DEF ReadSequencesFails, Record, Advance, LoadFrame, RunFrame
  <2>21. CASE FinishTransaction
    BY <2>21, <2>0 DEF FinishTransaction, ToReenable, Commit, Rollback, RunFrame
  <2>22. ASSUME NEW c \in FKs, Reenable(c) PROVE A
    BY <2>22, <2>0 DEF Reenable, Verdict, Commit, RunFrame
  <2>23. CASE ReenableRaises
    BY <2>23, <2>0 DEF ReenableRaises, Commit, RunFrame
  <2>24. CASE ReenableDone
    BY <2>24, <2>0 DEF ReenableDone, target, RunFrame
  <2>25. CASE Raise \/ Refused
    BY <2>25, <2>0 DEF Raise, Refused, Escape, target, RunFrame
  <2>26. CASE Close
    BY <2>26, <2>0 DEF Close, Commit, Rollback, RunFrame
  <2>27. CASE Crash
    BY <2>27, <2>0 DEF Crash, Rollback, RunFrame
  <2>28. ASSUME NEW t \in Loaded, DropSourceTable(t) PROVE A
    BY <2>28, <2>0 DEF DropSourceTable, target
  <2>29. CASE Finished \/ UNCHANGED vars
    BY <2>29, <2>0 DEF Finished, vars
  <2>30. QED
    BY <2>1, <2>2, <2>3, <2>4, <2>5, <2>6, <2>7, <2>8, <2>9, <2>10,
       <2>11, <2>12, <2>13, <2>31, <2>14, <2>15, <2>16, <2>17, <2>18, <2>19, <2>20,
       <2>21, <2>22, <2>23, <2>24, <2>25, <2>26, <2>27, <2>28, <2>29
    DEF Next, Fault, SourceGone, Proceed, Prepare, Phase3, Phase4, Phase5, Load
<1>2. QED
  BY <1>1, TypeCorrect, OwnershipInvariant, PTL DEF SafeSpec, EnablesOnlyItsOwn

(* A dry run writes neither the catalog nor a row of the target schema.     *)
THEOREM DryRunsAreDry == SafeSpec => DryRunTouchesNothing
<1> DEFINE A == cfg.dry /\ pc # "idle" => UNCHANGED target
<1>1. TypeOK /\ FkInv /\ [Next]_vars => A
  <2> SUFFICES ASSUME TypeOK, FkInv, [Next]_vars PROVE A
    OBVIOUS
  <2>0. pc \in {"dispatch", "validate", "sequences"} => ~cfg.dry
    BY DEF FkInv
  <2> USE DEF target
  <2>1. CASE StartRun
    BY <2>1, <2>0 DEF StartRun, target
  <2>2. CASE PrepareKeep
    BY <2>2, <2>0 DEF PrepareKeep, target, PrepareFrame, RunFrame, Advance
  <2>3. CASE PrepareDrop
    BY <2>3, <2>0 DEF PrepareDrop, PrepareFrame, RunFrame
  <2>4. CASE PrepareCreate
    BY <2>4, <2>0 DEF PrepareCreate, PrepareFrame, RunFrame, Advance
  <2>5. CASE ReadConstraints
    BY <2>5, <2>0 DEF ReadConstraints, target, RunFrame
  <2>6. ASSUME NEW c \in FKs, DisableConstraint(c) PROVE A
    BY <2>6, <2>0 DEF DisableConstraint, RunFrame
  <2>7. CASE DisableDone
    BY <2>7, <2>0 DEF DisableDone, target, RunFrame
  <2>8. CASE Truncate
    BY <2>8, <2>0 DEF Truncate, Truncates, StepBack, LoadFrame, RunFrame
  <2>9. CASE Cancel
    BY <2>9, <2>0 DEF Cancel, Remaining, LoadFrame, RunFrame
  <2>10. CASE SkipMissing
    BY <2>10, <2>0 DEF SkipMissing, Record, Advance, LoadFrame, RunFrame
  <2>11. CASE LoadDry
    BY <2>11, <2>0 DEF LoadDry, Record, Advance, LoadFrame, RunFrame
  <2>12. CASE BeginLoad
    BY <2>12, <2>0 DEF BeginLoad, LoadFrame, RunFrame
  <2>31. CASE ImplicitCommit
    BY <2>31, <2>0 DEF ImplicitCommit, Commit, LoadFrame, RunFrame
  <2>13. CASE DirectLoad
    BY <2>13, <2>0 DEF DirectLoad, LoadFrame, RunFrame
  <2>14. CASE ChunkedLoad
    BY <2>14, <2>0 DEF ChunkedLoad, LoadFrame, RunFrame
  <2>15. CASE LoadFails
    BY <2>15, <2>0 DEF LoadFails, Commit, Record, Advance, LoadFrame, RunFrame
  <2>16. CASE CountsMatch
    BY <2>16, <2>0 DEF CountsMatch, CommitPerTable, Commit, LoadFrame, RunFrame
  <2>17. CASE CountsDiffer
    BY <2>17, <2>0 DEF CountsDiffer, Rollback, Record, Advance, LoadFrame, RunFrame
  <2>18. CASE CountFails
    BY <2>18, <2>0 DEF CountFails, Record, Advance, LoadFrame, RunFrame
  <2>19. CASE ResetSequences
    BY <2>19, <2>0 DEF ResetSequences, Commit, Record, Advance, LoadFrame, RunFrame
  <2>20. CASE ReadSequencesFails
    BY <2>20, <2>0 DEF ReadSequencesFails, Record, Advance, LoadFrame, RunFrame
  <2>21. CASE FinishTransaction
    BY <2>21, <2>0 DEF FinishTransaction, ToReenable, Commit, Rollback, RunFrame
  <2>22. ASSUME NEW c \in FKs, Reenable(c) PROVE A
    BY <2>22, <2>0 DEF Reenable, Verdict, Commit, RunFrame
  <2>23. CASE ReenableRaises
    BY <2>23, <2>0 DEF ReenableRaises, Commit, RunFrame
  <2>24. CASE ReenableDone
    BY <2>24, <2>0 DEF ReenableDone, target, RunFrame
  <2>25. CASE Raise \/ Refused
    BY <2>25, <2>0 DEF Raise, Refused, Escape, target, RunFrame
  <2>26. CASE Close
    BY <2>26, <2>0 DEF Close, Commit, Rollback, RunFrame
  <2>27. CASE Crash
    BY <2>27, <2>0 DEF Crash, Rollback, RunFrame
  <2>28. ASSUME NEW t \in Loaded, DropSourceTable(t) PROVE A
    BY <2>28, <2>0 DEF DropSourceTable, target
  <2>29. CASE Finished \/ UNCHANGED vars
    BY <2>29, <2>0 DEF Finished, vars
  <2>30. QED
    BY <2>1, <2>2, <2>3, <2>4, <2>5, <2>6, <2>7, <2>8, <2>9, <2>10,
       <2>11, <2>12, <2>13, <2>31, <2>14, <2>15, <2>16, <2>17, <2>18, <2>19, <2>20,
       <2>21, <2>22, <2>23, <2>24, <2>25, <2>26, <2>27, <2>28, <2>29
    DEF Next, Fault, SourceGone, Proceed, Prepare, Phase3, Phase4, Phase5, Load
<1>2. QED
  BY <1>1, TypeCorrect, FkInvariant, PTL DEF SafeSpec, DryRunTouchesNothing

-----------------------------------------------------------------------------
(* A run has an outcome when it is over and not before.                     *)
OutcomeInv ==
    /\ pc = "idle" => outcome # "running"
    /\ pc = "close" => outcome \in {"returned", "raised"}
    /\ pc \notin {"close", "idle"} => outcome = "running"

LEMMA OutcomeInvariant == SafeSpec => []OutcomeInv
<1>1. Init => OutcomeInv
  BY DEF Init, OutcomeInv
<1>2. TypeOK /\ OutcomeInv /\ [Next]_vars => OutcomeInv'
  <2> SUFFICES ASSUME TypeOK, OutcomeInv, [Next]_vars PROVE OutcomeInv'
    OBVIOUS
  <2> USE DEF OutcomeInv
  <2>1. CASE StartRun
    BY <2>1 DEF StartRun
  <2>2. CASE Prepare \/ Phase3
    BY <2>2 DEF Prepare, PrepareKeep, PrepareDrop, PrepareCreate, Phase3, ReadConstraints,
                DisableConstraint, DisableDone, PrepareFrame, Advance
  <2>3. CASE Truncate \/ Cancel \/ SkipMissing \/ LoadDry \/ FinishTransaction
    BY <2>3 DEF Truncate, StepBack, Cancel, SkipMissing, LoadDry, FinishTransaction, Record,
                Advance, LoadFrame
  <2>4. CASE BeginLoad \/ ImplicitCommit \/ DirectLoad \/ ChunkedLoad \/ CountsMatch
    BY <2>4 DEF BeginLoad, ImplicitCommit, DirectLoad, ChunkedLoad, CountsMatch, LoadFrame
  <2>5. CASE CountsDiffer \/ ResetSequences \/ LoadFails \/ CountFails \/ ReadSequencesFails
    BY <2>5 DEF CountsDiffer, ResetSequences, LoadFails, CountFails, ReadSequencesFails, Record,
                Advance, LoadFrame
  <2>6. CASE Phase5
    BY <2>6 DEF Phase5, Reenable, ReenableRaises, ReenableDone
  <2>7. CASE Raise \/ Refused
    BY <2>7 DEF Raise, Refused, Escape
  <2>8. CASE Close \/ Crash
    BY <2>8 DEF Close, Crash
  <2>9. CASE Finished \/ UNCHANGED vars \/ \E t \in Loaded : DropSourceTable(t)
    BY <2>9 DEF Finished, vars, DropSourceTable
  <2> QED
    BY <2>1, <2>2, <2>3, <2>4, <2>5, <2>6, <2>7, <2>8, <2>9
    DEF Next, Fault, SourceGone, Proceed, Phase4, Load
<1> QED
  BY <1>1, <1>2, TypeCorrect, PTL DEF SafeSpec

(* What a step does to where the call stands, and to its results.           *)
LEMMA CallMoves ==
    ASSUME NEW label, CallAt' = label
    PROVE  Call!Goto("run", label)
BY DEF Call!Goto

LEMMA CallStutters ==
    ASSUME CallAt' = CallAt, CallResults' = CallResults
    PROVE  UNCHANGED Call!callVars
BY DEF Call!callVars

(* The table at i is the one whose turn it is.                              *)
LEMMA CallTurn ==
    ASSUME TypeOK, LoadInv, ReportInv, pc \in OngoingLoad
    PROVE  /\ outcome = "running"
           /\ \A j \in 1..N : CallResults[j] = "none" <=> j \in i..N
           /\ \A j \in 1..N : Order[j] \in Remaining <=> j \in i..N
           /\ Call!Turn("run", i)
<1>1. outcome = "running" /\ i \in 1..N /\ N \in Nat
  BY Positions DEF ReportInv, ReportedSoFar, OngoingLoad, TypeOK
<1>2. \A j \in 1..N : CallResults[j] = results[Order[j]]
  BY <1>1 DEF CallResults
<1>3. /\ \A j \in 1..i-1 : results[Order[j]] # "none"
      /\ \A j \in i..N : results[Order[j]] = "none"
  BY DEF ReportInv, ReportedSoFar, LoadInv, NoStatusBeforeTurn, OngoingLoad
<1>4. \A j \in 1..N : j \in 1..i-1 \/ j \in i..N
  BY <1>1
<1>5. \A j \in 1..N : CallResults[j] = "none" <=> j \in i..N
  BY <1>1, <1>2, <1>3, <1>4
<1>6. \A j \in 1..N : Order[j] \in Remaining <=> j \in i..N
  BY <1>1, TablesAssumption DEF Remaining
<1>7. \A k \in 1..i-1 : k \in 1..N /\ k \notin i..N
  BY <1>1
<1> QED
  BY <1>1, <1>5, <1>6, <1>7 DEF Call!Turn

(* A result that is recorded is a result of EngineCall.                     *)
LEMMA RecordIsLoad ==
    ASSUME TypeOK, LoadInv, ReportInv, pc \in OngoingLoad, outcome' = outcome,
           NEW status \in {"ok", "failed", "skipped"}, Record(status)
    PROVE  \E j \in 1..N : Call!Load("run", j)
<1>1. outcome = "running" /\ Call!Turn("run", i) /\ i \in 1..N /\ N \in Nat
  BY CallTurn, Positions DEF TypeOK
<1>2. CallAt \in {"ask", "load"}
  BY <1>1 DEF CallAt, OngoingLoad
<1>3. Call!Goto("run", IF i < N THEN "ask" ELSE "finish")
  BY <1>1, CallMoves DEF Record, Advance, CallAt
<1>4. CallResults' = [CallResults EXCEPT ![i] = status]
  <2>1. \A j \in 1..N : results'[Order[j]] = IF j = i THEN status ELSE results[Order[j]]
    BY <1>1, TablesAssumption DEF Record, Current, TypeOK
  <2> QED
    BY <1>1, <2>1 DEF CallResults
<1>5. [c \in {"run"} |-> CallResults]'
        = [[c \in {"run"} |-> CallResults] EXCEPT !["run"][i] = status]
  BY <1>4
<1> QED
  BY <1>1, <1>2, <1>3, <1>5 DEF Call!Load, Call!Results

(* ImplementsEngineCall: whatever the run meets, its caller sees a call of  *)
(* EngineCall.                                                              *)
LEMMA CallStep ==
    ASSUME TypeOK, TypeOK', LoadInv, ReportInv, OutcomeInv, OutcomeInv', [Next]_vars
    PROVE  [Call!CallNext]_(Call!callVars)
<1> USE DEF OutcomeInv
<1>0. CASE UNCHANGED <<pc, results, outcome>>
  BY <1>0, CallStutters DEF CallAt, CallResults
<1>1. CASE StartRun
  <2>1. CallAt \notin {"ask", "load", "finish"} /\ CallAt' = "ask"
    BY <1>1 DEF StartRun, CallAt, TypeOK
  <2>2. CallResults' = Call!NoResults
    BY <1>1, TablesAssumption DEF StartRun, CallResults, Call!NoResults
  <2>3. Call!Call("run")
    BY <2>1, <2>2, CallMoves DEF Call!Call, Call!Going
  <2> QED
    BY <2>3 DEF Call!CallNext
<1>2. CASE Prepare \/ Phase3 \/ Truncate
  <2>1. /\ UNCHANGED <<results, outcome>> /\ outcome = "running"
        /\ pc \in {"prepare", "recreate", "read_fks", "disable", "truncate", "check"}
        /\ pc' \in {"prepare", "recreate", "read_fks", "disable", "truncate", "check"}
    BY <1>2 DEF Prepare, PrepareKeep, PrepareDrop, PrepareCreate, Phase3, ReadConstraints,
                DisableConstraint, DisableDone, PrepareFrame, Advance, Truncate, StepBack,
                LoadFrame
  <2> QED
    BY <2>1, CallStutters DEF CallAt, CallResults
<1>3. CASE Cancel
  <2>1. CallAt = "ask" /\ CallAt' = "finish" /\ outcome' = outcome
    BY <1>3 DEF Cancel, CallAt, LoadFrame
  <2>2. CallResults'
          = [j \in 1..N |-> IF CallResults[j] = "none" THEN "cancelled" ELSE CallResults[j]]
    BY <1>3, <2>1, CallTurn, TablesAssumption DEF Cancel, CallResults, OngoingLoad
  <2>3. Call!Stop("run")
    BY <1>3, <2>1, <2>2, CallTurn, CallMoves DEF Cancel, Call!Stop, TypeOK, OngoingLoad
  <2> QED
    BY <2>3 DEF Call!CallNext, Call!Proceed
<1>4. CASE BeginLoad
  <2>1. CallAt = "ask" /\ CallAt' = "load" /\ CallResults' = CallResults
    BY <1>4 DEF BeginLoad, CallAt, CallResults, LoadFrame
  <2>2. Call!GoOn("run")
    BY <2>1, CallMoves DEF Call!GoOn
  <2> QED
    BY <2>2 DEF Call!CallNext, Call!Proceed
<1>5. CASE ImplicitCommit \/ DirectLoad \/ ChunkedLoad \/ CountsMatch
  <2>1. CallAt = "load" /\ CallAt' = "load" /\ CallResults' = CallResults
    BY <1>5 DEF ImplicitCommit, DirectLoad, ChunkedLoad, CountsMatch, CallAt, CallResults,
                LoadFrame
  <2> QED
    BY <2>1, CallStutters
<1>6. CASE SkipMissing \/ LoadDry \/ CountsDiffer \/ ResetSequences \/ LoadFails
           \/ CountFails \/ ReadSequencesFails
  <2>1. /\ pc \in OngoingLoad /\ outcome' = outcome
        /\ \E status \in {"ok", "failed", "skipped"} : Record(status)
    BY <1>6 DEF SkipMissing, LoadDry, CountsDiffer, ResetSequences, LoadFails, CountFails,
                ReadSequencesFails, LoadFrame, OngoingLoad
  <2> QED
    BY <2>1, RecordIsLoad DEF Call!CallNext, Call!Proceed
<1>7. CASE FinishTransaction
  <2>1. CallAt' = CallAt /\ CallResults' = CallResults
    BY <1>7 DEF FinishTransaction, CallAt, CallResults
  <2> QED
    BY <2>1, CallStutters
<1>8. CASE ReenableDone
  <2>1. CallAt = "finish" /\ CallAt' = "returned" /\ CallResults' = CallResults
    BY <1>8 DEF ReenableDone, CallAt, CallResults
  <2>2. Call!Return("run")
    BY <2>1, CallMoves DEF Call!Return
  <2> QED
    BY <2>2 DEF Call!CallNext, Call!Proceed
<1>9. CASE ReenableRaises \/ Raise \/ Refused
  <2>1. pc \notin {"close", "idle"} /\ outcome' = "raised" /\ results' = results
    BY <1>9 DEF ReenableRaises, Raise, Refused, Escape
  <2>2. CallAt \in {"ask", "load", "finish"} /\ CallAt' = "raised"
    BY <2>1 DEF CallAt
  <2>3. Call!Raise("run")
    BY <2>1, <2>2, CallMoves DEF Call!Raise, Call!Going, CallResults
  <2> QED
    BY <2>3 DEF Call!CallNext, Call!Proceed
<1>10. CASE Close
  <2>1. CallAt' = CallAt /\ CallResults' = CallResults
    BY <1>10 DEF Close, CallAt, CallResults
  <2> QED
    BY <2>1, CallStutters
<1>11. CASE Crash
  <2>1. CallAt # "out" /\ CallAt' = "out" /\ CallResults' = Call!NoResults
    BY <1>11 DEF Crash, CallAt, CallResults, Call!NoResults
  <2>2. Call!Leave("run")
    BY <2>1, CallMoves DEF Call!Leave
  <2> QED
    BY <2>2 DEF Call!CallNext
<1>12. CASE \E c \in FKs : Reenable(c)
  BY <1>0, <1>12 DEF Reenable
<1>13. CASE Finished \/ UNCHANGED vars \/ \E t \in Loaded : DropSourceTable(t)
  BY <1>0, <1>13 DEF Finished, vars, DropSourceTable
<1> QED
  BY <1>1, <1>2, <1>3, <1>4, <1>5, <1>6, <1>7, <1>8, <1>9, <1>10, <1>11, <1>12, <1>13
  DEF Next, Fault, SourceGone, Proceed, Phase4, Phase5, Load

THEOREM EngineKeepsCall == SafeSpec => ImplementsEngineCall
<1>1. Init => Call!CallInit
  BY DEF Init, CallAt, CallResults, Call!CallInit, Call!NoResults
<1>2. /\ TypeOK /\ TypeOK' /\ LoadInv /\ ReportInv /\ OutcomeInv /\ OutcomeInv'
      /\ [Next]_vars
      => [Call!CallNext]_(Call!callVars)
  BY CallStep
<1> QED
  BY <1>1, <1>2, TypeCorrect, LoadInvariant, ReportInvariant, OutcomeInvariant, PTL
  DEF SafeSpec, ImplementsEngineCall, Call!CallSpec

-----------------------------------------------------------------------------
(* RunsMoveForward: the loops of a run have a variant, whatever the size of *)
(* the schema.                                                              *)
THEOREM RunsHaveVariant == SafeSpec => RunsMoveForward
<1> DEFINE A == pc # "idle" =>
                  \/ Stage < Stage'
                  \/ Stage' = Stage /\ Round < Round'
                  \/ Stage' = Stage /\ Round' = Round /\ Step < Step'
                  \/ UNCHANGED <<pc, i>> /\ todo' \subseteq todo /\ todo' # todo
                  \/ /\ UNCHANGED <<pc, i, todo>>
                     /\ pending # NothingPending /\ pending' = NothingPending
                  \/ srcTables' \subseteq srcTables /\ srcTables' # srcTables
<1>1. TypeOK /\ [Next]_vars => [A]_vars
  <2> SUFFICES ASSUME TypeOK, Next, vars' # vars PROVE A
    OBVIOUS
  <2>0. N \in Nat /\ i \in 1..N
    BY TablesAssumption DEF TypeOK
  <2>1. ASSUME pc \notin {"idle", "close"}, pc' = "close" PROVE Stage < Stage'
    BY <2>1 DEF Stage, TypeOK
  <2>2. CASE StartRun \/ Finished
    BY <2>2 DEF StartRun, Finished
  <2>3. CASE PrepareKeep \/ PrepareCreate
    BY <2>0, <2>3 DEF PrepareKeep, PrepareCreate, Advance, Stage, Round
  <2>4. CASE PrepareDrop
    BY <2>0, <2>4 DEF PrepareDrop, Stage, Round, Step
  <2>5. CASE ReadConstraints \/ DisableDone
    BY <2>5 DEF ReadConstraints, DisableDone, Stage
  <2>6. ASSUME NEW c \in FKs, DisableConstraint(c) \/ Reenable(c) PROVE A
    BY <2>6 DEF DisableConstraint, Reenable
  <2>7. CASE Truncate
    BY <2>0, <2>7 DEF Truncate, StepBack, Stage, Round
  <2>8. CASE Cancel \/ FinishTransaction
    BY <2>8 DEF Cancel, FinishTransaction, Stage
  <2>9. ASSUME pc \in OngoingLoad, NEW status, Record(status) PROVE A
    BY <2>0, <2>9 DEF OngoingLoad, Record, Advance, Stage, Round
  <2>10. CASE SkipMissing \/ LoadDry \/ LoadFails \/ CountsDiffer \/ CountFails
              \/ ResetSequences \/ ReadSequencesFails
    BY <2>9, <2>10
    DEF SkipMissing, LoadDry, LoadFails, CountsDiffer, CountFails, ResetSequences,
        ReadSequencesFails, OngoingLoad
  <2>11. CASE BeginLoad \/ DirectLoad \/ ChunkedLoad \/ CountsMatch
    BY <2>0, <2>11
    DEF BeginLoad, DirectLoad, ChunkedLoad, CountsMatch, LoadFrame, Stage, Round, Step
  <2>12. CASE ImplicitCommit
    <3>1. UNCHANGED <<pc, i, todo>> /\ pending' = NothingPending
      BY <2>12 DEF ImplicitCommit, Commit, LoadFrame
    <3>2. pending # NothingPending
      <4>1. ASSUME pending = NothingPending PROVE rows' = rows
        BY <2>12, <4>1 DEF ImplicitCommit, Commit, WithPending, NothingPending, TypeOK
      <4> QED
        BY <2>12, <3>1, <4>1 DEF ImplicitCommit, LoadFrame, RunFrame, vars
    <3> QED
      BY <3>1, <3>2
  <2>13. CASE ReenableDone \/ ReenableRaises \/ Raise \/ Refused
    BY <2>1, <2>13 DEF ReenableDone, ReenableRaises, Raise, Refused, Escape
  <2>14. CASE Close \/ Crash
    BY <2>14 DEF Close, Crash, Stage, TypeOK
  <2>15. CASE \E t \in Loaded : DropSourceTable(t)
    BY <2>15 DEF DropSourceTable
  <2> QED
    BY <2>2, <2>3, <2>4, <2>5, <2>6, <2>7, <2>8, <2>10, <2>11, <2>12, <2>13, <2>14, <2>15
    DEF Next, Fault, SourceGone, Proceed, Prepare, Phase3, Phase4, Phase5, Load
<1> QED
  BY <1>1, TypeCorrect, PTL DEF SafeSpec, RunsMoveForward
=============================================================================
