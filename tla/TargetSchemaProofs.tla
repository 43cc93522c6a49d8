-------------------------- MODULE TargetSchemaProofs --------------------------
(* RefreshEngine implements TargetSchema, and what TargetSchema promises to *)
(* the readers of the target follows from it alone.                         *)
EXTENDS RefreshEngineProofs

(* What a commit can publish: rows of the snapshot, for tables of the run   *)
(* that are empty; and phase 3 takes FKs of the run's tables only.          *)
PublishInv ==
    /\ \A t \in Tables : pending[t] # {} =>
         t \in Loaded /\ rows[t] = {} /\ pending[t] \subseteq snap[t]
    /\ pc = "disable" => \A c \in todo : Child[c] \in Loaded

-----------------------------------------------------------------------------
(* A load inserts into an empty table, and what is pending is committed as  *)
(* a whole or not at all.                                                   *)
LEMMA PublishInvariant == SafeSpec => []PublishInv
<1>1. Init => PublishInv
  BY DEF Init, PublishInv, NothingPending
<1>2. TypeOK /\ TypeOK' /\ FkInv /\ LoadInv /\ PublishInv /\ [Next]_vars => PublishInv'
  <2> SUFFICES ASSUME TypeOK, TypeOK', FkInv, LoadInv, PublishInv, [Next]_vars
               PROVE  PublishInv'
    OBVIOUS
  <2>0. /\ Current \in Tables /\ Current \in Loaded
        /\ \A t \in Tables : NothingPending[t] = {}
        /\ pc = "dispatch" => rows[Current] = {} /\ pending[Current] = {}
    <3>1. pc = "dispatch" => ~cfg.dry /\ i \in i..N
      BY Positions DEF FkInv
    <3> QED
      BY <3>1, CurrentLoaded DEF NothingPending, LoadInv, AwaitingTablesEmpty, Empty, Current
  <2> USE DEF PublishInv, TypeOK
  <2>1. CASE StartRun
    BY <2>1, <2>0 DEF StartRun, target, FkInv
  <2>2. CASE PrepareKeep \/ PrepareCreate
    BY <2>2, <2>0 DEF PrepareKeep, PrepareCreate, target, PrepareFrame, RunFrame, Advance
  <2>3. CASE PrepareDrop
    BY <2>3, <2>0 DEF PrepareDrop, PrepareFrame, RunFrame, FkInv
  <2>4. CASE ReadConstraints
    BY <2>4, <2>0 DEF ReadConstraints, target, RunFrame
  <2>5. ASSUME NEW c \in FKs, DisableConstraint(c) PROVE PublishInv'
    BY <2>5, <2>0 DEF DisableConstraint, RunFrame
  <2>6. CASE DisableDone
    BY <2>6, <2>0 DEF DisableDone, target, RunFrame
  <2>7. CASE Truncate
    BY <2>7, <2>0 DEF Truncate, StepBack, LoadFrame, RunFrame
  <2>8. CASE Cancel \/ SkipMissing \/ LoadDry \/ BeginLoad
    BY <2>8, <2>0
    DEF Cancel, SkipMissing, LoadDry, BeginLoad, Record, Advance, LoadFrame, RunFrame
  <2>9. CASE ImplicitCommit
    BY <2>9, <2>0 DEF ImplicitCommit, Commit, LoadFrame, RunFrame
  <2>10. CASE DirectLoad
    BY <2>10, <2>0 DEF DirectLoad, LoadFrame, RunFrame
  <2>11. CASE ChunkedLoad
    BY <2>11, <2>0 DEF ChunkedLoad, LoadFrame, RunFrame
  <2>12. CASE LoadFails
    BY <2>12, <2>0 DEF LoadFails, Commit, Record, Advance, LoadFrame, RunFrame
  <2>13. CASE CountsMatch \/ CountsDiffer \/ CountFails
    BY <2>13, <2>0
    DEF CountsMatch, CountsDiffer, CountFails, CommitPerTable, Commit, Rollback, Record,
        Advance, LoadFrame, RunFrame
  <2>14. CASE ResetSequences \/ ReadSequencesFails
    BY <2>14, <2>0 DEF ResetSequences, ReadSequencesFails, Record, Advance, LoadFrame, RunFrame
  <2>15. CASE FinishTransaction
    BY <2>15, <2>0 DEF FinishTransaction, Commit, Rollback, RunFrame
  <2>16. ASSUME NEW c \in FKs, Reenable(c) PROVE PublishInv'
    BY <2>16, <2>0 DEF Reenable, Commit, RunFrame
  <2>17. CASE ReenableRaises \/ ReenableDone
    BY <2>17, <2>0 DEF ReenableRaises, ReenableDone, Commit, target, RunFrame
  <2>18. CASE Raise \/ Refused
    BY <2>18, <2>0 DEF Raise, Refused, Escape, target, RunFrame
  <2>19. CASE Close \/ Crash
    BY <2>19, <2>0 DEF Close, Crash, Commit, Rollback, RunFrame
  <2>20. ASSUME NEW t \in Loaded, DropSourceTable(t) PROVE PublishInv'
    BY <2>20, <2>0 DEF DropSourceTable, target
  <2>21. CASE Finished \/ UNCHANGED vars
    BY <2>21, <2>0 DEF Finished, vars
  <2> QED
    BY <2>1, <2>2, <2>3, <2>4, <2>5, <2>6, <2>7, <2>8, <2>9, <2>10, <2>11, <2>12, <2>13,
       <2>14, <2>15, <2>16, <2>17, <2>18, <2>19, <2>20, <2>21
    DEF Next, Fault, SourceGone, Proceed, Prepare, Phase3, Phase4, Phase5, Load
<1>3. QED
  BY <1>1, <1>2, TypeCorrect, FkInvariant, LoadInvariant, PTL DEF SafeSpec

-----------------------------------------------------------------------------
(* Every commit of a run that writes is a Publish of TargetSchema.          *)
Published ==
    /\ rows' \in [Tables -> SUBSET Rows]
    /\ \A t \in Tables : rows'[t] # rows[t] =>
         /\ t \in Loaded /\ rows[t] = {} /\ rows'[t] \subseteq snap[t]
         /\ \A c \in FKs : Child[c] = t => fk[c] # "ENABLED"

LEMMA NothingPublished == ASSUME TypeOK, UNCHANGED rows PROVE Published
BY DEF TypeOK, Published

LEMMA CommitPublishes ==
    ASSUME TypeOK, TypeOK', FkInv, PublishInv, rows' = WithPending
    PROVE  Published
BY DEF TypeOK, FkInv, PublishInv, Published, WithPending

LEMMA LoadPublishes ==
    ASSUME TypeOK, TypeOK', FkInv, LoadInv, PublishInv, ChunkedLoad
    PROVE  Published
<1>1. PICK merged \in SUBSET snap[Current] :
        rows' = [WithPending EXCEPT ![Current] = @ \cup merged]
  BY DEF ChunkedLoad
<1>2. pc = "dispatch" /\ ~cfg.dry /\ i \in i..N
  BY Positions DEF ChunkedLoad, FkInv
<1>3. rows[Current] = {} /\ pending[Current] = {}
  BY <1>2 DEF LoadInv, AwaitingTablesEmpty, Empty, Current
<1>4. Current \in Loaded /\ Current \in Tables
  BY CurrentLoaded
<1>5. ASSUME NEW t \in Tables, rows'[t] # rows[t]
      PROVE  /\ t \in Loaded /\ rows[t] = {} /\ rows'[t] \subseteq snap[t]
             /\ \A c \in FKs : Child[c] = t => fk[c] # "ENABLED"
  <2>1. CASE t = Current
    BY <1>1, <1>2, <1>3, <1>4, <2>1 DEF WithPending, FkInv
  <2>2. CASE t # Current
    BY <1>1, <1>5, <2>2 DEF WithPending, FkInv, PublishInv
  <2> QED
    BY <2>1, <2>2
<1> QED
  BY <1>5 DEF Published, TypeOK

(* What the steps of a run that writes are for TargetSchema.                *)
LEMMA WritingStep ==
    ASSUME TypeOK, TypeOK', FkInv, LoadInv, LoadInv', OwnershipInv, PublishInv,
           [Next]_vars, pc # "idle", ~cfg.dry
    PROVE  [Schema!SchemaNext]_(Schema!schemaVars)
<1> USE DEF Phase, Schema!schemaVars, Schema!schema
<1>a. /\ Current \in Loaded /\ Current \in Tables
      /\ pc \in {"prepare", "recreate", "read_fks", "disable", "truncate",
               "check", "dispatch", "validate", "sequences", "finish", "reenable", "close"}
  BY CurrentLoaded DEF TypeOK
<1>1. CASE PrepareKeep
  BY <1>1 DEF PrepareKeep, PrepareFrame, RunFrame, Advance, target
<1>2. CASE PrepareDrop
  <2>1. Schema!Drop(Current)
    BY <1>2 DEF PrepareDrop, PrepareFrame, RunFrame, Schema!Drop
  <2> QED
    BY <2>1, <1>a DEF Schema!SchemaNext
<1>3. CASE PrepareCreate
  <2>1. Schema!Create(Current)
    BY <1>3 DEF PrepareCreate, PrepareFrame, RunFrame, Advance, Schema!Create
  <2> QED
    BY <2>1, <1>a DEF Schema!SchemaNext
<1>4. CASE ReadConstraints
  <2>1. Schema!Move
    BY <1>4 DEF ReadConstraints, RunFrame, target, Schema!Move, Schema!Onward
  <2> QED
    BY <2>1 DEF Schema!SchemaNext
<1>5. ASSUME NEW c \in FKs, DisableConstraint(c) PROVE Schema!SchemaNext
  <2>1. Schema!Release(c)
    BY <1>5 DEF DisableConstraint, RunFrame, Schema!Release, OwnershipInv, PublishInv
  <2> QED
    BY <2>1 DEF Schema!SchemaNext
<1>6. CASE DisableDone
  <2>1. Schema!Move
    BY <1>6 DEF DisableDone, RunFrame, target, Schema!Move, Schema!Onward, FkInv
  <2> QED
    BY <2>1 DEF Schema!SchemaNext
<1>7. CASE Truncate
  <2>1. Schema!Onward
    <3>1. CASE i > 1
      BY <1>7, <3>1 DEF Truncate, StepBack, LoadFrame, RunFrame, Schema!Onward
    <3>2. CASE ~(i > 1)
      <4>1. pc' = "check" /\ i' = 1 /\ cfg' = cfg
        BY <1>7, <3>2 DEF Truncate, StepBack, LoadFrame, RunFrame
      <4>2. \A t \in Loaded : rows'[t] = {}
        BY <4>1 DEF LoadInv, AwaitingTablesEmpty, Empty, Loaded
      <4> QED
        BY <1>7, <4>1, <4>2 DEF Truncate, Schema!Onward
    <3> QED
      BY <3>1, <3>2
  <2>2. CASE Truncates
    <3>1. Schema!Empty(Current)
      BY <1>7, <2>1, <2>2
      DEF Truncate, Truncates, TruncateBlocked, LoadFrame, RunFrame, Schema!Empty
    <3> QED
      BY <3>1, <1>a DEF Schema!SchemaNext
  <2>3. CASE ~Truncates
    <3>1. Schema!Move
      BY <1>7, <2>1, <2>3 DEF Truncate, LoadFrame, RunFrame, Schema!Move
    <3> QED
      BY <3>1 DEF Schema!SchemaNext
  <2> QED
    BY <2>2, <2>3
<1>8. CASE Cancel \/ SkipMissing \/ LoadDry \/ BeginLoad \/ DirectLoad
  BY <1>8
  DEF Cancel, SkipMissing, LoadDry, BeginLoad, DirectLoad, Record, Advance, LoadFrame, RunFrame
<1>9. ASSUME Published, UNCHANGED <<tables, fk, snap, disabled, cfg>>,
             Phase \in {"fill", "restore", "close"}, Schema!Onward
      PROVE  Schema!SchemaNext
  BY <1>9 DEF Published, Schema!Fill, Schema!Publish, Schema!SchemaNext
<1>10. CASE ImplicitCommit
  <2>1. Published
    BY <1>10, CommitPublishes DEF ImplicitCommit, Commit
  <2> QED
    BY <1>10, <2>1, <1>9 DEF ImplicitCommit, LoadFrame, RunFrame, Schema!Onward
<1>11. CASE ChunkedLoad
  BY <1>11, <1>9, LoadPublishes DEF ChunkedLoad, LoadFrame, RunFrame, Schema!Onward
<1>12. CASE LoadFails
  <2>1. Published
    BY <1>12, CommitPublishes, NothingPublished DEF LoadFails, Commit
  <2> QED
    BY <1>12, <2>1, <1>9 DEF LoadFails, Record, Advance, LoadFrame, RunFrame, Schema!Onward
<1>13. CASE CountsMatch \/ CountsDiffer \/ CountFails
  <2>1. Published
    BY <1>13, CommitPublishes, NothingPublished
    DEF CountsMatch, CountsDiffer, CountFails, CommitPerTable, Commit, Rollback
  <2> QED
    BY <1>13, <2>1, <1>9
    DEF CountsMatch, CountsDiffer, CountFails, Record, Advance, LoadFrame, RunFrame,
        Schema!Onward
<1>14. CASE ResetSequences \/ ReadSequencesFails
  BY <1>14 DEF ResetSequences, ReadSequencesFails, Record, Advance, LoadFrame, RunFrame
<1>15. CASE FinishTransaction
  <2>1. Published
    BY <1>15, CommitPublishes, NothingPublished DEF FinishTransaction, Commit, Rollback
  <2> QED
    BY <1>15, <2>1, <1>9 DEF FinishTransaction, RunFrame, Schema!Onward
<1>16. ASSUME NEW c \in FKs, Reenable(c) PROVE Schema!SchemaNext
  <2>1. Published
    BY <1>16, CommitPublishes DEF Reenable, Commit
  <2>2. CASE Validates(c)
    <3>1. /\ fk' = [fk EXCEPT ![c] = "ENABLED"]
          /\ rows'[Child[c]] \subseteq rows'[Parent[c]]
      BY <1>16, <2>2 DEF Reenable, Validates, Commit
    <3>2. c \in disabled
      BY <1>16 DEF Reenable, OwnershipInv
    <3>3. Schema!Restore(c)
      BY <1>16, <2>1, <3>1, <3>2
      DEF Reenable, RunFrame, Published, Schema!Restore, Schema!Publish
    <3> QED
      BY <3>3 DEF Schema!SchemaNext
  <2>3. CASE ~Validates(c)
    <3>1. fk' = fk
      BY <1>16, <2>3 DEF Reenable, TypeOK
    <3> QED
      BY <1>16, <2>1, <3>1, <1>9 DEF Reenable, RunFrame, Schema!Onward
  <2> QED
    BY <2>2, <2>3
<1>17. CASE ReenableRaises
  <2>1. Published
    BY <1>17, CommitPublishes DEF ReenableRaises, Commit
  <2> QED
    BY <1>17, <2>1, <1>9 DEF ReenableRaises, RunFrame, Schema!Onward
<1>18. CASE ReenableDone \/ Raise \/ Refused
  <2>1. Schema!Move
    BY <1>18, <1>a
    DEF ReenableDone, Raise, Refused, Escape, RunFrame, target, Schema!Move, Schema!Onward
  <2> QED
    BY <2>1 DEF Schema!SchemaNext
<1>19. CASE Close
  <2>1. Published
    BY <1>19, CommitPublishes, NothingPublished DEF Close, Commit, Rollback
  <2> QED
    BY <1>19, <2>1, <1>9 DEF Close, RunFrame, Schema!Onward
<1>20. CASE Crash
  <2>1. Schema!Move
    BY <1>20, <1>a DEF Crash, Rollback, RunFrame, Schema!Move, Schema!Onward
  <2> QED
    BY <2>1 DEF Schema!SchemaNext
<1>21. ASSUME NEW t \in Loaded, DropSourceTable(t) PROVE UNCHANGED Schema!schemaVars
  BY <1>21 DEF DropSourceTable, target
<1>22. CASE UNCHANGED vars
  BY <1>22 DEF vars
<1>23. ~StartRun /\ ~Finished
  BY DEF StartRun, Finished
<1> QED
  BY <1>1, <1>2, <1>3, <1>4, <1>5, <1>6, <1>7, <1>8, <1>10, <1>11, <1>12, <1>13, <1>14,
     <1>15, <1>16, <1>17, <1>18, <1>19, <1>20, <1>21, <1>22, <1>23
  DEF Next, Fault, SourceGone, Proceed, Prepare, Phase3, Phase4, Phase5, Load

(* Between runs, and in a dry run, nothing happens but that a run begins.   *)
LEMMA SilentStep ==
    ASSUME TypeOK, FkInv, [Next]_vars, pc = "idle" \/ cfg.dry
    PROVE  [Schema!SchemaNext]_(Schema!schemaVars)
<1> USE DEF Phase, Schema!schemaVars, Schema!schema
<1>1. CASE StartRun
  <2>1. Schema!Begin
    BY <1>1 DEF StartRun, target, Schema!Begin
  <2> QED
    BY <2>1 DEF Schema!SchemaNext
<1>2. CASE Finished \/ UNCHANGED vars
  BY <1>2 DEF Finished, vars
<1>3. ASSUME NEW t \in Loaded, DropSourceTable(t) PROVE UNCHANGED Schema!schemaVars
  BY <1>3 DEF DropSourceTable, target
<1>4. ASSUME pc # "idle", cfg.dry, cfg' = cfg, UNCHANGED <<tables, rows, fk, snap>>
      PROVE  UNCHANGED Schema!schemaVars
  BY <1>4
<1>5. CASE pc # "idle" /\ cfg.dry
  <2> USE <1>4, <1>5
  <2>1. CASE Prepare
    BY <2>1 DEF Prepare, PrepareKeep, PrepareDrop, PrepareCreate, target, PrepareFrame, RunFrame
  <2>2. CASE ReadConstraints \/ DisableDone \/ \E c \in FKs : DisableConstraint(c)
    BY <2>2 DEF ReadConstraints, DisableDone, DisableConstraint, target, RunFrame
  <2>3. CASE Truncate \/ Cancel \/ SkipMissing \/ LoadDry
    BY <2>3
    DEF Truncate, Truncates, Cancel, SkipMissing, LoadDry, Record, LoadFrame, RunFrame
  <2>4. (~Load /\ ~Fault) \/ Raise \/ Crash
    BY DEF Load, BeginLoad, ImplicitCommit, DirectLoad, ChunkedLoad, CountsMatch, CountsDiffer,
           SourceGone, CountFails, ResetSequences, Fault, LoadFails, ReadSequencesFails, FkInv
  <2>5. CASE FinishTransaction \/ ReenableDone \/ ReenableRaises
    BY <2>5 DEF FinishTransaction, ReenableDone, ReenableRaises, target, RunFrame
  <2>6. ASSUME NEW c \in FKs, Reenable(c) PROVE UNCHANGED Schema!schemaVars
    BY <2>6 DEF Reenable, RunFrame
  <2>7. CASE Raise \/ Refused
    BY <2>7 DEF Raise, Refused, Escape, target, RunFrame
  <2>8. CASE Close \/ Crash
    BY <2>8 DEF Close, Crash, Rollback, RunFrame
  <2> QED
    BY <1>1, <1>2, <1>3, <2>1, <2>2, <2>3, <2>4, <2>5, <2>6, <2>7, <2>8
    DEF Next, Proceed, Phase3, Phase4, Phase5
<1>6. CASE pc = "idle"
  <2>1. ~Proceed /\ ~Fault
    BY <1>6
    DEF Proceed, Prepare, PrepareKeep, PrepareDrop, PrepareCreate, Phase3, ReadConstraints,
        DisableDone, DisableConstraint, Phase4, Truncate, Cancel, SkipMissing, LoadDry, Load,
        BeginLoad, ImplicitCommit, DirectLoad, ChunkedLoad, CountsMatch, CountsDiffer,
        SourceGone, CountFails, ResetSequences, FinishTransaction, Phase5, ReenableDone,
        ReenableRaises, Reenable, Refused, Close, Fault, LoadFails, ReadSequencesFails, Raise,
        Crash
  <2> QED
    BY <2>1, <1>1, <1>2, <1>3 DEF Next
<1> QED
  BY <1>5, <1>6

(* The runs of the engine, with all their failures and crashes, keep the    *)
(* contract that the other sessions of the target schema have with them.    *)
THEOREM EngineKeepsTargetSchema == SafeSpec => ImplementsTargetSchema
<1>1. Init => Schema!SchemaInit
  <2> SUFFICES ASSUME Init PROVE Schema!SchemaInit
    OBVIOUS
  <2>1. rows \in [Tables -> SUBSET Rows]
    BY DEF Init
  <2> QED
    BY <2>1 DEF Init, Phase, Schema!SchemaInit
<1>2. /\ TypeOK /\ TypeOK' /\ FkInv /\ LoadInv /\ LoadInv' /\ OwnershipInv /\ PublishInv
      /\ [Next]_vars
      => [Schema!SchemaNext]_(Schema!schemaVars)
  BY WritingStep, SilentStep
<1> QED
  BY <1>1, <1>2, TypeCorrect, FkInvariant, LoadInvariant, OwnershipInvariant, PublishInvariant,
     PTL
  DEF SafeSpec, ImplementsTargetSchema, Schema!SchemaSpec

-----------------------------------------------------------------------------
(* What readers rely on follows from the contract, without the engine.      *)
LEMMA SchemaTypes == Schema!SchemaSpec => []Schema!SchemaTypeOK
<1> Loaded \subseteq Tables
  BY TablesAssumption DEF Loaded
<1>1. Schema!SchemaInit => Schema!SchemaTypeOK
  BY RunAssumption DEF Schema!SchemaInit, Schema!SchemaTypeOK
<1>2. Schema!SchemaTypeOK /\ [Schema!SchemaNext]_(Schema!schemaVars) => Schema!SchemaTypeOK'
  <2> SUFFICES ASSUME Schema!SchemaTypeOK, [Schema!SchemaNext]_(Schema!schemaVars)
               PROVE  Schema!SchemaTypeOK'
    OBVIOUS
  <2> USE RunAssumption
  <2> USE DEF Schema!SchemaTypeOK, Schema!SchemaNext, Schema!schemaVars, Schema!schema,
              Schema!Onward
  <2>1. CASE Schema!Begin \/ Schema!Move \/ UNCHANGED Schema!schemaVars
    BY <2>1 DEF Schema!Begin, Schema!Move
  <2>2. CASE Schema!Fill
    BY <2>2 DEF Schema!Fill, Schema!Publish
  <2>3. ASSUME NEW t \in Loaded, Schema!Drop(t) PROVE Schema!SchemaTypeOK'
    BY <2>3 DEF Schema!Drop
  <2>4. ASSUME NEW t \in Loaded, Schema!Create(t) \/ Schema!Empty(t)
        PROVE  Schema!SchemaTypeOK'
    BY <2>4 DEF Schema!Create, Schema!Empty
  <2>5. ASSUME NEW c \in FKs, Schema!Release(c) PROVE Schema!SchemaTypeOK'
    BY <2>5 DEF Schema!Release
  <2>6. ASSUME NEW c \in FKs, Schema!Restore(c) PROVE Schema!SchemaTypeOK'
    BY <2>6 DEF Schema!Restore, Schema!Publish
  <2> QED
    BY <2>1, <2>2, <2>3, <2>4, <2>5, <2>6
<1> QED
  BY <1>1, <1>2, PTL DEF Schema!SchemaSpec

LEMMA SchemaSafety == Schema!SchemaSpec => [](Schema!FksInForceHold /\ Schema!OneSnapshot)
<1> Loaded \subseteq Tables /\ \A c \in FKs : Child[c] \in Tables /\ Parent[c] \in Tables
  BY TablesAssumption, SchemaAssumption DEF Loaded
<1> DEFINE Safe == Schema!FksInForceHold /\ Schema!OneSnapshot
<1>1. Schema!SchemaInit => Safe
  BY DEF Schema!SchemaInit, Schema!FksInForceHold, Schema!OneSnapshot
<1>2. Schema!SchemaTypeOK /\ Safe /\ [Schema!SchemaNext]_(Schema!schemaVars) => Safe'
  <2> SUFFICES ASSUME Schema!SchemaTypeOK, Safe, [Schema!SchemaNext]_(Schema!schemaVars)
               PROVE  Safe'
    OBVIOUS
  <2> USE DEF Schema!SchemaTypeOK, Schema!schemaVars, Schema!schema, Schema!Onward,
              Schema!FksInForceHold, Schema!OneSnapshot
  <2>1. CASE Schema!Begin \/ Schema!Move \/ UNCHANGED Schema!schemaVars
    BY <2>1 DEF Schema!Begin, Schema!Move
  <2>2. ASSUME Schema!Publish,
               NEW c \in FKs, fk[c] = "ENABLED"
        PROVE  rows'[Child[c]] \subseteq rows'[Parent[c]]
    BY <2>2 DEF Schema!Publish
  <2>3. ASSUME Schema!Publish, Phase \in {"fill", "restore"}, NEW t \in Loaded
        PROVE  rows'[t] \subseteq snap'[t]
    BY <2>3 DEF Schema!Publish
  <2>4. CASE Schema!Fill
    BY <2>4, <2>2, <2>3 DEF Schema!Fill, Schema!Publish
  <2>5. ASSUME NEW t \in Loaded, Schema!Drop(t) PROVE Safe'
    BY <2>5 DEF Schema!Drop
  <2>6. ASSUME NEW t \in Loaded, Schema!Create(t) PROVE Safe'
    BY <2>6 DEF Schema!Create
  <2>7. ASSUME NEW t \in Loaded, Schema!Empty(t) PROVE Safe'
    BY <2>7 DEF Schema!Empty
  <2>8. ASSUME NEW c \in FKs, Schema!Release(c) PROVE Safe'
    BY <2>8 DEF Schema!Release
  <2>9. ASSUME NEW c \in FKs, Schema!Restore(c) PROVE Safe'
    BY <2>9, <2>2, <2>3 DEF Schema!Restore, Schema!Publish
  <2> QED
    BY <2>1, <2>4, <2>5, <2>6, <2>7, <2>8, <2>9 DEF Schema!SchemaNext
<1> QED
  BY <1>1, <1>2, SchemaTypes, PTL DEF Schema!SchemaSpec

(* While a run fills tables and restores FKs, a reader who joins any two of *)
(* its tables sees rows of one SCN only.                                    *)
THEOREM ReadersSeeOneSnapshot == SafeSpec => []Schema!OneSnapshot
BY EngineKeepsTargetSchema, SchemaSafety, PTL DEF ImplementsTargetSchema
=============================================================================
