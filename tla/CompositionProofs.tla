-------------------------- MODULE CompositionProofs --------------------------
(***************************************************************************)
(* What is proved of RefreshEngine holds of the runs statement by          *)
(* statement of LoadStrategies: Implements carries the theorems of the     *)
(* engine, and the contract of TargetSchema, over to LoadSpec.             *)
(***************************************************************************)
EXTENDS LoadStrategiesProofs

(* The engine that LoadStrategies implements, with its theorems.            *)
Run == INSTANCE TargetSchemaProofs WITH pc <- enginePc

(* Its assumptions are those of RefreshEngine.                              *)
LEMMA SameAssumptions ==
    /\ Run!IsFiniteSet(Rows) /\ Configs \subseteq Run!ConfigType
    /\ Snapshots \subseteq [Tables -> SUBSET Rows] /\ MaxRuns \in Nat
BY RunAssumption DEF Run!ConfigType, ConfigType, Run!Modes, Modes, Run!IsFiniteSet, IsFiniteSet

LEMMA SameRuns == Implements => Run!SafeSpec
<1>1. Engine!Init <=> Run!Init
  BY DEF Engine!Init, Run!Init, Engine!Loaded, Run!Loaded, Engine!NothingPending,
         Run!NothingPending
<1>2. [Engine!Next]_(Engine!vars) => [Run!Next]_(Run!vars)
  BY DEF Engine!vars, Run!vars, Engine!target, Run!target, Engine!Loaded, Run!Loaded,
         Engine!Current, Run!Current, Engine!NothingPending, Run!NothingPending,
         Engine!WithPending, Run!WithPending, Engine!Commit, Run!Commit,
         Engine!Rollback, Run!Rollback, Engine!Advance, Run!Advance, Engine!Record,
         Run!Record, Engine!RunFrame, Run!RunFrame, Engine!LoadFrame, Run!LoadFrame,
         Engine!PrepareFrame, Run!PrepareFrame, Engine!StartRun, Run!StartRun,
         Engine!PrepareKeep, Run!PrepareKeep, Engine!PrepareDrop, Run!PrepareDrop,
         Engine!PrepareCreate, Run!PrepareCreate, Engine!ReadConstraints,
         Run!ReadConstraints, Engine!DisableConstraint, Run!DisableConstraint,
         Engine!DisableDone, Run!DisableDone, Engine!Truncates, Run!Truncates,
         Engine!StepBack, Run!StepBack, Engine!TruncateBlocked, Run!TruncateBlocked,
         Engine!Truncate, Run!Truncate, Engine!Remaining, Run!Remaining, Engine!Cancel,
         Run!Cancel, Engine!SkipMissing, Run!SkipMissing, Engine!LoadDry, Run!LoadDry,
         Engine!BeginLoad, Run!BeginLoad, Engine!ImplicitCommit, Run!ImplicitCommit,
         Engine!DirectLoad, Run!DirectLoad, Engine!ChunkedLoad, Run!ChunkedLoad,
         Engine!LoadFails, Run!LoadFails, Engine!Match, Run!Match,
         Engine!CommitPerTable, Run!CommitPerTable, Engine!CountsMatch, Run!CountsMatch,
         Engine!CountsDiffer, Run!CountsDiffer, Engine!CountFails, Run!CountFails,
         Engine!SourceGone, Run!SourceGone, Engine!ResetSequences, Run!ResetSequences,
         Engine!ReadSequencesFails, Run!ReadSequencesFails, Engine!ToReenable,
         Run!ToReenable, Engine!FinishTransaction, Run!FinishTransaction,
         Engine!Validates, Run!Validates, Engine!Verdict, Run!Verdict, Engine!Reenable,
         Run!Reenable, Engine!ReenableRaises, Run!ReenableRaises, Engine!ReenableDone,
         Run!ReenableDone, Engine!Escape, Run!Escape, Engine!Raise, Run!Raise,
         Engine!Refused, Run!Refused, Engine!Close, Run!Close, Engine!Crash, Run!Crash,
         Engine!DropSourceTable, Run!DropSourceTable, Engine!Finished, Run!Finished,
         Engine!Prepare, Run!Prepare, Engine!Phase3, Run!Phase3, Engine!Load, Run!Load,
         Engine!Phase4, Run!Phase4, Engine!Phase5, Run!Phase5, Engine!Proceed,
         Run!Proceed, Engine!Fault, Run!Fault, Engine!Cardinality, Run!Cardinality,
         Engine!Next, Run!Next
<1> QED
  BY <1>1, <1>2, PTL DEF Implements, Engine!SafeSpec, Run!SafeSpec

LEMMA LoadIsRun == LoadSpec => Run!SafeSpec
BY LoadImplementsEngine, SameRuns

(* The engine is idle exactly when the run is, and a published load is      *)
(* still one for the readers of the target.                                 *)
LEMMA SamePhase ==
    LoadTypeOK /\ LoadInvs =>
      (enginePc = "idle" <=> pc = "idle") /\ Run!Phase = Phase
BY DEF LoadTypeOK, LoadInvs, StepInv, LoadSteps, enginePc, Run!Phase, Phase

-----------------------------------------------------------------------------
(* Integrity, durability and honest reports, of runs whose loads have       *)
(* strategies, staging tables, parallel slaves, links and sequences.        *)
LEMMA EngineSafety ==
    Run!SafeSpec =>
      [](/\ Run!EnabledFksHold /\ Run!OkIsDurable /\ Run!SuccessMeansSnapshot
         /\ Run!EveryTableIsReported /\ Run!ReturnedRunRestoresFks)
BY Run!FkIntegrity, Run!OkTablesAreDurable, Run!SuccessIsLoaded, Run!ReportIsComplete,
   Run!FksAreRestored, TablesAssumption, SchemaAssumption, SameAssumptions, PTL

THEOREM LoadsAreSafe ==
    LoadSpec =>
      [](/\ EnabledFksHold /\ OkIsDurable /\ SuccessMeansSnapshot
         /\ EveryTableIsReported /\ ReturnedRunRestoresFks)
<1>1. Run!EnabledFksHold => EnabledFksHold
  BY DEF Run!EnabledFksHold, EnabledFksHold
<1>2. Run!OkIsDurable => OkIsDurable
  BY DEF Run!OkIsDurable, OkIsDurable
<1>3. LoadTypeOK /\ LoadInvs /\ Run!SuccessMeansSnapshot => SuccessMeansSnapshot
  BY SamePhase DEF Run!SuccessMeansSnapshot, SuccessMeansSnapshot, Run!Loaded, Loaded
<1>4. LoadTypeOK /\ LoadInvs /\ Run!EveryTableIsReported => EveryTableIsReported
  BY SamePhase DEF Run!EveryTableIsReported, EveryTableIsReported, Run!Loaded, Loaded
<1>5. LoadTypeOK /\ LoadInvs /\ Run!ReturnedRunRestoresFks => ReturnedRunRestoresFks
  BY SamePhase DEF Run!ReturnedRunRestoresFks, ReturnedRunRestoresFks
<1> QED
  BY <1>1, <1>2, <1>3, <1>4, <1>5, LoadIsRun, EngineSafety, LoadInvsHold, PTL

(* The FKs somebody else has disabled and the schema of a dry run are left  *)
(* alone by each statement of a load too.                                   *)
THEOREM LoadsKeepOff == LoadSpec => EnablesOnlyItsOwn /\ DryRunTouchesNothing
<1>1. LoadSpec => Run!EnablesOnlyItsOwn /\ Run!DryRunTouchesNothing
  BY LoadIsRun, Run!ForeignFksStayDisabled, Run!DryRunsAreDry, TablesAssumption,
     SchemaAssumption, SameAssumptions
<1>2. [\A c \in FKs :
         /\ c \in disabled' \ disabled => fk[c] = "ENABLED"
         /\ fk[c] # "ENABLED" /\ fk'[c] = "ENABLED" => c \in disabled]_(Run!vars)
      => [\A c \in FKs :
            /\ c \in disabled' \ disabled => fk[c] = "ENABLED"
            /\ fk[c] # "ENABLED" /\ fk'[c] = "ENABLED" => c \in disabled]_vars
  BY DEF Run!vars
<1>3. /\ LoadTypeOK /\ LoadInvs
      /\ [cfg.dry /\ enginePc # "idle" => UNCHANGED Run!target]_(Run!vars)
      => [cfg.dry /\ pc # "idle" => UNCHANGED target]_vars
  BY SamePhase DEF Run!vars, Run!target, target
<1> QED
  BY <1>1, <1>2, <1>3, LoadInvsHold, PTL
  DEF Run!EnablesOnlyItsOwn, EnablesOnlyItsOwn, Run!DryRunTouchesNothing, DryRunTouchesNothing

(* The other sessions see the statements of a load as TargetSchema says:    *)
(* nothing of a staging table, and of a merge all or nothing.               *)
THEOREM LoadsKeepTargetSchema == LoadSpec => ImplementsTargetSchema
<1>1. LoadSpec => Run!Schema!SchemaSpec
  BY LoadIsRun, Run!EngineKeepsTargetSchema, TablesAssumption, SchemaAssumption,
     SameAssumptions
  DEF Run!ImplementsTargetSchema
<1>2. LoadTypeOK /\ LoadInvs /\ Run!Schema!SchemaInit => Schema!SchemaInit
  BY SamePhase DEF Run!Schema!SchemaInit, Schema!SchemaInit
<1>3. /\ LoadTypeOK /\ LoadInvs /\ LoadTypeOK' /\ LoadInvs'
      /\ [Run!Schema!SchemaNext]_(Run!Schema!schemaVars)
      => [Schema!SchemaNext]_(Schema!schemaVars)
  <2> SUFFICES ASSUME LoadTypeOK, LoadInvs, LoadTypeOK', LoadInvs',
                      [Run!Schema!SchemaNext]_(Run!Schema!schemaVars)
               PROVE  [Schema!SchemaNext]_(Schema!schemaVars)
    OBVIOUS
  <2>1. Run!Phase = Phase /\ Run!Loaded = Loaded
    BY SamePhase DEF Run!Loaded, Loaded
  <2>2. Run!Phase' = Phase'
    BY DEF LoadTypeOK, LoadInvs, StepInv, LoadSteps, enginePc, Run!Phase, Phase
  <2> QED
    BY <2>1, <2>2
    DEF Run!Schema!SchemaNext, Run!Schema!Begin, Run!Schema!Move, Run!Schema!Fill,
        Run!Schema!Drop, Run!Schema!Create, Run!Schema!Empty, Run!Schema!Release,
        Run!Schema!Restore, Run!Schema!Publish, Run!Schema!Onward, Run!Schema!schema,
        Run!Schema!schemaVars, Schema!SchemaNext, Schema!Begin, Schema!Move, Schema!Fill,
        Schema!Drop, Schema!Create, Schema!Empty, Schema!Release, Schema!Restore,
        Schema!Publish, Schema!Onward, Schema!schema, Schema!schemaVars
<1> QED
  BY <1>1, <1>2, <1>3, LoadInvsHold, PTL
  DEF ImplementsTargetSchema, Run!Schema!SchemaSpec, Schema!SchemaSpec

(* The caller of the engine sees a call of EngineCall, whatever strategy    *)
(* loads the tables.                                                        *)
THEOREM LoadsKeepEngineCall == LoadSpec => ImplementsEngineCall
<1>1. LoadSpec => Run!Call!CallSpec
  BY LoadIsRun, Run!EngineKeepsCall, TablesAssumption, SchemaAssumption, SameAssumptions
  DEF Run!ImplementsEngineCall
<1>2. LoadTypeOK /\ LoadInvs => Run!CallAt = CallAt /\ Run!CallResults = CallResults
  BY DEF LoadTypeOK, LoadInvs, StepInv, LoadSteps, enginePc, Run!CallAt, CallAt,
         Run!CallResults, CallResults
<1>3. LoadTypeOK /\ LoadInvs /\ Run!Call!CallInit => Call!CallInit
  BY <1>2 DEF Run!Call!CallInit, Call!CallInit, Run!Call!NoResults, Call!NoResults
<1>4. /\ LoadTypeOK /\ LoadInvs /\ LoadTypeOK' /\ LoadInvs'
      /\ [Run!Call!CallNext]_(Run!Call!callVars)
      => [Call!CallNext]_(Call!callVars)
  <2> SUFFICES ASSUME LoadTypeOK, LoadInvs, LoadTypeOK', LoadInvs',
                      [Run!Call!CallNext]_(Run!Call!callVars)
               PROVE  [Call!CallNext]_(Call!callVars)
    OBVIOUS
  <2>1. Run!CallAt = CallAt /\ Run!CallResults = CallResults
    BY <1>2
  <2>2. Run!CallAt' = CallAt' /\ Run!CallResults' = CallResults'
    BY DEF LoadTypeOK, LoadInvs, StepInv, LoadSteps, enginePc, Run!CallAt, CallAt,
           Run!CallResults, CallResults
  <2>3. /\ [c \in {"run"} |-> Run!CallAt] = [c \in {"run"} |-> CallAt]
        /\ [c \in {"run"} |-> Run!CallResults] = [c \in {"run"} |-> CallResults]
        /\ [c \in {"run"} |-> Run!CallAt]' = [c \in {"run"} |-> CallAt]'
        /\ [c \in {"run"} |-> Run!CallResults]' = [c \in {"run"} |-> CallResults]'
    BY <2>1, <2>2
  <2>4. /\ \A c, label : Run!Call!Goto(c, label) <=> Call!Goto(c, label)
        /\ \A c, j : Run!Call!Turn(c, j) <=> Call!Turn(c, j)
    BY <2>3 DEF Run!Call!Goto, Call!Goto, Run!Call!Turn, Call!Turn
  <2>5. ASSUME NEW c \in {"run"}, Run!Call!Call(c) \/ Run!Call!Leave(c)
        PROVE  Call!Call(c) \/ Call!Leave(c)
    BY <2>3, <2>4, <2>5
    DEF Run!Call!Call, Call!Call, Run!Call!Leave, Call!Leave, Run!Call!Going, Call!Going,
        Run!Call!NoResults, Call!NoResults
  <2>6. ASSUME NEW c \in {"run"}, Run!Call!Proceed(c) PROVE Call!Proceed(c)
    BY <2>3, <2>4, <2>6
    DEF Run!Call!Proceed, Call!Proceed, Run!Call!GoOn, Call!GoOn, Run!Call!Stop, Call!Stop,
        Run!Call!Load, Call!Load, Run!Call!Return, Call!Return, Run!Call!Raise, Call!Raise,
        Run!Call!Going, Call!Going, Run!Call!Results, Call!Results
  <2> QED
    BY <2>3, <2>5, <2>6 DEF Run!Call!CallNext, Call!CallNext, Run!Call!callVars, Call!callVars
<1> QED
  BY <1>1, <1>3, <1>4, LoadInvsHold, PTL
  DEF ImplementsEngineCall, Run!Call!CallSpec, Call!CallSpec

(* After a run that reports success every table it did not skip holds the   *)
(* snapshot, has no task and no staging table that was not tried to be      *)
(* dropped, and no restarted sequence will give out a key it has.           *)
THEOREM SuccessIsUsable ==
    LoadSpec =>
      [](pc = "idle" /\ outcome = "returned" /\ success /\ ~cfg.dry =>
           \A t \in Loaded :
             \/ results[t] = "skipped"
             \/ /\ rows[t] = snap[t]
                /\ {<<"staging", t>>, <<"task", t>>} \cap leaked = {}
                /\ t \in restarted => \A r \in snap[t] : Key[r] < nextVal[t])
<1>1. /\ LoadTypeOK
      /\ SuccessMeansSnapshot /\ EveryTableIsReported /\ OkLeavesNothing /\ RestartedIsAhead
      => (pc = "idle" /\ outcome = "returned" /\ success /\ ~cfg.dry =>
            \A t \in Loaded :
              \/ results[t] = "skipped"
              \/ /\ rows[t] = snap[t]
                 /\ {<<"staging", t>>, <<"task", t>>} \cap leaked = {}
                 /\ t \in restarted => \A r \in snap[t] : Key[r] < nextVal[t])
  BY CurrentLoaded, TablesAssumption
  DEF LoadTypeOK, TypeOK, SuccessMeansSnapshot, EveryTableIsReported, OkLeavesNothing,
      RestartedIsAhead, Loaded
<1> QED
  BY <1>1, LoadTypeCorrect, LoadsAreSafe, OkTablesLeaveNothing, RestartsAreAhead, PTL
=============================================================================
