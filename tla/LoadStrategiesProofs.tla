------------------------- MODULE LoadStrategiesProofs -------------------------
(***************************************************************************)
(* LoadStrategies implements RefreshEngine, for every schema, number of    *)
(* staging tables and source; its chunks partition the snapshot, and its   *)
(* loads leave behind only what they must.  Type correctness comes first,  *)
(* then StepInv, which ties step to pc and what is staged and loaded to    *)
(* the snapshot.                                                           *)
(***************************************************************************)
EXTENDS LoadStrategies, RefreshEngineProofs, WellFoundedInduction

LoadSteps == {"pick", "insert", "create", "task", "run", "merge", "drop", "count"}
ChunkStates == {"none", "unassigned", "done", "failed", "undropped"}

(* step refines pc, a load's target table exists once the load is past its  *)
(* pick, and a published load has nothing uncommitted.                      *)
StepInv ==
    /\ step \in LoadSteps <=> pc = "dispatch"
    /\ step = "open" => pc = "prepare"
    /\ step = "restarted" => pc = "sequences"
    /\ step \in LoadSteps \ {"pick", "insert"} => Current \in tables
    /\ published => step \in {"drop", "count"} /\ pending = NothingPending /\ loaded = {}

(* What is staged or loaded comes from the snapshot, chunk by chunk.        *)
InChunk(k) == {r \in snap[Current] : Bucket(r) = k}
DataInv ==
    /\ \A k \in Chunks :
         /\ staged[k] \subseteq InChunk(k)
         /\ staged[k] # {} => step \in {"run", "merge", "drop", "count"}
         /\ step \in {"run", "merge"} /\ chunk[k] = "done" => staged[k] = InChunk(k)
    /\ loaded \subseteq snap[Current]
    /\ loaded # {} => step \in {"drop", "count"}

(* The staging tables and the task that still exist have to be dropped, or  *)
(* their DROP has been tried.                                               *)
LeftoverInv ==
    /\ step \notin {"create", "drop"} => at = 0
    /\ task => step = "run"
    /\ staging # {} => step \in LoadSteps \ {"pick", "insert"}
    /\ step = "drop" => \A k \in staging : k < at => chunk[k] = "undropped"
    /\ step = "count" => \A k \in staging : chunk[k] = "undropped"

-----------------------------------------------------------------------------
(* Chunks are numbered from 0, and the loops over them do not leave them.   *)
LEMMA ChunkNumbers == 0 \in Chunks /\ \A k \in Chunks : k \in Nat
BY ChunkAssumption DEF Chunks

LEMMA NextStagingType ==
    ASSUME LoadTypeOK, NEW here, NEW next, NextStaging(here, next)
    PROVE  at' \in Chunks /\ step' \in {here, next}
BY ChunkNumbers DEF NextStaging

(* Leaving a load resets its variables, and what it leaves behind is typed. *)
LEMMA LeaveLoadType ==
    ASSUME LoadTypeOK, LeaveLoad
    PROVE  /\ step' = "off" /\ at' \in Chunks
           /\ staged' \in [Chunks -> SUBSET Rows] /\ staging' \subseteq Chunks
           /\ chunk' \in [Chunks -> ChunkStates]
           /\ task' = FALSE /\ loaded' = {} /\ published' = FALSE
           /\ leaked' \subseteq Leaks
           /\ links' = links /\ nextVal' = nextVal /\ restarted' = restarted
           /\ \A k \in Chunks : staged'[k] = {}
<1>1. Current \in Tables
  BY CurrentLoaded DEF LoadTypeOK
<1> QED
  BY <1>1, ChunkNumbers DEF LeaveLoad, LoadTypeOK, Leaks, NoStagedRows, NoChunk, ChunkStates

(* < is well-founded on the naturals, so a set of them has a least one.     *)
LEMMA LessIsWellFounded ==
    \E R : IsWellFoundedOn(R, Nat) /\ \A x, y \in Nat : x < y => <<x, y>> \in R
<1>1. \A x, y \in Nat : x < y => <<x, y>> \in OpToRel(<, Nat)
  BY DEF OpToRel
<1> QED
  BY <1>1, NatLessThanWellFounded, Zenon

LEMMA LeastNumber ==
    ASSUME NEW T \in SUBSET Nat, T # {}
    PROVE  \E x \in T : \A y \in T : x <= y
<1>1. PICK R : IsWellFoundedOn(R, Nat) /\ \A x, y \in Nat : x < y => <<x, y>> \in R
  BY LessIsWellFounded
<1>2. \E x \in T : \A y \in T : ~ (<<y, x>> \in R)
  <2>1. IsWellFoundedOn(R, Nat)
    BY <1>1
  <2> QED
    BY <2>1, WFMin
<1>3. PICK x \in T : \A y \in T : ~ (<<y, x>> \in R)
  BY <1>2
<1>4. ASSUME NEW y \in T PROVE x <= y
  <2>1. x \in Nat /\ y \in Nat
    OBVIOUS
  <2>2. ~(y < x)
    BY <1>1, <1>3, <2>1
  <2> QED
    BY <2>1, <2>2
<1> QED
  BY <1>4

(* A finite set of numbers is bounded: the smallest that is not would stay  *)
(* unbounded without one of its elements.                                   *)
LEMMA FiniteIsBounded ==
    ASSUME NEW keys \in SUBSET Nat, IsFiniteSet(keys)
    PROVE  \E b \in Nat : \A k \in keys : k <= b
<1> DEFINE Bounded(S) == \E b \in Nat : \A k \in S : k <= b
           Counter == {n \in Nat : \E S \in SUBSET Nat :
                          IsFiniteSet(S) /\ Cardinality(S) = n /\ ~Bounded(S)}
<1>1. ASSUME Counter # {} PROVE FALSE
  <2>1. PICK n \in Counter : \A m \in Counter : n <= m
    BY <1>1, LeastNumber
  <2>2. PICK S \in SUBSET Nat : IsFiniteSet(S) /\ Cardinality(S) = n /\ ~Bounded(S)
    BY <2>1
  <2>3. PICK x \in S : TRUE
    BY <2>2
  <2>4. /\ IsFiniteSet(S \ {x}) /\ Cardinality(S \ {x}) = n - 1
        /\ Cardinality(S \ {x}) \in Nat
    BY <2>2, <2>3, FS_RemoveElement, FS_CardinalityType
  <2>5. Bounded(S \ {x})
    <3>1. n \in Nat /\ n - 1 \in Nat
      BY <2>4
    <3>2. n - 1 \notin Counter
      BY <2>1, <3>1
    <3> HIDE DEF Bounded
    <3> QED
      BY <3>1, <3>2, <2>4
  <2>6. PICK b \in Nat : \A k \in S \ {x} : k <= b
    BY <2>5
  <2>7. x \in Nat /\ (IF x <= b THEN b ELSE x) \in Nat
    BY <2>3
  <2>8. \A k \in S : k \in Nat /\ k <= (IF x <= b THEN b ELSE x)
    BY <2>6, <2>7
  <2> QED
    BY <2>2, <2>7, <2>8
<1>2. Cardinality(keys) \in Nat
  BY FS_CardinalityType
<1> QED
  BY <1>1, <1>2

(* The number a sequence is restarted with is one, and beyond every key.    *)
LEMMA NextAfterKeys ==
    ASSUME NEW keys \in SUBSET Nat, IsFiniteSet(keys)
    PROVE  NextAfter(keys) \in Nat /\ \A k \in keys : k < NextAfter(keys)
<1>1. CASE keys = {}
  BY <1>1 DEF NextAfter
<1>2. CASE keys # {}
  <2>1. \E m \in keys : \A k \in keys : k <= m
    <3> DEFINE Bounds == {b \in Nat : \A k \in keys : k <= b}
    <3>1. Bounds # {}
      BY FiniteIsBounded
    <3>2. PICK b \in Bounds : \A c \in Bounds : b <= c
      BY <3>1, LeastNumber
    <3>3. CASE b \in keys
      BY <3>2, <3>3
    <3>4. CASE b \notin keys
      <4>1. \A k \in keys : k \in Nat /\ k < b /\ b \in Nat
        BY <3>2, <3>4
      <4>0. PICK other \in keys : TRUE
        BY <1>2
      <4>2. b \in Nat /\ b # 0
        BY <4>0, <4>1
      <4>3. b - 1 \in Nat /\ \A k \in keys : k <= b - 1
        BY <4>1, <4>2
      <4>4. b - 1 \in Bounds
        BY <4>3
      <4>5. b <= b - 1
        <5> HIDE DEF Bounds
        <5> QED
          BY <3>2, <4>4
      <4> QED
        BY ONLY <4>2, <4>5, SMT
    <3> QED
      BY <3>3, <3>4
  <2> DEFINE m == CHOOSE n \in keys : \A k \in keys : k <= n
  <2>2. m \in keys /\ \A k \in keys : k <= m
    BY <2>1
  <2>3. NextAfter(keys) = m + 1
    BY <1>2 DEF NextAfter
  <2> HIDE DEF m
  <2> QED
    BY <2>2, <2>3
<1> QED
  BY <1>1, <1>2

-----------------------------------------------------------------------------
(* Most steps are steps of RefreshEngine, or none, for its own variables.   *)
Inner ==
    DropStaging \/ CountLoaded \/ \E inserted \in SUBSET Rows : Fail(inserted) \/ FailCommitted

InStrategy == DropStaging \/ CountLoaded \/ InsertRefused \/ LoadRaises

LEMMA EngineSteps ==
    ASSUME LoadTypeOK, [LoadNext]_allVars
    PROVE  [Next]_vars \/ (InStrategy /\ Inner)
<1> USE DEF Next, Proceed, Prepare, Phase3, Phase4, Phase5, Load, Fault
<1>1. CASE OpenRun
  BY <1>1 DEF OpenRun
<1>2. CASE OpenLink \/ Insert \/ CreateTask \/ EndTask \/ Merge \/ CleanupLinks
  BY <1>2 DEF OpenLink, Insert, CreateTask, EndTask, Merge, CleanupLinks
<1>3. ASSUME NEW k \in Chunks, RunChunk(k) PROVE UNCHANGED vars
  BY <1>3 DEF RunChunk
<1>4. CASE EnterLoad \/ CreateStaging \/ RestartSequence \/ RestartFails
  BY <1>4 DEF EnterLoad, CreateStaging, RestartSequence, RestartFails
<1>5. CASE Pick
  BY <1>5 DEF Pick, Raise
<1>6. CASE EndSequences \/ SequencesRaise \/ Elsewhere \/ CountRaises \/ RefusedAt \/ RaiseAt
  BY <1>6 DEF EndSequences, SequencesRaise, Elsewhere, CountRaises, RefusedAt, RaiseAt
<1>7. CASE CloseRun \/ CrashRun
  BY <1>7 DEF CloseRun, CrashRun
<1>8. ASSUME NEW t \in Loaded, LeaveSource(t) PROVE Next
  BY <1>8 DEF LeaveSource
<1>9. CASE InsertRefused \/ LoadRaises
  BY <1>9 DEF InsertRefused, LoadRaises, Inner, InStrategy, LoadTypeOK
<1>10. CASE (Finished /\ UNCHANGED loadVars) \/ UNCHANGED allVars
  BY <1>10 DEF allVars
<1> QED
  BY <1>1, <1>2, <1>3, <1>4, <1>5, <1>6, <1>7, <1>8, <1>9, <1>10
  DEF LoadNext, Progress, LoadStep, LoadFault, Inner, InStrategy

(* RefreshEngine's variables keep their types in the steps that are its own *)
(* no more.                                                                 *)
LEMMA InnerType == ASSUME LoadTypeOK, Inner PROVE TypeOK'
<1>0. /\ Current \in Tables /\ TypeOK
      /\ WithPending \in [Tables -> SUBSET Rows] /\ NothingPending \in [Tables -> SUBSET Rows]
  BY CurrentLoaded, CommitType DEF LoadTypeOK
<1>1. CASE DropStaging
  <2>1. rows' \in [Tables -> SUBSET Rows] /\ pending' \in [Tables -> SUBSET Rows]
    BY <1>0, <1>1 DEF DropStaging, Publish, TypeOK, LoadTypeOK
  <2> QED
    BY <1>0, <1>1, <2>1 DEF DropStaging, LoadFrame, RunFrame, TypeOK
<1>2. CASE CountLoaded
  BY <1>0, <1>2 DEF CountLoaded, LoadFrame, RunFrame, TypeOK, LoadTypeOK
<1>3. ASSUME NEW inserted \in SUBSET Rows, Fail(inserted) PROVE TypeOK'
  BY <1>0, <1>3, Positions DEF Fail, Record, Advance, LoadFrame, RunFrame, TypeOK
<1>4. CASE FailCommitted
  BY <1>0, <1>4, Positions DEF FailCommitted, Commit, Record, Advance, LoadFrame, RunFrame, TypeOK
<1> QED
  BY <1>1, <1>2, <1>3, <1>4 DEF Inner

(* The rows a table's sequence restarts beyond are finitely many.           *)
LEMMA SeenKeys ==
    ASSUME TypeOK, NEW t \in Tables
    PROVE  /\ {Key[r] : r \in Seen(t)} \in SUBSET Nat
           /\ IsFiniteSet({Key[r] : r \in Seen(t)})
<1>1. Seen(t) \in SUBSET Rows
  BY CommitType DEF Seen
<1>2. IsFiniteSet(Seen(t))
  BY <1>1, RunAssumption, FS_Subset
<1> DEFINE f == [r \in Seen(t) |-> Key[r]]
<1>3. f \in Surjection(Seen(t), {Key[r] : r \in Seen(t)})
  BY DEF Surjection
<1>4. {Key[r] : r \in Seen(t)} \in SUBSET Nat
  BY <1>1, ChunkAssumption
<1> HIDE DEF f
<1> QED
  BY <1>2, <1>3, <1>4, FS_Surjection

LEMMA LoadTypeStep == ASSUME LoadTypeOK, [LoadNext]_allVars PROVE LoadTypeOK'
<1>0. TypeOK' /\ TypeOK
  BY EngineSteps, TypeStep, InnerType DEF LoadTypeOK
<1> USE ChunkNumbers DEF LoadTypeOK, reportVars, taskVars, loadVars, allVars
<1>1. CASE OpenRun
  <2>1. leaked' \subseteq Leaks /\ restarted' \subseteq Tables /\ step' \in {"open", "off"}
    BY <1>1 DEF OpenRun
  <2> QED
    BY <1>0, <1>1, <2>1 DEF OpenRun
<1>2. CASE OpenLink
  BY <1>0, <1>2 DEF OpenLink, TypeOK
<1>3. CASE EnterLoad \/ Pick
  BY <1>0, <1>3 DEF EnterLoad, Pick
<1>4. CASE LeaveLoad
  BY <1>0, <1>4, LeaveLoadType DEF ChunkStates
<1>5. CASE Insert
  BY <1>0, <1>5 DEF Insert, SourceRows, TypeOK
<1>6. CASE CreateStaging
  BY <1>0, <1>6, NextStagingType DEF CreateStaging
<1>7. CASE CreateTask \/ EndTask
  BY <1>0, <1>7 DEF CreateTask, EndTask
<1>8. ASSUME NEW k \in Chunks, RunChunk(k) PROVE LoadTypeOK'
  <2>1. snap[Current] \in SUBSET Rows
    BY <1>0, CurrentLoaded DEF TypeOK
  <2>2. staged' \in [Chunks -> SUBSET Rows]
    BY <1>8, <2>1 DEF RunChunk, SourceRows
  <2> QED
    BY <1>0, <1>8, <2>2 DEF RunChunk
<1>9. CASE Merge
  BY <1>0, <1>9 DEF Merge, AllStaged
<1>10. CASE DropStaging
  BY <1>0, <1>10, NextStagingType DEF DropStaging, Publish
<1>11. CASE RestartSequence
  <2>1. nextVal' \in [Tables -> Nat] /\ restarted' \subseteq Tables
    BY <1>0, <1>11, CurrentLoaded, SeenKeys, NextAfterKeys DEF RestartSequence
  <2> QED
    BY <1>0, <1>11, <2>1 DEF RestartSequence
<1>12. CASE RestartFails \/ EndSequences \/ SequencesRaise \/ RefusedAt \/ RaiseAt
  BY <1>0, <1>12 DEF RestartFails, EndSequences, SequencesRaise, RefusedAt, RaiseAt
<1>13. CASE Elsewhere \/ CountRaises \/ (\E t \in Loaded : LeaveSource(t)) \/ UNCHANGED loadVars
  BY <1>0, <1>13 DEF Elsewhere, CountRaises, LeaveSource
<1>14. CASE CloseRun \/ CleanupLinks
  BY <1>0, <1>14 DEF CloseRun, CleanupLinks
<1>15. CountLoaded \/ InsertRefused \/ LoadRaises \/ CrashRun => LeaveLoad
  BY DEF CountLoaded, InsertRefused, LoadRaises, CrashRun, Fail, FailCommitted
<1> QED
  BY <1>1, <1>2, <1>3, <1>4, <1>5, <1>6, <1>7, <1>8, <1>9, <1>10, <1>11, <1>12, <1>13, <1>14,
     <1>15
  DEF LoadNext, Progress, LoadStep, LoadFault

(* Every variable of a load keeps its type: no loop over the staging tables *)
(* leaves them.                                                             *)
THEOREM LoadTypeCorrect == LoadSpec => []LoadTypeOK
<1>1. LoadInit => LoadTypeOK
  <2> SUFFICES ASSUME LoadInit PROVE LoadTypeOK
    OBVIOUS
  <2>1. TypeOK
    <3>1. rows \in [Tables -> SUBSET Rows]
      BY DEF LoadInit, Init
    <3>2. 1 \in 1..N /\ 0 \in 0..MaxRuns
      BY TablesAssumption, RunAssumption
    <3> QED
      BY <3>1, <3>2, RunAssumption DEF LoadInit, Init, TypeOK, NothingPending
  <2> QED
    BY <2>1, ChunkNumbers DEF LoadInit, LoadTypeOK, NoStagedRows, NoChunk
<1>2. LoadTypeOK /\ [LoadNext]_allVars => LoadTypeOK'
  BY LoadTypeStep
<1> QED
  BY <1>1, <1>2, PTL DEF LoadSpec

-----------------------------------------------------------------------------
(* Where a load is not going on, a step of the engine starts none.          *)
LEMMA ElsewhereStays == Elsewhere => pc' # "dispatch"
BY DEF Elsewhere, Prepare, Phase3, Phase5, PrepareKeep, PrepareDrop, PrepareCreate,
       ReadConstraints, DisableConstraint, DisableDone, Truncate, StepBack, Cancel, SkipMissing,
       LoadDry, CountsMatch, CountsDiffer, SourceGone, CountFails, FinishTransaction,
       Reenable, ReenableRaises, ReenableDone, Record, Advance

LoadInvs == StepInv /\ DataInv /\ LeftoverInv

(* Outside a load there is nothing staged, loaded or left to drop ...       *)
Outside == /\ \A k \in Chunks : staged[k] = {}
           /\ staging = {} /\ task = FALSE /\ loaded = {} /\ published = FALSE /\ at = 0

LEMMA OutsideAlready ==
    ASSUME LoadInvs, step \notin LoadSteps
    PROVE  Outside
BY ChunkNumbers DEF LoadInvs, StepInv, DataInv, LeftoverInv, LoadSteps, Outside

(* ... and that is all the invariants say there.                            *)
LEMMA OutsideSuffices ==
    ASSUME Outside', step' \in {"off", "open", "restarted"}, pc' # "dispatch",
           step' = "open" => pc' = "prepare", step' = "restarted" => pc' = "sequences"
    PROVE  LoadInvs'
BY ChunkNumbers DEF LoadInvs, StepInv, DataInv, LeftoverInv, LoadSteps, Outside

LEMMA LeaveLoadOutside == LoadTypeOK /\ LeaveLoad => Outside' /\ step' = "off"
BY LeaveLoadType DEF Outside, LeaveLoad

LEMMA LoadInvsStep ==
    ASSUME LoadTypeOK, LoadTypeOK', LoadInvs, [LoadNext]_allVars
    PROVE  LoadInvs'
<1> USE DEF LoadSteps
<1>0. /\ TypeOK /\ TypeOK'
      /\ step \notin LoadSteps <=> pc # "dispatch"
  BY DEF LoadTypeOK, LoadInvs, StepInv
<1>1. ASSUME step \notin LoadSteps, UNCHANGED taskVars, step' \in {"off", "open", "restarted"},
             pc' # "dispatch", step' = "open" => pc' = "prepare",
             step' = "restarted" => pc' = "sequences"
      PROVE  LoadInvs'
  <2>1. Outside'
    BY <1>1, OutsideAlready DEF Outside, taskVars
  <2> QED
    BY <1>1, <2>1, OutsideSuffices
<1>2. ASSUME LeaveLoad, pc' # "dispatch" PROVE LoadInvs'
  <2>1. Outside' /\ step' = "off"
    BY <1>2, LeaveLoadOutside
  <2> QED
    BY <1>2, <2>1, OutsideSuffices
<1>3. CASE OpenRun
  BY <1>0, <1>1, <1>3 DEF OpenRun, StartRun, taskVars
<1>4. CASE OpenLink \/ RestartSequence \/ RestartFails \/ EndSequences \/ SequencesRaise
  <2>1. step \notin LoadSteps /\ UNCHANGED taskVars
    BY <1>0, <1>4 DEF OpenLink, RestartSequence, RestartFails, EndSequences, SequencesRaise,
                      ResetSequences, ReadSequencesFails
  <2>2. /\ pc' # "dispatch" /\ step' \in {"off", "restarted"}
        /\ step' = "restarted" => pc' = "sequences"
    BY <1>4 DEF OpenLink, RestartSequence, RestartFails, EndSequences, SequencesRaise,
                ResetSequences, ReadSequencesFails, ImplicitCommit, Record, Advance, vars
  <2> QED
    BY <1>1, <2>1, <2>2
<1>5. CASE Elsewhere \/ CountRaises \/ CloseRun
  <2>1. step \notin LoadSteps /\ UNCHANGED <<step, taskVars>>
    BY <1>0, <1>5 DEF Elsewhere, CountRaises, CloseRun, Close, loadVars
  <2>2. pc' # "dispatch"
    BY <1>5, ElsewhereStays DEF CountRaises, CountFails, CloseRun, Close, Record, Advance
  <2>3. step = "off" \/ CloseRun
    BY <1>5 DEF Elsewhere, CountRaises
  <2>4. CloseRun => step = "off"
    BY DEF CloseRun, Close, LoadInvs, StepInv, LoadTypeOK
  <2> QED
    BY <1>1, <2>1, <2>2, <2>3, <2>4
<1>6. CASE RefusedAt \/ RaiseAt
  <2>1. pc' = "close" /\ step' = "off" /\ UNCHANGED taskVars /\ step \in {"off", "open", "pick"}
    BY <1>6 DEF RefusedAt, RaiseAt, Refused, Raise, Escape
  <2>2. Outside
    BY <2>1, OutsideAlready, ChunkNumbers
    DEF LoadInvs, StepInv, DataInv, LeftoverInv, Outside
  <2>3. Outside'
    BY <2>1, <2>2 DEF Outside, taskVars
  <2> QED
    BY <2>1, <2>3, OutsideSuffices
<1>7. CASE InsertRefused \/ LoadRaises \/ CountLoaded \/ CrashRun
  BY <1>2, <1>7
  DEF InsertRefused, LoadRaises, CountLoaded, CrashRun, Crash, Fail, FailCommitted, Record,
      Advance
<1>8. CASE EnterLoad
  <2>1. step \notin LoadSteps
    BY <1>0, <1>8 DEF EnterLoad, BeginLoad
  <2>2. Outside
    BY <2>1, OutsideAlready
  <2>3. Outside' /\ step' = "pick" /\ pc' = "dispatch"
    BY <1>8, <2>2 DEF Outside, EnterLoad, BeginLoad, taskVars
  <2> QED
    BY <2>3 DEF LoadInvs, StepInv, DataInv, LeftoverInv, Outside
<1>9. CASE Pick
  <2>1. /\ step = "pick" /\ pc = "dispatch" /\ UNCHANGED taskVars /\ Current \in tables
        /\ \/ step' = "off" /\ pc' = "close"
           \/ step' \in {"create", "insert"} /\ UNCHANGED vars
    BY <1>9 DEF Pick, Escape
  <2>2. Outside
    BY <2>1 DEF LoadInvs, StepInv, DataInv, LeftoverInv, Outside
  <2>3. Outside'
    BY <2>1, <2>2 DEF Outside, taskVars
  <2>4. CASE step' = "off" /\ pc' = "close"
    BY <2>3, <2>4, OutsideSuffices
  <2>5. CASE step' \in {"create", "insert"} /\ UNCHANGED vars
    BY <2>1, <2>3, <2>5 DEF LoadInvs, StepInv, DataInv, LeftoverInv, Outside, Current, vars
  <2> QED
    BY <2>1, <2>4, <2>5
<1>10. CASE Insert
  BY <1>10 DEF Insert, SourceRows, LoadInvs, StepInv, DataInv, LeftoverInv, Current, InChunk, vars
<1>11. CASE CreateStaging
  <2>1. at' \in Chunks /\ step' \in {"create", "task"} /\ (step' = "task" => at' = 0)
    BY <1>11, ChunkNumbers, NextStagingType DEF CreateStaging, NextStaging
  <2> QED
    BY <1>11, <2>1
    DEF CreateStaging, ImplicitCommit, Commit, LoadFrame, RunFrame, LoadInvs, StepInv, DataInv,
        LeftoverInv, Current, InChunk
<1>12. CASE CreateTask
  BY <1>12 DEF CreateTask, LoadInvs, StepInv, DataInv, LeftoverInv, Current, InChunk, vars
<1>13. ASSUME NEW k \in Chunks, RunChunk(k) PROVE LoadInvs'
  BY <1>13
  DEF RunChunk, SourceRows, LoadTypeOK, LoadInvs, StepInv, DataInv, LeftoverInv, Current, InChunk,
      vars
<1>14. CASE EndTask
  BY <1>14 DEF EndTask, LoadInvs, StepInv, DataInv, LeftoverInv, Current, InChunk, vars
<1>15. CASE Merge
  <2>1. AllStaged \subseteq snap[Current]
    BY DEF AllStaged, LoadInvs, DataInv, InChunk
  <2>2. /\ step = "merge" /\ step' = "drop" /\ pc = "dispatch" /\ at = 0
        /\ loaded' \subseteq snap[Current] /\ Current \in tables
        /\ UNCHANGED <<vars, at, staged, staging, chunk, task, published>>
    BY <1>15, <2>1 DEF Merge, LoadInvs, LeftoverInv
  <2>3. StepInv'
    BY <2>2 DEF LoadInvs, StepInv, Current, vars
  <2>4. DataInv'
    BY <2>2 DEF LoadInvs, DataInv, Current, InChunk, vars
  <2>5. LeftoverInv'
    BY <2>2, ChunkNumbers DEF LoadTypeOK, LoadInvs, LeftoverInv
  <2> QED
    BY <2>3, <2>4, <2>5 DEF LoadInvs
<1>16. CASE DropStaging
  <2>1. /\ step = "drop" /\ pc = "dispatch" /\ pc' = "dispatch"
        /\ UNCHANGED <<tables, snap, i, staged, task>>
        /\ NextStaging("drop", "count")
        /\ \/ staging' = staging \ {at} /\ UNCHANGED chunk
           \/ chunk' = [chunk EXCEPT ![at] = "undropped"] /\ UNCHANGED staging
        /\ Publish \/ UNCHANGED <<rows, pending, loaded, published>>
    BY <1>16 DEF DropStaging, LoadFrame, RunFrame
  <2>2. /\ step' \in {"drop", "count"} /\ at' \in Chunks
        /\ step' = "drop" => at' = at + 1
        /\ step' = "count" => at' = 0 /\ at + 1 \notin Chunks
    BY <2>1, NextStagingType DEF NextStaging
  <2>3. StepInv'
    BY <2>1, <2>2 DEF LoadInvs, StepInv, Current, Publish
  <2>4. DataInv'
    BY <2>1, <2>2 DEF LoadInvs, DataInv, Current, InChunk, Publish
  <2>5. ASSUME NEW k \in staging', k < at \/ k = at PROVE chunk'[k] = "undropped"
    <3>1. k \in staging /\ k \in Chunks /\ (k = at => UNCHANGED staging)
      BY <2>1, <2>5 DEF LoadTypeOK
    <3>2. k < at => chunk[k] = "undropped"
      BY <2>1, <3>1 DEF LoadInvs, LeftoverInv
    <3> QED
      BY <2>1, <2>5, <3>1, <3>2 DEF LoadTypeOK
  <2>6. LeftoverInv'
    <3>1. staging' \subseteq Chunks /\ at \in Chunks
      BY DEF LoadTypeOK
    <3>2. \A k \in Chunks : k <= at \/ at + 1 \in Chunks
      BY <3>1, ChunkAssumption DEF Chunks
    <3>3. \A k \in staging' : (k < at + 1 \/ at + 1 \notin Chunks) => k < at \/ k = at
      BY <3>1, <3>2, ChunkNumbers
    <3> QED
      BY <2>1, <2>2, <2>5, <3>1, <3>3 DEF LoadInvs, LeftoverInv
  <2> QED
    BY <2>3, <2>4, <2>6 DEF LoadInvs
<1>17. CASE \/ \E t \in Loaded : LeaveSource(t)
            \/ CleanupLinks \/ (Finished /\ UNCHANGED loadVars) \/ UNCHANGED allVars
  BY <1>17
  DEF LeaveSource, DropSourceTable, CleanupLinks, Finished, target, vars, loadVars, taskVars,
      allVars, LoadInvs, StepInv, DataInv, LeftoverInv, Current, InChunk
<1> QED
  BY <1>3, <1>4, <1>5, <1>6, <1>7, <1>8, <1>9, <1>10, <1>11, <1>12, <1>13, <1>14, <1>15, <1>16,
     <1>17
  DEF LoadNext, Progress, LoadStep, LoadFault

LEMMA LoadInvsHold == LoadSpec => [](LoadTypeOK /\ LoadInvs)
<1>1. LoadInit => LoadInvs
  <2> SUFFICES ASSUME LoadInit PROVE LoadInvs
    OBVIOUS
  <2>1. /\ step = "off" /\ pc = "idle" /\ at = 0 /\ staging = {} /\ task = FALSE
        /\ loaded = {} /\ published = FALSE /\ \A k \in Chunks : staged[k] = {}
    BY DEF LoadInit, Init, NoStagedRows
  <2> QED
    BY <2>1 DEF LoadInvs, StepInv, DataInv, LeftoverInv, LoadSteps
<1>2. LoadTypeOK /\ LoadTypeOK' /\ LoadInvs /\ [LoadNext]_allVars => LoadInvs'
  BY LoadInvsStep
<1> QED
  BY <1>1, <1>2, LoadTypeCorrect, PTL DEF LoadSpec

(* The chunks of a parallel task are disjoint, and when none failed they    *)
(* are the whole snapshot of the table: the merge misses and doubles no row.*)
THEOREM ChunksPartition == LoadSpec => []ChunksPartitionSnapshot
<1>1. LoadTypeOK /\ LoadInvs => ChunksPartitionSnapshot
  <2> SUFFICES ASSUME LoadTypeOK, LoadInvs PROVE ChunksPartitionSnapshot
    OBVIOUS
  <2>1. ASSUME NEW j \in Chunks, NEW k \in Chunks, j # k PROVE staged[j] \cap staged[k] = {}
    BY <2>1 DEF LoadInvs, DataInv, InChunk
  <2>2. ASSUME step = "merge", \A k \in Chunks : chunk[k] = "done"
        PROVE  AllStaged = snap[Current]
    <3>1. \A k \in Chunks : staged[k] = InChunk(k)
      BY <2>2 DEF LoadInvs, DataInv
    <3>2. snap[Current] \subseteq Rows
      BY CurrentLoaded DEF LoadTypeOK, TypeOK
    <3>3. ASSUME NEW r \in Rows PROVE Bucket(r) \in Chunks
      <4>1. Hash[r] \in Nat /\ NChunks \in Nat /\ NChunks > 0
        BY ChunkAssumption
      <4> QED
        BY <4>1 DEF Bucket, Chunks
    <3>4. \A r \in snap[Current] : r \in InChunk(Bucket(r)) /\ Bucket(r) \in Chunks
      BY <3>2, <3>3 DEF InChunk
    <3>5. \A k \in Chunks : InChunk(k) \subseteq snap[Current]
      BY DEF InChunk
    <3> QED
      BY <3>1, <3>4, <3>5 DEF AllStaged
  <2> QED
    BY <2>1, <2>2 DEF ChunksPartitionSnapshot
<1> QED
  BY <1>1, LoadInvsHold, PTL

-----------------------------------------------------------------------------
(* The table a load is at has no status yet, in whatever run: the tables    *)
(* before it have theirs, and Cancel gives the rest one and stops.          *)
LEMMA TurnStep ==
    ASSUME TypeOK, NoStatusBeforeTurn, [Next]_vars \/ Inner
    PROVE  NoStatusBeforeTurn'
<1> USE DEF NoStatusBeforeTurn
<1>0. /\ Current \in Tables
      /\ \A j \in i+1..N : Order[j] # Current
      /\ \A j \in 1..N : Order[j] \in Tables
  BY CurrentLoaded, Positions, TablesAssumption DEF TypeOK, Current
<1>1. CASE StartRun
  BY <1>1, <1>0 DEF StartRun
<1>2. CASE Prepare
  BY <1>2 DEF Prepare, PrepareKeep, PrepareDrop, PrepareCreate, PrepareFrame, RunFrame, Advance
<1>3. CASE Phase3 \/ Phase5
  BY <1>3
  DEF Phase3, Phase5, ReadConstraints, DisableConstraint, DisableDone, RunFrame, Reenable,
      ReenableRaises, ReenableDone
<1>4. CASE Truncate
  BY <1>4, <1>0 DEF Truncate, StepBack
<1>5. ASSUME NEW status \in {"ok", "failed", "skipped"}, Record(status), pc \in OngoingLoad
      PROVE  NoStatusBeforeTurn'
  <2>1. results' = [results EXCEPT ![Current] = status] /\ Advance("check", "finish")
    BY <1>5 DEF Record
  <2>2. CASE i < N
    <3>1. i' = i + 1 /\ pc' = "check"
      BY <2>1, <2>2 DEF Advance
    <3>2. ASSUME NEW j \in i+1..N PROVE results'[Order[j]] = "none"
      <4>1. j \in i..N /\ j \in 1..N
        BY Positions
      <4>2. results[Order[j]] = "none" /\ Order[j] # Current /\ Order[j] \in Tables
        BY <1>0, <1>5, <4>1 DEF OngoingLoad
      <4> QED
        BY <2>1, <4>2 DEF TypeOK
    <3> QED
      BY <3>1, <3>2
  <2>3. CASE ~(i < N)
    BY <2>1, <2>3 DEF Advance
  <2> QED
    BY <2>2, <2>3
<1>6. CASE SkipMissing \/ LoadDry \/ CountFails \/ ResetSequences \/ ReadSequencesFails \/ LoadFails
  BY <1>5, <1>6
  DEF SkipMissing, LoadDry, CountFails, ResetSequences, ReadSequencesFails, LoadFails, OngoingLoad
<1>7. CASE CountsDiffer \/ FailCommitted \/ \E inserted \in SUBSET Rows : Fail(inserted)
  BY <1>5, <1>7 DEF CountsDiffer, FailCommitted, Fail, OngoingLoad
<1>8. CASE \/ BeginLoad \/ ImplicitCommit \/ DirectLoad \/ ChunkedLoad \/ CountsMatch
           \/ DropStaging \/ CountLoaded
  BY <1>8
  DEF BeginLoad, ImplicitCommit, DirectLoad, ChunkedLoad, CountsMatch, DropStaging, CountLoaded
<1>9. CASE Cancel \/ FinishTransaction \/ Raise \/ Refused \/ Close \/ Crash
  BY <1>9 DEF Cancel, FinishTransaction, Raise, Refused, Escape, Close, Crash
<1>10. CASE (\E t \in Loaded : DropSourceTable(t)) \/ Finished \/ UNCHANGED vars
  BY <1>10 DEF DropSourceTable, Finished, vars
<1> QED
  BY <1>1, <1>2, <1>3, <1>4, <1>6, <1>7, <1>8, <1>9, <1>10
  DEF Next, Proceed, Phase4, Load, SourceGone, Fault, Inner

(* A table that has failed stays so until the next run.                     *)
LEMMA FailedStaysFailed ==
    ASSUME TypeOK, NoStatusBeforeTurn, [Next]_vars \/ Inner, ~StartRun,
           NEW t \in Tables, results[t] = "failed"
    PROVE  results'[t] = "failed"
<1>1. CASE pc \in OngoingLoad
  <2>1. t # Current /\ t \notin Remaining
    <3>1. \A j \in i..N : Order[j] # t
      BY <1>1 DEF NoStatusBeforeTurn, OngoingLoad
    <3> QED
      BY <3>1, Positions DEF Current, Remaining
  <2>2. ASSUME NEW status, Record(status) PROVE results'[t] = "failed"
    BY <2>1, <2>2 DEF Record, TypeOK
  <2>3. Next => \/ \E status \in {"ok", "failed", "skipped"} : Record(status)
                \/ Cancel \/ UNCHANGED results
    BY <1>1
    DEF Next, Proceed, Prepare, PrepareKeep, PrepareDrop, PrepareCreate, PrepareFrame,
        Phase3, ReadConstraints, DisableConstraint, DisableDone, Phase4, Truncate, SkipMissing,
        LoadDry, Load, BeginLoad, ImplicitCommit, DirectLoad, ChunkedLoad, CountsMatch,
        CountsDiffer, SourceGone, CountFails, ResetSequences, FinishTransaction,
        Phase5, Reenable, ReenableRaises, ReenableDone, Refused, Raise, Escape, Close,
        Fault, LoadFails, ReadSequencesFails, Crash, DropSourceTable, Finished, vars,
        StartRun, OngoingLoad
  <2>4. Inner => Record("failed") \/ UNCHANGED results
    BY DEF Inner, DropStaging, CountLoaded, Fail, FailCommitted
  <2>5. Cancel => results'[t] = "failed"
    BY <2>1 DEF Cancel
  <2> QED
    BY <2>2, <2>3, <2>4, <2>5 DEF vars
<1>2. CASE pc \notin OngoingLoad
  <2>1. UNCHANGED results
    BY <1>2
    DEF Next, Proceed, Prepare, PrepareKeep, PrepareDrop, PrepareCreate, PrepareFrame,
        Phase3, ReadConstraints, DisableConstraint, DisableDone, Phase4, Truncate, Cancel,
        SkipMissing, LoadDry, Load, BeginLoad, ImplicitCommit, DirectLoad, ChunkedLoad,
        CountsMatch, CountsDiffer, SourceGone, CountFails, ResetSequences, FinishTransaction,
        Phase5, Reenable, ReenableRaises, ReenableDone, Refused, Raise, Escape, Close,
        Fault, LoadFails, ReadSequencesFails, Crash, DropSourceTable, Finished, vars,
        OngoingLoad, Inner, DropStaging, CountLoaded, Fail, FailCommitted
  <2> QED
    BY <2>1
<1> QED
  BY <1>1, <1>2

(* A table that has left a staging table whose DROP was not tried, or a     *)
(* task, has failed, or the process died in the middle of its load.         *)
Left(t) == {<<"staging", t>>, <<"task", t>>} \cap leaked # {}
LeakInv ==
    \A t \in Tables : Left(t) => results[t] = "failed" \/ (results[t] = "none" /\ pc = "idle")

(* Where no run goes on, nothing happens until the next one.                *)
LEMMA IdleStays ==
    ASSUME LoadTypeOK, LoadInvs, [LoadNext]_allVars, ~OpenRun, pc = "idle"
    PROVE  UNCHANGED <<results, pc, leaked>>
<1>1. step \notin LoadSteps
  BY DEF LoadInvs, StepInv
<1> QED
  BY <1>1
  DEF LoadNext, Progress, OpenLink, Elsewhere, Prepare, PrepareKeep, PrepareDrop,
      PrepareCreate, Phase3, ReadConstraints, DisableConstraint, DisableDone, Phase5,
      Reenable, ReenableRaises, ReenableDone, Truncate, Cancel, SkipMissing, LoadDry,
      CountsMatch, CountsDiffer, SourceGone, CountFails, FinishTransaction, RefusedAt,
      Refused, LoadStep, EnterLoad, BeginLoad, Pick, Insert, CreateStaging, ImplicitCommit,
      CreateTask,
      EndTask, Merge, DropStaging, RunChunk, CountLoaded, InsertRefused, Fail,
      RestartSequence, EndSequences, ResetSequences, CloseRun, Close, LoadFault, LoadRaises,
      FailCommitted, CountRaises, RestartFails, SequencesRaise, ReadSequencesFails,
      RaiseAt, Raise, CrashRun, Crash, CleanupLinks, LeaveSource, DropSourceTable, Finished,
      loadVars, reportVars, allVars, vars

LEMMA LeakStep ==
    ASSUME LoadTypeOK, LoadInvs, NoStatusBeforeTurn, LeakInv, [LoadNext]_allVars
    PROVE  LeakInv'
<1>0. TypeOK /\ Current \in Tables /\ ([Next]_vars \/ Inner)
  BY CurrentLoaded, EngineSteps DEF LoadTypeOK
<1>1. CASE OpenRun
  BY <1>1 DEF OpenRun, LeakInv, Left
<1>2. ASSUME ~OpenRun, NEW t \in Tables, Left(t) PROVE results'[t] = "failed" \/ LeakInv'
  <2>1. CASE pc # "idle"
    <3>1. ~StartRun /\ results[t] = "failed"
      BY <1>2, <2>1 DEF StartRun, LeakInv
    <3> QED
      BY <1>0, <3>1, FailedStaysFailed
  <2>2. CASE pc = "idle"
    <3>1. UNCHANGED <<results, pc, leaked>>
      BY <1>2, <2>2, IdleStays
    <3> QED
      BY <3>1 DEF LeakInv, Left
  <2> QED
    BY <2>1, <2>2
<1>3. ASSUME ~OpenRun, NEW t \in Tables, Left(t)', ~Left(t)
      PROVE  results'[t] = "failed" \/ (results'[t] = "none" /\ pc' = "idle")
  <2>1. LeaveLoad
    BY <1>3
    DEF LoadNext, Progress, OpenLink, Elsewhere, RefusedAt, LoadStep, EnterLoad, Pick, Insert,
        CreateStaging, CreateTask, EndTask, Merge, DropStaging, RunChunk, CountLoaded,
        InsertRefused, Fail, RestartSequence, EndSequences, CloseRun, LoadFault, LoadRaises,
        FailCommitted, CountRaises, RestartFails, SequencesRaise, RaiseAt, CrashRun,
        CleanupLinks, LeaveSource, loadVars, reportVars, allVars, Left
  <2>2. t = Current /\ step \in LoadSteps /\ step # "count"
    <3>1. \/ task /\ t = Current
          \/ \E k \in staging : chunk[k] # "undropped" /\ t = Current
      BY <1>3, <2>1 DEF LeaveLoad, Left
    <3> QED
      BY <3>1 DEF LoadInvs, LeftoverInv, LoadSteps
  <2>3. pc = "dispatch" /\ results[t] = "none"
    BY <2>2, Positions, <1>0 DEF LoadInvs, StepInv, NoStatusBeforeTurn, Current
  <2>4. CountLoaded \/ CrashRun \/ Record("failed")
    <3>1. step' = "off" /\ pc = "dispatch" /\ step \in LoadSteps /\ step # "pick"
      BY <2>1, <2>2, <2>3, <1>3 DEF LeaveLoad, LoadInvs, LeftoverInv, Left
    <3> QED
      BY <3>1
      DEF LoadNext, Progress, OpenLink, Elsewhere, RefusedAt, LoadStep, EnterLoad, Pick, Insert,
          CreateStaging, NextStaging, CreateTask, EndTask, Merge, DropStaging, RunChunk,
          InsertRefused, Fail, RestartSequence, EndSequences, ResetSequences, CloseRun, Close,
          LoadFault, ReadSequencesFails, LoadRaises, FailCommitted, CountRaises, RestartFails,
          SequencesRaise, RaiseAt,
          CleanupLinks, LeaveSource, LoadSteps, loadVars, allVars, OpenRun, StartRun
  <2>5. ~CountLoaded
    BY <2>2 DEF CountLoaded
  <2> QED
    BY <1>0, <2>2, <2>3, <2>4, <2>5 DEF CrashRun, Crash, Record, TypeOK
<1> QED
  BY <1>1, <1>2, <1>3 DEF LeakInv

(* A table reported ok has left nothing behind but staging tables whose     *)
(* DROP failed.                                                             *)
THEOREM OkTablesLeaveNothing == LoadSpec => []OkLeavesNothing
<1>1. LoadInit => NoStatusBeforeTurn /\ LeakInv
  BY DEF LoadInit, Init, NoStatusBeforeTurn, LeakInv, Left
<1>2. LoadTypeOK /\ NoStatusBeforeTurn /\ [LoadNext]_allVars => NoStatusBeforeTurn'
  BY EngineSteps, TurnStep DEF LoadTypeOK
<1>3. LoadTypeOK /\ LoadInvs /\ NoStatusBeforeTurn /\ LeakInv /\ [LoadNext]_allVars => LeakInv'
  BY LeakStep
<1>4. LeakInv => OkLeavesNothing
  BY DEF LeakInv, Left, OkLeavesNothing
<1> QED
  BY <1>1, <1>2, <1>3, <1>4, LoadInvsHold, PTL DEF LoadSpec

-----------------------------------------------------------------------------
(* Where a step of the load loop may come from.                             *)
Preparing == {"prepare", "recreate", "read_fks", "disable", "truncate"}
LEMMA LoopMoves ==
    ASSUME TypeOK, [Next]_vars \/ Inner
    PROVE  /\ pc' \in Preparing => StartRun \/ pc \in Preparing
           /\ pc' \in {"check", "dispatch", "validate"} =>
                \/ pc \in Preparing
                \/ pc \in {"check", "dispatch", "validate"} /\ i' = i
                \/ pc \in OngoingLoad /\ i < N /\ i' = i + 1
           /\ pc' = "sequences" => pc \in {"validate", "sequences"} /\ i' = i
<1>1. CASE StartRun \/ Prepare \/ Phase3 \/ Phase5
  BY <1>1
  DEF StartRun, Prepare, PrepareKeep, PrepareDrop, PrepareCreate, Phase3, ReadConstraints,
      DisableConstraint, DisableDone, Phase5, Reenable, ReenableRaises, ReenableDone, Advance,
      Preparing
<1>2. CASE Truncate \/ Cancel \/ SkipMissing \/ LoadDry \/ FinishTransaction
  BY <1>2
  DEF Truncate, StepBack, Cancel, SkipMissing, LoadDry, FinishTransaction, Record, Advance,
      Preparing, OngoingLoad
<1>3. CASE Load
  BY <1>3
  DEF Load, BeginLoad, ImplicitCommit, DirectLoad, ChunkedLoad, CountsMatch, CountsDiffer,
      SourceGone, CountFails, ResetSequences, Record, Advance, Preparing, OngoingLoad
<1>4. CASE Refused \/ Close \/ Fault \/ (\E t \in Loaded : DropSourceTable(t)) \/ Finished
           \/ UNCHANGED vars
  BY <1>4
  DEF Refused, Raise, Escape, Close, Fault, LoadFails, CountFails, ReadSequencesFails, Crash,
      DropSourceTable, Finished, vars, Record, Advance, Preparing, OngoingLoad
<1>5. CASE Inner
  BY <1>5
  DEF Inner, DropStaging, LoadFrame, RunFrame, CountLoaded, Fail, FailCommitted, Record, Advance,
      Preparing, OngoingLoad
<1> QED
  BY <1>1, <1>2, <1>3, <1>4, <1>5 DEF Next, Proceed, Phase4

(* Only a load adds rows, and only to the current table.                    *)
LEMMA OnlyLoadsAddRows ==
    ASSUME TypeOK, [Next]_vars \/ Inner, NEW t \in Tables, ~(pc = "dispatch" /\ t = Current)
    PROVE  rows'[t] \cup pending'[t] \subseteq rows[t] \cup pending[t]
<1> USE DEF TypeOK
<1>0. /\ Current \in Tables /\ WithPending[t] = rows[t] \cup pending[t]
      /\ WithPending \in [Tables -> SUBSET Rows] /\ NothingPending[t] = {}
  BY CurrentLoaded, CommitType DEF WithPending, NothingPending
<1>1. Commit \/ Rollback \/ UNCHANGED <<rows, pending>> =>
        rows'[t] \cup pending'[t] \subseteq rows[t] \cup pending[t]
  BY <1>0 DEF Commit, Rollback
<1>2. CASE StartRun \/ PrepareKeep \/ PrepareCreate \/ Phase3 \/ Phase5
  BY <1>1, <1>2
  DEF StartRun, PrepareKeep, PrepareCreate, PrepareFrame, Phase3, ReadConstraints,
      DisableConstraint, DisableDone, Phase5, Reenable, ReenableRaises, ReenableDone, target
<1>3. CASE PrepareDrop \/ Truncate
  BY <1>3, <1>0 DEF PrepareDrop, PrepareFrame, Truncate
<1>4. CASE Cancel \/ SkipMissing \/ LoadDry \/ FinishTransaction
  BY <1>1, <1>4 DEF Cancel, SkipMissing, LoadDry, FinishTransaction
<1>5. CASE Load
  <2>1. CASE DirectLoad \/ ChunkedLoad
    <3>1. t # Current
      BY <2>1 DEF DirectLoad, ChunkedLoad
    <3>2. CASE DirectLoad
      BY <3>1, <3>2 DEF DirectLoad
    <3>3. CASE ChunkedLoad
      BY <1>0, <3>1, <3>3 DEF ChunkedLoad
    <3> QED
      BY <2>1, <3>2, <3>3
  <2>2. CASE ~DirectLoad /\ ~ChunkedLoad
    BY <1>1, <1>5, <2>2
    DEF Load, BeginLoad, ImplicitCommit, CountsMatch, CommitPerTable, CountsDiffer, SourceGone,
        CountFails, ResetSequences
  <2> QED
    BY <2>1, <2>2
<1>6. CASE LoadFails
  BY <1>1, <1>6, <1>0 DEF LoadFails
<1>7. CASE \/ Refused \/ Close \/ Raise \/ CountFails \/ ReadSequencesFails \/ Crash
           \/ (\E s \in Loaded : DropSourceTable(s)) \/ Finished \/ UNCHANGED vars
  BY <1>1, <1>7
  DEF Refused, Raise, Escape, Close, CountFails, ReadSequencesFails, Crash, DropSourceTable,
      Finished, target, vars
<1>8. CASE DropStaging
  <2>1. t # Current /\ (Publish \/ UNCHANGED <<rows, pending>>)
    BY <1>8 DEF DropStaging
  <2> QED
    BY <1>0, <2>1 DEF Publish
<1>9. CASE CountLoaded \/ FailCommitted \/ \E inserted \in SUBSET Rows : Fail(inserted)
  BY <1>1, <1>9, <1>0 DEF CountLoaded, FailCommitted, Fail
<1> QED
  BY <1>2, <1>3, <1>4, <1>5, <1>6, <1>7, <1>8, <1>9
  DEF Next, Proceed, Prepare, Phase4, Fault, Inner

(* A sequence is restarted after its table's load, once in a run.           *)
RestartInv ==
    /\ pc \in Preparing => restarted = {}
    /\ pc \in {"check", "dispatch", "validate"} => \A j \in i..N : Order[j] \notin restarted
    /\ pc = "sequences" => \A j \in i+1..N : Order[j] \notin restarted
    /\ RestartedIsAhead

LEMMA RestartStep ==
    ASSUME LoadTypeOK, LoadInvs, RestartInv, [LoadNext]_allVars
    PROVE  RestartInv'
<1>0. /\ TypeOK /\ Current \in Tables /\ ([Next]_vars \/ Inner)
      /\ i \in Nat /\ N \in Nat /\ 1 <= i /\ i <= N /\ Current = Order[i]
      /\ \A j \in i+1..N : Order[j] # Current
  BY CurrentLoaded, EngineSteps, Positions, TablesAssumption DEF LoadTypeOK, TypeOK, Current
<1>1. CASE OpenRun
  BY <1>1 DEF OpenRun, StartRun, RestartInv, RestartedIsAhead, Preparing
<1>2. CASE RestartSequence
  <2>1. /\ pc = "sequences" /\ pc' = pc /\ i' = i
        /\ rows' = WithPending /\ pending' = NothingPending
        /\ nextVal' = [nextVal EXCEPT ![Current] = NextAfter({Key[r] : r \in Seen(Current)})]
        /\ restarted' = restarted \cup {Current}
    BY <1>2 DEF RestartSequence, ImplicitCommit, Commit
  <2>2. ASSUME NEW t \in restarted', NEW r \in rows'[t] \cup pending'[t]
        PROVE  Key[r] < nextVal'[t]
    <3>1. t \in Tables /\ r \in WithPending[t] /\ r \in rows[t] \cup pending[t]
      BY <1>0, <2>1, <2>2 DEF LoadTypeOK, WithPending, NothingPending
    <3>2. CASE t = Current
      <4> DEFINE keys == {Key[s] : s \in Seen(Current)}
      <4>1. Key[r] \in keys
        BY <3>1, <3>2 DEF Seen
      <4>2. keys \in SUBSET Nat /\ IsFiniteSet(keys)
        BY <1>0, SeenKeys
      <4>3. nextVal'[Current] = NextAfter(keys)
        BY <1>0, <2>1 DEF LoadTypeOK
      <4> HIDE DEF keys
      <4> QED
        BY <3>2, <4>1, <4>2, <4>3, NextAfterKeys
    <3>3. CASE t # Current
      BY <2>1, <2>2, <3>1, <3>3 DEF LoadTypeOK, RestartInv, RestartedIsAhead
    <3> QED
      BY <3>2, <3>3
  <2> QED
    BY <1>0, <2>1, <2>2 DEF RestartInv, RestartedIsAhead, Preparing
<1>3. CASE ~OpenRun /\ ~RestartSequence
  <2>1. UNCHANGED <<nextVal, restarted>>
    BY <1>3
    DEF LoadNext, Progress, OpenLink, Elsewhere, RefusedAt, LoadStep, EnterLoad, Pick, Insert,
        CreateStaging, CreateTask, EndTask, Merge, DropStaging, RunChunk, CountLoaded,
        InsertRefused, Fail, EndSequences, CloseRun, LoadFault, LoadRaises,
        FailCommitted, CountRaises, RestartFails, SequencesRaise, RaiseAt, CrashRun,
        CleanupLinks, LeaveSource, LeaveLoad, loadVars, reportVars, allVars
  <2>2. ASSUME NEW t \in restarted PROVE ~(pc = "dispatch" /\ t = Current)
    BY <1>0 DEF RestartInv
  <2>3. RestartedIsAhead'
    <3>1. ASSUME NEW t \in restarted
          PROVE  rows'[t] \cup pending'[t] \subseteq rows[t] \cup pending[t]
      BY <1>0, <2>2, OnlyLoadsAddRows DEF LoadTypeOK
    <3> QED
      BY <2>1, <3>1 DEF RestartInv, RestartedIsAhead
  <2>4. pc' \in Preparing => restarted' = {}
    BY <1>0, <1>3, <2>1, LoopMoves, IdleStays DEF RestartInv, StartRun
  <2>5. ASSUME pc' \in {"check", "dispatch", "validate"}, NEW j \in i'..N
        PROVE  Order[j] \notin restarted'
    <3>1. CASE pc \in Preparing
      BY <2>1, <3>1 DEF RestartInv
    <3>2. CASE pc \in {"check", "dispatch", "validate"} /\ i' = i
      BY <2>1, <2>5, <3>2 DEF RestartInv
    <3>3. CASE pc \in OngoingLoad /\ i < N /\ i' = i + 1
      BY <1>0, <2>1, <2>5, <3>3 DEF RestartInv, OngoingLoad
    <3> QED
      BY <1>0, <2>5, <3>1, <3>2, <3>3, LoopMoves
  <2>6. ASSUME pc' = "sequences", NEW j \in i'+1..N PROVE Order[j] \notin restarted'
    BY <1>0, <2>1, <2>6, LoopMoves DEF RestartInv
  <2> QED
    BY <2>3, <2>4, <2>5, <2>6 DEF RestartInv
<1> QED
  BY <1>1, <1>2, <1>3

(* A sequence that was restarted is beyond all keys of its table: its next  *)
(* value is no duplicate.                                                   *)
THEOREM RestartsAreAhead == LoadSpec => []RestartedIsAhead
<1>1. LoadInit => RestartInv
  BY DEF LoadInit, Init, RestartInv, RestartedIsAhead, Preparing
<1>2. LoadTypeOK /\ LoadInvs /\ RestartInv /\ [LoadNext]_allVars => RestartInv'
  BY RestartStep
<1>3. RestartInv => RestartedIsAhead
  BY DEF RestartInv
<1> QED
  BY <1>1, <1>2, <1>3, LoadInvsHold, PTL DEF LoadSpec

(* The thresholds do not cross: of two tables without LOB and LONG columns  *)
(* the one with more rows and bytes gets no lighter strategy.               *)
THEOREM HeavierTablesHeavierStrategies == LoadSpec => []HeavierTableHeavierStrategy
<1>1. HeavierTableHeavierStrategy
  <2>1. ASSUME NEW p \in Profiles, NEW q \in Profiles, NEW dpe \in BOOLEAN,
               p.rows <= q.rows, p.size_mb <= q.size_mb,
               ~p.has_lob, ~q.has_lob, ~p.has_long, ~q.has_long
        PROVE  Weight[PickStrategy(p, dpe, "auto")] <= Weight[PickStrategy(q, dpe, "auto")]
    <3>1. p \in ProfileType /\ q \in ProfileType
      BY PickAssumption
    <3>2. /\ p.rows \in Nat /\ q.rows \in Nat /\ p.size_mb \in Nat /\ q.size_mb \in Nat
      BY <3>1 DEF ProfileType
    <3>3. (Small(q) => Small(p)) /\ (Medium(q) => Medium(p))
      BY <2>1, <3>2 DEF Small, Medium
    <3>4. ASSUME NEW x \in {p, q}
          PROVE  PickStrategy(x, dpe, "auto") =
                   IF Small(x) THEN "direct_copy"
                   ELSE IF Medium(x) \/ ~dpe THEN "parallel_dml" ELSE "chunked_staging"
      BY <2>1 DEF PickStrategy, AutoStrategy
    <3> QED
      BY <3>3, <3>4 DEF Weight
  <2> QED
    BY <2>1 DEF HeavierTableHeavierStrategy
<1> QED
  BY <1>1, PTL

-----------------------------------------------------------------------------
(* The refinement.  While nothing of a load is published RefreshEngine's pc *)
(* is pc, and its own steps are steps of RefreshEngine.                     *)
LEMMA SameCardinality == \A S : Engine!Cardinality(S) = Cardinality(S)
BY DEF Engine!Cardinality, Cardinality

LEMMA SameOperators ==
    /\ Engine!Current = Current /\ Engine!Loaded = Loaded
    /\ Engine!WithPending = WithPending /\ Engine!NothingPending = NothingPending
    /\ Engine!Remaining = Remaining /\ Engine!ToReenable = ToReenable
    /\ (Engine!Truncates <=> Truncates) /\ (Engine!Match <=> Match)
    /\ \A c : Engine!Validates(c) <=> Validates(c)
    /\ \A t : Engine!TruncateBlocked(t) <=> TruncateBlocked(t)
<1>1. /\ Engine!Current = Current /\ Engine!Loaded = Loaded
      /\ Engine!NothingPending = NothingPending /\ Engine!ToReenable = ToReenable
  BY DEF Engine!Current, Current, Engine!Loaded, Loaded, Engine!NothingPending, NothingPending,
         Engine!ToReenable, ToReenable
<1>2. Engine!WithPending = WithPending
  BY DEF Engine!WithPending, WithPending
<1>3. Engine!Remaining = Remaining
  BY DEF Engine!Remaining, Remaining
<1>4. Engine!Truncates <=> Truncates
  BY <1>1 DEF Engine!Truncates, Truncates
<1>5. Engine!Match <=> Match
  BY <1>1, <1>2, SameCardinality DEF Engine!Match, Match
<1>6. \A c : Engine!Validates(c) <=> Validates(c)
  BY <1>2 DEF Engine!Validates, Validates
<1>7. \A t : Engine!TruncateBlocked(t) <=> TruncateBlocked(t)
  BY DEF Engine!TruncateBlocked, TruncateBlocked
<1> QED
  BY <1>1, <1>2, <1>3, <1>4, <1>5, <1>6, <1>7

LEMMA SameTransactions ==
    /\ (Engine!Commit <=> Commit) /\ (Engine!Rollback <=> Rollback)
    /\ Engine!CommitPerTable <=> CommitPerTable
    /\ \A c : Engine!Verdict(c) <=> Verdict(c)
    /\ (Engine!RunFrame <=> RunFrame) /\ (Engine!LoadFrame <=> LoadFrame)
    /\ Engine!PrepareFrame <=> PrepareFrame
<1>1. (Engine!Commit <=> Commit) /\ (Engine!Rollback <=> Rollback)
  BY SameOperators DEF Engine!Commit, Commit, Engine!Rollback, Rollback
<1>2. Engine!CommitPerTable <=> CommitPerTable
  BY <1>1 DEF Engine!CommitPerTable, CommitPerTable
<1>3. \A c : Engine!Verdict(c) <=> Verdict(c)
  BY SameOperators DEF Engine!Verdict, Verdict
<1>4. Engine!RunFrame <=> RunFrame
  BY DEF Engine!RunFrame, RunFrame
<1>5. (Engine!LoadFrame <=> LoadFrame) /\ (Engine!PrepareFrame <=> PrepareFrame)
  BY <1>4 DEF Engine!LoadFrame, LoadFrame, Engine!PrepareFrame, PrepareFrame
<1> QED
  BY <1>1, <1>2, <1>3, <1>4, <1>5

LEMMA SameSteps ==
    ASSUME enginePc = pc, enginePc' = pc', [Next]_vars
    PROVE  [Engine!Next]_(Engine!vars)
<1> USE SameOperators, SameTransactions
<1>1. \A here, next : Advance(here, next) => Engine!Advance(here, next)
  BY DEF Advance, Engine!Advance
<1>2. \A status : Record(status) => Engine!Record(status)
  BY <1>1 DEF Record, Engine!Record
<1>3. StepBack => Engine!StepBack
  BY DEF StepBack, Engine!StepBack
<1>4. StartRun => Engine!StartRun
  BY DEF StartRun, Engine!StartRun, target, Engine!target
<1>5. Prepare => Engine!Prepare
  BY <1>1
  DEF Prepare, PrepareKeep, PrepareDrop, PrepareCreate, target,
      Engine!Prepare, Engine!PrepareKeep, Engine!PrepareDrop, Engine!PrepareCreate, Engine!target
<1>6. Phase3 => Engine!Phase3
  BY DEF Phase3, ReadConstraints, DisableConstraint, DisableDone, target, Engine!Phase3,
         Engine!ReadConstraints, Engine!DisableConstraint, Engine!DisableDone, Engine!target
<1>7. Truncate => Engine!Truncate
  BY <1>3 DEF Truncate, Engine!Truncate
<1>8. Cancel => Engine!Cancel
  BY DEF Cancel, Engine!Cancel
<1>9. /\ SkipMissing => Engine!SkipMissing
      /\ LoadDry => Engine!LoadDry
  BY <1>2 DEF SkipMissing, LoadDry, Engine!SkipMissing, Engine!LoadDry
<1>10. /\ BeginLoad => Engine!BeginLoad
       /\ ImplicitCommit => Engine!ImplicitCommit
       /\ DirectLoad => Engine!DirectLoad
       /\ ChunkedLoad => Engine!ChunkedLoad
  BY DEF BeginLoad, ImplicitCommit, DirectLoad, ChunkedLoad, Engine!BeginLoad,
         Engine!ImplicitCommit, Engine!DirectLoad, Engine!ChunkedLoad
<1>11. /\ CountsMatch => Engine!CountsMatch
       /\ CountsDiffer => Engine!CountsDiffer
       /\ CountFails => Engine!CountFails
       /\ ResetSequences => Engine!ResetSequences
       /\ ReadSequencesFails => Engine!ReadSequencesFails
       /\ LoadFails => Engine!LoadFails
  BY <1>2
  DEF CountsMatch, CountsDiffer, CountFails, ResetSequences, ReadSequencesFails, LoadFails,
      Engine!CountsMatch, Engine!CountsDiffer, Engine!CountFails, Engine!ResetSequences,
      Engine!ReadSequencesFails, Engine!LoadFails
<1>12. SourceGone => Engine!SourceGone
  BY <1>11 DEF SourceGone, Engine!SourceGone
<1>13. FinishTransaction => Engine!FinishTransaction
  BY DEF FinishTransaction, Engine!FinishTransaction
<1>14. Phase5 => Engine!Phase5
  BY DEF Phase5, Reenable, ReenableRaises, ReenableDone, target, Engine!Phase5,
         Engine!Reenable, Engine!ReenableRaises, Engine!ReenableDone, Engine!target
<1>15. (Raise => Engine!Raise) /\ (Refused => Engine!Refused)
  BY DEF Raise, Refused, Escape, target, Engine!Raise, Engine!Refused, Engine!Escape,
         Engine!target
<1>16. (Close => Engine!Close) /\ (Crash => Engine!Crash)
  BY DEF Close, Crash, Engine!Close, Engine!Crash
<1>17. \A t : DropSourceTable(t) => Engine!DropSourceTable(t)
  BY DEF DropSourceTable, target, Engine!DropSourceTable, Engine!target
<1>18. UNCHANGED vars => UNCHANGED Engine!vars
  BY DEF vars, Engine!vars
<1> QED
  BY <1>4, <1>5, <1>6, <1>7, <1>8, <1>9, <1>10, <1>11, <1>12, <1>13, <1>14, <1>15, <1>16, <1>17,
     <1>18
  DEF Next, Proceed, Phase4, Load, Fault, Finished, Engine!Next, Engine!Proceed, Engine!Phase4,
      Engine!Load, Engine!Fault

(* A load's INSERT becomes RefreshEngine's load when its count is done, or, *)
(* for a merge, when the first DROP commits it.                             *)
LEMMA InnerSteps ==
    ASSUME LoadTypeOK, LoadInvs, LoadInvs', [LoadNext]_allVars,
           InStrategy
    PROVE  [Engine!Next]_(Engine!vars)
<1> USE SameOperators, SameTransactions
<1>0. \A status : Record(status) /\ enginePc' = pc' => Engine!Record(status)
  BY DEF Record, Engine!Record, Advance, Engine!Advance
<1>1. /\ Current \in Tables /\ pending \in [Tables -> SUBSET Rows]
      /\ loaded \subseteq snap[Current] /\ published \in BOOLEAN
  BY CurrentLoaded DEF LoadTypeOK, TypeOK, LoadInvs, DataInv
<1>2. CASE DropStaging
  <2>1. /\ step = "drop" /\ pc = "dispatch" /\ pc' = pc /\ Current \in tables
        /\ LoadFrame /\ UNCHANGED <<i, results, success>>
        /\ Publish \/ UNCHANGED <<rows, pending, loaded, published>>
    BY <1>2 DEF DropStaging, LoadInvs, StepInv, LoadSteps
  <2>2. CASE published \/ ~Publish
    <3>1. UNCHANGED <<rows, pending, enginePc>>
      BY <2>1, <2>2 DEF Publish, enginePc
    <3> QED
      BY <2>1, <3>1 DEF LoadFrame, RunFrame, Engine!vars
  <2>3. CASE ~published /\ Publish
    <3>1. /\ rows' = [WithPending EXCEPT ![Current] = @ \cup loaded]
          /\ pending' = NothingPending
          /\ enginePc = "dispatch" /\ enginePc' = "validate"
      BY <2>1, <2>3 DEF Publish, enginePc
    <3>2. Engine!ChunkedLoad
      BY <1>1, <2>1, <3>1 DEF Engine!ChunkedLoad
    <3> QED
      BY <3>2 DEF Engine!Next, Engine!Proceed, Engine!Phase4, Engine!Load
  <2> QED
    BY <2>2, <2>3
<1>3. CASE CountLoaded
  <2>1. /\ step = "count" /\ pc = "dispatch" /\ pc' = "validate" /\ Current \in tables
        /\ pending' = [pending EXCEPT ![Current] = @ \cup loaded]
        /\ LoadFrame /\ UNCHANGED <<rows, i, results, success>>
        /\ enginePc' = "validate"
    BY <1>3 DEF CountLoaded, LeaveLoad, LoadInvs, StepInv, LoadSteps, enginePc
  <2>2. CASE published
    <3>1. UNCHANGED <<pending, enginePc>>
      BY <1>1, <2>1, <2>2 DEF LoadInvs, StepInv, enginePc
    <3> QED
      BY <2>1, <3>1 DEF LoadFrame, RunFrame, Engine!vars
  <2>3. CASE ~published
    <3>1. enginePc = "dispatch"
      BY <2>1, <2>3 DEF enginePc
    <3>2. Engine!DirectLoad
      BY <1>1, <2>1, <3>1 DEF Engine!DirectLoad
    <3> QED
      BY <3>2 DEF Engine!Next, Engine!Proceed, Engine!Phase4, Engine!Load
  <2> QED
    BY <2>2, <2>3
<1>4. ASSUME NEW inserted \in {{}, loaded}, Fail(inserted), inserted # {} => step = "count"
      PROVE  [Engine!Next]_(Engine!vars)
  <2>1. /\ pc = "dispatch" /\ Record("failed") /\ LoadFrame /\ UNCHANGED rows
        /\ pending' = [pending EXCEPT ![Current] = @ \cup inserted]
        /\ enginePc' = pc' /\ Engine!Record("failed")
    BY <1>0, <1>4 DEF Fail, LeaveLoad, enginePc
  <2>2. CASE published
    <3>1. UNCHANGED pending /\ enginePc = "validate"
      BY <1>1, <2>1, <2>2, <1>4 DEF LoadInvs, StepInv, enginePc
    <3>2. Engine!CountFails
      BY <2>1, <3>1 DEF Engine!CountFails
    <3> QED
      BY <3>2 DEF Engine!Next, Engine!Fault
  <2>3. CASE ~published
    <3>1. enginePc = "dispatch"
      BY <2>1, <2>3 DEF enginePc
    <3>2. inserted # {} => Current \in tables
      BY <1>4 DEF LoadInvs, StepInv, LoadSteps
    <3>3. inserted = {} => UNCHANGED pending
      BY <1>1, <2>1
    <3>4. Engine!LoadFails
      BY <1>1, <1>4, <2>1, <3>1, <3>2, <3>3 DEF Engine!LoadFails
    <3> QED
      BY <3>4 DEF Engine!Next, Engine!Fault
  <2> QED
    BY <1>1, <2>2, <2>3
<1>5. CASE step = "create" /\ FailCommitted
  <2>1. /\ pc = "dispatch" /\ Record("failed") /\ LoadFrame /\ Commit /\ ~published
        /\ enginePc = pc /\ enginePc' = pc'
    BY <1>5 DEF FailCommitted, LeaveLoad, LoadInvs, StepInv, enginePc
  <2>2. Engine!LoadFails
    BY <1>0, <2>1 DEF Engine!LoadFails
  <2> QED
    BY <2>2 DEF Engine!Next, Engine!Fault
<1>6. CASE InsertRefused
  BY <1>4, <1>6 DEF InsertRefused
<1>7. CASE LoadRaises
  <2>1. loaded # {} /\ LoadRaises => step = "count"
    BY DEF LoadRaises, LoadInvs, DataInv
  <2> QED
    BY <1>4, <1>5, <1>7, <2>1 DEF LoadRaises
<1> QED
  BY <1>2, <1>3, <1>6, <1>7 DEF InStrategy

LEMMA ImplementsStep ==
    ASSUME LoadTypeOK, LoadInvs, LoadInvs', LoadTypeOK', [LoadNext]_allVars
    PROVE  [Engine!Next]_(Engine!vars)
<1>1. published \in BOOLEAN /\ published' \in BOOLEAN
  BY DEF LoadTypeOK
<1>2. CASE InStrategy
  BY <1>2, InnerSteps
<1>3. CASE ~InStrategy /\ ~published
  <2>1. ~published'
    BY <1>3
    DEF InStrategy, LoadNext, OpenRun, Progress, OpenLink, Elsewhere, RefusedAt, LoadStep,
        EnterLoad, Pick,
        Insert, CreateStaging, CreateTask, EndTask, Merge, RunChunk, RestartSequence,
        EndSequences, CloseRun, LoadFault, CountRaises, RestartFails, SequencesRaise, RaiseAt,
        CrashRun, CleanupLinks, LeaveSource, LeaveLoad, loadVars, taskVars, allVars
  <2>2. enginePc = pc /\ enginePc' = pc'
    BY <1>3, <2>1 DEF enginePc
  <2>3. [Next]_vars
    BY <1>3, EngineSteps
  <2> QED
    BY <2>2, <2>3, SameSteps
<1>4. CASE ~InStrategy /\ published
  <2>1. pc = "dispatch" /\ step \in {"drop", "count"} /\ enginePc = "validate"
    BY <1>4 DEF LoadInvs, StepInv, LoadSteps, enginePc
  <2>2. CrashRun \/ (\E t \in Loaded : LeaveSource(t)) \/ CleanupLinks \/ UNCHANGED allVars
    BY <1>4, <2>1
    DEF InStrategy, LoadNext, OpenRun, StartRun, Progress, OpenLink, Elsewhere, RefusedAt,
        LoadStep, EnterLoad, BeginLoad, Pick, Insert, CreateStaging, CreateTask, EndTask, Merge,
        RunChunk,
        RestartSequence, EndSequences, ResetSequences, CloseRun, Close, LoadFault, CountRaises,
        RestartFails, SequencesRaise, ReadSequencesFails, RaiseAt, Finished
  <2>3. CASE CrashRun
    <3>1. enginePc' = pc'
      BY <2>3 DEF CrashRun, LeaveLoad, enginePc
    <3>2. Engine!Crash
      BY <2>1, <2>3, <3>1, SameTransactions DEF CrashRun, Crash, Engine!Crash
    <3> QED
      BY <3>2 DEF Engine!Next, Engine!Fault
  <2>4. ASSUME NEW t \in Loaded, LeaveSource(t) PROVE [Engine!Next]_(Engine!vars)
    <3>1. enginePc' = enginePc
      BY <2>4 DEF LeaveSource, DropSourceTable, loadVars, taskVars, enginePc
    <3>2. Engine!DropSourceTable(t)
      BY <2>4, <3>1 DEF LeaveSource, DropSourceTable, target, Engine!DropSourceTable,
                        Engine!target
    <3> QED
      BY <3>2, SameOperators DEF Engine!Next
  <2>5. CASE CleanupLinks \/ UNCHANGED allVars
    BY <2>5 DEF CleanupLinks, allVars, loadVars, taskVars, vars, enginePc, Engine!vars
  <2> QED
    BY <2>2, <2>3, <2>4, <2>5
<1> QED
  BY <1>1, <1>2, <1>3, <1>4

(* LoadStrategies implements RefreshEngine: strategies, staging tables,     *)
(* slaves and links included, the target schema sees one atomic load per    *)
(* table.                                                                   *)
THEOREM LoadImplementsEngine == LoadSpec => Implements
<1>1. LoadInit => Engine!Init
  <2> SUFFICES ASSUME LoadInit PROVE Engine!Init
    OBVIOUS
  <2>1. enginePc = "idle" /\ Init
    BY DEF LoadInit, Init, enginePc
  <2> QED
    BY <2>1, SameOperators DEF Init, Engine!Init
<1>2. LoadTypeOK /\ LoadInvs /\ LoadInvs' /\ LoadTypeOK' /\ [LoadNext]_allVars
        => [Engine!Next]_(Engine!vars)
  BY ImplementsStep
<1> QED
  BY <1>1, <1>2, LoadInvsHold, PTL DEF LoadSpec, Implements, Engine!SafeSpec
=============================================================================
