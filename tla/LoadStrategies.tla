---------------------------- MODULE LoadStrategies ----------------------------
(***************************************************************************)
(* RefreshEngine with the inside of a table's load: _dispatch_strategy,    *)
(* pick_strategy, the three strategies, the DBMS_PARALLEL_EXECUTE wrapper, *)
(* the session link and the restart of the sequences.                      *)
(*                                                                         *)
(* step says where the load stands while RefreshEngine's pc waits.  What   *)
(* the strategy has inserted and not committed is loaded, apart from the   *)
(* pending rows of the tables before.  Implements, below, maps every step  *)
(* to a step of RefreshEngine or to none.                                  *)
(***************************************************************************)
EXTENDS RefreshEngine

CONSTANTS
    NChunks,    \* max_chunks_per_table
    Hash,       \* ORA_HASH of a source row's ROWID
    Key,        \* the value of a row's sequence-fed column
    Profiles,   \* what get_table_profile may find of a source table
    Overrides   \* config.strategy, run by run

KNOWN_STRATEGIES == {"direct_copy", "parallel_dml", "chunked_staging", "partition_exchange"}

ProfileType == [rows : Nat, size_mb : Nat, has_lob : BOOLEAN, has_long : BOOLEAN]

ASSUME ChunkAssumption ==
    /\ NChunks \in Nat \ {0}
    /\ Hash \in [Rows -> Nat]
    /\ Key \in [Rows -> Nat]

ASSUME PickAssumption ==
    /\ Profiles \subseteq ProfileType
    /\ Overrides \in [1..MaxRuns -> KNOWN_STRATEGIES \cup {"auto"}]

Chunks == 0..NChunks-1

VARIABLES
    step,       \* where the load of the current table stands
    at,         \* the staging table the CREATE or DROP loop is at
    staged,     \* committed rows of each staging table of this load
    staging,    \* those staging tables that exist
    chunk,      \* what became of each chunk of the parallel task, and of the
                \* DROP of its staging table
    task,       \* the parallel task exists
    loaded,     \* rows the strategy inserted into Current, uncommitted
    published,  \* a DROP of a staging table has committed them
    leaked,     \* what this run has left behind, and for which table
    links,      \* runs whose session link exists
    nextVal,    \* next value of the sequence that feeds a table
    restarted   \* tables whose sequence this run has restarted

taskVars == <<at, staged, staging, chunk, task, loaded, published>>
reportVars == <<leaked, links, nextVal, restarted>>
loadVars == <<step, taskVars, reportVars>>
allVars == <<vars, loadVars>>

NoStagedRows == [k \in Chunks |-> {}]
NoChunk == [k \in Chunks |-> "none"]
Leaks == {"staging", "undropped", "task"} \X Tables

LoadTypeOK ==
    /\ TypeOK
    /\ step \in {"off", "open", "pick", "insert", "create", "task", "run",
                 "merge", "drop", "count", "restarted"}
    /\ at \in Chunks
    /\ staged \in [Chunks -> SUBSET Rows]
    /\ staging \subseteq Chunks
    /\ chunk \in [Chunks -> {"none", "unassigned", "done", "failed", "undropped"}]
    /\ task \in BOOLEAN
    /\ loaded \subseteq Rows
    /\ published \in BOOLEAN
    /\ leaked \subseteq Leaks
    /\ links \subseteq 0..MaxRuns
    /\ nextVal \in [Tables -> Nat]
    /\ restarted \subseteq Tables

LoadInit ==
    /\ Init
    /\ step = "off" /\ at = 0
    /\ staged = NoStagedRows /\ staging = {} /\ chunk = NoChunk /\ task = FALSE
    /\ loaded = {} /\ published = FALSE
    /\ leaked = {} /\ links = {} /\ restarted = {}
    /\ nextVal = [t \in Tables |-> 1]

-----------------------------------------------------------------------------
(* pick_strategy.                                                           *)

Small(p) == p.size_mb < 250 /\ p.rows < 1000000
(* MUTANT: medium is a range of sizes.                                      *)
MutantMedium(p) == p.size_mb \in 250..2047 /\ p.rows < 50000000
Medium(p) == p.size_mb < 2048 /\ p.rows < 50000000

AutoStrategy(p, supports_dpe) ==
    IF p.has_lob THEN "parallel_dml"
    ELSE IF Small(p) THEN "direct_copy"
    ELSE IF Medium(p) \/ ~supports_dpe THEN "parallel_dml"
    ELSE "chunked_staging"

(* "refused" stands for the ValueErrors: LONG columns, and, in              *)
(* _dispatch_strategy, a known strategy that is not implemented.            *)
PickStrategy(p, supports_dpe, override) ==
    IF p.has_long \/ override = "partition_exchange" THEN "refused"
    ELSE IF override # "auto" THEN override
    ELSE AutoStrategy(p, supports_dpe)

-----------------------------------------------------------------------------
(* The run opens its session link; creating it commits nothing, and if it   *)
(* fails the run raises (RaiseAt).                                          *)
OpenRun ==
    /\ StartRun
    /\ step' = IF cfg'.session /\ ~cfg'.dry THEN "open" ELSE "off"
    /\ leaked' = {} /\ restarted' = {}
    /\ UNCHANGED <<taskVars, links, nextVal>>

OpenLink ==
    /\ pc = "prepare" /\ step = "open"
    /\ links' = links \cup {runs}
    /\ step' = "off"
    /\ UNCHANGED <<vars, taskVars, leaked, nextVal, restarted>>

EnterLoad == BeginLoad /\ step' = "pick" /\ UNCHANGED <<taskVars, reportVars>>

(* The load is over: what still exists of it stays behind.  "undropped" is  *)
(* a staging table whose DROP was tried.                                    *)
LeaveLoad ==
    /\ step' = "off" /\ at' = 0
    /\ staged' = NoStagedRows /\ staging' = {} /\ chunk' = NoChunk /\ task' = FALSE
    /\ loaded' = {} /\ published' = FALSE
    /\ leaked' = leaked
         \cup {<<IF chunk[k] = "undropped" THEN "undropped" ELSE "staging", Current>> :
               k \in staging}
         \cup (IF task THEN {<<"task", Current>>} ELSE {})
    /\ UNCHANGED <<links, nextVal, restarted>>

(* A statement of the strategy raises a DatabaseError; inserted is what it  *)
(* leaves uncommitted.  A CREATE may have committed what was pending before *)
(* it failed.                                                               *)
Fail(inserted) ==
    /\ pc = "dispatch"
    /\ pending' = [pending EXCEPT ![Current] = @ \cup inserted]
    /\ Record("failed")
    /\ LoadFrame /\ UNCHANGED rows
    /\ LeaveLoad

FailCommitted ==
    /\ pc = "dispatch"
    /\ Commit
    /\ Record("failed")
    /\ LoadFrame
    /\ LeaveLoad

Pick ==
    /\ pc = "dispatch" /\ step = "pick" /\ Current \in srcTables \cap tables
    /\ \E p \in Profiles, supports_dpe \in BOOLEAN :
         LET strategy == PickStrategy(p, supports_dpe, Overrides[runs])
         IN  IF strategy = "refused" THEN Escape /\ step' = "off"
             ELSE /\ step' = IF strategy = "chunked_staging" THEN "create" ELSE "insert"
                  /\ UNCHANGED vars
    /\ UNCHANGED <<taskVars, reportVars>>

(* The source is read over the link, AS OF the SCN of the run.              *)
Readable == Current \in srcTables /\ (cfg.session => runs \in links)

(* MUTANT: AS OF SCN is missing, and the source has gone on.                *)
MutantSourceRows == {s[Current] : s \in Snapshots}
SourceRows == {snap[Current]}

(* direct_copy, parallel_dml.                                               *)
Insert ==
    /\ pc = "dispatch" /\ step = "insert" /\ Readable /\ Current \in tables
    /\ \E source \in SourceRows : \E inserted \in SUBSET source : loaded' = inserted
    /\ step' = "count"
    /\ UNCHANGED <<vars, at, staged, staging, chunk, task, published, reportVars>>

-----------------------------------------------------------------------------
(* chunked_staging.  Its first CREATE commits what is pending.              *)

(* MUTANT: the loop runs over one staging table too many.                   *)
MutantNextStaging(here, next) ==
    IF at \in Chunks THEN at' = at + 1 /\ step' = here ELSE at' = 0 /\ step' = next
(* MUTANT: the loop does not go on to the next staging table.               *)
MutantSameStaging(here, next) == at' = at /\ step' = here

NextStaging(here, next) ==
    IF at + 1 \in Chunks THEN at' = at + 1 /\ step' = here ELSE at' = 0 /\ step' = next

CreateStaging ==
    /\ step = "create" /\ Current \in tables
    /\ ImplicitCommit
    /\ staging' = staging \cup {at}
    /\ NextStaging("create", "task")
    /\ UNCHANGED <<staged, chunk, task, loaded, published, reportVars>>

(* run_parallel_task: DROP_TASK of a namesake, CREATE_TASK and              *)
(* CREATE_CHUNKS_BY_SQL.                                                    *)
CreateTask ==
    /\ pc = "dispatch" /\ step = "task"
    /\ task' = TRUE
    /\ chunk' = [k \in Chunks |-> "unassigned"]
    /\ step' = "run"
    /\ UNCHANGED <<vars, at, staged, staging, loaded, published, reportVars>>

MutantBucket(r) == Hash[r] % (NChunks + 1)  \* MUTANT: ORA_HASH(ROWID, n_chunks)
Bucket(r) == Hash[r] % NChunks

(* The slaves of RUN_TASK take the chunks in any order, each in a session   *)
(* and a transaction of its own.                                            *)
RunChunk(k) ==
    /\ pc = "dispatch" /\ step = "run" /\ chunk[k] = "unassigned"
    /\ \/ /\ Readable
          /\ \E source \in SourceRows :
               staged' = [staged EXCEPT ![k] = {r \in source : Bucket(r) = k}]
          /\ chunk' = [chunk EXCEPT ![k] = "done"]
       \/ chunk' = [chunk EXCEPT ![k] = "failed"] /\ UNCHANGED staged
    /\ UNCHANGED <<vars, step, at, staging, task, loaded, published, reportVars>>

(* MUTANT: there is no DROP_TASK.                                           *)
MutantEndTask ==
    /\ pc = "dispatch" /\ step = "run"
    /\ \A k \in Chunks : chunk[k] # "unassigned"
    /\ step' = "merge"
    /\ UNCHANGED <<vars, at, staged, staging, chunk, task, loaded, published, reportVars>>

(* RUN_TASK comes back, with chunks that failed or without, and DROP_TASK.  *)
EndTask ==
    /\ pc = "dispatch" /\ step = "run"
    /\ \A k \in Chunks : chunk[k] # "unassigned"
    /\ task' = FALSE /\ step' = "merge"
    /\ UNCHANGED <<vars, at, staged, staging, chunk, loaded, published, reportVars>>

AllStaged == UNION {staged[k] : k \in Chunks}

(* One INSERT of the UNION ALL of the staging tables.                       *)
Merge ==
    /\ pc = "dispatch" /\ step = "merge" /\ Current \in tables
    /\ \E inserted \in SUBSET AllStaged : loaded' = inserted
    /\ step' = "drop"
    /\ UNCHANGED <<vars, at, staged, staging, chunk, task, published, reportVars>>

(* A commit that publishes the merge, with whatever else is pending.        *)
Publish ==
    /\ published' = TRUE /\ loaded' = {}
    /\ IF published THEN UNCHANGED <<rows, pending>>
       ELSE /\ rows' = [WithPending EXCEPT ![Current] = @ \cup loaded]
            /\ pending' = NothingPending

(* DROP of a staging table: dropped, or failed (and swallowed) after it has *)
(* committed, or before.                                                    *)
DropStaging ==
    /\ pc = "dispatch" /\ step = "drop"
    /\ \/ Publish /\ staging' = staging \ {at} /\ UNCHANGED chunk
       \/ /\ Publish \/ UNCHANGED <<rows, pending, loaded, published>>
          /\ chunk' = [chunk EXCEPT ![at] = "undropped"] /\ UNCHANGED staging
    /\ NextStaging("drop", "count")
    /\ LoadFrame
    /\ UNCHANGED <<pc, i, results, success, staged, task, reportVars>>

(* get_table_row_count at the end of every strategy.                        *)
CountLoaded ==
    /\ pc = "dispatch" /\ step = "count"
    /\ pending' = [pending EXCEPT ![Current] = @ \cup loaded]
    /\ pc' = "validate"
    /\ LoadFrame /\ UNCHANGED <<rows, i, results, success>>
    /\ LeaveLoad

(* The source table or the link is gone.                                    *)
InsertRefused == step = "insert" /\ ~Readable /\ Fail({})

(* A statement of the strategy fails; of those before the INSERT or the     *)
(* merge nothing is pending.  RUN_TASK fails also while chunks are going on.*)
LoadRaises ==
    /\ step \in {"pick", "insert", "create", "task", "run", "merge", "count"}
    /\ Fail(loaded) \/ (step = "create" /\ FailCommitted)

-----------------------------------------------------------------------------
(* _reset_identity_sequences, over the rows the target session sees.        *)

(* MUTANT: MAX is read by another session, which sees committed rows.       *)
MutantSeen(t) == rows[t]
Seen(t) == WithPending[t]

NextAfter(keys) ==
    IF keys = {} THEN 1 ELSE (CHOOSE m \in keys : \A k \in keys : k <= m) + 1

RestartSequence ==
    /\ pc = "sequences" /\ step = "off" /\ Current \in SeqTables
    /\ ImplicitCommit
    /\ nextVal' = [nextVal EXCEPT ![Current] = NextAfter({Key[r] : r \in Seen(Current)})]
    /\ restarted' = restarted \cup {Current}
    /\ step' = "restarted"
    /\ UNCHANGED <<taskVars, leaked, links>>

(* An ORA error on the way is swallowed, before the implicit commit or      *)
(* after it.                                                                *)
RestartFails ==
    /\ pc = "sequences" /\ step = "off" /\ Current \in SeqTables
    /\ ImplicitCommit \/ UNCHANGED vars
    /\ step' = "restarted"
    /\ UNCHANGED <<taskVars, reportVars>>

EndSequences ==
    /\ ResetSequences /\ (Current \in SeqTables => step = "restarted")
    /\ step' = "off" /\ UNCHANGED <<taskVars, reportVars>>

SequencesRaise ==
    /\ ReadSequencesFails
    /\ step' = "off" /\ UNCHANGED <<taskVars, reportVars>>

-----------------------------------------------------------------------------
(* What the load leaves as it is.                                           *)
Elsewhere ==
    /\ step = "off"
    /\ \/ Prepare \/ Phase3 \/ Phase5
       \/ Truncate \/ Cancel \/ SkipMissing \/ LoadDry
       \/ CountsMatch \/ CountsDiffer \/ SourceGone \/ FinishTransaction
    /\ UNCHANGED loadVars

CountRaises == step = "off" /\ CountFails /\ UNCHANGED loadVars

RefusedAt ==
    /\ Refused /\ step \in {"off", "pick"}
    /\ step' = "off" /\ UNCHANGED <<taskVars, reportVars>>

(* What no handler of the load catches comes before the strategy begins.    *)
RaiseAt ==
    /\ Raise /\ step \in {"off", "open", "pick"}
    /\ step' = "off" /\ UNCHANGED <<taskVars, reportVars>>

(* The link is dropped, or its DROP fails and is logged.                    *)
CloseRun ==
    /\ Close
    /\ \/ UNCHANGED links
       \/ runs \in links /\ Commit /\ links' = links \ {runs}
    /\ UNCHANGED <<step, taskVars, leaked, nextVal, restarted>>

(* The task's slaves may go on; nobody reads what they stage.               *)
CrashRun == Crash /\ LeaveLoad

LeaveSource(t) == DropSourceTable(t) /\ UNCHANGED loadVars

(* cleanup --leaked-dblinks drops all the links it can, whoever uses them.  *)
CleanupLinks ==
    /\ links # {} /\ \E kept \in SUBSET links : links' = kept
    /\ UNCHANGED <<vars, step, taskVars, leaked, nextVal, restarted>>

LoadStep ==
    \/ EnterLoad \/ Pick \/ Insert
    \/ CreateStaging \/ CreateTask \/ EndTask \/ Merge \/ DropStaging
    \/ \E k \in Chunks : RunChunk(k)
    \/ CountLoaded \/ InsertRefused
    \/ RestartSequence \/ EndSequences

LoadFault == LoadRaises \/ CountRaises \/ RestartFails \/ SequencesRaise \/ RaiseAt

Progress == OpenLink \/ Elsewhere \/ RefusedAt \/ LoadStep \/ CloseRun

LoadNext ==
    \/ OpenRun
    \/ Progress
    \/ LoadFault
    \/ CrashRun
    \/ CleanupLinks
    \/ \E t \in Loaded : LeaveSource(t)
    \/ Finished /\ UNCHANGED loadVars

(* As in RefreshEngine, no fault is relied on.                              *)
LoadSpec == LoadInit /\ [][LoadNext]_allVars /\ WF_allVars(Progress)

-----------------------------------------------------------------------------
(* Properties.                                                              *)

(* RefreshEngine's pc: a load whose merge a DROP has committed is over, but *)
(* for its last DROPs and its count.                                        *)
enginePc == IF published THEN "validate" ELSE pc

Engine == INSTANCE RefreshEngine WITH pc <- enginePc

(* Whatever a strategy, its slaves, its staging tables and its link do, the *)
(* engine and the target schema see the one load of RefreshEngine, so all   *)
(* its safety properties hold of this program too.                          *)
Implements == Engine!SafeSpec

(* A parallel task reads every row of the snapshot into one staging table,  *)
(* and, when none of its chunks failed, leaves none out: the UNION ALL has  *)
(* neither duplicates nor gaps.                                             *)
ChunksPartitionSnapshot ==
    /\ \A j, k \in Chunks : j # k => staged[j] \cap staged[k] = {}
    /\ step = "merge" /\ (\A k \in Chunks : chunk[k] = "done") => AllStaged = snap[Current]

(* A table reported ok leaves no task behind and no staging table but those *)
(* whose DROP failed.                                                       *)
OkLeavesNothing ==
    \A t \in Tables : results[t] = "ok" => {<<"staging", t>>, <<"task", t>>} \cap leaked = {}

(* A sequence that was restarted is beyond every key of its table, once the *)
(* keys are committed and after every failure: the next NEXTVAL is no       *)
(* duplicate.                                                               *)
RestartedIsAhead ==
    \A t \in restarted : \A r \in rows[t] \cup pending[t] : Key[r] < nextVal[t]

(* Where a strategy is picked, a table that has more rows or more bytes     *)
(* does not get a lighter one: the thresholds of rows and of bytes do not   *)
(* cross.                                                                   *)
Weight == [refused |-> 0, direct_copy |-> 1, parallel_dml |-> 2, chunked_staging |-> 3]
HeavierTableHeavierStrategy ==
    step = "pick" => \A p, q \in Profiles, supports_dpe \in BOOLEAN :
        /\ p.rows <= q.rows /\ p.size_mb <= q.size_mb
        /\ ~p.has_lob /\ ~q.has_lob /\ ~p.has_long /\ ~q.has_long
        => Weight[PickStrategy(p, supports_dpe, "auto")]
             <= Weight[PickStrategy(q, supports_dpe, "auto")]

(* A run and all its loads come to an end.                                  *)
EveryLoadEnds ==
    /\ pc # "idle" ~> pc = "idle"
    /\ pc = "dispatch" ~> pc # "dispatch"
=============================================================================
