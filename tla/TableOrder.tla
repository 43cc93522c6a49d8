------------------------------ MODULE TableOrder ------------------------------
(***************************************************************************)
(* Phase 1 of a refresh, introspect.py: which tables are loaded and in     *)
(* what order.  discover_fk_parents adds the FK ancestors of the requested *)
(* tables, build_dependency_graph reads the FKs between them and           *)
(* topological_sort puts parents first, or finds a cycle.                  *)
(*                                                                         *)
(* The deques are sets: in which order tables that are ready leave them is *)
(* nothing a property tells apart.  The lists of parents in graph are sets *)
(* of triples, so that a parent listed twice is there twice.               *)
(***************************************************************************)
EXTENDS Integers, Sequences, FiniteSets

CONSTANTS
    Tables,     \* table names
    Catalogs,   \* what the FKs of the source may be
    Requests    \* how often the config may name each table

Schemas == {"own", "other"}

ASSUME CatalogAssumption ==
    /\ IsFiniteSet(Tables)
    /\ Catalogs \subseteq [Schemas -> [Tables -> SUBSET Tables]]
    /\ Requests \subseteq [Tables -> Nat]

VARIABLES
    catalog,    \* catalog[s][t]: tables of schema s that t has an FK to
    request,    \* how often the config names t
    auto,       \* auto_include_fk_parents
    phase,      \* where planning stands
    queue,      \* the deque of discover_fk_parents, then of topological_sort
    tables,     \* visited, then the tables resolved
    graph,      \* graph[t]: its entries <<parent, schema, occurrence of t>>
    inDegree,   \* in_degree
    result      \* the order so far

vars == <<catalog, request, auto, phase, queue, tables, graph, inDegree, result>>

Seeds == {t \in Tables : request[t] > 0}
Ordered == {result[j] : j \in 1..Len(result)}
Entries == Tables \X Schemas \X Nat

TypeOK ==
    /\ catalog \in [Schemas -> [Tables -> SUBSET Tables]]
    /\ request \in [Tables -> Nat]
    /\ auto \in BOOLEAN
    /\ phase \in {"discover", "build", "start", "sort", "done", "cycle"}
    /\ tables \in SUBSET Tables /\ queue \in SUBSET tables
    /\ graph \in [Tables -> SUBSET Entries]
    /\ inDegree \in [Tables -> Nat]
    /\ result \in Seq(tables)

Init ==
    /\ catalog \in Catalogs /\ request \in Requests
    /\ auto \in BOOLEAN
    /\ phase = "discover"
    /\ queue = (IF auto THEN Seeds ELSE {}) /\ tables = Seeds
    /\ graph = [t \in Tables |-> {}]
    /\ inDegree = [t \in Tables |-> 0]
    /\ result = <<>>

-----------------------------------------------------------------------------
(* discover_fk_parents, one table of its queue.                             *)

(* MUTANT: the rows of parents in other schemas are not skipped.            *)
MutantNewParents(t) == UNION {catalog[s][t] : s \in Schemas} \ tables
MutantAllParents(t) == catalog["own"][t]  \* MUTANT: visited is not consulted
NewParents(t) == catalog["own"][t] \ tables

Visit(t) ==
    /\ phase = "discover" /\ t \in queue
    /\ queue' = (queue \ {t}) \cup NewParents(t)
    /\ tables' = tables \cup NewParents(t)
    /\ UNCHANGED <<catalog, request, auto, phase, graph, inDegree, result>>

Resolved ==
    /\ phase = "discover" /\ queue = {}
    /\ phase' = "build"
    /\ UNCHANGED <<catalog, request, auto, queue, tables, graph, inDegree, result>>

(* A table the config names twice is in the list twice, and so its query    *)
(* runs twice and appends every parent twice.  The schema of a parent is    *)
(* read and not looked at: a table of another schema with the name of a     *)
(* resolved one counts as a parent.                                         *)
Occurrences(t) == IF t \in Seeds THEN 1..request[t] ELSE {1}

Parents(t) ==
    {e \in tables \X Schemas \X Occurrences(t) : e[1] \in catalog[e[2]][t]}

BuildGraph ==
    /\ phase = "build"
    /\ graph' = [t \in Tables |-> IF t \in tables THEN Parents(t) ELSE {}]
    /\ phase' = "start"
    /\ UNCHANGED <<catalog, request, auto, queue, tables, inDegree, result>>

-----------------------------------------------------------------------------
(* topological_sort: Kahn's algorithm.                                      *)

(* MUTANT: a parent listed twice is counted once, and subtracted twice.     *)
MutantDegree(t) == Cardinality({e[1] : e \in graph[t]})
Degree(t) == Cardinality(graph[t])

StartSort ==
    /\ phase = "start"
    /\ inDegree' = [t \in Tables |-> Degree(t)]
    /\ queue' = {t \in tables : inDegree'[t] = 0}
    /\ phase' = "sort"
    /\ UNCHANGED <<catalog, request, auto, tables, graph, result>>

(* The entries of child that name t: as often t has child as a dependent.   *)
Naming(t, child) == {e \in graph[child] : e[1] = t}
Dependents(t) == {child \in tables : Naming(t, child) # {}}

MutantFreed(t) == Dependents(t)  \* MUTANT: the first parent frees a child
Freed(t) == {child \in Dependents(t) :
                inDegree[child] = Cardinality(Naming(t, child))}

Pop(t) ==
    /\ phase = "sort" /\ t \in queue
    /\ result' = Append(result, t)
    /\ inDegree' = [child \in Tables |->
                      inDegree[child] - Cardinality(Naming(t, child))]
    /\ queue' = (queue \ {t}) \cup Freed(t)
    /\ UNCHANGED <<catalog, request, auto, phase, tables, graph>>

MutantOutcome == "done"  \* MUTANT: nothing is compared at the end
(* MUTANT: compared with the tables requested, not with those resolved.     *)
MutantRequested == IF Len(result) = Cardinality(Seeds) THEN "done" ELSE "cycle"
Outcome == IF Len(result) = Cardinality(tables) THEN "done" ELSE "cycle"

FinishSort ==
    /\ phase = "sort" /\ queue = {}
    /\ phase' = Outcome
    /\ UNCHANGED <<catalog, request, auto, queue, tables, graph, inDegree, result>>

Finished == phase \in {"done", "cycle"} /\ UNCHANGED vars

Plan ==
    \/ \E t \in Tables : Visit(t) \/ Pop(t)
    \/ Resolved \/ BuildGraph \/ StartSort \/ FinishSort

Next == Plan \/ Finished

(* Planning is one thread that keeps running.                               *)
Spec == Init /\ [][Next]_vars /\ WF_vars(Plan)

-----------------------------------------------------------------------------
(* Properties.                                                              *)

(* Reference definitions: a set of tables is closed when it has the own     *)
(* parents of its members; knotted when each member has a parent in it, as  *)
(* the tables of a cycle have.                                              *)
Closed(S) == \A t \in S : catalog["own"][t] \subseteq S
Knotted(S, schemas) ==
    S # {} /\ \A t \in S : \E s \in schemas : catalog[s][t] \cap S # {}

(* What phase 4 relies on for loads, and its reverse for truncates: no      *)
(* table comes before, or without, a parent among the tables resolved.      *)
ParentsFirst ==
    \A j \in 1..Len(result) : \A p \in catalog["own"][result[j]] \cap tables :
        \E k \in 1..(j - 1) : result[k] = p

(* A plan that succeeds has each resolved table exactly once, also when the *)
(* config names one twice: nothing is truncated and not loaded, and nothing *)
(* is loaded twice.                                                         *)
OrderIsComplete ==
    phase = "done" =>
        /\ Ordered = tables
        /\ \A j, k \in 1..Len(result) : result[j] = result[k] => j = k

(* Planning is refused exactly when FKs among the resolved tables, whatever *)
(* schema they point to, leave no order.                                    *)
RefusedIffCyclic ==
    /\ phase = "cycle" => \E S \in SUBSET tables : Knotted(S, Schemas)
    /\ phase = "done" => ~\E S \in SUBSET tables : Knotted(S, Schemas)

(* The tables resolved are the requested ones and their ancestors in the    *)
(* schema: all of them, and no other.                                       *)
DiscoveryIsExact ==
    phase # "discover" =>
        IF auto
          THEN /\ Closed(tables)
               /\ \A S \in SUBSET Tables : Seeds \subseteq S /\ Closed(S) => tables \subseteq S
          ELSE tables = Seeds

(* Planning comes to an end, whatever cycles the FKs of the schema form.    *)
PlanningEnds == <>(phase \in {"done", "cycle"})

-----------------------------------------------------------------------------
(* discover_fk_parents: cross-schema FK parents are ignored.  So only the   *)
(* schema's own FKs may have planning refused.  The code does not keep it.  *)
OnlyOwnCyclesRefuse ==
    phase = "cycle" => \E S \in SUBSET tables : Knotted(S, {"own"})
=============================================================================
