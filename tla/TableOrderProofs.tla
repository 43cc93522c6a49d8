--------------------------- MODULE TableOrderProofs ---------------------------
(***************************************************************************)
(* Proofs about TableOrder, for every finite schema, whatever its FKs, and *)
(* for every request.  The discovery has an invariant of its own.  That of *)
(* the sort says what in_degree counts: the entries of a table whose       *)
(* parent is not placed yet.                                               *)
(***************************************************************************)
EXTENDS TableOrder, FiniteSetTheorems, SequenceTheorems, TLAPS

Sorting == phase \in {"sort", "done", "cycle"}
Unplaced(t) == {e \in graph[t] : e[1] \notin Ordered}

(* The graph is made of the FKs between the resolved tables.                *)
GraphInv ==
    /\ \A t \in Tables : IsFiniteSet(graph[t]) /\ \A e \in graph[t] : e[1] \in tables
    /\ phase = "start" \/ Sorting => \A t \in tables : graph[t] = Parents(t)
    /\ ~Sorting => result = <<>>

InDegreeCounts == \A t \in Tables : inDegree[t] = Cardinality(Unplaced(t))
QueueIsReady == queue = {t \in tables \ Ordered : Unplaced(t) = {}}
EntriesFirst ==
    \A j \in 1..Len(result) : \A e \in graph[result[j]] : \E k \in 1..(j - 1) : result[k] = e[1]
Distinct == \A j, k \in 1..Len(result) : result[j] = result[k] => j = k
Counted == IsFiniteSet(Ordered) /\ Cardinality(Ordered) = Len(result)
NoKnotOrdered == \A S \in SUBSET Ordered : ~Knotted(S, Schemas)

SortInv ==
    Sorting => /\ InDegreeCounts /\ QueueIsReady /\ EntriesFirst
               /\ Distinct /\ Counted /\ NoKnotOrdered

EndInv ==
    /\ phase \in {"done", "cycle"} => queue = {}
    /\ phase = "done" => Len(result) = Cardinality(tables)
    /\ phase = "cycle" => Len(result) # Cardinality(tables)

IInv == TypeOK /\ GraphInv /\ SortInv /\ EndInv

-----------------------------------------------------------------------------
(* What build_dependency_graph appends for a table is a finite list, with   *)
(* an entry for every parent among the resolved tables.                     *)
LEMMA ParentsFinite ==
    ASSUME TypeOK, NEW t \in Tables
    PROVE  /\ IsFiniteSet(Parents(t))
           /\ Parents(t) \in SUBSET Entries
           /\ \A e \in Parents(t) : e[1] \in tables
           /\ \A s \in Schemas : \A p \in catalog[s][t] \cap tables :
                \E e \in Parents(t) : e[1] = p
<1> DEFINE Pairs == (tables \X Schemas) \X Occurrences(t)
           Triples == tables \X Schemas \X Occurrences(t)
           f == [x \in Pairs |-> <<x[1][1], x[1][2], x[2]>>]
<1>1. request[t] \in Nat
  BY DEF TypeOK
<1>2. IsFiniteSet(tables) /\ IsFiniteSet(Schemas)
  <2>1. IsFiniteSet(tables)
    BY CatalogAssumption, FS_Subset DEF TypeOK
  <2>2. IsFiniteSet({"own"} \cup {"other"})
    BY FS_Singleton, FS_AddElement
  <2>3. Schemas = {"own"} \cup {"other"}
    BY DEF Schemas
  <2> QED
    BY <2>1, <2>2, <2>3
<1>3. IsFiniteSet(Occurrences(t)) /\ Occurrences(t) \subseteq Nat /\ 1 \in Occurrences(t)
  <2>1. CASE t \in Seeds
    <3>1. request[t] > 0 /\ Occurrences(t) = 1..request[t]
      BY <2>1 DEF Seeds, Occurrences
    <3>2. IsFiniteSet(1..request[t])
      BY <1>1, FS_Interval
    <3> QED
      BY <1>1, <3>1, <3>2
  <2>2. CASE t \notin Seeds
    BY <2>2, FS_Singleton DEF Occurrences
  <2> QED
    BY <2>1, <2>2
<1>4. IsFiniteSet(Pairs)
  BY <1>2, <1>3, FS_Product
<1>5. f \in Surjection(Pairs, Triples)
  <2>1. f \in [Pairs -> Triples]
    OBVIOUS
  <2>2. ASSUME NEW y \in Triples PROVE \E x \in Pairs : f[x] = y
    <3>1. PICK a \in tables, b \in Schemas, c \in Occurrences(t) : y = <<a, b, c>>
      OBVIOUS
    <3>2. <<<<a, b>>, c>> \in Pairs /\ f[<<<<a, b>>, c>>] = y
      BY <3>1
    <3> QED
      BY <3>2
  <2> QED
    BY <2>1, <2>2 DEF Surjection
<1>6. IsFiniteSet(Triples)
  BY <1>4, <1>5, FS_Surjection
<1>7. IsFiniteSet(Parents(t))
  BY <1>6, FS_Subset DEF Parents
<1>8. Parents(t) \in SUBSET Entries /\ \A e \in Parents(t) : e[1] \in tables
  BY <1>3 DEF Parents, Entries, TypeOK
<1>9. ASSUME NEW s \in Schemas, NEW p \in catalog[s][t] \cap tables
      PROVE  \E e \in Parents(t) : e[1] = p
  <2>1. <<p, s, 1>> \in Parents(t)
    BY <1>3, <1>9 DEF Parents
  <2> QED
    BY <2>1
<1> QED
  BY <1>7, <1>8, <1>9

(* An entry of the graph stands for an FK to a resolved table.              *)
LEMMA EntriesAreFks ==
    ASSUME TypeOK, NEW t \in Tables, NEW e \in Parents(t)
    PROVE  e[2] \in Schemas /\ e[1] \in catalog[e[2]][t] /\ e[1] \in tables
BY DEF Parents

(* Appending one more table to the order.                                   *)
LEMMA AppendEffect ==
    ASSUME TypeOK, NEW t \in tables, result' = Append(result, t)
    PROVE  /\ result' \in Seq(tables)
           /\ Len(result) \in Nat /\ Len(result') = Len(result) + 1
           /\ \A j \in 1..Len(result) : result'[j] = result[j]
           /\ result'[Len(result) + 1] = t
           /\ Ordered' = Ordered \cup {t}
<1>1. /\ result' \in Seq(tables) /\ Len(result') = Len(result) + 1
      /\ \A j \in 1..Len(result) : result'[j] = result[j]
      /\ result'[Len(result) + 1] = t
  BY AppendProperties DEF TypeOK
<1>2. Len(result) \in Nat
  BY LenProperties DEF TypeOK
<1>3. Ordered' = Ordered \cup {t}
  BY <1>1, <1>2 DEF Ordered
<1> QED
  BY <1>1, <1>2, <1>3

-----------------------------------------------------------------------------
(* One round of Kahn's loop.                                                *)
LEMMA PopKeeps ==
    ASSUME IInv, NEW t \in Tables, Pop(t)
    PROVE  IInv'
<1> USE DEF IInv
<1>1. /\ phase = "sort" /\ t \in queue /\ result' = Append(result, t)
      /\ UNCHANGED <<catalog, request, auto, phase, tables, graph>>
  BY DEF Pop
<1>2. /\ InDegreeCounts /\ QueueIsReady /\ EntriesFirst
      /\ Distinct /\ Counted /\ NoKnotOrdered
  BY <1>1 DEF SortInv, Sorting
<1>3. t \in tables \ Ordered /\ Unplaced(t) = {}
  BY <1>1, <1>2 DEF QueueIsReady
<1>4. /\ result' \in Seq(tables)
      /\ Len(result) \in Nat /\ Len(result') = Len(result) + 1
      /\ \A j \in 1..Len(result) : result'[j] = result[j]
      /\ result'[Len(result) + 1] = t
      /\ Ordered' = Ordered \cup {t}
  BY <1>1, <1>3, AppendEffect
<1>5. ASSUME NEW u \in Tables
      PROVE  /\ IsFiniteSet(Unplaced(u)) /\ Naming(t, u) \subseteq Unplaced(u)
             /\ Unplaced(u)' = Unplaced(u) \ Naming(t, u)
  <2>1. IsFiniteSet(graph[u])
    BY DEF GraphInv
  <2> QED
    BY <1>1, <1>3, <1>4, <2>1, FS_Subset DEF Unplaced, Naming
<1>6. ASSUME NEW u \in Tables
      PROVE  /\ IsFiniteSet(Naming(t, u)) /\ Cardinality(Naming(t, u)) \in Nat
             /\ Cardinality(Unplaced(u)) \in Nat
             /\ Cardinality(Unplaced(u)') = Cardinality(Unplaced(u)) - Cardinality(Naming(t, u))
             /\ Cardinality(Unplaced(u)') \in Nat
             /\ Cardinality(Unplaced(u)) = Cardinality(Naming(t, u)) => Unplaced(u) = Naming(t, u)
  <2>1. /\ IsFiniteSet(Naming(t, u))
        /\ Cardinality(Unplaced(u)) = Cardinality(Naming(t, u)) => Unplaced(u) = Naming(t, u)
    BY <1>5, FS_Subset
  <2>2. /\ IsFiniteSet(Unplaced(u) \ Naming(t, u))
        /\ Cardinality(Unplaced(u) \ Naming(t, u)) =
             Cardinality(Unplaced(u)) - Cardinality(Unplaced(u) \cap Naming(t, u))
    BY <1>5, FS_Difference
  <2>3. Unplaced(u) \cap Naming(t, u) = Naming(t, u)
    BY <1>5
  <2> QED
    BY <1>5, <2>1, <2>2, <2>3, FS_CardinalityType
<1>7. ASSUME NEW u \in Tables PROVE inDegree'[u] = Cardinality(Unplaced(u)')
  BY <1>2, <1>6 DEF Pop, InDegreeCounts
<1>8. ASSUME NEW j \in 1..Len(result'), NEW e \in graph[result'[j]]
      PROVE  \E k \in 1..(j - 1) : result'[k] = e[1]
  <2>1. CASE j \in 1..Len(result)
    BY <1>2, <1>4, <1>8, <2>1 DEF EntriesFirst
  <2>2. CASE j = Len(result) + 1
    <3>1. e[1] \in Ordered
      BY <1>3, <1>4, <1>8, <2>2 DEF Unplaced
    <3> QED
      BY <1>4, <2>2, <3>1 DEF Ordered
  <2> QED
    BY <1>4, <2>1, <2>2
<1>9. ASSUME NEW u \in Ordered, NEW e \in graph[u] PROVE e[1] \in Ordered
  BY <1>2, <1>4, <1>9 DEF EntriesFirst, Ordered
<1>10. queue' = {u \in tables \ Ordered' : Unplaced(u)' = {}}
  <2>1. ASSUME NEW u \in tables, u \notin Ordered', Unplaced(u)' = {} PROVE u \in queue'
    <3>1. u \in Tables /\ u # t /\ u \notin Ordered
      BY <1>4, <2>1 DEF TypeOK
    <3>2. CASE Naming(t, u) = {}
      BY <1>2, <1>5, <2>1, <3>1, <3>2 DEF Pop, QueueIsReady
    <3>3. CASE Naming(t, u) # {}
      <4>1. Unplaced(u) = Naming(t, u)
        BY <1>5, <2>1, <3>1
      <4>2. u \in Freed(t)
        BY <1>2, <3>1, <3>3, <4>1 DEF Freed, Dependents, InDegreeCounts
      <4> QED
        BY <4>2 DEF Pop
    <3> QED
      BY <3>2, <3>3
  <2>2. ASSUME NEW u \in queue \ {t} PROVE u \in tables \ Ordered' /\ Unplaced(u)' = {}
    BY <1>2, <1>4, <1>5, <2>2 DEF QueueIsReady, TypeOK
  <2>3. ASSUME NEW u \in Freed(t) PROVE u \in tables \ Ordered' /\ Unplaced(u)' = {}
    <3>1. u \in tables /\ u \in Tables /\ Naming(t, u) # {}
      BY <2>3 DEF Freed, Dependents, TypeOK
    <3>2. Unplaced(u) = Naming(t, u)
      BY <1>2, <1>6, <2>3, <3>1 DEF Freed, InDegreeCounts
    <3>3. u \notin Ordered
      BY <1>3, <1>9, <3>1 DEF Naming
    <3>4. u # t
      BY <1>3, <3>1, <3>2
    <3> QED
      BY <1>4, <1>5, <3>1, <3>2, <3>3, <3>4
  <2>4. queue' = (queue \ {t}) \cup Freed(t)
    BY DEF Pop
  <2> QED
    BY <2>1, <2>2, <2>3, <2>4
<1>11. ASSUME NEW j \in 1..Len(result'), NEW k \in 1..Len(result'), result'[j] = result'[k]
       PROVE  j = k
  <2>1. ASSUME NEW n \in 1..Len(result) PROVE result'[n] # t
    BY <1>3, <1>4, <2>1 DEF Ordered
  <2> QED
    BY <1>2, <1>4, <1>11, <2>1 DEF Distinct
<1>12. IsFiniteSet(Ordered') /\ Cardinality(Ordered') = Len(result')
  BY <1>2, <1>3, <1>4, FS_AddElement DEF Counted
<1>13. ASSUME NEW S \in SUBSET Ordered', Knotted(S, Schemas)' PROVE FALSE
  <2>1. S # {} /\ \A u \in S : \E s \in Schemas : catalog[s][u] \cap S # {}
    BY <1>1, <1>13 DEF Knotted
  <2>2. S \subseteq tables
    BY <1>3, <1>4, <1>13, ElementOfSeq DEF Ordered, TypeOK
  <2>3. ASSUME NEW u \in S PROVE \E s \in Schemas : \E p \in catalog[s][u] : p \in S \ {t}
    <3>1. PICK s \in Schemas : catalog[s][u] \cap S # {}
      BY <2>1
    <3>2. PICK p \in catalog[s][u] : p \in S
      BY <3>1
    <3>3. u \in Tables /\ u \in tables
      BY <2>2 DEF TypeOK
    <3>4. PICK e \in graph[u] : e[1] = p
      BY <1>1, <2>2, <3>2, <3>3, ParentsFinite DEF GraphInv, Sorting
    <3>5. p \in Ordered
      BY <1>3, <1>4, <1>9, <1>13, <3>4 DEF Unplaced
    <3> QED
      BY <1>3, <3>2, <3>5
  <2>4. Knotted(S \ {t}, Schemas)
    BY <2>1, <2>3 DEF Knotted
  <2>5. S \ {t} \in SUBSET Ordered
    BY <1>4, <1>13
  <2> QED
    BY <1>2, <2>4, <2>5 DEF NoKnotOrdered
<1>14. SortInv'
  <2>1. InDegreeCounts' /\ EntriesFirst' /\ Distinct' /\ Counted'
    BY <1>1, <1>7, <1>8, <1>11, <1>12 DEF InDegreeCounts, EntriesFirst, Distinct, Counted
  <2>2. QueueIsReady'
    BY <1>1, <1>10 DEF QueueIsReady
  <2>3. NoKnotOrdered'
    BY <1>13 DEF NoKnotOrdered
  <2> QED
    BY <2>1, <2>2, <2>3 DEF SortInv
<1>15. TypeOK'
  <2>1. inDegree' \in [Tables -> Nat]
    BY <1>6, <1>7 DEF Pop
  <2>2. queue' \in SUBSET tables
    BY <1>10
  <2> QED
    BY <1>1, <1>4, <2>1, <2>2 DEF TypeOK
<1>16. GraphInv'
  BY <1>1 DEF GraphInv, Sorting, Parents, Occurrences, Seeds
<1>17. EndInv'
  BY <1>1 DEF EndInv
<1> QED
  BY <1>14, <1>15, <1>16, <1>17

(* The head of topological_sort.                                            *)
LEMMA StartKeeps ==
    ASSUME IInv, StartSort
    PROVE  IInv'
<1> USE DEF IInv
<1>1. /\ phase = "start" /\ phase' = "sort" /\ result = <<>>
      /\ UNCHANGED <<catalog, request, auto, tables, graph, result>>
  BY DEF StartSort, GraphInv, Sorting
<1>2. Len(result) = 0 /\ Ordered = {} /\ Ordered' = {} /\ result' = <<>>
  BY <1>1 DEF Ordered
<1>3. ASSUME NEW t \in Tables
      PROVE  /\ Unplaced(t)' = graph[t] /\ IsFiniteSet(graph[t])
             /\ inDegree'[t] = Cardinality(graph[t]) /\ Cardinality(graph[t]) \in Nat
             /\ Cardinality(graph[t]) = 0 <=> graph[t] = {}
  <2>1. IsFiniteSet(graph[t])
    BY DEF GraphInv
  <2> QED
    BY <1>1, <1>2, <2>1, FS_CardinalityType, FS_EmptySet DEF Unplaced, StartSort, Degree
<1>4. InDegreeCounts' /\ EntriesFirst' /\ Distinct'
  BY <1>1, <1>2, <1>3 DEF InDegreeCounts, EntriesFirst, Distinct
<1>5. QueueIsReady'
  BY <1>1, <1>2, <1>3 DEF QueueIsReady, StartSort, TypeOK
<1>6. Counted' /\ NoKnotOrdered'
  BY <1>1, <1>2, FS_EmptySet DEF Counted, NoKnotOrdered, Knotted
<1>7. TypeOK'
  BY <1>1, <1>3 DEF TypeOK, StartSort, Degree
<1>8. GraphInv' /\ EndInv'
  BY <1>1 DEF GraphInv, EndInv, Sorting, Parents, Occurrences, Seeds
<1> QED
  BY <1>4, <1>5, <1>6, <1>7, <1>8 DEF SortInv

(* A step of the sort that moves only its phase.                            *)
LEMMA SameData ==
    ASSUME IInv, Sorting' = Sorting, phase' = "start" => phase = "start",
           UNCHANGED <<catalog, request, auto, queue, tables, graph, inDegree, result>>
    PROVE  GraphInv' /\ SortInv'
<1>1. GraphInv'
  BY DEF IInv, GraphInv, Parents, Occurrences, Seeds
<1>2. Ordered' = Ordered
  BY DEF Ordered
<1>3. ASSUME NEW t PROVE Unplaced(t)' = Unplaced(t)
  BY <1>2 DEF Unplaced
<1>4. InDegreeCounts' = InDegreeCounts /\ QueueIsReady' = QueueIsReady
  BY <1>2, <1>3 DEF InDegreeCounts, QueueIsReady
<1>5. EntriesFirst' = EntriesFirst /\ Distinct' = Distinct
  BY DEF EntriesFirst, Distinct
<1>6. Counted' = Counted /\ NoKnotOrdered' = NoKnotOrdered
  BY <1>2 DEF Counted, NoKnotOrdered, Knotted
<1> QED
  BY <1>1, <1>4, <1>5, <1>6 DEF IInv, SortInv

(* The invariant of discovery, graph and sort.                              *)
LEMMA PlanInvariant == Spec => []IInv
<1>1. Init => IInv
  BY CatalogAssumption, FS_EmptySet
     DEF Init, IInv, TypeOK, GraphInv, SortInv, EndInv, Sorting, Seeds, Entries
<1>2. IInv /\ [Next]_vars => IInv'
  <2> SUFFICES ASSUME IInv, [Next]_vars PROVE IInv'
    OBVIOUS
  <2>1. ASSUME NEW t \in Tables, Visit(t) PROVE IInv'
    <3>1. phase = "discover" /\ phase' = "discover" /\ ~Sorting /\ ~Sorting'
      BY <2>1 DEF Visit, Sorting
    <3>2. TypeOK'
      <4>1. result' = <<>>
        BY <2>1, <3>1 DEF IInv, GraphInv, Visit
      <4>2. NewParents(t) \in SUBSET Tables
        BY DEF NewParents, IInv, TypeOK, Schemas
      <4> QED
        BY <2>1, <4>1, <4>2 DEF IInv, TypeOK, Visit
    <3>3. GraphInv' /\ SortInv' /\ EndInv'
      BY <2>1, <3>1 DEF IInv, GraphInv, SortInv, EndInv, Visit
    <3> QED
      BY <3>2, <3>3 DEF IInv
  <2>2. CASE Resolved
    BY <2>2 DEF IInv, TypeOK, GraphInv, SortInv, EndInv, Sorting, Resolved
  <2>3. CASE BuildGraph
    <3>1. phase = "build" /\ phase' = "start" /\ ~Sorting /\ ~Sorting' /\ TypeOK
      BY <2>3 DEF BuildGraph, Sorting, IInv
    <3>2. ASSUME NEW t \in Tables
          PROVE  /\ IsFiniteSet(graph'[t]) /\ graph'[t] \in SUBSET Entries
                 /\ \A e \in graph'[t] : e[1] \in tables
                 /\ t \in tables => graph'[t] = Parents(t)
      BY <2>3, <3>1, ParentsFinite, FS_EmptySet DEF BuildGraph
    <3>3. graph' \in [Tables -> SUBSET Entries]
      BY <2>3, <3>2 DEF BuildGraph
    <3>4. TypeOK'
      BY <2>3, <3>3 DEF IInv, TypeOK, BuildGraph
    <3>5. GraphInv'
      <4>1. \A t \in tables : t \in Tables
        BY <3>1 DEF TypeOK
      <4> QED
        BY <2>3, <3>1, <3>2, <4>1 DEF IInv, GraphInv, BuildGraph, Parents, Occurrences, Seeds
    <3> QED
      BY <2>3, <3>1, <3>4, <3>5 DEF IInv, SortInv, EndInv, BuildGraph
  <2>4. CASE StartSort
    BY <2>4, StartKeeps
  <2>5. ASSUME NEW t \in Tables, Pop(t) PROVE IInv'
    BY <2>5, PopKeeps
  <2>6. CASE FinishSort
    <3>1. /\ phase = "sort" /\ Sorting /\ Sorting' /\ phase' = Outcome /\ queue = {}
          /\ phase' \in {"done", "cycle"}
      BY <2>6 DEF FinishSort, Sorting, Outcome
    <3>2. UNCHANGED <<catalog, request, auto, queue, tables, graph, inDegree, result>>
      BY <2>6 DEF FinishSort
    <3>3. TypeOK' /\ EndInv'
      BY <3>1, <3>2 DEF IInv, TypeOK, EndInv, Outcome
    <3> QED
      BY <3>1, <3>2, <3>3, SameData DEF IInv
  <2>7. CASE UNCHANGED vars
    <3>1. TypeOK' /\ EndInv' /\ Sorting' = Sorting
      BY <2>7 DEF IInv, TypeOK, EndInv, Sorting, vars
    <3>2. GraphInv' /\ SortInv'
      BY <2>7, <3>1, SameData DEF vars, Sorting
    <3> QED
      BY <3>1, <3>2 DEF IInv
  <2> QED
    BY <2>1, <2>2, <2>3, <2>4, <2>5, <2>6, <2>7 DEF Next, Plan, Finished
<1> QED
  BY <1>1, <1>2, PTL DEF Spec

-----------------------------------------------------------------------------
(* TableOrder's TypeOK: in particular no in_degree becomes negative.        *)
THEOREM TypeCorrect == Spec => []TypeOK
BY PlanInvariant, PTL DEF IInv

(* ParentsFirst: what loading parents first and truncating children first   *)
(* rest on, whatever the FKs of the schema.                                 *)
THEOREM ParentsAreFirst == Spec => []ParentsFirst
<1>1. IInv => ParentsFirst
  <2> SUFFICES ASSUME IInv, NEW j \in 1..Len(result),
                      NEW p \in catalog["own"][result[j]] \cap tables
               PROVE  \E k \in 1..(j - 1) : result[k] = p
    BY DEF ParentsFirst
  <2>1. TypeOK /\ result \in Seq(tables) /\ result[j] \in tables /\ result[j] \in Tables
    BY ElementOfSeq DEF IInv, TypeOK
  <2>2. Sorting
    BY DEF IInv, GraphInv
  <2>3. PICK e \in graph[result[j]] : e[1] = p
    BY <2>1, <2>2, ParentsFinite DEF IInv, GraphInv, Schemas
  <2> QED
    BY <2>2, <2>3 DEF IInv, SortInv, EntriesFirst
<1> QED
  BY <1>1, PlanInvariant, PTL

(* OrderIsComplete: table_order is injective and covers what was resolved,  *)
(* which RefreshEngine assumes of Order.                                    *)
THEOREM OrderIsExact == Spec => []OrderIsComplete
<1>1. IInv => OrderIsComplete
  <2> SUFFICES ASSUME IInv, phase = "done"
               PROVE  Ordered = tables /\ Distinct
    BY DEF OrderIsComplete, Distinct
  <2>1. Distinct /\ Cardinality(Ordered) = Cardinality(tables)
    BY DEF IInv, SortInv, Sorting, Counted, EndInv
  <2>2. Ordered \in SUBSET tables /\ IsFiniteSet(tables)
    BY CatalogAssumption, ElementOfSeq, FS_Subset DEF IInv, TypeOK, Ordered
  <2> QED
    BY <2>1, <2>2, FS_Subset
<1> QED
  BY <1>1, PlanInvariant, PTL

(* RefusedIffCyclic: topological_sort raises only over a real knot of FKs,  *)
(* and never returns an order of one.                                       *)
THEOREM RefusalIsExact == Spec => []RefusedIffCyclic
<1>1. IInv => RefusedIffCyclic
  <2> SUFFICES ASSUME IInv PROVE RefusedIffCyclic
    OBVIOUS
  <2> DEFINE Rest == tables \ Ordered
  <2>1. Ordered \in SUBSET tables /\ IsFiniteSet(tables)
    BY CatalogAssumption, ElementOfSeq, FS_Subset DEF IInv, TypeOK, Ordered
  <2>2. ASSUME phase = "cycle" PROVE \E S \in SUBSET tables : Knotted(S, Schemas)
    <3>1. Rest # {}
      <4>1. Cardinality(Ordered) # Cardinality(tables)
        BY <2>2 DEF IInv, SortInv, Sorting, Counted, EndInv
      <4>2. Ordered # tables
        BY <4>1
      <4> QED
        BY <2>1, <4>2
    <3>2. ASSUME NEW t \in Rest PROVE \E s \in Schemas : catalog[s][t] \cap Rest # {}
      <4>. QueueIsReady /\ queue = {}
        BY <2>2 DEF IInv, SortInv, Sorting, EndInv
      <4>1. PICK e \in graph[t] : e[1] \notin Ordered
        <5>1. Unplaced(t) # {}
          BY <3>2 DEF QueueIsReady
        <5> QED
          BY <5>1 DEF Unplaced
      <4>2. t \in Tables /\ e \in Parents(t)
        BY <2>2, <3>2, <4>1 DEF IInv, TypeOK, GraphInv, Sorting
      <4>3. e[2] \in Schemas /\ e[1] \in catalog[e[2]][t] /\ e[1] \in tables
        BY <4>2, EntriesAreFks DEF IInv
      <4> QED
        BY <4>1, <4>3
    <3>3. Knotted(Rest, Schemas)
      BY <3>1, <3>2 DEF Knotted
    <3> QED
      BY <3>3
  <2>3. ASSUME phase = "done" PROVE ~\E S \in SUBSET tables : Knotted(S, Schemas)
    <3>1. Cardinality(Ordered) = Cardinality(tables) /\ NoKnotOrdered
      BY <2>3 DEF IInv, SortInv, Sorting, Counted, EndInv
    <3>2. Ordered = tables
      BY <2>1, <3>1, FS_Subset
    <3> QED
      BY <3>1, <3>2 DEF NoKnotOrdered
  <2> QED
    BY <2>2, <2>3 DEF RefusedIffCyclic
<1> QED
  BY <1>1, PlanInvariant, PTL

-----------------------------------------------------------------------------
(* What discovery keeps: whoever has left its queue has its parents among   *)
(* the visited, and nobody outside of a closed set is visited.              *)
DiscoveryInv ==
    /\ Seeds \subseteq tables
    /\ \A S \in SUBSET Tables : Seeds \subseteq S /\ Closed(S) => tables \subseteq S
    /\ auto => \A t \in (IF phase = "discover" THEN tables \ queue ELSE tables) :
                   catalog["own"][t] \subseteq tables
    /\ ~auto => tables = Seeds
    /\ ~auto /\ phase = "discover" => queue = {}

(* DiscoveryIsExact: FK ancestors are found through any cycle, and only     *)
(* they are added.                                                          *)
THEOREM DiscoveryFindsAncestors == Spec => []DiscoveryIsExact
<1>1. Init => DiscoveryInv
  BY DEF Init, DiscoveryInv, Seeds
<1>2. TypeOK /\ DiscoveryInv /\ [Next]_vars => DiscoveryInv'
  <2> SUFFICES ASSUME TypeOK, DiscoveryInv, [Next]_vars PROVE DiscoveryInv'
    OBVIOUS
  <2>1. ASSUME NEW t \in Tables, Visit(t) PROVE DiscoveryInv'
    <3>1. /\ phase = "discover" /\ phase' = "discover" /\ t \in queue /\ t \in tables
          /\ queue' = (queue \ {t}) \cup NewParents(t)
          /\ tables' = tables \cup NewParents(t)
          /\ UNCHANGED <<catalog, request, auto>>
      BY <2>1 DEF Visit, TypeOK
    <3>2. auto /\ Seeds' = Seeds
      BY <3>1 DEF DiscoveryInv, Seeds
    <3>3. ASSUME NEW S \in SUBSET Tables, Seeds \subseteq S, Closed(S)' PROVE tables' \subseteq S
      BY <3>1, <3>3 DEF DiscoveryInv, Closed, NewParents
    <3>4. ASSUME NEW u \in tables' \ queue' PROVE catalog["own"][u] \subseteq tables'
      BY <3>1, <3>2, <3>4 DEF DiscoveryInv, NewParents
    <3> QED
      BY <3>1, <3>2, <3>3, <3>4 DEF DiscoveryInv
  <2>2. CASE Resolved
    BY <2>2 DEF DiscoveryInv, Resolved, Closed, Seeds
  <2>3. ASSUME BuildGraph \/ StartSort \/ FinishSort \/ \E t \in Tables : Pop(t)
        PROVE  DiscoveryInv'
    <3>1. /\ phase # "discover" /\ phase' # "discover"
          /\ UNCHANGED <<catalog, request, auto, tables>>
      BY <2>3 DEF BuildGraph, StartSort, FinishSort, Pop, Outcome
    <3> QED
      BY <3>1 DEF DiscoveryInv, Closed, Seeds
  <2>4. CASE UNCHANGED vars
    BY <2>4 DEF DiscoveryInv, vars, Closed, Seeds
  <2> QED
    BY <2>1, <2>2, <2>3, <2>4 DEF Next, Plan, Finished
<1>3. DiscoveryInv => DiscoveryIsExact
  BY DEF DiscoveryInv, DiscoveryIsExact, Closed
<1> QED
  BY <1>1, <1>2, <1>3, TypeCorrect, PTL DEF Spec
=============================================================================
