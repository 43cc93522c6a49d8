--------------------------- MODULE EngineCallProofs ---------------------------
(* What EngineCall's callers may rely on follows from EngineCall alone.     *)
EXTENDS EngineCall, TLAPS

(* Tables with a result come before those without one, cancelled ones last, *)
(* and the end comes when none is without.                                  *)
InOrder(c) ==
    /\ at[c] \in {"ask", "load"} => \A j \in 1..N : res[c][j] # "cancelled"
    /\ at[c] \in {"finish", "returned"} => \A j \in 1..N : res[c][j] # "none"
    /\ \A j, k \in 1..N : j <= k /\ res[c][k] # "none" => res[c][j] # "none"
    /\ \A j, k \in 1..N : j <= k /\ res[c][j] = "cancelled" => res[c][k] = "cancelled"

CallInv == \A c \in Callers : InOrder(c)

LEMMA CallTypes == CallSpec => []CallTypeOK
<1>1. CallInit => CallTypeOK
  BY DEF CallInit, CallTypeOK, NoResults
<1>2. CallTypeOK /\ [CallNext]_callVars => CallTypeOK'
  <2> SUFFICES ASSUME CallTypeOK, [CallNext]_callVars PROVE CallTypeOK'
    OBVIOUS
  <2> USE DEF CallTypeOK, Going, Goto, NoResults, Results
  <2>1. ASSUME NEW c \in Callers, Call(c) \/ Leave(c) PROVE CallTypeOK'
    BY <2>1 DEF Call, Leave
  <2>2. ASSUME NEW c \in Callers, GoOn(c) \/ Return(c) \/ Raise(c) PROVE CallTypeOK'
    BY <2>2 DEF GoOn, Return, Raise
  <2>3. ASSUME NEW c \in Callers, Stop(c) PROVE CallTypeOK'
    BY <2>3 DEF Stop
  <2>4. ASSUME NEW c \in Callers, NEW j \in 1..N, Load(c, j) PROVE CallTypeOK'
    BY <2>4 DEF Load
  <2>5. CASE UNCHANGED callVars
    BY <2>5 DEF callVars
  <2> QED
    BY <2>1, <2>2, <2>3, <2>4, <2>5 DEF CallNext, Proceed
<1> QED
  BY <1>1, <1>2, PTL DEF CallSpec

(* A load changes one result, that of the first table without one.          *)
LEMMA LoadResult ==
    ASSUME CallTypeOK, NEW c \in Callers, NEW j \in 1..N, Load(c, j)
    PROVE  /\ \A d \in Callers \ {c} : at'[d] = at[d] /\ res'[d] = res[d]
           /\ at[c] \in {"ask", "load"} /\ res'[c][j] \in Results
           /\ \A k \in 1..N : k # j => res'[c][k] = res[c][k]
           /\ \A k \in 1..N : k < j => res[c][k] # "none"
           /\ at'[c] = IF j < N THEN "ask" ELSE "finish"
<1>1. PICK r \in Results : res' = [res EXCEPT ![c][j] = r]
  BY DEF Load
<1>2. \A k \in 1..N : k < j => k \in 1..j-1
  OBVIOUS
<1> QED
  BY <1>1, <1>2 DEF Load, Turn, Goto, CallTypeOK

LEMMA CallInvariant == ASSUME N \in Nat PROVE CallSpec => []CallInv
<1>1. CallInit => CallInv
  <2> SUFFICES ASSUME CallInit, NEW c \in Callers PROVE InOrder(c)
    BY DEF CallInv
  <2>1. at[c] = "out" /\ \A j \in 1..N : res[c][j] = "none"
    BY DEF CallInit, NoResults
  <2> QED
    BY <2>1 DEF InOrder
<1>2. CallTypeOK /\ CallInv /\ [CallNext]_callVars => CallInv'
  <2> SUFFICES ASSUME CallTypeOK, CallInv, [CallNext]_callVars PROVE CallInv'
    OBVIOUS
  <2> USE DEF CallTypeOK, CallInv, InOrder
  <2>1. ASSUME NEW c \in Callers, Call(c) \/ Leave(c) PROVE CallInv'
    BY <2>1 DEF Call, Leave, Goto, NoResults
  <2>2. ASSUME NEW c \in Callers, GoOn(c) \/ Return(c) \/ Raise(c) PROVE CallInv'
    BY <2>2 DEF GoOn, Return, Raise, Going, Goto
  <2>3. ASSUME NEW c \in Callers, Stop(c) PROVE CallInv'
    BY <2>3 DEF Stop, Goto
  <2>4. ASSUME NEW c \in Callers, NEW j \in 1..N, Load(c, j) PROVE CallInv'
    <3>1. ASSUME NEW d \in Callers \ {c} PROVE InOrder(d)'
      <4>1. at'[d] = at[d] /\ res'[d] = res[d]
        BY <2>4, <3>1, LoadResult
      <4> QED
        BY <4>1
    <3>2. /\ \A k \in 1..N : k < j => res'[c][k] \notin {"none", "cancelled"}
          /\ res'[c][j] \notin {"none", "cancelled"}
          /\ \A k \in 1..N : k > j => res'[c][k] = "none"
          /\ at'[c] = IF j < N THEN "ask" ELSE "finish"
      <4>1. /\ at[c] \in {"ask", "load"} /\ res'[c][j] \in Results
            /\ \A k \in 1..N : k # j => res'[c][k] = res[c][k]
            /\ \A k \in 1..N : k < j => res[c][k] # "none"
            /\ at'[c] = IF j < N THEN "ask" ELSE "finish"
        BY <2>4, LoadResult
      <4>2. \A k \in 1..N : res[c][k] # "cancelled"
        BY <4>1
      <4>3. res[c][j] = "none"
        BY <2>4 DEF Load, Turn
      <4>4. \A k \in 1..N : k > j => res[c][k] = "none"
        BY <4>3
      <4>5. \A k \in 1..N : k < j => k # j
        OBVIOUS
      <4>6. res'[c][j] \notin {"none", "cancelled"}
        BY <4>1 DEF Results
      <4> HIDE DEF CallTypeOK, CallInv, InOrder
      <4> QED
        BY <4>1, <4>2, <4>4, <4>5, <4>6
    <3>3. InOrder(c)'
      <4>1. \A k \in 1..N : k < j \/ k = j \/ k > j
        OBVIOUS
      <4>2. at'[c] \in {"ask", "load"} => \A k \in 1..N : res'[c][k] # "cancelled"
        BY <3>2, <4>1
      <4>3. at'[c] \in {"finish", "returned"} => \A k \in 1..N : res'[c][k] # "none"
        BY <3>2
      <4>4. \A k, l \in 1..N : k <= l /\ res'[c][l] # "none" => res'[c][k] # "none"
        BY <3>2
      <4>5. \A k \in 1..N : res'[c][k] # "cancelled"
        BY <3>2, <4>1
      <4> QED
        BY <4>2, <4>3, <4>4, <4>5
    <3> QED
      BY <3>1, <3>3
  <2>5. CASE UNCHANGED callVars
    BY <2>5 DEF callVars
  <2> QED
    BY <2>1, <2>2, <2>3, <2>4, <2>5 DEF CallNext, Proceed
<1> QED
  BY <1>1, <1>2, CallTypes, PTL DEF CallSpec

(* ReportIsWhole: whoever calls the engine, and however often.              *)
THEOREM ReportsAreWhole == ASSUME N \in Nat PROVE CallSpec => []ReportIsWhole
<1>1. CallInv => ReportIsWhole
  BY DEF CallInv, InOrder, ReportIsWhole
<1> QED
  BY <1>1, CallInvariant, PTL
=============================================================================
