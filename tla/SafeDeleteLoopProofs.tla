------------------------ MODULE SafeDeleteLoopProofs ------------------------
(***************************************************************************)
(* Proofs that the container of the client tasks delivers an event once to *)
(* everybody who stays registered, for every set of items and every        *)
(* growth policy of the hash table.  LoopInv is the inductive invariant:   *)
(* what the iterator has passed has been called, what it has not reached   *)
(* and what was added behind it has not, and the stored items that are not *)
(* marked are the wanted ones.                                             *)
(***************************************************************************)
EXTENDS SafeDeleteLoop, TLAPS

\* The empty container satisfies the inductive invariant.
LEMMA LoopInit == Init => LoopInv
<1> SUFFICES ASSUME Init PROVE LoopInv
  OBVIOUS
<1>1. TypeOK
  BY ItemAssumption DEF Init, TypeOK
<1>2. CalledOnce /\ NobodySkipped
  BY DEF Init, CalledOnce, NobodySkipped
<1>3. QED BY <1>1, <1>2 DEF Init, LoopInv

\* An item that is added during a loop lands on either side of the iterator
\* without having been called.
LEMMA LoopAdd == ASSUME LoopInv, NEW i \in Items, addItem(i) PROVE LoopInv'
<1>1. TypeOK'
  BY ItemAssumption DEF LoopInv, TypeOK, addItem, place
<1>2. (items \ toDelete = wanted \ relapsed)'
  BY DEF LoopInv, TypeOK, addItem
<1>3. (inIteration => current \notin ahead)'
  BY DEF LoopInv, TypeOK, addItem, place
<1>4. ASSUME ~rehashed', inIteration'
      PROVE  /\ called[current]' = 1
             /\ \A j \in Items : j \in ahead' \/ j \notin items' => called'[j] = 0
             /\ \A j \in due' : j \notin ahead' => called'[j] = 1
  <2>1. ~rehashed /\ inIteration /\ called' = called /\ current' = current /\ due' = due
    BY <1>4 DEF LoopInv, TypeOK, addItem, place
  <2>2. ahead' = ahead \/ (i \notin items /\ ahead' = ahead \cup {i})
    BY <1>4 DEF addItem, place
  <2>3. QED BY <2>1, <2>2 DEF LoopInv, TypeOK, addItem
<1>5. (inIteration => due \cap toDelete = {})' /\ CalledOnce' /\ NobodySkipped'
  BY DEF LoopInv, TypeOK, addItem, place, CalledOnce, NobodySkipped
<1>6. QED BY <1>1, <1>2, <1>3, <1>4, <1>5 DEF LoopInv

\* Removing erases outside a loop and marks inside one.
LEMMA LoopRemove == ASSUME LoopInv, NEW i \in Items, removeItem(i) PROVE LoopInv'
<1>1. TypeOK'
  BY ItemAssumption DEF LoopInv, TypeOK, removeItem
<1>2. (items \ toDelete = wanted \ relapsed)'
  BY DEF LoopInv, TypeOK, removeItem
<1>3. inIteration' => /\ inIteration /\ items' = items
                      /\ toDelete' = toDelete \cup {i}
  BY DEF removeItem
<1>4. CalledOnce' /\ NobodySkipped'
  BY DEF LoopInv, removeItem, CalledOnce, NobodySkipped
<1>5. QED
  BY <1>1, <1>2, <1>3, <1>4 DEF LoopInv, TypeOK, removeItem

\* A loop starts with nobody called but the first item.
LEMMA LoopFirst == ASSUME LoopInv, getFirst PROVE LoopInv'
<1>1. CASE UNCHANGED vars
  BY <1>1 DEF vars, LoopInv, TypeOK, CalledOnce, NobodySkipped
<1>2. CASE \E i \in items :
             /\ current' = i
             /\ ahead' = items \ {i}
             /\ inIteration' = TRUE
             /\ called' = [j \in Items |-> IF j = i THEN 1 ELSE 0]
             /\ due' = items
             /\ rehashed' = FALSE
             /\ UNCHANGED <<items, toDelete, wanted, relapsed>>
  <2>1. PICK i \in items :
             /\ current' = i
             /\ ahead' = items \ {i}
             /\ inIteration' = TRUE
             /\ called' = [j \in Items |-> IF j = i THEN 1 ELSE 0]
             /\ due' = items
             /\ rehashed' = FALSE
             /\ UNCHANGED <<items, toDelete, wanted, relapsed>>
    BY <1>2
  <2>2. toDelete = {} /\ items \subseteq Items /\ i \in Items
    BY DEF getFirst, LoopInv, TypeOK
  <2>3. TypeOK'
    BY <2>1, <2>2, ItemAssumption DEF LoopInv, TypeOK
  <2>4. CalledOnce'
    BY <2>1, <2>2 DEF CalledOnce
  <2>5. QED
    BY <2>1, <2>2, <2>3, <2>4 DEF LoopInv, NobodySkipped
<1>3. QED BY <1>1, <1>2 DEF getFirst

\* The iterator moves to an item that has not been called, past marked items
\* only.
LEMMA LoopNextItem ==
  ASSUME LoopInv, inIteration, NEW i \in Items, nextItem(i) PROVE LoopInv'
<1>1. TypeOK'
  BY ItemAssumption DEF LoopInv, TypeOK, nextItem
<1>2. ASSUME ~rehashed
      PROVE  \A j \in Items : called'[j] = IF j = i THEN 1 ELSE called[j]
  BY <1>2 DEF LoopInv, TypeOK, nextItem
<1>3. CalledOnce'
  BY <1>2 DEF LoopInv, nextItem, CalledOnce
<1>4. ASSUME ~rehashed'
      PROVE  /\ called[current]' = 1
             /\ \A j \in Items : j \in ahead' \/ j \notin items' => called'[j] = 0
             /\ \A j \in due' : j \notin ahead' => called'[j] = 1
  BY <1>2, <1>4 DEF LoopInv, TypeOK, nextItem
<1>5. QED
  BY <1>1, <1>3, <1>4 DEF LoopInv, TypeOK, nextItem, NobodySkipped

\* The loop ends when only marked items are left.
LEMMA LoopEnd == ASSUME LoopInv, inIteration, endLoop PROVE LoopInv'
<1>1. TypeOK'
  BY ItemAssumption DEF LoopInv, TypeOK, endLoop
<1>2. (items \ toDelete = wanted \ relapsed)'
  BY DEF LoopInv, endLoop
<1>3. NobodySkipped'
  BY DEF LoopInv, TypeOK, endLoop, NobodySkipped
<1>4. CalledOnce'
  BY DEF LoopInv, endLoop, CalledOnce
<1>5. QED BY <1>1, <1>2, <1>3, <1>4 DEF LoopInv, endLoop

\* LoopInv holds throughout.
THEOREM LoopInvariant == Spec => []LoopInv
<1>1. LoopInv /\ [Next]_vars => LoopInv'
  <2>1. CASE UNCHANGED vars
    BY <2>1 DEF vars, LoopInv, TypeOK, CalledOnce, NobodySkipped
  <2>2. QED
    BY <2>1, LoopAdd, LoopRemove, LoopFirst, LoopNextItem, LoopEnd DEF Next, getNext
<1>2. QED BY LoopInit, <1>1, PTL DEF Spec

\* The iterator always points into the container and no deletion is pending
\* outside a loop.
THEOREM LoopTypes == Spec => []TypeOK
<1>1. LoopInv => TypeOK BY DEF LoopInv
<1>2. QED BY LoopInvariant, <1>1, PTL

\* Every registered item is called exactly once per event, if the table is not
\* rehashed meanwhile.
THEOREM DeliveredOnce == Spec => []CalledExactlyOnce
<1>1. LoopInv => CalledExactlyOnce BY DEF LoopInv, CalledExactlyOnce
<1>2. QED BY LoopInvariant, <1>1, PTL

\* Between events the container holds what its users asked for, but for items
\* added again while their deletion was pending.
THEOREM ContentIsWanted == Spec => []HoldsWhatIsWanted
<1>1. LoopInv => HoldsWhatIsWanted BY DEF LoopInv, TypeOK, HoldsWhatIsWanted
<1>2. QED BY LoopInvariant, <1>1, PTL

\* No item is called after it was removed, rehash or not.
THEOREM RemovedStaysSilent == Spec => RemovedNotCalled
<1> DEFINE Silent == \A i \in Items : called'[i] > called[i] => i \in wanted /\ i \notin toDelete
<1>1. LoopInv /\ [Next]_vars => [Silent]_vars
  <2> SUFFICES ASSUME LoopInv, Next, NEW i \in Items, called'[i] > called[i]
               PROVE  i \in wanted /\ i \notin toDelete
    OBVIOUS
  <2>1. CASE \E j \in Items : addItem(j) \/ removeItem(j)
    BY <2>1 DEF addItem, removeItem, LoopInv, TypeOK
  <2>2. CASE getFirst
    BY <2>2 DEF getFirst, vars, LoopInv, TypeOK
  <2>3. CASE endLoop
    BY <2>3 DEF endLoop, LoopInv, TypeOK
  <2>4. CASE \E j \in Items : nextItem(j)
    BY <2>4 DEF nextItem, LoopInv, TypeOK
  <2>5. QED BY <2>1, <2>2, <2>3, <2>4 DEF Next, getNext
<1>2. QED BY LoopInvariant, <1>1, PTL DEF Spec, RemovedNotCalled
=============================================================================
