--------------------------- MODULE SafeDeleteLoop ---------------------------
(***************************************************************************)
(* ContainerSafeDeleteWhileLoop as VfCmdEventHandler and                   *)
(* VfEntityComponentEventItem use it: one loop over the items per command  *)
(* event, in which the item that is called may add and remove items,       *)
(* itself included.  Everything happens in one thread, so calls to the     *)
(* container come either from outside a loop or from the item called.      *)
(*                                                                         *)
(* The order of a std::unordered_set is arbitrary: "ahead" are the items   *)
(* behind the iterator in the direction it moves, and the next item is any *)
(* of them.  An insertion that rehashes the table may reorder everything:  *)
(* that is what libstdc++ does, whose iterators point at nodes.  The C++   *)
(* standard promises less, it invalidates the iterators of the container.  *)
(***************************************************************************)
EXTENDS Naturals, FiniteSets

CONSTANTS
  Items,     \* command event items
  NoItem,    \* the default constructed item at the end of the loop
  RehashAt   \* sizes at which the next insertion rehashes the table

ASSUME ItemAssumption == NoItem \notin Items
ASSUME RehashAssumption == RehashAt \subseteq Nat

VARIABLES
  items,       \* m_items
  ahead,       \* items the iterator has not reached yet
  current,     \* the item m_iterActualItem points at, NoItem at the end
  inIteration, \* m_inIteration
  toDelete,    \* m_itemsToDeleteOnIterEnd
  called,      \* how often each item was called in this loop
  due,         \* items the loop started with and nobody removed since
  wanted,      \* items whose last call was addItem
  relapsed,    \* items added again while their deletion was pending
  rehashed     \* an insertion has reordered the table during this loop

vars == <<items, ahead, current, inIteration, toDelete, called, due, wanted, relapsed, rehashed>>

Init ==
  /\ items = {} /\ ahead = {} /\ toDelete = {}
  /\ current = NoItem
  /\ inIteration = FALSE
  /\ called = [i \in Items |-> 0]
  /\ due = {} /\ wanted = {} /\ relapsed = {}
  /\ rehashed = FALSE

-----------------------------------------------------------------------------
\* Where the new item ends up relative to the iterator.
place(i) ==
  \/ /\ Cardinality(items) \in RehashAt
     /\ ahead' \in SUBSET ((items \cup {i}) \ {current})
     /\ rehashed' = TRUE
  \/ /\ Cardinality(items) \notin RehashAt
     /\ ahead' \in {ahead, ahead \cup {i}}
     /\ UNCHANGED rehashed

addItem(i) ==
  /\ items' = items \cup {i}
  /\ IF ~inIteration \/ i \in items THEN UNCHANGED <<ahead, rehashed>> ELSE place(i)
  /\ wanted' = wanted \cup {i}
  /\ relapsed' = IF i \in toDelete THEN relapsed \cup {i} ELSE relapsed \ {i}
  /\ UNCHANGED <<current, inIteration, toDelete, called, due>>

\* In a loop the item is only marked.
removeItem(i) ==
  /\ \/ ~inIteration /\ items' = items \ {i} /\ UNCHANGED toDelete
     \/ inIteration /\ toDelete' = toDelete \cup {i} /\ UNCHANGED items
  /\ wanted' = wanted \ {i}
  /\ due' = due \ {i}
  /\ relapsed' = IF inIteration THEN relapsed ELSE relapsed \ {i}
  /\ UNCHANGED <<ahead, current, inIteration, called, rehashed>>

\* A command event arrives.  An empty container leaves m_inIteration alone.
getFirst ==
  /\ ~inIteration
  /\ \/ /\ items = {}
        /\ UNCHANGED vars
     \/ \E i \in items :
          /\ current' = i
          /\ ahead' = items \ {i}
          /\ inIteration' = TRUE
          /\ called' = [j \in Items |-> IF j = i THEN 1 ELSE 0]
          /\ due' = items
          /\ rehashed' = FALSE
          /\ UNCHANGED <<items, toDelete, wanted, relapsed>>

\* Fault: marked items are called like all others.
nextItemMarkedToo(i) ==
  /\ i \in ahead
  /\ current' = i
  /\ ahead' = ahead \ {i}
  /\ called' = [called EXCEPT ![i] = @ + 1]
  /\ UNCHANGED <<items, inIteration, toDelete, due, wanted, relapsed, rehashed>>

\* Fault: ignoreDeleted steps on before it looks for marks.
nextItemStepsTwice(i) ==
  /\ i \in ahead \ toDelete
  /\ current' = i
  /\ \E j \in ahead \ {i} : ahead' = ahead \ ({i, j} \cup toDelete)
  /\ called' = [called EXCEPT ![i] = @ + 1]
  /\ UNCHANGED <<items, inIteration, toDelete, due, wanted, relapsed, rehashed>>

\* The iterator moves on past the marked items (ignoreDeleted).
nextItem(i) ==
  /\ i \in ahead \ toDelete
  /\ current' = i
  /\ ahead' = ahead \ ({i} \cup toDelete)
  /\ called' = [called EXCEPT ![i] = @ + 1]
  /\ UNCHANGED <<items, inIteration, toDelete, due, wanted, relapsed, rehashed>>

\* Fault: the marks stay and hit the next loop.
endLoopKeepsMarks ==
  /\ ahead \subseteq toDelete
  /\ current' = NoItem
  /\ ahead' = {}
  /\ inIteration' = FALSE
  /\ items' = items \ toDelete
  /\ UNCHANGED <<toDelete, called, due, wanted, relapsed, rehashed>>

\* Fault: the marks are dropped and the items stay.
endLoopForgetsDeletions ==
  /\ ahead \subseteq toDelete
  /\ current' = NoItem
  /\ ahead' = {}
  /\ inIteration' = FALSE
  /\ toDelete' = {}
  /\ UNCHANGED <<items, called, due, wanted, relapsed, rehashed>>

\* At the end the marked items are erased (doDeletions).
endLoop ==
  /\ ahead \subseteq toDelete
  /\ current' = NoItem
  /\ ahead' = {}
  /\ inIteration' = FALSE
  /\ items' = items \ toDelete
  /\ toDelete' = {}
  /\ UNCHANGED <<called, due, wanted, relapsed, rehashed>>

getNext == inIteration /\ (endLoop \/ \E i \in Items : nextItem(i))

Next ==
  \/ \E i \in Items : addItem(i)
  \/ \E i \in Items : removeItem(i)
  \/ getFirst
  \/ getNext

Spec == Init /\ [][Next]_vars

-----------------------------------------------------------------------------
(* Properties                                                              *)

\* Types; the iterator never leaves the container, and marks only exist
\* while a loop runs.
TypeOK ==
  /\ items \subseteq Items /\ toDelete \subseteq Items
  /\ wanted \subseteq Items /\ relapsed \subseteq Items /\ due \subseteq Items
  /\ inIteration \in BOOLEAN /\ rehashed \in BOOLEAN
  /\ called \in [Items -> Nat]
  /\ ahead \subseteq items
  /\ current \in items \cup {NoItem}
  /\ inIteration <=> current # NoItem
  /\ ~inIteration => toDelete = {} /\ ahead = {}

\* No item is called twice for one event, whatever the items add and remove
\* while they are called, as long as no insertion rehashes the table.
CalledOnce == ~rehashed => \A i \in Items : called[i] <= 1

\* Nobody misses an event: when a loop without rehash is over, every item it
\* started with and nobody removed has been called.
NobodySkipped == ~inIteration /\ ~rehashed => \A i \in due : called[i] = 1

\* Every item that stays registered is called exactly once per event.
CalledExactlyOnce == CalledOnce /\ NobodySkipped

\* A removed item is not called again, not even after a rehash: its owner may
\* be gone.
RemovedNotCalled ==
  [][\A i \in Items : called'[i] > called[i] => i \in wanted /\ i \notin toDelete]_vars

\* When no loop runs the container holds what its users asked for, except the
\* items that were added again while their deletion was pending: those are
\* erased with the others at the end of the loop and never hear of an event.
HoldsWhatIsWanted == ~inIteration => items = wanted \ relapsed

\* The inductive invariant behind the properties.
LoopInv ==
  /\ TypeOK
  /\ items \ toDelete = wanted \ relapsed
  /\ inIteration => current \notin ahead
  /\ ~rehashed /\ inIteration =>
       /\ called[current] = 1
       /\ \A i \in Items : i \in ahead \/ i \notin items => called[i] = 0
       /\ \A i \in due : i \notin ahead => called[i] = 1
  /\ inIteration => due \cap toDelete = {}
  /\ CalledOnce
  /\ NobodySkipped
=============================================================================
