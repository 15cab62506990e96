---------------------------- MODULE VeinStorage -----------------------------
(***************************************************************************)
(* The storage of a vein server: StorageEventSystem (the event handlers),  *)
(* DatabaseHash (the two maps of component objects) and StorageComponent   *)
(* (a value with change signals).                                          *)
(*                                                                         *)
(* Components are heap objects behind shared pointers.  A consumer (a      *)
(* recorder, a module) may hold an object long before or long after vein   *)
(* knows it, so objects have an identity here: object o has value[o], the  *)
(* maps hold object numbers, Null is the null pointer.  A consumer mirrors *)
(* the object it holds through sigValueChange.                             *)
(***************************************************************************)
EXTENDS Naturals

CONSTANTS
  Entities,     \* entity ids
  Components,   \* component names
  RpcNames,     \* names of remote procedures
  Values,       \* valid QVariants
  Invalid,      \* the invalid QVariant()
  Absent,       \* abstract value of a key that holds no object
  Consumers,    \* holders of component pointers
  Watches,      \* the key each consumer asks the database for
  MaxObjects    \* bound: StorageComponent objects created in one run

Keys == Entities \X Components
Val == Values \cup {Invalid}

ASSUME WatchesAssumption == Watches \in [Consumers -> Keys]
ASSUME MaxObjectsAssumption == MaxObjects \in Nat
ASSUME AbsentAssumption == Absent \notin Val
ASSUME InvalidAssumption == Invalid \notin Values

VARIABLES
  entities,       \* keys of m_entityComponentData
  db,             \* m_entityComponentData: object per key, Null if none
  futureEntities, \* keys of m_futureEntityComponentData
  future,         \* m_futureEntityComponentData: object per key, Null if none
  value,          \* StorageComponent::m_value of every object
  created,        \* objects created so far, numbered 1..created
  rpcs,           \* m_entityRpcNames
  held,           \* the object each consumer holds, Null if none
  seen,           \* the last value each consumer learnt from its object
  reply           \* outcome of the last command event

hashVars == <<entities, db, futureEntities, future>>
vars == <<entities, db, futureEntities, future, value, created, rpcs, held, seen, reply>>

Null == 0
Objects == 1..MaxObjects
Origins == {"EO_LOCAL", "EO_FOREIGN"}

Done == [kind |-> "done", val |-> Invalid]
Rejected == [kind |-> "error", val |-> Invalid]
Ignored == [kind |-> "dropped", val |-> Invalid]
Answer(v) == [kind |-> "answer", val |-> v]
Replies == [kind : {"done", "error", "dropped", "answer"}, val : Val]

\* Types; maps and consumers know only objects that have been created.
TypeOK ==
  /\ entities \subseteq Entities
  /\ futureEntities \subseteq Entities
  /\ db \in [Keys -> 0..created]
  /\ future \in [Keys -> 0..created]
  /\ created \in 0..MaxObjects
  /\ value \in [Objects -> Val]
  /\ rpcs \in [Entities -> SUBSET RpcNames]
  /\ held \in [Consumers -> 0..created]
  /\ seen \in [Consumers -> Val]
  /\ reply \in Replies

Init ==
  /\ entities = {}
  /\ db = [k \in Keys |-> Null]
  /\ futureEntities = {}
  /\ future = [k \in Keys |-> Null]
  /\ value = [o \in Objects |-> Invalid]
  /\ created = 0
  /\ rpcs = [e \in Entities |-> {}]
  /\ held = [h \in Consumers |-> Null]
  /\ seen = [h \in Consumers |-> Invalid]
  /\ reply = Done

-----------------------------------------------------------------------------
(* StorageComponent and DatabaseHash                                       *)

\* Fault: the value is written but sigValueChange is not emitted.
setValueSilent(o, v) ==
  /\ value' = [value EXCEPT ![o] = v]
  /\ UNCHANGED seen

\* setValue on the object of a map or of a consumer: sigValueChange reaches
\* every consumer that holds the object, but only if the value differs.
setValue(o, v) ==
  /\ value' = [value EXCEPT ![o] = v]
  /\ seen' = [h \in Consumers |-> IF held[h] = o /\ v # value[o] THEN v ELSE seen[h]]

\* Fault: a pointer is handed out to an object nobody keeps alive.
makeComponentDangling(v) ==
  /\ created < MaxObjects
  /\ value' = [value EXCEPT ![created + 1] = v]
  /\ UNCHANGED created

\* make_shared<StorageComponent>(v): the next object, unknown to any consumer.
makeComponent(v) ==
  /\ created < MaxObjects
  /\ created' = created + 1
  /\ value' = [value EXCEPT ![created + 1] = v]

\* Fault: the emptied map of the entity stays.
takeFutureComponentLeavesEntity(k) ==
  /\ future' = [future EXCEPT ![k] = Null]
  /\ UNCHANGED futureEntities

\* The future object leaves its map; an entity without futures leaves with it.
takeFutureComponent(k) ==
  /\ future' = [future EXCEPT ![k] = Null]
  /\ futureEntities' = IF \A c \in Components : c # k[2] => future[<<k[1], c>>] = Null
                         THEN futureEntities \ {k[1]}
                         ELSE futureEntities

\* Fault: the future object is dropped and a copy of it is stored.
insertComponentValueCopy(k, v) ==
  /\ takeFutureComponent(k)
  /\ makeComponent(v)
  /\ db' = [db EXCEPT ![k] = created + 1]
  /\ UNCHANGED <<seen, entities>>

\* Fault: the first future of the entity is stored, whatever its name.
insertComponentValueAnyFuture(k, v) ==
  /\ takeFutureComponent(k)
  /\ \E c \in Components :
       LET o == future[<<k[1], c>>] IN
       o # Null /\ setValue(o, v) /\ db' = [db EXCEPT ![k] = o]
  /\ UNCHANGED <<created, entities>>

\* The stored component is the future object itself where one is waiting, so
\* that everybody holding it is connected to vein from now on.
insertComponentValue(k, v) ==
  \/ /\ future[k] # Null
     /\ takeFutureComponent(k)
     /\ setValue(future[k], v)
     /\ db' = [db EXCEPT ![k] = future[k]]
     /\ UNCHANGED <<created, entities>>
  \/ /\ future[k] = Null
     /\ makeComponent(v)
     /\ db' = [db EXCEPT ![k] = created + 1]
     /\ UNCHANGED <<future, futureEntities, seen, entities>>

-----------------------------------------------------------------------------
(* StorageEventSystem: one action per command event                        *)

\* ErrorDataSender::errorOut: an ErrorData event instead of any effect.
errorOut ==
  /\ reply' = Rejected
  /\ UNCHANGED <<hashVars, value, created, held, seen>>

\* Only the owner's (local) ADD or REMOVE clears the RPC names, and it does
\* so before the command itself is checked.
forgetRpcs(e, origin) ==
  rpcs' = IF origin = "EO_LOCAL" THEN [rpcs EXCEPT ![e] = {}] ELSE rpcs

EntityAdd(e, origin) ==
  /\ forgetRpcs(e, origin)
  /\ \/ /\ e \in entities
        /\ errorOut
     \/ /\ e \notin entities
        /\ entities' = entities \cup {e}
        /\ reply' = Done
        /\ UNCHANGED <<db, future, futureEntities, value, created, held, seen>>

EntityRemove(e, origin) ==
  /\ forgetRpcs(e, origin)
  /\ \/ /\ e \notin entities
        /\ errorOut
     \/ /\ e \in entities
        /\ entities' = entities \ {e}
        /\ db' = [k \in Keys |-> IF k[1] = e THEN Null ELSE db[k]]
        /\ reply' = Done
        /\ UNCHANGED <<future, futureEntities, value, created, held, seen>>

\* Fault: an existing component is overwritten instead of reported.
ComponentAddOverwrites(k, v) ==
  /\ \/ /\ k[1] \notin entities
        /\ errorOut
     \/ /\ k[1] \in entities
        /\ insertComponentValue(k, v)
        /\ reply' = Done
        /\ UNCHANGED held
  /\ UNCHANGED rpcs

ComponentAdd(k, v) ==
  /\ \/ /\ k[1] \notin entities \/ db[k] # Null
        /\ errorOut
     \/ /\ k[1] \in entities /\ db[k] = Null
        /\ insertComponentValue(k, v)
        /\ reply' = Done
        /\ UNCHANGED held
  /\ UNCHANGED rpcs

ComponentRemove(k) ==
  /\ \/ /\ k[1] \notin entities \/ db[k] = Null
        /\ errorOut
     \/ /\ k[1] \in entities /\ db[k] # Null
        /\ db' = [db EXCEPT ![k] = Null]
        /\ reply' = Done
        /\ UNCHANGED <<entities, future, futureEntities, value, created, held, seen>>
  /\ UNCHANGED rpcs

\* A SET with an invalid value is accepted and dropped before any look-up.
ComponentSet(k, v) ==
  /\ \/ /\ v = Invalid
        /\ reply' = Ignored
        /\ UNCHANGED <<hashVars, value, created, held, seen>>
     \/ /\ v # Invalid
        /\ k[1] \notin entities \/ db[k] = Null
        /\ errorOut
     \/ /\ v # Invalid
        /\ k[1] \in entities /\ db[k] # Null
        /\ setValue(db[k], v)
        /\ reply' = Done
        /\ UNCHANGED <<hashVars, created, held>>
  /\ UNCHANGED rpcs

\* ComponentData::setNewValue ignores an invalid value: the answer then still
\* carries the value the request came with.
rewrite(asked, current) == Answer(IF current = Invalid THEN asked ELSE current)

\* A fetch is answered by rewriting the event: from the stored component, or
\* from a future component of an existing entity.
ComponentFetch(k, asked) ==
  /\ \/ /\ k[1] \notin entities \/ (db[k] = Null /\ future[k] = Null)
        /\ errorOut
     \/ /\ k[1] \in entities /\ db[k] # Null
        /\ reply' = rewrite(asked, value[db[k]])
        /\ UNCHANGED <<hashVars, value, created, held, seen>>
     \/ /\ k[1] \in entities /\ db[k] = Null /\ future[k] # Null
        /\ reply' = rewrite(asked, value[future[k]])
        /\ UNCHANGED <<hashVars, value, created, held, seen>>
  /\ UNCHANGED rpcs

RpcRegister(e, r) ==
  \/ /\ r \in rpcs[e]
     /\ errorOut
     /\ UNCHANGED rpcs
  \/ /\ r \notin rpcs[e]
     /\ rpcs' = [rpcs EXCEPT ![e] = @ \cup {r}]
     /\ reply' = Done
     /\ UNCHANGED <<hashVars, value, created, held, seen>>

-----------------------------------------------------------------------------
(* AbstractDatabase as its consumers use it                                *)

hold(h, o) ==
  /\ held' = [held EXCEPT ![h] = o]
  /\ seen' = [seen EXCEPT ![h] = value[o]]
  /\ UNCHANGED <<hashVars, value, created>>

\* The stored object, else the future one, else a new future object.
getFutureComponent(h) ==
  LET k == Watches[h] IN
  /\ \/ db[k] # Null /\ hold(h, db[k])
     \/ db[k] = Null /\ future[k] # Null /\ hold(h, future[k])
     \/ /\ db[k] = Null /\ future[k] = Null
        /\ makeComponent(Invalid)
        /\ future' = [future EXCEPT ![k] = created + 1]
        /\ futureEntities' = futureEntities \cup {k[1]}
        /\ held' = [held EXCEPT ![h] = created + 1]
        /\ seen' = [seen EXCEPT ![h] = Invalid]
        /\ UNCHANGED <<entities, db>>
  /\ UNCHANGED <<rpcs, reply>>

\* findComponent only knows stored components; nullptr leaves nothing to hold.
findComponent(h) ==
  LET k == Watches[h] IN
  /\ db[k] # Null
  /\ hold(h, db[k])
  /\ UNCHANGED <<rpcs, reply>>

\* A consumer writes the object it holds, wherever that object is by now.
DirectWrite(h, v) ==
  /\ held[h] # Null
  /\ setValue(held[h], v)
  /\ UNCHANGED <<hashVars, created, rpcs, held, reply>>

\* The consumer lets go of its pointer.
Release(h) ==
  /\ held[h] # Null
  /\ held' = [held EXCEPT ![h] = Null]
  /\ UNCHANGED <<hashVars, value, created, rpcs, seen, reply>>

Next ==
  \/ \E e \in Entities, o \in Origins : EntityAdd(e, o)
  \/ \E e \in Entities, o \in Origins : EntityRemove(e, o)
  \/ \E k \in Keys, v \in Val : ComponentAdd(k, v)
  \/ \E k \in Keys : ComponentRemove(k)
  \/ \E k \in Keys, v \in Val : ComponentSet(k, v)
  \/ \E k \in Keys, v \in Val : ComponentFetch(k, v)
  \/ \E e \in Entities, r \in RpcNames : RpcRegister(e, r)
  \/ \E h \in Consumers : getFutureComponent(h)
  \/ \E h \in Consumers : findComponent(h)
  \/ \E h \in Consumers, v \in Val : DirectWrite(h, v)
  \/ \E h \in Consumers : Release(h)

Spec == Init /\ [][Next]_vars

-----------------------------------------------------------------------------
(* Properties                                                              *)

\* A component is either stored or future, never both: insertComponentValue
\* takes the future object and getFutureComponent looks in the store first.
\* Otherwise a consumer would wait on an object vein never writes.
StoredOrFuture == \A k \in Keys : db[k] = Null \/ future[k] = Null

\* No two keys, stored or future, share a component object: a SET of one
\* component never shows up in another one.
ObjectsNotShared ==
  \A k1, k2 \in Keys :
    /\ db[k1] # Null /\ db[k1] = db[k2] => k1 = k2
    /\ future[k1] # Null /\ future[k1] = future[k2] => k1 = k2
    /\ db[k1] # Null => db[k1] # future[k2]

\* Components exist only below an entity that exists.
StoredBelowEntity == \A k \in Keys : db[k] # Null => k[1] \in entities

\* areFutureComponentsEmpty and getComponentListWithFutures are right: the
\* outer map of futures has a key exactly for the entities with a future.
FutureMapExact ==
  futureEntities = {e \in Entities : \E c \in Components : future[<<e, c>>] # Null}

\* The object a consumer holds is the one vein uses for the key it asked for.
Attached(h) == held[h] # Null /\ held[h] \in {db[Watches[h]], future[Watches[h]]}

\* A consumer never ends up with the object of another key: what it holds is
\* the object of its own key or belongs to no key at all (component removed).
HeldIsOwn ==
  \A h \in Consumers, k \in Keys :
    held[h] # Null /\ held[h] \in {db[k], future[k]} => k = Watches[h]

\* Futures are kept exactly until they are promoted: a component is not both
\* stored and future, and an entity is listed while it has a future.
FuturesKept == StoredOrFuture /\ FutureMapExact

\* No object serves two keys, neither in the maps nor in the hands of those who
\* got it from them.
ObjectsApart == ObjectsNotShared /\ HeldIsOwn

\* Whoever mirrors a component through sigValueChange has the current value,
\* however the value came about: ADD over a future, SET or a direct write.
ConsumerUpToDate == \A h \in Consumers : held[h] # Null => seen[h] = value[held[h]]

\* The future promise: a pointer handed out stays the component of its key
\* through ADD and SET; only REMOVE of the component or of its entity cuts it.
DetachedOnlyByRemove ==
  [][\A h \in Consumers :
       Attached(h) /\ held'[h] = held[h] /\ ~Attached(h)'
         => db[Watches[h]] = held[h] /\ db'[Watches[h]] = Null]_vars

\* The inductive invariant behind the properties above.
StorageInv ==
  /\ TypeOK
  /\ StoredOrFuture
  /\ ObjectsNotShared
  /\ StoredBelowEntity
  /\ FutureMapExact
  /\ HeldIsOwn
  /\ ConsumerUpToDate

-----------------------------------------------------------------------------
(* Refinement: forget the objects and the storage is a VeinDatabase        *)

ValueAt(o) == IF o = Null THEN Absent ELSE value[o]

Database == INSTANCE VeinDatabase WITH
  known <- entities,
  stored <- [k \in Keys |-> ValueAt(db[k])],
  pending <- [k \in Keys |-> ValueAt(future[k])]

\* The storage implements the abstract database: every command event takes its
\* effect on its own key, or is answered with an error and leaves entities and
\* components alone, whatever objects have been promoted, shared or cut before.
\* RPC names go with every ADD or REMOVE of the owner, a rejected one too.
ImplementsDatabase == Database!DbSpec
=============================================================================
