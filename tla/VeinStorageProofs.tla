-------------------------- MODULE VeinStorageProofs --------------------------
(***************************************************************************)
(* Proofs about VeinStorage for any number of entities, components,        *)
(* consumers and objects: StorageInv is inductive, the pointers handed out *)
(* are only cut by a REMOVE, the storage implements VeinDatabase, and the  *)
(* recorder on it records what vein shows.                                 *)
(***************************************************************************)
EXTENDS VeinRecorder, WellFoundedInduction, TLAPS

USE WatchesAssumption, MaxObjectsAssumption DEF Null

\* A step that leaves maps, objects and consumers alone keeps the invariant.
LEMMA FrameStep ==
  ASSUME StorageInv,
         UNCHANGED <<entities, db, futureEntities, future, value, created, held, seen>>,
         rpcs' \in [Entities -> SUBSET RpcNames],
         reply' \in Replies
  PROVE  StorageInv'
  BY DEF StorageInv, TypeOK, StoredOrFuture, ObjectsNotShared, StoredBelowEntity,
         FutureMapExact, HeldIsOwn, ConsumerUpToDate

\* The replies of the model are replies.
LEMMA ReplyTypes ==
  /\ Done \in Replies
  /\ Rejected \in Replies
  /\ Ignored \in Replies
  /\ \A v, w \in Val : rewrite(v, w) \in Replies
  BY DEF Done, Rejected, Ignored, Replies, rewrite, Answer, Val

\* An entity's RPC names stay a set of names when they are cleared.
LEMMA ForgetType ==
  ASSUME TypeOK, NEW e \in Entities, NEW o \in Origins, forgetRpcs(e, o)
  PROVE  rpcs' \in [Entities -> SUBSET RpcNames]
  BY DEF TypeOK, forgetRpcs

\* errorOut keeps the invariant, whatever happened to the RPC names before.
LEMMA ErrorStep ==
  ASSUME StorageInv, errorOut, rpcs' \in [Entities -> SUBSET RpcNames]
  PROVE  StorageInv'
  BY FrameStep, ReplyTypes DEF errorOut, hashVars

\* setValue on an object keeps values typed and the mirrors up to date.
LEMMA SetValueStep ==
  ASSUME StorageInv, NEW o \in 1..created, NEW v \in Val, setValue(o, v), held' = held
  PROVE  /\ value' \in [Objects -> Val]
         /\ seen' \in [Consumers -> Val]
         /\ ConsumerUpToDate'
  <1> USE DEF StorageInv, TypeOK, setValue
  <1>1. o \in Objects
    BY DEF Objects
  <1>2. value' \in [Objects -> Val] /\ seen' \in [Consumers -> Val]
    BY <1>1
  <1>3. ASSUME NEW h \in Consumers, held[h] # Null
        PROVE  seen'[h] = value'[held[h]]
    <2>1. held[h] \in Objects
      BY <1>3 DEF Objects
    <2>2. seen[h] = value[held[h]]
      BY <1>3 DEF ConsumerUpToDate
    <2> QED
      BY <1>1, <2>1, <2>2
  <1> QED
    BY <1>2, <1>3 DEF ConsumerUpToDate

\* setValue that leaves the maps alone keeps the invariant.
LEMMA WriteStep ==
  ASSUME StorageInv, NEW o \in 1..created, NEW v \in Val, setValue(o, v),
         UNCHANGED <<entities, db, futureEntities, future, created, rpcs, held>>,
         reply' \in Replies
  PROVE  StorageInv'
  <1>1. value' \in [Objects -> Val] /\ seen' \in [Consumers -> Val] /\ ConsumerUpToDate'
    BY SetValueStep
  <1> QED
    BY <1>1 DEF StorageInv, TypeOK, StoredOrFuture, ObjectsNotShared, StoredBelowEntity,
                FutureMapExact, HeldIsOwn

\* A store that only loses objects keeps the invariant (both REMOVEs, entity ADD).
LEMMA RemoveStep ==
  ASSUME StorageInv,
         entities' \subseteq Entities,
         db' \in [Keys -> 0..created],
         \A k \in Keys : db'[k] = db[k] \/ db'[k] = Null,
         \A k \in Keys : db'[k] # Null => k[1] \in entities',
         UNCHANGED <<futureEntities, future, value, created, held, seen>>,
         rpcs' \in [Entities -> SUBSET RpcNames],
         reply' \in Replies
  PROVE  StorageInv'
  <1> USE DEF StorageInv
  <1>1. TypeOK'
    BY DEF TypeOK
  <1>2. StoredOrFuture' /\ StoredBelowEntity' /\ FutureMapExact' /\ ConsumerUpToDate'
    BY DEF StoredOrFuture, StoredBelowEntity, FutureMapExact, ConsumerUpToDate
  <1>3. ObjectsNotShared'
    BY DEF ObjectsNotShared
  <1>4. HeldIsOwn'
    BY DEF HeldIsOwn
  <1> QED
    BY <1>1, <1>2, <1>3, <1>4

\* A new object is held by nobody and known to no map.
LEMMA MakeStep ==
  ASSUME StorageInv, NEW v \in Val, makeComponent(v)
  PROVE  /\ created' \in 0..MaxObjects
         /\ created + 1 \in 1..created'
         /\ value' \in [Objects -> Val]
         /\ \A o \in 0..created : o \in 0..created' /\ o # created + 1
         /\ \A o \in 1..created : value'[o] = value[o]
         /\ value'[created + 1] = v
  BY DEF StorageInv, TypeOK, makeComponent, Objects

\* ADD over a future component: the object moves from one map to the other.
LEMMA PromoteStep ==
  ASSUME StorageInv, NEW k \in Keys, NEW v \in Val,
         k[1] \in entities, db[k] = Null, future[k] # Null,
         takeFutureComponent(k), setValue(future[k], v),
         db' = [db EXCEPT ![k] = future[k]],
         UNCHANGED <<created, entities, held, rpcs>>,
         reply' \in Replies
  PROVE  StorageInv'
  <1> DEFINE o == future[k]
  <1>1. o \in 1..created /\ k \in Entities \X Components
    BY DEF StorageInv, TypeOK, Keys
  <1>2. value' \in [Objects -> Val] /\ seen' \in [Consumers -> Val] /\ ConsumerUpToDate'
    BY <1>1, SetValueStep
  <1>3. /\ future' \in [Keys -> 0..created] /\ db' \in [Keys -> 0..created]
        /\ future'[k] = Null /\ db'[k] = o
        /\ \A j \in Keys : j # k => future'[j] = future[j] /\ db'[j] = db[j]
    BY <1>1 DEF StorageInv, TypeOK, takeFutureComponent
  <1>4. TypeOK'
    BY <1>2, <1>3 DEF StorageInv, TypeOK, takeFutureComponent
  <1>5. StoredOrFuture' /\ StoredBelowEntity'
    BY <1>3 DEF StorageInv, StoredOrFuture, StoredBelowEntity
  <1>6. ObjectsNotShared'
    BY <1>1, <1>3 DEF StorageInv, TypeOK, ObjectsNotShared
  <1>7. HeldIsOwn'
    BY <1>1, <1>3 DEF StorageInv, HeldIsOwn
  <1>8. FutureMapExact'
    <2>1. ASSUME NEW e \in Entities, e # k[1]
          PROVE  (e \in futureEntities') <=> \E c \in Components : future'[<<e, c>>] # Null
      <3>1. \A c \in Components : future'[<<e, c>>] = future[<<e, c>>]
        BY <2>1, <1>3 DEF Keys
      <3> QED
        BY <2>1, <3>1 DEF StorageInv, FutureMapExact, takeFutureComponent
    <2>2. (k[1] \in futureEntities') <=> \E c \in Components : future'[<<k[1], c>>] # Null
      <3>1. k = <<k[1], k[2]>> /\ k[1] \in Entities /\ k[2] \in Components
        BY <1>1
      <3>2. \A c \in Components : c # k[2] => future'[<<k[1], c>>] = future[<<k[1], c>>]
        BY <3>1, <1>3 DEF Keys
      <3>3. k[1] \in futureEntities
        BY <3>1 DEF StorageInv, FutureMapExact
      <3> QED
        BY <3>1, <3>2, <3>3, <1>3 DEF takeFutureComponent
    <2>3. futureEntities' \subseteq Entities
      BY <1>4 DEF TypeOK
    <2> QED
      BY <2>1, <2>2, <2>3 DEF FutureMapExact
  <1> QED
    BY <1>2, <1>4, <1>5, <1>6, <1>7, <1>8 DEF StorageInv

\* ADD without a future component: a new object enters the store.
LEMMA InsertStep ==
  ASSUME StorageInv, NEW k \in Keys, NEW v \in Val,
         k[1] \in entities, db[k] = Null, future[k] = Null,
         makeComponent(v),
         db' = [db EXCEPT ![k] = created + 1],
         UNCHANGED <<future, futureEntities, seen, entities, held, rpcs>>,
         reply' \in Replies
  PROVE  StorageInv'
  <1>1. /\ created' \in 0..MaxObjects
        /\ created + 1 \in 1..created'
        /\ value' \in [Objects -> Val]
        /\ \A o \in 0..created : o \in 0..created' /\ o # created + 1
        /\ \A o \in 1..created : value'[o] = value[o]
    BY MakeStep
  <1>2. \A j \in Keys : db'[j] = IF j = k THEN created + 1 ELSE db[j]
    BY DEF StorageInv, TypeOK
  <1>3. /\ \A j \in Keys : db[j] \in 0..created /\ future[j] \in 0..created
        /\ \A h \in Consumers : held[h] \in 0..created
    BY DEF StorageInv, TypeOK
  <1>4. TypeOK'
    <2>1. db' \in [Keys -> 0..created']
      BY <1>1, <1>2, <1>3 DEF StorageInv, TypeOK
    <2>2. future' \in [Keys -> 0..created'] /\ held' \in [Consumers -> 0..created']
      BY <1>1 DEF StorageInv, TypeOK
    <2> QED
      BY <1>1, <2>1, <2>2 DEF StorageInv, TypeOK
  <1>5. StoredOrFuture' /\ StoredBelowEntity' /\ FutureMapExact'
    BY <1>2 DEF StorageInv, StoredOrFuture, StoredBelowEntity, FutureMapExact
  <1>6. ObjectsNotShared'
    BY <1>1, <1>2, <1>3 DEF StorageInv, ObjectsNotShared
  <1>7. HeldIsOwn'
    BY <1>1, <1>2, <1>3 DEF StorageInv, HeldIsOwn
  <1>8. ConsumerUpToDate'
    BY <1>1, <1>3 DEF StorageInv, ConsumerUpToDate
  <1> QED
    BY <1>4, <1>5, <1>6, <1>7, <1>8 DEF StorageInv

\* A consumer that takes the object of its own key sees its current value.
LEMMA HoldStep ==
  ASSUME StorageInv, NEW h \in Consumers, NEW o \in 1..created,
         o \in {db[Watches[h]], future[Watches[h]]},
         hold(h, o), UNCHANGED <<rpcs, reply>>
  PROVE  StorageInv'
  <1>1. Watches[h] \in Keys /\ o \in Objects
    BY DEF StorageInv, TypeOK, Objects
  <1>2. \A g \in Consumers : /\ held'[g] = IF g = h THEN o ELSE held[g]
                             /\ seen'[g] = IF g = h THEN value[o] ELSE seen[g]
    BY DEF StorageInv, TypeOK, hold
  <1>3. TypeOK' /\ ConsumerUpToDate'
    BY <1>1, <1>2 DEF StorageInv, TypeOK, ConsumerUpToDate, hold, hashVars
  <1>4. StoredOrFuture' /\ ObjectsNotShared' /\ StoredBelowEntity' /\ FutureMapExact'
    BY DEF StorageInv, StoredOrFuture, ObjectsNotShared, StoredBelowEntity, FutureMapExact,
           hold, hashVars
  <1>5. HeldIsOwn'
    BY <1>1, <1>2 DEF StorageInv, TypeOK, HeldIsOwn, ObjectsNotShared, hold, hashVars
  <1> QED
    BY <1>3, <1>4, <1>5 DEF StorageInv

\* A consumer that asks for an unknown component opens a future.
LEMMA OpenFutureStep ==
  ASSUME StorageInv, NEW h \in Consumers,
         db[Watches[h]] = Null, future[Watches[h]] = Null,
         makeComponent(Invalid),
         future' = [future EXCEPT ![Watches[h]] = created + 1],
         futureEntities' = futureEntities \cup {Watches[h][1]},
         held' = [held EXCEPT ![h] = created + 1],
         seen' = [seen EXCEPT ![h] = Invalid],
         UNCHANGED <<entities, db, rpcs, reply>>
  PROVE  StorageInv'
  <1> DEFINE k == Watches[h]
  <1>1. k \in Keys /\ k[1] \in Entities /\ k[2] \in Components /\ k = <<k[1], k[2]>>
    BY DEF Keys
  <1>2. /\ created' \in 0..MaxObjects
        /\ created + 1 \in 1..created'
        /\ value' \in [Objects -> Val]
        /\ \A o \in 0..created : o \in 0..created' /\ o # created + 1
        /\ \A o \in 1..created : value'[o] = value[o]
        /\ value'[created + 1] = Invalid
    BY MakeStep DEF Val
  <1>3. /\ \A j \in Keys : db[j] \in 0..created /\ future[j] \in 0..created
        /\ \A g \in Consumers : held[g] \in 0..created
    BY DEF StorageInv, TypeOK
  <1>4. \A j \in Keys : future'[j] = IF j = k THEN created + 1 ELSE future[j]
    BY DEF StorageInv, TypeOK
  <1>5. \A g \in Consumers : /\ held'[g] = IF g = h THEN created + 1 ELSE held[g]
                             /\ seen'[g] = IF g = h THEN Invalid ELSE seen[g]
    BY DEF StorageInv, TypeOK
  <1>6. TypeOK'
    <2>1. future' \in [Keys -> 0..created'] /\ db' \in [Keys -> 0..created']
      BY <1>1, <1>2, <1>3, <1>4 DEF StorageInv, TypeOK
    <2>2. held' \in [Consumers -> 0..created'] /\ seen' \in [Consumers -> Val]
      BY <1>2, <1>3, <1>5 DEF StorageInv, TypeOK, Val
    <2> QED
      BY <1>1, <1>2, <2>1, <2>2 DEF StorageInv, TypeOK
  <1>7. StoredOrFuture' /\ StoredBelowEntity'
    BY <1>4 DEF StorageInv, StoredOrFuture, StoredBelowEntity
  <1>8. ObjectsNotShared'
    BY <1>2, <1>3, <1>4 DEF StorageInv, ObjectsNotShared
  <1>9. HeldIsOwn'
    BY <1>2, <1>3, <1>4, <1>5 DEF StorageInv, HeldIsOwn
  <1>10. ConsumerUpToDate'
    BY <1>2, <1>3, <1>5 DEF StorageInv, ConsumerUpToDate
  <1>11. FutureMapExact'
    <2>1. \A e \in Entities, c \in Components :
            (future'[<<e, c>>] # Null) <=> (<<e, c>> = k \/ future[<<e, c>>] # Null)
      BY <1>2, <1>4 DEF Keys
    <2>2. \A e \in Entities :
            (e \in futureEntities') <=> (e = k[1] \/ \E c \in Components : future[<<e, c>>] # Null)
      BY DEF StorageInv, FutureMapExact
    <2>3. futureEntities' \subseteq Entities
      BY <1>6 DEF TypeOK
    <2> QED
      BY <1>1, <2>1, <2>2, <2>3 DEF FutureMapExact
  <1> QED
    BY <1>6, <1>7, <1>8, <1>9, <1>10, <1>11 DEF StorageInv

\* The empty storage satisfies StorageInv.
LEMMA StorageInvInit == Init => StorageInv
  <1> SUFFICES ASSUME Init PROVE StorageInv
    OBVIOUS
  <1> USE DEF Init
  <1>1. TypeOK
    BY ReplyTypes DEF TypeOK, Val
  <1>2. StoredOrFuture /\ ObjectsNotShared /\ StoredBelowEntity
    BY DEF StoredOrFuture, ObjectsNotShared, StoredBelowEntity
  <1>3. FutureMapExact
    BY DEF FutureMapExact, Keys
  <1>4. HeldIsOwn /\ ConsumerUpToDate
    BY DEF HeldIsOwn, ConsumerUpToDate
  <1> QED
    BY <1>1, <1>2, <1>3, <1>4 DEF StorageInv

\* Every action of the storage, and a stutter, keeps StorageInv.
LEMMA StorageInvStep == StorageInv /\ [Next]_vars => StorageInv'
  <1> SUFFICES ASSUME StorageInv, [Next]_vars PROVE StorageInv'
    OBVIOUS
  <1> USE ReplyTypes
  <1>1. ASSUME NEW e \in Entities, NEW o \in Origins, EntityAdd(e, o)
        PROVE  StorageInv'
    <2>1. rpcs' \in [Entities -> SUBSET RpcNames]
      BY <1>1, ForgetType DEF EntityAdd, StorageInv
    <2>2. CASE errorOut
      BY <2>1, <2>2, ErrorStep
    <2>3. CASE e \notin entities
      <3>1. /\ entities' = entities \cup {e} /\ reply' = Done
            /\ UNCHANGED <<db, futureEntities, future, value, created, held, seen>>
        BY <1>1, <2>3 DEF EntityAdd
      <3>2. db' \in [Keys -> 0..created] /\ entities' \subseteq Entities
        BY <3>1 DEF StorageInv, TypeOK
      <3>3. \A k \in Keys : /\ db'[k] = db[k] \/ db'[k] = Null
                            /\ db'[k] # Null => k[1] \in entities'
        BY <3>1 DEF StorageInv, StoredBelowEntity
      <3> QED
        BY <2>1, <3>1, <3>2, <3>3, RemoveStep
    <2> QED
      BY <1>1, <2>2, <2>3 DEF EntityAdd
  <1>2. ASSUME NEW e \in Entities, NEW o \in Origins, EntityRemove(e, o)
        PROVE  StorageInv'
    <2>1. rpcs' \in [Entities -> SUBSET RpcNames]
      BY <1>2, ForgetType DEF EntityRemove, StorageInv
    <2>2. CASE errorOut
      BY <2>1, <2>2, ErrorStep
    <2>3. CASE e \in entities
      <3>1. /\ entities' = entities \ {e} /\ reply' = Done
            /\ db' = [k \in Keys |-> IF k[1] = e THEN Null ELSE db[k]]
            /\ UNCHANGED <<futureEntities, future, value, created, held, seen>>
        BY <1>2, <2>3 DEF EntityRemove
      <3>2. db' \in [Keys -> 0..created]
        BY <3>1 DEF StorageInv, TypeOK
      <3>3. \A k \in Keys : /\ db'[k] = db[k] \/ db'[k] = Null
                            /\ db'[k] # Null => k[1] \in entities'
        BY <3>1 DEF StorageInv, StoredBelowEntity
      <3>4. entities' \subseteq Entities
        BY <3>1 DEF StorageInv, TypeOK
      <3> QED
        BY <2>1, <3>1, <3>2, <3>3, <3>4, RemoveStep
    <2> QED
      BY <1>2, <2>2, <2>3 DEF EntityRemove
  <1>3. ASSUME NEW k \in Keys, NEW v \in Val, ComponentAdd(k, v)
        PROVE  StorageInv'
    <2>1. rpcs' = rpcs /\ rpcs' \in [Entities -> SUBSET RpcNames]
      BY <1>3 DEF ComponentAdd, StorageInv, TypeOK
    <2>2. CASE errorOut
      BY <2>1, <2>2, ErrorStep
    <2>3. CASE k[1] \in entities /\ db[k] = Null /\ insertComponentValue(k, v)
               /\ reply' = Done /\ UNCHANGED held
      <3>1. CASE future[k] # Null
        BY <2>1, <2>3, <3>1, PromoteStep DEF insertComponentValue
      <3>2. CASE future[k] = Null
        BY <2>1, <2>3, <3>2, InsertStep DEF insertComponentValue
      <3> QED
        BY <3>1, <3>2
    <2> QED
      BY <1>3, <2>2, <2>3 DEF ComponentAdd
  <1>4. ASSUME NEW k \in Keys, ComponentRemove(k)
        PROVE  StorageInv'
    <2>1. rpcs' \in [Entities -> SUBSET RpcNames]
      BY <1>4 DEF ComponentRemove, StorageInv, TypeOK
    <2>2. CASE errorOut
      BY <2>1, <2>2, ErrorStep
    <2>3. CASE k[1] \in entities /\ db[k] # Null
      <3>1. /\ db' = [db EXCEPT ![k] = Null] /\ reply' = Done
            /\ UNCHANGED <<entities, future, futureEntities, value, created, held, seen>>
        BY <1>4, <2>3 DEF ComponentRemove, errorOut
      <3>2. db' \in [Keys -> 0..created] /\ entities' \subseteq Entities
        BY <3>1 DEF StorageInv, TypeOK
      <3>3. \A j \in Keys : /\ db'[j] = db[j] \/ db'[j] = Null
                            /\ db'[j] # Null => j[1] \in entities'
        BY <3>1 DEF StorageInv, TypeOK, StoredBelowEntity
      <3> QED
        BY <2>1, <3>1, <3>2, <3>3, RemoveStep
    <2> QED
      BY <1>4, <2>2, <2>3 DEF ComponentRemove
  <1>5. ASSUME NEW k \in Keys, NEW v \in Val, ComponentSet(k, v)
        PROVE  StorageInv'
    <2>1. rpcs' = rpcs /\ rpcs' \in [Entities -> SUBSET RpcNames]
      BY <1>5 DEF ComponentSet, StorageInv, TypeOK
    <2>2. CASE errorOut
      BY <2>1, <2>2, ErrorStep
    <2>3. CASE reply' = Ignored /\ UNCHANGED <<hashVars, value, created, held, seen>>
      BY <2>1, <2>3, FrameStep DEF hashVars
    <2>4. CASE /\ db[k] # Null /\ setValue(db[k], v)
               /\ reply' = Done /\ UNCHANGED <<hashVars, created, held>>
      <3>1. db[k] \in 1..created
        BY <2>4 DEF StorageInv, TypeOK
      <3> QED
        BY <2>1, <2>4, <3>1, WriteStep DEF hashVars
    <2> QED
      BY <1>5, <2>2, <2>3, <2>4 DEF ComponentSet
  <1>6. ASSUME NEW k \in Keys, NEW v \in Val, ComponentFetch(k, v)
        PROVE  StorageInv'
    <2>1. rpcs' \in [Entities -> SUBSET RpcNames]
      BY <1>6 DEF ComponentFetch, StorageInv, TypeOK
    <2>2. CASE errorOut
      BY <2>1, <2>2, ErrorStep
    <2>3. CASE ~errorOut
      <3>1. UNCHANGED <<hashVars, value, created, held, seen>>
        BY <1>6, <2>3 DEF ComponentFetch
      <3>2. \A o \in Objects : rewrite(v, value[o]) \in Replies
        BY DEF StorageInv, TypeOK
      <3>3. /\ db[k] # Null => db[k] \in Objects
            /\ future[k] # Null => future[k] \in Objects
        BY DEF StorageInv, TypeOK, Objects
      <3>4. reply' \in Replies
        BY <1>6, <2>3, <3>2, <3>3 DEF ComponentFetch
      <3> QED
        BY <2>1, <3>1, <3>4, FrameStep DEF hashVars
    <2> QED
      BY <2>2, <2>3
  <1>7. ASSUME NEW e \in Entities, NEW r \in RpcNames, RpcRegister(e, r)
        PROVE  StorageInv'
    <2>1. rpcs' \in [Entities -> SUBSET RpcNames]
      BY <1>7 DEF RpcRegister, StorageInv, TypeOK
    <2> QED
      BY <1>7, <2>1, FrameStep, ErrorStep DEF RpcRegister, hashVars
  <1>8. ASSUME NEW h \in Consumers, getFutureComponent(h)
        PROVE  StorageInv'
    <2> DEFINE k == Watches[h]
    <2>1. /\ db[k] # Null => db[k] \in 1..created
          /\ future[k] # Null => future[k] \in 1..created
      BY DEF StorageInv, TypeOK
    <2>2. CASE db[k] # Null
      BY <1>8, <2>1, <2>2, HoldStep DEF getFutureComponent
    <2>3. CASE db[k] = Null /\ future[k] # Null
      BY <1>8, <2>1, <2>3, HoldStep DEF getFutureComponent
    <2>4. CASE db[k] = Null /\ future[k] = Null
      BY <1>8, <2>4, OpenFutureStep DEF getFutureComponent
    <2> QED
      BY <2>2, <2>3, <2>4
  <1>9. ASSUME NEW h \in Consumers, findComponent(h)
        PROVE  StorageInv'
    <2>1. db[Watches[h]] \in 1..created
      BY <1>9 DEF findComponent, StorageInv, TypeOK
    <2> QED
      BY <1>9, <2>1, HoldStep DEF findComponent
  <1>10. ASSUME NEW h \in Consumers, NEW v \in Val, DirectWrite(h, v)
         PROVE  StorageInv'
    <2>1. held[h] \in 1..created /\ reply' \in Replies
      BY <1>10 DEF DirectWrite, StorageInv, TypeOK
    <2> QED
      BY <1>10, <2>1, WriteStep DEF DirectWrite, hashVars
  <1>11. ASSUME NEW h \in Consumers, Release(h)
         PROVE  StorageInv'
    BY <1>11 DEF Release, hashVars, StorageInv, TypeOK, StoredOrFuture, ObjectsNotShared,
       StoredBelowEntity, FutureMapExact, HeldIsOwn, ConsumerUpToDate
  <1>12. CASE UNCHANGED vars
    BY <1>12, FrameStep DEF vars, StorageInv, TypeOK
  <1> QED
    BY <1>1, <1>2, <1>3, <1>4, <1>5, <1>6, <1>7, <1>8, <1>9, <1>10, <1>11, <1>12 DEF Next

\* Storage safety: types, stored-or-future, unshared objects, exact future
\* map and up-to-date consumers hold in every reachable state.
THEOREM StorageInvariant == Spec => []StorageInv
  BY StorageInvInit, StorageInvStep, PTL DEF Spec

\* Type correctness of the storage.
THEOREM StorageTypes == Spec => []TypeOK
  <1>1. StorageInv => TypeOK
    BY DEF StorageInv
  <1> QED
    BY <1>1, StorageInvariant, PTL

\* Whatever is added, removed and asked for in whichever order, no object serves
\* two keys and nobody holds the object of another key.
THEOREM ObjectsStayApart == Spec => []ObjectsApart
  <1>1. StorageInv => ObjectsApart
    BY DEF StorageInv, ObjectsApart
  <1> QED
    BY <1>1, StorageInvariant, PTL

\* A component is never stored and future at once, and areFutureComponentsEmpty
\* is right, through every order of ADD, REMOVE and getFutureComponent.
THEOREM FuturesStay == Spec => []FuturesKept
  <1>1. StorageInv => FuturesKept
    BY DEF StorageInv, FuturesKept
  <1> QED
    BY <1>1, StorageInvariant, PTL

\* Every consumer mirrors the object it holds, before and after vein knows it.
THEOREM ConsumersUpToDate == Spec => []ConsumerUpToDate
  <1>1. StorageInv => ConsumerUpToDate
    BY DEF StorageInv
  <1> QED
    BY <1>1, StorageInvariant, PTL

\* One step on the maps: a stored object stays or leaves its key empty, a
\* future object stays or becomes the stored object of the same key.
LEMMA MapStep ==
  ASSUME StorageInv, [Next]_vars, NEW k \in Keys
  PROVE  /\ db[k] # Null => db'[k] \in {db[k], Null}
         /\ future[k] # Null => future'[k] = future[k] \/ db'[k] = future[k]
  <1> USE DEF StorageInv, TypeOK, hashVars
  <1>1. CASE UNCHANGED <<db, future>>
    BY <1>1
  <1>2. ASSUME NEW e \in Entities, NEW o \in Origins, EntityAdd(e, o) \/ EntityRemove(e, o)
        PROVE  /\ db'[k] \in {db[k], Null} /\ future'[k] = future[k]
    BY <1>2 DEF EntityAdd, EntityRemove, errorOut
  <1>3. ASSUME NEW j \in Keys, NEW v \in Val, ComponentAdd(j, v)
        PROVE  /\ db[k] # Null => db'[k] = db[k]
               /\ future[k] # Null => future'[k] = future[k] \/ db'[k] = future[k]
    BY <1>3 DEF ComponentAdd, errorOut, insertComponentValue, takeFutureComponent
  <1>4. ASSUME NEW j \in Keys, ComponentRemove(j)
        PROVE  db'[k] \in {db[k], Null} /\ future'[k] = future[k]
    BY <1>4 DEF ComponentRemove, errorOut
  <1>5. ASSUME NEW j \in Keys, NEW v \in Val, ComponentSet(j, v) \/ ComponentFetch(j, v)
        PROVE  UNCHANGED <<db, future>>
    BY <1>5 DEF ComponentSet, ComponentFetch, errorOut
  <1>6. ASSUME NEW e \in Entities, NEW r \in RpcNames, RpcRegister(e, r)
        PROVE  UNCHANGED <<db, future>>
    BY <1>6 DEF RpcRegister, errorOut
  <1>7. ASSUME NEW h \in Consumers, getFutureComponent(h)
        PROVE  db' = db /\ (future[k] # Null => future'[k] = future[k])
    BY <1>7 DEF getFutureComponent, hold
  <1>8. ASSUME NEW h \in Consumers, findComponent(h) \/ Release(h)
        PROVE  UNCHANGED <<db, future>>
    BY <1>8 DEF findComponent, hold, Release
  <1>9. ASSUME NEW h \in Consumers, NEW v \in Val, DirectWrite(h, v)
        PROVE  UNCHANGED <<db, future>>
    BY <1>9 DEF DirectWrite
  <1>10. CASE UNCHANGED vars
    BY <1>10, <1>1 DEF vars
  <1> QED
    BY <1>1, <1>2, <1>3, <1>4, <1>5, <1>6, <1>7, <1>8, <1>9, <1>10 DEF Next

\* The future promise for every instance: only a REMOVE cuts a pointer that
\* the database has handed out.
THEOREM PointersCutOnlyByRemove == Spec => DetachedOnlyByRemove
  <1>1. StorageInv /\ [Next]_vars
          => [\A h \in Consumers :
                Attached(h) /\ held'[h] = held[h] /\ ~Attached(h)'
                  => db[Watches[h]] = held[h] /\ db'[Watches[h]] = Null]_vars
    <2> SUFFICES ASSUME StorageInv, [Next]_vars, NEW h \in Consumers,
                        Attached(h), held'[h] = held[h], ~Attached(h)'
                 PROVE  db[Watches[h]] = held[h] /\ db'[Watches[h]] = Null
      OBVIOUS
    <2>1. Watches[h] \in Keys
      OBVIOUS
    <2> QED
      BY <2>1, MapStep DEF Attached
  <1> QED
    BY <1>1, StorageInvariant, PTL DEF Spec, DetachedOnlyByRemove

-----------------------------------------------------------------------------
(* The storage implements VeinDatabase: with component objects replaced by *)
(* their values every step is a command of VeinDatabase or a stutter.      *)
(* ObjectsNotShared and StoredOrFuture are what makes the write to one     *)
(* object a write to one key.                                              *)

\* The mapped store and the mapped futures.
storedMap == [k \in Keys |-> ValueAt(db[k])]
pendingMap == [k \in Keys |-> ValueAt(future[k])]

\* A key is absent exactly when its object is null.
LEMMA AbsentIsNull ==
  ASSUME StorageInv, NEW k \in Keys
  PROVE  /\ (storedMap[k] = Absent) <=> (db[k] = Null)
         /\ (pendingMap[k] = Absent) <=> (future[k] = Null)
         /\ db[k] # Null => storedMap[k] = value[db[k]] /\ value[db[k]] \in Val
         /\ future[k] # Null => pendingMap[k] = value[future[k]] /\ value[future[k]] \in Val
  <1>1. /\ db[k] # Null => db[k] \in Objects
        /\ future[k] # Null => future[k] \in Objects
    BY DEF StorageInv, TypeOK, Objects
  <1> QED
    BY <1>1, AbsentAssumption DEF StorageInv, TypeOK, storedMap, pendingMap, ValueAt

\* Maps and values that do not change leave the abstract store alone.
LEMMA MapsFrame ==
  ASSUME UNCHANGED <<db, future, value>>
  PROVE  UNCHANGED <<storedMap, pendingMap>>
  BY DEF storedMap, pendingMap, ValueAt

\* Writing the object stored under a key writes that key and no other.
LEMMA WriteStored ==
  ASSUME StorageInv, NEW k \in Keys, NEW v \in Val, db[k] # Null,
         value' = [value EXCEPT ![db[k]] = v], UNCHANGED <<db, future>>
  PROVE  /\ storedMap' = [storedMap EXCEPT ![k] = v]
         /\ UNCHANGED pendingMap
  <1>1. \A j \in Keys : /\ db[j] # Null => db[j] \in Objects
                        /\ future[j] # Null => future[j] \in Objects
    BY DEF StorageInv, TypeOK, Objects
  <1>2. \A j \in Keys : j # k => db[j] = Null \/ db[j] # db[k]
    BY DEF StorageInv, ObjectsNotShared
  <1>3. \A j \in Keys : future[j] # db[k]
    BY DEF StorageInv, ObjectsNotShared
  <1>4. \A j \in Keys : ValueAt(db[j])' = IF j = k THEN v ELSE ValueAt(db[j])
    BY <1>1, <1>2 DEF ValueAt, StorageInv, TypeOK
  <1>5. \A j \in Keys : ValueAt(future[j])' = ValueAt(future[j])
    BY <1>1, <1>3 DEF ValueAt, StorageInv, TypeOK
  <1> QED
    BY <1>4, <1>5 DEF storedMap, pendingMap

\* Writing a future object writes that future component and nothing else.
LEMMA WritePending ==
  ASSUME StorageInv, NEW k \in Keys, NEW v \in Val, future[k] # Null,
         value' = [value EXCEPT ![future[k]] = v], UNCHANGED <<db, future>>
  PROVE  /\ pendingMap' = [pendingMap EXCEPT ![k] = v]
         /\ UNCHANGED storedMap
  <1>1. \A j \in Keys : /\ db[j] # Null => db[j] \in Objects
                        /\ future[j] # Null => future[j] \in Objects
    BY DEF StorageInv, TypeOK, Objects
  <1>2. \A j \in Keys : j # k => future[j] = Null \/ future[j] # future[k]
    BY DEF StorageInv, ObjectsNotShared
  <1>3. \A j \in Keys : db[j] = Null \/ db[j] # future[k]
    BY DEF StorageInv, ObjectsNotShared
  <1>4. \A j \in Keys : ValueAt(future[j])' = IF j = k THEN v ELSE ValueAt(future[j])
    BY <1>1, <1>2 DEF ValueAt, StorageInv, TypeOK
  <1>5. \A j \in Keys : ValueAt(db[j])' = ValueAt(db[j])
    BY <1>1, <1>3 DEF ValueAt, StorageInv, TypeOK
  <1> QED
    BY <1>4, <1>5 DEF storedMap, pendingMap

\* A successful ADD stores the value and retires the future of the key.
LEMMA InsertMapped ==
  ASSUME StorageInv, NEW k \in Keys, NEW v \in Val, db[k] = Null, insertComponentValue(k, v)
  PROVE  /\ storedMap' = [storedMap EXCEPT ![k] = v]
         /\ pendingMap' = [pendingMap EXCEPT ![k] = Absent]
  <1> DEFINE o == IF future[k] # Null THEN future[k] ELSE created + 1
  <1>1. \A j \in Keys : db[j] \in 0..created /\ future[j] \in 0..created
    BY DEF StorageInv, TypeOK
  <1>2. o \in Objects /\ value' = [value EXCEPT ![o] = v] /\ db' = [db EXCEPT ![k] = o]
    BY <1>1 DEF insertComponentValue, setValue, makeComponent, Objects, StorageInv, TypeOK
  <1>3. \A j \in Keys : future'[j] = IF j = k THEN Null ELSE future[j]
    BY DEF insertComponentValue, takeFutureComponent, StorageInv, TypeOK
  <1>4. \A j \in Keys : j # k => db[j] # o /\ (future[j] = Null \/ future[j] # o)
    BY <1>1 DEF StorageInv, TypeOK, ObjectsNotShared
  <1>5. \A j \in Keys : /\ db[j] # Null => db[j] \in Objects
                        /\ future[j] # Null => future[j] \in Objects
    BY DEF StorageInv, TypeOK, Objects
  <1>6. o # Null
    BY <1>2 DEF Objects
  <1>7. \A j \in Keys : ValueAt(db[j])' = IF j = k THEN v ELSE ValueAt(db[j])
    BY <1>2, <1>4, <1>5, <1>6 DEF ValueAt, StorageInv, TypeOK
  <1>8. \A j \in Keys : ValueAt(future[j])' = IF j = k THEN Absent ELSE ValueAt(future[j])
    BY <1>2, <1>3, <1>4, <1>5 DEF ValueAt, StorageInv, TypeOK
  <1> QED
    BY <1>7, <1>8 DEF storedMap, pendingMap

\* The empty storage is the empty database.
LEMMA InitMapped == Init => Database!DbInit
  BY DEF Init, Database!DbInit, Database!Keys, Database!Done, Done, Keys, ValueAt

\* A rejected command of the code is a rejected command of the database.
LEMMA RejectMapped ==
  ASSUME errorOut, UNCHANGED rpcs
  PROVE  Database!Reject
  <1>1. UNCHANGED <<storedMap, pendingMap>>
    BY MapsFrame DEF errorOut, hashVars
  <1> QED
    BY <1>1 DEF errorOut, hashVars, Database!Reject, Database!Rejected, Rejected,
       storedMap, pendingMap

\* Every step of the storage is a step of the database or a stutter.
LEMMA StepMapped == StorageInv /\ [Next]_vars => [Database!DbNext]_(Database!dbVars)
  <1> SUFFICES ASSUME StorageInv, [Next]_vars
               PROVE  Database!DbNext \/ UNCHANGED Database!dbVars
    OBVIOUS
  <1>0. /\ Database!Keys = Keys /\ Database!Val = Val
        /\ Database!Done = Done /\ Database!Rejected = Rejected /\ Database!Ignored = Ignored
        /\ \A v \in Val : Database!Answer(v) = Answer(v)
    BY DEF Database!Keys, Keys, Database!Val, Val, Database!Done, Done, Database!Rejected,
       Rejected, Database!Ignored, Ignored, Database!Answer, Answer
  <1>1. ASSUME NEW e \in Entities, NEW o \in Origins, EntityAdd(e, o)
        PROVE  \E owner \in BOOLEAN : Database!AddEntity(e, owner)
    <2>0. PICK owner \in BOOLEAN : owner <=> o = "EO_LOCAL"
      BY Zenon
    <2>1. UNCHANGED <<storedMap, pendingMap>>
      BY <1>1, MapsFrame DEF EntityAdd, errorOut, hashVars
    <2>2. Database!ForgetRpcs(e, owner)
      BY <1>1, <2>0 DEF EntityAdd, forgetRpcs, Database!ForgetRpcs
    <2>3. Database!AddEntity(e, owner)
      BY <1>0, <1>1, <2>1, <2>2
      DEF EntityAdd, errorOut, hashVars, Database!AddEntity, storedMap, pendingMap
    <2> QED
      BY <2>3
  <1>2. ASSUME NEW e \in Entities, NEW o \in Origins, EntityRemove(e, o)
        PROVE  \E owner \in BOOLEAN : Database!RemoveEntity(e, owner)
    <2>0. PICK owner \in BOOLEAN : owner <=> o = "EO_LOCAL"
      BY Zenon
    <2>1. Database!ForgetRpcs(e, owner)
      BY <1>2, <2>0 DEF EntityRemove, forgetRpcs, Database!ForgetRpcs
    <2>2. CASE e \notin entities
      <3>1. UNCHANGED <<storedMap, pendingMap>> /\ reply' = Rejected /\ UNCHANGED entities
        BY <1>2, <2>2, MapsFrame DEF EntityRemove, errorOut, hashVars
      <3>2. Database!RemoveEntity(e, owner)
        BY <1>0, <2>1, <2>2, <3>1 DEF Database!RemoveEntity, storedMap, pendingMap
      <3> QED
        BY <3>2
    <2>3. CASE e \in entities
      <3>1. /\ reply' = Done /\ entities' = entities \ {e}
            /\ db' = [k \in Keys |-> IF k[1] = e THEN Null ELSE db[k]]
            /\ UNCHANGED <<future, value>>
        BY <1>2, <2>3 DEF EntityRemove
      <3>2. UNCHANGED pendingMap
        BY <3>1 DEF pendingMap, ValueAt
      <3>3. storedMap' = [k \in Keys |-> IF k[1] = e THEN Absent ELSE storedMap[k]]
        BY <3>1 DEF storedMap, ValueAt
      <3>4. Database!RemoveEntity(e, owner)
        BY <1>0, <2>1, <2>3, <3>1, <3>2, <3>3 DEF Database!RemoveEntity, storedMap, pendingMap
      <3> QED
        BY <3>4
    <2> QED
      BY <2>2, <2>3
  <1>3. ASSUME NEW k \in Keys, NEW v \in Val, ComponentAdd(k, v)
        PROVE  Database!AddComponent(k, v)
    <2>1. CASE k[1] \notin entities \/ db[k] # Null
      <3>1. Database!Reject
        BY <1>3, <2>1, RejectMapped DEF ComponentAdd
      <3>2. k[1] \notin entities \/ storedMap[k] # Absent
        BY <2>1, AbsentIsNull
      <3> QED
        BY <3>1, <3>2 DEF Database!AddComponent, storedMap
    <2>2. CASE k[1] \in entities /\ db[k] = Null
      <3>1. insertComponentValue(k, v) /\ reply' = Done /\ UNCHANGED rpcs
        BY <1>3, <2>2 DEF ComponentAdd
      <3>2. /\ storedMap' = [storedMap EXCEPT ![k] = v]
            /\ pendingMap' = [pendingMap EXCEPT ![k] = Absent]
        BY <2>2, <3>1, InsertMapped
      <3>3. UNCHANGED entities
        BY <3>1 DEF insertComponentValue
      <3>4. storedMap[k] = Absent
        BY <2>2, AbsentIsNull
      <3> QED
        BY <1>0, <2>2, <3>1, <3>2, <3>3, <3>4 DEF Database!AddComponent, storedMap, pendingMap
    <2> QED
      BY <2>1, <2>2
  <1>4. ASSUME NEW k \in Keys, ComponentRemove(k)
        PROVE  Database!RemoveComponent(k)
    <2>1. CASE k[1] \notin entities \/ db[k] = Null
      <3>1. Database!Reject
        BY <1>4, <2>1, RejectMapped DEF ComponentRemove
      <3>2. storedMap[k] = Absent
        BY <2>1, AbsentIsNull DEF StorageInv, StoredBelowEntity
      <3> QED
        BY <3>1, <3>2 DEF Database!RemoveComponent, storedMap
    <2>2. CASE k[1] \in entities /\ db[k] # Null
      <3>1. /\ db' = [db EXCEPT ![k] = Null] /\ reply' = Done
            /\ UNCHANGED <<entities, future, value, rpcs>>
        BY <1>4, <2>2 DEF ComponentRemove, errorOut
      <3>2. UNCHANGED pendingMap
        BY <3>1 DEF pendingMap, ValueAt
      <3>3. storedMap' = [storedMap EXCEPT ![k] = Absent]
        BY <3>1 DEF storedMap, ValueAt, StorageInv, TypeOK
      <3>4. storedMap[k] # Absent
        BY <2>2, AbsentIsNull
      <3> QED
        BY <1>0, <3>1, <3>2, <3>3, <3>4 DEF Database!RemoveComponent, storedMap, pendingMap
    <2> QED
      BY <2>1, <2>2
  <1>5. ASSUME NEW k \in Keys, NEW v \in Val, ComponentSet(k, v)
        PROVE  Database!SetComponent(k, v)
    <2>1. CASE v = Invalid
      <3>1. reply' = Ignored /\ UNCHANGED <<entities, db, future, value, rpcs>>
        BY <1>5, <2>1 DEF ComponentSet, hashVars
      <3>2. UNCHANGED <<storedMap, pendingMap>>
        BY <3>1, MapsFrame
      <3> QED
        BY <1>0, <2>1, <3>1, <3>2 DEF Database!SetComponent, storedMap, pendingMap
    <2>2. CASE v # Invalid /\ (k[1] \notin entities \/ db[k] = Null)
      <3>1. Database!Reject
        BY <1>5, <2>2, RejectMapped DEF ComponentSet
      <3>2. storedMap[k] = Absent
        BY <2>2, AbsentIsNull DEF StorageInv, StoredBelowEntity
      <3> QED
        BY <2>2, <3>1, <3>2 DEF Database!SetComponent, storedMap
    <2>3. CASE v # Invalid /\ k[1] \in entities /\ db[k] # Null
      <3>1. /\ value' = [value EXCEPT ![db[k]] = v] /\ reply' = Done
            /\ UNCHANGED <<entities, db, future, rpcs>>
        BY <1>5, <2>3 DEF ComponentSet, setValue, hashVars
      <3>2. storedMap' = [storedMap EXCEPT ![k] = v] /\ UNCHANGED pendingMap
        BY <2>3, <3>1, WriteStored
      <3>3. storedMap[k] # Absent
        BY <2>3, AbsentIsNull
      <3> QED
        BY <1>0, <2>3, <3>1, <3>2, <3>3 DEF Database!SetComponent, storedMap, pendingMap
    <2> QED
      BY <2>1, <2>2, <2>3
  <1>6. ASSUME NEW k \in Keys, NEW v \in Val, ComponentFetch(k, v)
        PROVE  Database!FetchComponent(k, v)
    <2>1. CASE k[1] \notin entities \/ (db[k] = Null /\ future[k] = Null)
      <3>1. Database!Reject
        BY <1>6, <2>1, RejectMapped DEF ComponentFetch
      <3>2. k[1] \notin entities \/ (storedMap[k] = Absent /\ pendingMap[k] = Absent)
        BY <2>1, AbsentIsNull
      <3> QED
        BY <3>1, <3>2 DEF Database!FetchComponent, storedMap, pendingMap
    <2>2. CASE k[1] \in entities /\ (db[k] # Null \/ future[k] # Null)
      <3> DEFINE found == IF storedMap[k] # Absent THEN storedMap[k] ELSE pendingMap[k]
      <3>1. UNCHANGED <<entities, db, future, value, rpcs>>
        BY <1>6, <2>2 DEF ComponentFetch, hashVars
      <3>2. found \in Val /\ found # Absent /\ reply' = rewrite(v, found)
        BY <1>6, <2>2, AbsentIsNull, AbsentAssumption DEF ComponentFetch
      <3>3. UNCHANGED <<storedMap, pendingMap>>
        BY <3>1, MapsFrame
      <3>4. reply' = Database!Answer(IF found = Invalid THEN v ELSE found)
        BY <1>0, <3>2 DEF rewrite, Val
      <3> QED
        BY <2>2, <3>1, <3>2, <3>3, <3>4 DEF Database!FetchComponent, storedMap, pendingMap
    <2> QED
      BY <2>1, <2>2
  <1>7. ASSUME NEW e \in Entities, NEW r \in RpcNames, RpcRegister(e, r)
        PROVE  Database!RegisterRpc(e, r)
    <2>1. CASE r \in rpcs[e]
      BY <1>7, <2>1, RejectMapped DEF RpcRegister, Database!RegisterRpc
    <2>2. CASE r \notin rpcs[e]
      <3>1. UNCHANGED <<storedMap, pendingMap>>
        BY <1>7, <2>2, MapsFrame DEF RpcRegister, hashVars
      <3> QED
        BY <1>0, <1>7, <2>2, <3>1
        DEF RpcRegister, hashVars, Database!RegisterRpc, storedMap, pendingMap
    <2> QED
      BY <2>1, <2>2
  <1>8. ASSUME NEW h \in Consumers, getFutureComponent(h)
        PROVE  Database!OpenFuture(Watches[h]) \/ UNCHANGED Database!dbVars
    <2> DEFINE k == Watches[h]
    <2>1. k \in Keys
      OBVIOUS
    <2>2. CASE db[k] # Null \/ future[k] # Null
      <3>1. UNCHANGED <<entities, db, future, value, rpcs, reply>>
        BY <1>8, <2>2 DEF getFutureComponent, hold, hashVars
      <3>2. UNCHANGED <<storedMap, pendingMap>>
        BY <3>1, MapsFrame
      <3> QED
        BY <3>1, <3>2 DEF Database!dbVars, storedMap, pendingMap
    <2>3. CASE db[k] = Null /\ future[k] = Null
      <3>1. /\ makeComponent(Invalid)
            /\ future' = [future EXCEPT ![k] = created + 1]
            /\ UNCHANGED <<entities, db, rpcs, reply>>
        BY <1>8, <2>3 DEF getFutureComponent
      <3>2. \A j \in Keys : /\ db[j] # Null => db[j] \in 1..created
                            /\ future[j] # Null => future[j] \in 1..created
        BY DEF StorageInv, TypeOK
      <3>3. /\ created + 1 # Null
            /\ \A o \in 1..created : value'[o] = value[o]
            /\ value'[created + 1] = Invalid
        BY <3>1, MakeStep DEF Val, StorageInv, TypeOK
      <3>4. UNCHANGED storedMap
        BY <3>1, <3>2, <3>3 DEF storedMap, ValueAt
      <3>5. \A j \in Keys : ValueAt(future[j])' = IF j = k THEN Invalid ELSE ValueAt(future[j])
        BY <3>1, <3>2, <3>3 DEF ValueAt, StorageInv, TypeOK
      <3>6. pendingMap' = [pendingMap EXCEPT ![k] = Invalid]
        BY <3>5 DEF pendingMap
      <3>7. storedMap[k] = Absent /\ pendingMap[k] = Absent
        BY <2>1, <2>3, AbsentIsNull
      <3> QED
        BY <3>1, <3>4, <3>6, <3>7 DEF Database!OpenFuture, storedMap, pendingMap
    <2> QED
      BY <2>2, <2>3
  <1>9. ASSUME NEW h \in Consumers, findComponent(h) \/ Release(h)
        PROVE  UNCHANGED Database!dbVars
    <2>1. UNCHANGED <<entities, db, future, value, rpcs, reply>>
      BY <1>9 DEF findComponent, hold, Release, hashVars
    <2>2. UNCHANGED <<storedMap, pendingMap>>
      BY <2>1, MapsFrame
    <2> QED
      BY <2>1, <2>2 DEF Database!dbVars, storedMap, pendingMap
  <1>10. ASSUME NEW h \in Consumers, NEW v \in Val, DirectWrite(h, v)
         PROVE  (\E k \in Keys : Database!WriteDirect(k, v)) \/ UNCHANGED Database!dbVars
    <2>1. /\ held[h] # Null
          /\ value' = [value EXCEPT ![held[h]] = v]
          /\ UNCHANGED <<entities, db, future, rpcs, reply>>
      BY <1>10 DEF DirectWrite, setValue, hashVars
    <2>2. ASSUME NEW k \in Keys, db[k] = held[h]
          PROVE  Database!WriteDirect(k, v)
      <3>1. storedMap' = [storedMap EXCEPT ![k] = v] /\ UNCHANGED pendingMap
        BY <2>1, <2>2, WriteStored
      <3>2. storedMap[k] # Absent
        BY <2>1, <2>2, AbsentIsNull
      <3> QED
        BY <2>1, <3>1, <3>2 DEF Database!WriteDirect, storedMap, pendingMap
    <2>3. ASSUME NEW k \in Keys, future[k] = held[h]
          PROVE  Database!WriteDirect(k, v)
      <3>1. pendingMap' = [pendingMap EXCEPT ![k] = v] /\ UNCHANGED storedMap
        BY <2>1, <2>3, WritePending
      <3>2. pendingMap[k] # Absent
        BY <2>1, <2>3, AbsentIsNull
      <3> QED
        BY <2>1, <3>1, <3>2 DEF Database!WriteDirect, storedMap, pendingMap
    <2>4. CASE \A k \in Keys : db[k] # held[h] /\ future[k] # held[h]
      <3>1. \A j \in Keys : /\ db[j] # Null => db[j] \in Objects
                            /\ future[j] # Null => future[j] \in Objects
        BY DEF StorageInv, TypeOK, Objects
      <3>2. \A j \in Keys : /\ ValueAt(db[j])' = ValueAt(db[j])
                            /\ ValueAt(future[j])' = ValueAt(future[j])
        BY <2>1, <2>4, <3>1 DEF ValueAt, StorageInv, TypeOK
      <3> QED
        BY <2>1, <3>2 DEF Database!dbVars
    <2> QED
      BY <2>2, <2>3, <2>4
  <1>11. CASE UNCHANGED vars
    <2>1. UNCHANGED <<storedMap, pendingMap>>
      BY <1>11, MapsFrame DEF vars
    <2> QED
      BY <1>11, <2>1 DEF vars, Database!dbVars, storedMap, pendingMap
  <1>12. Watches \in [Consumers -> Keys]
    OBVIOUS
  <1> QED
    BY <1>0, <1>1, <1>2, <1>3, <1>4, <1>5, <1>6, <1>7, <1>8, <1>9, <1>10, <1>11, <1>12
    DEF Next, Database!DbNext

\* The storage of the code, objects and pointers and all, implements the
\* abstract database for every instance: a rejected command leaves entities and
\* components alone, an accepted one changes its own key only.
THEOREM StorageImplementsDatabase == Spec => ImplementsDatabase
  BY InitMapped, StepMapped, StorageInvariant, PTL DEF Spec, ImplementsDatabase, Database!DbSpec

-----------------------------------------------------------------------------
(***************************************************************************)
(* The recorder on the storage.  That it records what the components of    *)
(* its keys show rests on the invariant of the storage and on the pointers *)
(* it got when it was constructed: they are the stored or the future       *)
(* objects of its keys and stay so until the component is removed, whoever *)
(* else holds and writes them.                                             *)
(***************************************************************************)

\* The recorder's object is the component of its key, or will become it.
Follows(h) ==
  LET k == Watches[h] IN
  held[h] = IF db[k] = Null THEN future[k] ELSE db[k]
PointersFollow ==
  /\ \A h \in Pointers : held[h] # Null /\ Watches[h] \notin removed => Follows(h)
  /\ logging => Constructed

IsSequence(s) == \E S : s \in Seq(S)

\* Windows end where Factor divides the number of records; before the first
\* one the interpolation has nothing, after it no end is missed.
WindowsEnd ==
  /\ count \in Nat /\ count % Factor = 0
  /\ averages = <<>> => count = 0
  /\ averages # <<>> => attached /\ count > 0
  /\ \A i \in DOMAIN averages : averages[i].to \in Nat
  /\ WindowsFollow

\* The clock runs, so records are in the order of their times.
RecordsTimed ==
  /\ now \in Nat
  /\ records # <<>> => first \in Nat /\ first <= now
  /\ \A i \in DOMAIN records : records[i].time \in Nat /\ records[i].time <= now - first
  /\ \A i, j \in DOMAIN records : i <= j => records[i].time <= records[j].time

\* Every window lies within the records, which are still those it averaged.
AveragesTimed ==
  \A i \in DOMAIN averages :
    LET w == averages[i] IN
    /\ w.from \in Nat /\ w.to \in 1..Len(records)
    /\ w.to - w.from = Factor => w.time \in records[w.from + 1].time..records[w.to].time

RecorderInv ==
  /\ StorageInv /\ PointersFollow
  /\ IsSequence(records) /\ IsSequence(averages) /\ WindowsEnd
  /\ RecordsTimed /\ AveragesTimed

-----------------------------------------------------------------------------
(* The storage under the recorder                                          *)

\* A step of the recorder is one of the storage or leaves it alone.
LEMMA RecorderStorageStep ==
  ASSUME StorageInv, [RecorderNext]_allVars
  PROVE  /\ StorageInv' /\ [Next]_vars
         /\ \/ \E h \in Pointers : setupVeinLoggedComponents(h)
            \/ StorageStep
            \/ UNCHANGED <<vars, removed>> /\ (logging' => logging \/ Constructed)
<1>0. Pointers \subseteq Consumers /\ Writers \subseteq Consumers
  BY RecorderAssumption DEF Pointers
<1>1. StorageStep => Next
  BY <1>0 DEF StorageStep, Next
<1>2. (\E h \in Pointers : setupVeinLoggedComponents(h)) => Next
  BY <1>0 DEF setupVeinLoggedComponents, Next
<1>3. \/ \E h \in Pointers : setupVeinLoggedComponents(h)
      \/ StorageStep
      \/ UNCHANGED <<vars, removed>> /\ (logging' => logging \/ Constructed)
  BY DEF RecorderNext, startLogging, stopLogging, StorageRecorderInterpolation, Tick, allVars, recVars
<1>4. [Next]_vars
  BY <1>1, <1>2, <1>3
<1>5. QED BY <1>3, <1>4, StorageInvStep

\* Neither vein nor another holder moves a pointer of the recorder, and a step
\* that removes a component writes none.
LEMMA CommandStep ==
  ASSUME StorageInv, StorageStep
  PROVE  /\ \A h \in Pointers : held'[h] = held[h]
         /\ (\E k \in Keys : db[k] # Null /\ db'[k] = Null) => value' = value /\ future' = future
<1> USE DEF StorageInv, TypeOK
<1>0. Pointers \subseteq Consumers /\ \A h \in Pointers : h \notin Writers
  BY DEF Pointers
<1>1. ASSUME NEW e \in Entities, NEW o \in Origins, EntityAdd(e, o) \/ EntityRemove(e, o)
      PROVE  UNCHANGED <<held, future, value>>
  BY <1>1 DEF EntityAdd, EntityRemove, errorOut, hashVars
<1>2. ASSUME NEW j \in Keys, ComponentRemove(j) PROVE UNCHANGED <<held, future, value>>
  BY <1>2 DEF ComponentRemove, errorOut, hashVars
<1>3. ASSUME NEW j \in Keys, NEW v \in Val, ComponentSet(j, v) PROVE UNCHANGED <<held, db>>
  BY <1>3 DEF ComponentSet, errorOut, hashVars
<1>4. ASSUME NEW j \in Keys, NEW v \in Val, ComponentAdd(j, v)
      PROVE  held' = held /\ \A k \in Keys : db[k] # Null => db'[k] # Null
  <2>1. CASE errorOut
    BY <2>1 DEF errorOut, hashVars
  <2>2. CASE insertComponentValue(j, v) /\ held' = held
    <3>1. PICK o \in 1..MaxObjects : db' = [db EXCEPT ![j] = o]
      BY <2>2 DEF insertComponentValue, makeComponent
    <3>2. QED BY <2>2, <3>1
  <2>3. QED BY <1>4, <2>1, <2>2 DEF ComponentAdd
<1>5. ASSUME NEW w \in Writers, getFutureComponent(w) \/ findComponent(w)
      PROVE  db' = db /\ \A h \in Pointers : held'[h] = held[h]
  BY <1>0, <1>5 DEF getFutureComponent, findComponent, hold, hashVars
<1>6. ASSUME NEW w \in Writers, NEW v \in Val, DirectWrite(w, v) PROVE UNCHANGED <<held, db>>
  BY <1>6 DEF DirectWrite, hashVars
<1>7. ASSUME NEW w \in Writers, Release(w)
      PROVE  db' = db /\ \A h \in Pointers : held'[h] = held[h]
  BY <1>0, <1>7 DEF Release, hashVars
<1>8. QED BY <1>1, <1>2, <1>3, <1>4, <1>5, <1>6, <1>7 DEF StorageStep

\* The constructor takes the component of a key as it is.
LEMMA ConstructStep ==
  ASSUME StorageInv, NEW h \in Pointers, setupVeinLoggedComponents(h)
  PROVE  /\ db' = db /\ removed' = removed /\ logging' = logging
         /\ \A k \in Keys : future[k] # Null => future'[k] = future[k]
         /\ \A g \in Pointers : g # h => held'[g] = held[g]
         /\ held'[h] # Null /\ held[h] = Null
         /\ held'[h] = IF db[Watches[h]] = Null THEN future'[Watches[h]] ELSE db[Watches[h]]
<1>0. h \in Consumers /\ \A g \in Pointers : g \in Consumers
  BY DEF Pointers
<1>1. PICK k \in Keys : k = Watches[h]
  BY <1>0
<1>2. /\ getFutureComponent(h) /\ removed' = removed /\ logging' = logging /\ held[h] = Null
      /\ held \in [Consumers -> 0..created] /\ future \in [Keys -> 0..created]
      /\ created \in Nat
  BY DEF setupVeinLoggedComponents, recVars, StorageInv, TypeOK
<1>3. CASE db[k] # Null /\ hold(h, db[k])
  BY <1>0, <1>1, <1>2, <1>3 DEF hold, hashVars
<1>4. CASE db[k] = Null /\ future[k] # Null /\ hold(h, future[k])
  BY <1>0, <1>1, <1>2, <1>4 DEF hold, hashVars
<1>5. CASE /\ db[k] = Null /\ future[k] = Null
           /\ future' = [future EXCEPT ![k] = created + 1]
           /\ held' = [held EXCEPT ![h] = created + 1]
           /\ db' = db
  BY <1>0, <1>1, <1>2, <1>5
<1>6. QED BY <1>1, <1>2, <1>3, <1>4, <1>5 DEF getFutureComponent

\* A removal is remembered; any other step leaves the recorder's object the
\* component of its key, promoted from the future or not.
LEMMA PointersKeep ==
  ASSUME StorageInv, PointersFollow, [RecorderNext]_allVars
  PROVE  PointersFollow'
<1>0. StorageInv' /\ [Next]_vars
  BY RecorderStorageStep
<1>1. CASE UNCHANGED <<vars, removed>> /\ (logging' => logging \/ Constructed)
  BY <1>1 DEF vars, PointersFollow, Follows, Constructed
<1>2. CASE \E h \in Pointers : setupVeinLoggedComponents(h)
  <2>1. PICK h \in Pointers : setupVeinLoggedComponents(h)
    BY <1>2
  <2>2. /\ db' = db /\ removed' = removed /\ logging' = logging
        /\ \A k \in Keys : future[k] # Null => future'[k] = future[k]
        /\ \A g \in Pointers : g # h => held'[g] = held[g]
        /\ held'[h] # Null /\ held[h] = Null
        /\ held'[h] = IF db[Watches[h]] = Null THEN future'[Watches[h]] ELSE db[Watches[h]]
    BY <2>1, ConstructStep
  <2>3. ASSUME NEW g \in Pointers, held'[g] # Null, Watches[g] \notin removed' PROVE Follows(g)'
    <3>1. CASE g = h
      BY <2>2, <3>1 DEF Follows
    <3>2. CASE g # h
      <4>1. held'[g] = held[g] /\ Follows(g)
        BY <2>2, <2>3, <3>2 DEF PointersFollow
      <4>2. Watches[g] \in Keys
        BY DEF Pointers
      <4>3. QED BY <2>2, <2>3, <4>1, <4>2 DEF Follows
    <3>3. QED BY <3>1, <3>2
  <2>4. logging' => Constructed'
    BY <2>2 DEF PointersFollow, Constructed
  <2>5. QED BY <2>3, <2>4 DEF PointersFollow
<1>3. CASE StorageStep
  <2>1. \A h \in Pointers : held'[h] = held[h]
    BY <1>3, CommandStep
  <2>2. /\ removed' = removed \cup {k \in Keys : Constructed /\ db[k] # Null /\ db'[k] = Null}
        /\ ~Constructing /\ logging' = logging
    BY <1>3 DEF StorageStep, onTrigger
  <2>3. logging' => Constructed'
    BY <2>1, <2>2 DEF PointersFollow, Constructed
  <2>4. ASSUME NEW h \in Pointers, held'[h] # Null, Watches[h] \notin removed' PROVE Follows(h)'
    <3>1. PICK k \in Keys : k = Watches[h]
      BY DEF Pointers
    <3>2. Constructed
      BY <2>1, <2>2, <2>4 DEF Constructing
    <3>3. /\ held[h] # Null /\ held[h] = IF db[k] = Null THEN future[k] ELSE db[k]
          /\ ~(db[k] # Null /\ db'[k] = Null)
      BY <2>1, <2>2, <2>4, <3>1, <3>2 DEF PointersFollow, Follows
    <3>4. /\ db[k] # Null => db'[k] \in {db[k], Null}
          /\ future[k] # Null => future'[k] = future[k] \/ db'[k] = future[k]
      BY <1>0, MapStep
    <3>5. db'[k] = Null \/ future'[k] = Null
      BY <1>0 DEF StorageInv, StoredOrFuture
    <3>6. held[h] = IF db'[k] = Null THEN future'[k] ELSE db'[k]
      BY <3>3, <3>4, <3>5
    <3>7. QED BY <2>1, <3>1, <3>6 DEF Follows
  <2>5. QED BY <2>3, <2>4 DEF PointersFollow
<1>4. QED BY <1>1, <1>2, <1>3, RecorderStorageStep

-----------------------------------------------------------------------------
(* The windows of the interpolation                                        *)

LEMMA MultipleOf ==
  ASSUME NEW F \in Nat \ {0}, NEW n \in Nat, n % F = 0
  PROVE  \E a \in Nat : n = F * a
  OBVIOUS

LEMMA MultipleMod ==
  ASSUME NEW F \in Nat \ {0}, NEW a \in Nat
  PROVE  (F * a) % F = 0
  OBVIOUS

LEMMA NextMultiple ==
  ASSUME NEW F \in Nat \ {0}, NEW c \in Nat, c % F = 0
  PROVE  /\ (c + F) % F = 0
         /\ \A n \in Nat : n % F = 0 /\ n > c => n >= c + F
<1>1. PICK a \in Nat : c = F * a
  BY MultipleOf
<1>2. c + F = F * (a + 1)
  BY <1>1
<1>3. (c + F) % F = 0
  <2>1. PICK b \in Nat : b = a + 1
    OBVIOUS
  <2>2. (F * b) % F = 0
    BY MultipleMod
  <2>3. QED BY <1>2, <2>1, <2>2
<1>4. ASSUME NEW n \in Nat, n % F = 0, n > c PROVE n >= c + F
  <2>1. PICK b \in Nat : n = F * b
    BY <1>4, MultipleOf
  <2>2. b >= a + 1
    BY <1>1, <1>4, <2>1
  <2>3. F * b >= F * (a + 1)
    BY <2>2
  <2>4. QED BY <1>2, <2>1, <2>3
<1>5. QED BY <1>3, <1>4

LEMMA Appended ==
  ASSUME NEW s, IsSequence(s), NEW x
  PROVE  /\ IsSequence(Append(s, x)) /\ Len(s) \in Nat /\ Len(Append(s, x)) = Len(s) + 1
         /\ DOMAIN s = 1..Len(s) /\ DOMAIN Append(s, x) = 1..(Len(s) + 1)
         /\ Append(s, x)[Len(s) + 1] = x /\ \A i \in 1..Len(s) : Append(s, x)[i] = s[i]
         /\ Append(s, x) # <<>> /\ Last(Append(s, x)) = x
<1>1. PICK S : s \in Seq(S)
  BY DEF IsSequence
<1>2. PICK T : T = S \cup {x}
  OBVIOUS
<1>3. s \in Seq(T) /\ x \in T
  BY <1>1, <1>2
<1>4. Append(s, x) \in Seq(T) /\ Len(Append(s, x)) = Len(s) + 1 /\ Len(s) \in Nat
  BY <1>3
<1>5. /\ DOMAIN s = 1..Len(s) /\ DOMAIN Append(s, x) = 1..(Len(s) + 1)
      /\ Append(s, x)[Len(s) + 1] = x /\ \A i \in 1..Len(s) : Append(s, x)[i] = s[i]
  BY <1>3, <1>4
<1>6. Append(s, x) # <<>>
  BY <1>5
<1>7. Last(Append(s, x)) = x
  BY <1>4, <1>5 DEF Last
<1>8. QED BY <1>4, <1>5, <1>6, <1>7 DEF IsSequence

\* One more record: it ends a window, or none of the numbers in between does.
LEMMA RecordCounted ==
  ASSUME IsSequence(records), IsSequence(averages), WindowsEnd, NEW r, IsSequence(r),
         Len(r) = Len(records) + 1, records' = r, onNewValueRecorded(r), attached' = attached
  PROVE  IsSequence(averages') /\ WindowsEnd'
<1>0. /\ count \in Nat /\ Len(records) \in Nat /\ Factor \in Nat \ {0}
      /\ DOMAIN averages = 1..Len(averages) /\ Len(averages) \in Nat
  BY RecorderAssumption, Appended DEF WindowsEnd
<1>1. PICK n \in Nat : n = Len(r) /\ n = Len(records) + 1
  BY <1>0
<1>2. count < n /\ (averages # <<>> => n <= count + Factor)
  BY <1>0, <1>1 DEF WindowsEnd, WindowsFollow
<1>3. CASE attached /\ n % Factor = 0
  <2>1. PICK w : w = calculateJsonAverage(r, count, n)
    OBVIOUS
  <2>2. w.from = count /\ w.to = n
    BY <2>1 DEF calculateJsonAverage
  <2>3. averages' = Append(averages, w) /\ count' = n
    BY <1>0, <1>1, <1>2, <1>3, <2>1 DEF onNewValueRecorded
  <2>4. /\ IsSequence(averages') /\ DOMAIN averages' = 1..(Len(averages) + 1) /\ averages' # <<>>
        /\ Last(averages') = w /\ averages'[Len(averages) + 1] = w
        /\ \A i \in 1..Len(averages) : averages'[i] = averages[i]
    BY <2>3, Appended
  <2>5. averages # <<>> => n = count + Factor
    <3>1. count % Factor = 0
      BY DEF WindowsEnd
    <3>2. n >= count + Factor
      BY <1>0, <1>2, <1>3, <3>1, NextMultiple
    <3>3. QED BY <1>0, <1>2, <3>2
  <2>6. averages # <<>> => count = averages[Len(averages)].to /\ Len(averages) > 0
    BY <1>0 DEF WindowsEnd, WindowsFollow, Last
  <2>7. averages = <<>> => Len(averages) = 0 /\ count = 0
    BY <1>0 DEF WindowsEnd
  <2>8. ASSUME NEW i \in DOMAIN averages'
        PROVE  /\ averages'[i].to \in Nat
               /\ averages'[i].from = (IF i = 1 THEN 0 ELSE averages'[i - 1].to)
               /\ i > 1 => averages'[i].to - averages'[i].from = Factor
    <3>1. CASE i \in 1..Len(averages)
      <4>1. averages'[i] = averages[i] /\ (i > 1 => averages'[i - 1] = averages[i - 1])
        BY <1>0, <2>4, <3>1
      <4>2. QED BY <1>0, <3>1, <4>1 DEF WindowsEnd, WindowsFollow
    <3>2. CASE i = Len(averages) + 1
      <4>1. CASE averages = <<>>
        BY <2>2, <2>4, <2>7, <3>2, <4>1
      <4>2. CASE averages # <<>>
        <5>1. i > 1 /\ averages'[i - 1] = averages[Len(averages)]
          BY <1>0, <2>4, <2>6, <3>2, <4>2
        <5>2. QED BY <1>0, <2>2, <2>4, <2>5, <2>6, <3>2, <4>2, <5>1
      <4>3. QED BY <4>1, <4>2
    <3>3. QED BY <1>0, <2>4, <3>1, <3>2
  <2>9. /\ count' \in Nat /\ count' % Factor = 0 /\ count' > 0 /\ count' = Last(averages').to
        /\ count' = Len(records') /\ Len(records') - count' < Factor
    BY <1>0, <1>1, <1>3, <2>2, <2>3, <2>4
  <2>10. QED BY <1>3, <2>4, <2>8, <2>9 DEF WindowsEnd, WindowsFollow
<1>4. CASE ~(attached /\ n % Factor = 0)
  <2>1. UNCHANGED <<count, averages>>
    BY <1>0, <1>1, <1>4 DEF onNewValueRecorded
  <2>2. averages # <<>> => n < count + Factor
    BY <1>0, <1>2, <1>4, NextMultiple DEF WindowsEnd
  <2>3. count <= Len(records') /\ (averages # <<>> => Len(records') - count < Factor)
    BY <1>0, <1>1, <1>2, <2>2
  <2>4. QED BY <2>1, <2>3 DEF WindowsEnd, WindowsFollow
<1>5. QED BY <1>3, <1>4

\* Windows go with the records they are made of.
LEMMA WindowsKeep ==
  ASSUME IsSequence(records), IsSequence(averages), WindowsEnd, [RecorderNext]_allVars
  PROVE  IsSequence(records') /\ IsSequence(averages') /\ WindowsEnd'
<1>0. Len(records) \in Nat /\ count \in Nat /\ Factor \in Nat \ {0}
  BY RecorderAssumption, Appended DEF WindowsEnd
<1>1. ASSUME UNCHANGED <<records, count, averages>>, attached => attached'
      PROVE  IsSequence(records') /\ IsSequence(averages') /\ WindowsEnd'
  BY <1>1 DEF WindowsEnd, WindowsFollow
<1>2. CASE startLogging
  <2>1. IsSequence(<<>>) /\ Len(<<>>) = 0 /\ 0 % Factor = 0
    <3>1. <<>> \in Seq({})
      OBVIOUS
    <3>2. QED BY <1>0, <3>1 DEF IsSequence
  <2>2. records' = <<>>
    BY <1>2 DEF startLogging
  <2>3. averages' = <<>> /\ count' = 0
    <3>1. CASE records = <<>>
      BY <1>0, <1>2, <2>1, <3>1 DEF startLogging, WindowsEnd, WindowsFollow
    <3>2. CASE records # <<>> /\ attached
      BY <1>2, <2>1, <3>2 DEF startLogging, onNewValueRecorded
    <3>3. CASE records # <<>> /\ ~attached
      BY <1>2, <3>3 DEF startLogging, onNewValueRecorded, WindowsEnd
    <3>4. QED BY <3>1, <3>2, <3>3
  <2>4. QED BY <2>1, <2>2, <2>3 DEF WindowsEnd, WindowsFollow
<1>3. CASE StorageStep
  <2>1. attached' = attached
    BY <1>3 DEF StorageStep, onTrigger
  <2>2. CASE UNCHANGED <<records, count, averages>>
    BY <1>1, <2>1, <2>2
  <2>3. ASSUME NEW x, records' = Append(records, x), onNewValueRecorded(records')
        PROVE  IsSequence(records') /\ IsSequence(averages') /\ WindowsEnd'
    <3>1. PICK r : r = Append(records, x)
      OBVIOUS
    <3>2. IsSequence(r) /\ Len(r) = Len(records) + 1
      BY <3>1, Appended
    <3>3. records' = r /\ onNewValueRecorded(r)
      BY <2>3, <3>1
    <3>4. QED BY <2>1, <3>2, <3>3, RecordCounted
  <2>4. QED BY <1>3, <2>2, <2>3 DEF StorageStep, onTrigger
<1>4. CASE stopLogging \/ Tick \/ UNCHANGED allVars
  BY <1>1, <1>4 DEF stopLogging, Tick, allVars, recVars, avgVars
<1>5. CASE StorageRecorderInterpolation
  BY <1>1, <1>5 DEF StorageRecorderInterpolation, recVars
<1>6. CASE \E h \in Pointers : setupVeinLoggedComponents(h)
  BY <1>1, <1>6 DEF setupVeinLoggedComponents, recVars, avgVars
<1>7. QED BY <1>2, <1>3, <1>4, <1>5, <1>6 DEF RecorderNext

-----------------------------------------------------------------------------
(* Average times                                                           *)

LEMMA Induction ==
  ASSUME NEW X, 0 \in X, \A n \in Nat : n \in X => n + 1 \in X
  PROVE  Nat \subseteq X
<1> DEFINE T == Nat \ X
<1>1. SUFFICES ASSUME T # {} PROVE FALSE
  OBVIOUS
<1>2. T \subseteq Nat
  OBVIOUS
<1>3. PICK n \in T : \A i \in T : ~(<<i, n>> \in OpToRel(<, Nat))
  <2> HIDE DEF T
  <2>1. QED BY <1>1, <1>2, NatLessThanWellFounded, WFMin
<1>4. \A i \in T : ~(i < n)
  BY <1>2, <1>3 DEF OpToRel
<1>5. n \in Nat /\ n \notin X /\ n # 0
  <2>1. n \in Nat /\ n \notin X
    BY <1>3
  <2>2. QED BY <2>1, Zenon
<1>6. n - 1 \in Nat /\ n - 1 < n /\ n = (n - 1) + 1
  BY <1>5
<1>7. n - 1 \in X
  BY <1>4, <1>6
<1>8. QED BY <1>5, <1>6, <1>7

\* f holds the sums of the first k numbers of t and less.
AreSums(t, k, f) == f \in [0..k -> Int] /\ f[0] = 0 /\ \A i \in 1..k : f[i] = f[i - 1] + t[i]

LEMMA SumsExist ==
  ASSUME NEW n \in Nat, NEW t \in [1..n -> Int]
  PROVE  \E f : AreSums(t, n, f)
<1> DEFINE X == {k \in Nat : k <= n => \E f : AreSums(t, k, f)}
<1>1. 0 \in X
  <2>1. PICK g : g = [i \in 0..0 |-> 0]
    OBVIOUS
  <2>2. AreSums(t, 0, g)
    BY <2>1 DEF AreSums
  <2>3. QED BY <2>2
<1>2. ASSUME NEW k \in Nat, k \in X PROVE k + 1 \in X
  <2> SUFFICES ASSUME k + 1 <= n PROVE \E f : AreSums(t, k + 1, f)
    OBVIOUS
  <2>0. PICK f : AreSums(t, k, f)
    BY <1>2
  <2>1. f \in [0..k -> Int] /\ f[0] = 0 /\ \A i \in 1..k : f[i] = f[i - 1] + t[i]
    BY <2>0 DEF AreSums
  <2>2. t[k + 1] \in Int /\ f[k] \in Int
    BY <2>1
  <2>3. PICK g : g = [i \in 0..(k + 1) |-> IF i = k + 1 THEN f[k] + t[k + 1] ELSE f[i]]
    OBVIOUS
  <2>4. g \in [0..(k + 1) -> Int] /\ g[0] = 0
    BY <2>1, <2>2, <2>3
  <2>5. ASSUME NEW i \in 1..(k + 1) PROVE g[i] = g[i - 1] + t[i]
    <3>1. CASE i = k + 1
      <4>1. g[i] = f[k] + t[k + 1] /\ g[i - 1] = f[k]
        BY <2>3, <3>1
      <4>2. QED BY <3>1, <4>1
    <3>2. CASE i # k + 1
      <4>1. i \in 1..k /\ g[i] = f[i] /\ g[i - 1] = f[i - 1]
        BY <2>3, <3>2
      <4>2. QED BY <2>1, <4>1
    <3>3. QED BY <3>1, <3>2
  <2>6. AreSums(t, k + 1, g)
    BY <2>4, <2>5 DEF AreSums
  <2>7. QED BY <2>6
<1>3. Nat \subseteq X
  <2> HIDE DEF X
  <2>1. QED BY <1>1, <1>2, Induction
<1>4. n \in X
  BY <1>3
<1>5. QED BY <1>4

LEMMA AddedValsUnfolds ==
  ASSUME NEW n \in Nat, NEW t \in [1..n -> Int], Len(t) = n
  PROVE  addedVals(t) = [i \in 0..Len(t) |-> IF i = 0 THEN 0 ELSE addedVals(t)[i - 1] + t[i]]
<1>0. PICK f : AreSums(t, n, f)
  BY SumsExist
<1>1. f \in [0..n -> Int] /\ f[0] = 0 /\ \A i \in 1..n : f[i] = f[i - 1] + t[i]
  BY <1>0 DEF AreSums
<1>2. f = [i \in 0..n |-> IF i = 0 THEN 0 ELSE f[i - 1] + t[i]]
  BY <1>1
<1>3. \E h : h = [i \in 0..Len(t) |-> IF i = 0 THEN 0 ELSE h[i - 1] + t[i]]
  BY <1>2
<1>4. QED BY <1>3, Zenon DEF addedVals

\* A sum of n numbers of lo..hi is one of n*lo..n*hi.
LEMMA SumWithin ==
  ASSUME NEW n \in Nat, NEW lo \in Nat, NEW hi \in Nat, NEW t \in [1..n -> lo..hi], Len(t) = n
  PROVE  addedVals(t)[n] \in (n * lo)..(n * hi)
<1> DEFINE a == addedVals(t)
           X == {k \in Nat : k <= n => a[k] \in (k * lo)..(k * hi)}
<1>1. t \in [1..n -> Int]
  OBVIOUS
<1>2. /\ a[0] = 0
      /\ \A k \in Nat : k + 1 <= n => a[k + 1] = a[k] + t[k + 1]
  <2>1. a = [i \in 0..Len(t) |-> IF i = 0 THEN 0 ELSE a[i - 1] + t[i]]
    BY <1>1, AddedValsUnfolds
  <2> HIDE DEF a
  <2>2. \A i \in 0..n : a[i] = IF i = 0 THEN 0 ELSE a[i - 1] + t[i]
    BY <2>1
  <2>3. ASSUME NEW k \in Nat, k + 1 <= n PROVE a[k + 1] = a[k] + t[k + 1]
    <3>1. k + 1 \in 0..n /\ k + 1 # 0 /\ (k + 1) - 1 = k
      BY <2>3
    <3>2. QED BY <2>2, <3>1
  <2>4. QED BY <2>2, <2>3
<1> HIDE DEF a
<1>3. 0 \in X
  BY <1>2
<1>4. ASSUME NEW k \in Nat, k \in X PROVE k + 1 \in X
  <2> SUFFICES ASSUME k + 1 <= n PROVE a[k + 1] \in ((k + 1) * lo)..((k + 1) * hi)
    OBVIOUS
  <2>1. a[k] \in (k * lo)..(k * hi) /\ t[k + 1] \in lo..hi /\ a[k + 1] = a[k] + t[k + 1]
    BY <1>2, <1>4
  <2>2. (k + 1) * lo = k * lo + lo /\ (k + 1) * hi = k * hi + hi
    OBVIOUS
  <2>3. k * lo \in Nat /\ k * hi \in Nat
    OBVIOUS
  <2>4. QED BY <2>1, <2>2, <2>3
<1>5. Nat \subseteq X
  <2> HIDE DEF X
  <2>1. QED BY <1>3, <1>4, Induction
<1>6. n \in X
  BY <1>5
<1>7. QED BY <1>6 DEF a

LEMMA Quotient ==
  ASSUME NEW F \in Nat \ {0}, NEW lo \in Nat, NEW hi \in Nat, NEW s \in (F * lo)..(F * hi)
  PROVE  s \div F \in lo..hi
<1>1. F * lo \in Nat /\ F * hi \in Nat /\ s \in Nat
  OBVIOUS
<1>2. PICK q \in Int, r \in 0..(F - 1) : q = s \div F /\ s = F * q + r
  <2>1. s \div F \in Int /\ s % F \in 0..(F - 1) /\ s = F * (s \div F) + (s % F)
    BY <1>1
  <2>2. QED BY <2>1
<1>3. ASSUME q < lo PROVE FALSE
  <2>1. q + 1 <= lo
    BY <1>3
  <2>2. F * (q + 1) <= F * lo
    BY <2>1
  <2>3. F * (q + 1) = F * q + F
    OBVIOUS
  <2>4. QED BY <1>1, <1>2, <2>2, <2>3
<1>4. ASSUME q > hi PROVE FALSE
  <2>1. hi + 1 <= q
    BY <1>4
  <2>2. F * (hi + 1) <= F * q
    BY <2>1
  <2>3. F * (hi + 1) = F * hi + F
    OBVIOUS
  <2>4. QED BY <1>1, <1>2, <2>2, <2>3
<1>5. QED BY <1>2, <1>3, <1>4

\* The time of a window of Factor records is within the times of its records.
LEMMA AverageWithin ==
  ASSUME NEW r, NEW from \in Nat, NEW to \in Nat, to - from = Factor,
         \A i \in 1..to : r[i].time \in Nat,
         \A i, j \in 1..to : i <= j => r[i].time <= r[j].time
  PROVE  calculateJsonAverage(r, from, to).time \in r[from + 1].time..r[to].time
<1>0. Factor \in Nat \ {0}
  BY RecorderAssumption
<1>1. PICK t : t = [i \in 1..to - from |-> r[from + i].time]
  OBVIOUS
<1>2. PICK lo \in Nat, hi \in Nat : lo = r[from + 1].time /\ hi = r[to].time
  <2>1. from + 1 \in 1..to /\ to \in 1..to
    BY <1>0
  <2>2. QED BY <2>1
<1>3. ASSUME NEW i \in 1..Factor PROVE r[from + i].time \in lo..hi
  <2>1. from + i \in 1..to /\ from + 1 \in 1..to /\ to \in 1..to /\ from + 1 <= from + i /\ from + i <= to
    BY <1>0
  <2>2. QED BY <1>2, <2>1
<1>4. t \in [1..Factor -> lo..hi]
  BY <1>0, <1>1, <1>3
<1>5. Len(t) = Factor
  <2>1. t \in Seq(lo..hi)
    BY <1>0, <1>4
  <2>2. QED BY <1>0, <1>4, <2>1
<1>6. addedVals(t)[Factor] \in (Factor * lo)..(Factor * hi)
  BY <1>0, <1>4, <1>5, SumWithin
<1>7. calculateTimeDiffAverage(t) \in lo..hi
  BY <1>0, <1>5, <1>6, Quotient DEF calculateTimeDiffAverage
<1>8. calculateJsonAverage(r, from, to).time = calculateTimeDiffAverage(t)
  BY <1>1 DEF calculateJsonAverage
<1>9. QED BY <1>2, <1>7, <1>8

\* Averages stay what they are when records are added.
LEMMA AveragesStay ==
  ASSUME IsSequence(records), AveragesTimed, NEW r, IsSequence(r), Len(r) >= Len(records),
         \A i \in 1..Len(records) : r[i] = records[i], NEW i \in DOMAIN averages
  PROVE  /\ averages[i].from \in Nat /\ averages[i].to \in 1..Len(r)
         /\ averages[i].to - averages[i].from = Factor =>
              averages[i].time \in r[averages[i].from + 1].time..r[averages[i].to].time
<1>0. Factor \in Nat \ {0} /\ Len(records) \in Nat /\ Len(r) \in Nat
  BY RecorderAssumption, Appended
<1>1. PICK from \in Nat, to \in 1..Len(records) : from = averages[i].from /\ to = averages[i].to
  BY DEF AveragesTimed
<1>2. ASSUME to - from = Factor
      PROVE  averages[i].time \in r[from + 1].time..r[to].time
  <2>1. from + 1 \in 1..Len(records)
    BY <1>0, <1>2
  <2>2. r[from + 1] = records[from + 1] /\ r[to] = records[to]
    BY <2>1
  <2>3. averages[i].time \in records[from + 1].time..records[to].time
    BY <1>1, <1>2 DEF AveragesTimed
  <2>4. QED BY <2>2, <2>3
<1>3. QED BY <1>0, <1>1, <1>2

\* One more record, made now.
LEMMA RecordTimed ==
  ASSUME IsSequence(records), RecordsTimed,
         NEW start, start = IF records = <<>> THEN now ELSE first, NEW x, x.time = now - start,
         NEW r, r = Append(records, x)
  PROVE  /\ start \in Nat /\ start <= now
         /\ \A i \in DOMAIN r : r[i].time \in Nat /\ r[i].time <= now - start
         /\ \A i, j \in DOMAIN r : i <= j => r[i].time <= r[j].time
<1>0. PICK n \in Nat : n = Len(records)
  BY Appended
<1>1. /\ DOMAIN records = 1..n /\ DOMAIN r = 1..(n + 1)
      /\ r[n + 1] = x /\ \A i \in 1..n : r[i] = records[i]
  BY <1>0, Appended
<1>2. start \in Nat /\ now \in Nat /\ start <= now
  BY DEF RecordsTimed
<1>3. x.time \in Nat /\ x.time <= now - start
  BY <1>2
<1>4. ASSUME NEW i \in 1..n
      PROVE  r[i].time \in Nat /\ r[i].time <= now - start
  <2>1. records # <<>>
    BY <1>1
  <2>2. start = first
    BY <2>1
  <2>3. QED BY <1>1, <2>2 DEF RecordsTimed
<1>5. ASSUME NEW i \in 1..(n + 1), NEW j \in 1..(n + 1), i <= j
      PROVE  r[i].time <= r[j].time
  <2>1. CASE j \in 1..n
    BY <1>1, <1>5, <2>1 DEF RecordsTimed
  <2>2. CASE i \in 1..n /\ j = n + 1
    BY <1>1, <1>4, <2>2
  <2>3. CASE i = n + 1 /\ j = n + 1
    BY <1>1, <1>3, <2>3
  <2>4. j \in 1..n \/ (i \in 1..n /\ j = n + 1) \/ (i = n + 1 /\ j = n + 1)
    BY <1>5
  <2>5. QED BY <2>1, <2>2, <2>3, <2>4, Zenon
<1>6. ASSUME NEW i \in 1..(n + 1) PROVE r[i].time \in Nat /\ r[i].time <= now - start
  <2>1. CASE i \in 1..n
    BY <1>4, <2>1
  <2>2. CASE i = n + 1
    BY <1>1, <1>3, <2>2
  <2>3. i \in 1..n \/ i = n + 1
    OBVIOUS
  <2>4. QED BY <2>1, <2>2, <2>3, Zenon
<1>7. QED BY <1>1, <1>2, <1>5, <1>6

\* The average it may end.
LEMMA WindowTimed ==
  ASSUME IsSequence(records), IsSequence(averages), count \in Nat, count <= Len(records),
         AveragesTimed, NEW x, NEW r, r = Append(records, x), onNewValueRecorded(r),
         \A i \in DOMAIN r : r[i].time \in Nat,
         \A i, j \in DOMAIN r : i <= j => r[i].time <= r[j].time
  PROVE  \A i \in DOMAIN averages' :
           /\ averages'[i].from \in Nat /\ averages'[i].to \in 1..Len(r)
           /\ averages'[i].to - averages'[i].from = Factor =>
                averages'[i].time \in r[averages'[i].from + 1].time..r[averages'[i].to].time
<1>0. PICK n \in Nat : n = Len(r) /\ n = Len(records) + 1
  BY Appended
<1>1. IsSequence(r) /\ DOMAIN r = 1..n /\ \A i \in 1..Len(records) : r[i] = records[i]
  BY <1>0, Appended
<1>2. ASSUME NEW i \in DOMAIN averages
      PROVE  /\ averages[i].from \in Nat /\ averages[i].to \in 1..Len(r)
             /\ averages[i].to - averages[i].from = Factor =>
                  averages[i].time \in r[averages[i].from + 1].time..r[averages[i].to].time
  <2>1. Len(r) >= Len(records)
    BY <1>0, Appended
  <2>2. QED BY <1>1, <2>1, AveragesStay
<1>3. CASE averages' = averages
  BY <1>2, <1>3
<1>4. ASSUME NEW w, w = calculateJsonAverage(r, count, n), averages' = Append(averages, w)
      PROVE  \A i \in DOMAIN averages' :
               /\ averages'[i].from \in Nat /\ averages'[i].to \in 1..Len(r)
               /\ averages'[i].to - averages'[i].from = Factor =>
                    averages'[i].time \in r[averages'[i].from + 1].time..r[averages'[i].to].time
  <2>1. w.from = count /\ w.to = n
    BY <1>4 DEF calculateJsonAverage
  <2>2. n - count = Factor => w.time \in r[count + 1].time..r[n].time
    <3>1. ASSUME n - count = Factor
          PROVE calculateJsonAverage(r, count, n).time \in r[count + 1].time..r[n].time
      BY <1>1, <3>1, AverageWithin
    <3>2. QED BY <1>4, <3>1
  <2>3. n \in 1..Len(r)
    BY <1>0, Appended
  <2>4. PICK a \in Nat : a = Len(averages)
    BY Appended
  <2>5. /\ DOMAIN averages = 1..a /\ DOMAIN averages' = 1..(a + 1) /\ averages'[a + 1] = w
        /\ \A i \in 1..a : averages'[i] = averages[i]
    BY <1>4, <2>4, Appended
  <2>6. ASSUME NEW i \in DOMAIN averages'
        PROVE  /\ averages'[i].from \in Nat /\ averages'[i].to \in 1..Len(r)
               /\ averages'[i].to - averages'[i].from = Factor =>
                    averages'[i].time \in r[averages'[i].from + 1].time..r[averages'[i].to].time
    <3>1. CASE i \in 1..a
      <4>1. averages'[i] = averages[i] /\ i \in DOMAIN averages
        BY <2>5, <3>1
      <4>2. QED BY <1>2, <4>1, Zenon
    <3>2. CASE i = a + 1
      <4>1. averages'[i] = w
        BY <2>5, <3>2
      <4>2. QED BY <2>1, <2>2, <2>3, <4>1
    <3>3. i \in 1..(a + 1)
      BY <2>5, Zenon
    <3>4. i \in 1..a \/ i = a + 1
      BY <3>3
    <3>5. QED BY <3>1, <3>2, <3>4, Zenon
  <2>7. QED BY <2>6
<1>5. CASE averages' = Append(averages, calculateJsonAverage(r, count, n))
  <2>1. PICK w : w = calculateJsonAverage(r, count, n)
    OBVIOUS
  <2>2. averages' = Append(averages, w)
    BY <1>5, <2>1
  <2>3. QED BY <1>4, <2>1, <2>2
<1>6. n # 0
  BY <1>0, Appended
<1>7. QED BY <1>0, <1>3, <1>5, <1>6 DEF onNewValueRecorded

\* Times go with the records.
LEMMA TimesKeep ==
  ASSUME IsSequence(records), IsSequence(averages), WindowsEnd, RecordsTimed, AveragesTimed,
         [RecorderNext]_allVars
  PROVE  RecordsTimed' /\ AveragesTimed'
<1>1. ASSUME UNCHANGED <<first, records, averages>>, now' \in Nat, now <= now'
      PROVE  RecordsTimed' /\ AveragesTimed'
  <2>1. AveragesTimed'
    BY <1>1 DEF AveragesTimed
  <2>2. ASSUME NEW i \in DOMAIN records
        PROVE  records[i].time \in Nat /\ records[i].time <= now' - first
    <3>1. records # <<>>
      <4>1. DOMAIN <<>> = {}
        OBVIOUS
      <4>2. QED BY <2>2, <4>1
    <3>2. PICK d \in Nat : d = records[i].time /\ d <= now - first
      BY <2>2 DEF RecordsTimed
    <3>3. QED BY <1>1, <3>1, <3>2 DEF RecordsTimed
  <2>3. records # <<>> => first \in Nat /\ first <= now'
    BY <1>1 DEF RecordsTimed
  <2>4. QED BY <1>1, <2>1, <2>2, <2>3 DEF RecordsTimed
<1>2. now \in Nat
  BY DEF RecordsTimed
<1>3. CASE startLogging
  <2>1. records' = <<>> /\ now' = now
    BY <1>3 DEF startLogging
  <2>2. averages' = <<>>
    <3>1. WindowsEnd'
      BY WindowsKeep DEF RecorderNext, startLogging
    <3>2. Len(records') = 0
      BY <2>1
    <3>3. count' = 0
      BY <3>1, <3>2 DEF WindowsEnd, WindowsFollow
    <3>4. QED BY <3>1, <3>3 DEF WindowsEnd
  <2>3. DOMAIN records' = {} /\ DOMAIN averages' = {}
    BY <2>1, <2>2
  <2>4. QED BY <1>2, <2>1, <2>3 DEF RecordsTimed, AveragesTimed
<1>4. CASE StorageStep
  <2>1. now' = now
    BY <1>4 DEF StorageStep, onTrigger
  <2>2. CASE UNCHANGED <<first, records, averages>>
    BY <1>1, <1>2, <2>1, <2>2
  <2>3. ASSUME NEW start, start = IF records = <<>> THEN now ELSE first,
               first' = start, records' = Append(records, createRecordEntry(start)),
               onNewValueRecorded(records')
        PROVE  RecordsTimed' /\ AveragesTimed'
    <3>1. PICK x : x = createRecordEntry(start)
      OBVIOUS
    <3>2. x.time = now - start
      BY <3>1 DEF createRecordEntry
    <3>3. PICK r : r = Append(records, x)
      OBVIOUS
    <3>4. records' = r /\ onNewValueRecorded(r) /\ r # <<>>
      BY <2>3, <3>1, <3>3, Appended
    <3>5. /\ start \in Nat /\ start <= now
          /\ \A i \in DOMAIN r : r[i].time \in Nat /\ r[i].time <= now - start
          /\ \A i, j \in DOMAIN r : i <= j => r[i].time <= r[j].time
      BY <2>3, <3>2, <3>3, RecordTimed
    <3>6. RecordsTimed'
      BY <1>2, <2>1, <2>3, <3>4, <3>5 DEF RecordsTimed
    <3>7. \A i \in DOMAIN averages' :
            /\ averages'[i].from \in Nat /\ averages'[i].to \in 1..Len(r)
            /\ averages'[i].to - averages'[i].from = Factor =>
                 averages'[i].time \in r[averages'[i].from + 1].time..r[averages'[i].to].time
      <4>1. count \in Nat /\ count <= Len(records)
        BY DEF WindowsEnd, WindowsFollow
      <4>2. QED BY <3>3, <3>4, <3>5, <4>1, WindowTimed
    <3>8. AveragesTimed'
      BY <3>4, <3>7 DEF AveragesTimed
    <3>9. QED BY <3>6, <3>8
  <2>4. QED BY <1>4, <2>2, <2>3 DEF StorageStep, onTrigger
<1>5. CASE stopLogging \/ StorageRecorderInterpolation \/ UNCHANGED allVars
  BY <1>1, <1>2, <1>5 DEF stopLogging, StorageRecorderInterpolation, allVars, recVars, avgVars
<1>6. CASE Tick
  BY <1>1, <1>2, <1>6 DEF Tick, recVars, avgVars
<1>7. CASE \E h \in Pointers : setupVeinLoggedComponents(h)
  BY <1>1, <1>2, <1>7 DEF setupVeinLoggedComponents, recVars, avgVars
<1>8. QED BY <1>3, <1>4, <1>5, <1>6, <1>7 DEF RecorderNext

-----------------------------------------------------------------------------
(* The recorder                                                            *)

LEMMA RecorderInvInit == RecorderInit => RecorderInv
<1> SUFFICES ASSUME RecorderInit PROVE RecorderInv
  OBVIOUS
<1>1. StorageInv
  BY StorageInvInit DEF RecorderInit
<1>2. PointersFollow
  BY DEF RecorderInit, Init, PointersFollow, Pointers
<1>4. records = <<>> /\ averages = <<>> /\ count = 0 /\ IsSequence(<<>>) /\ Len(<<>>) = 0
  <2>1. <<>> \in Seq({})
    OBVIOUS
  <2>2. QED BY <2>1 DEF RecorderInit, IsSequence
<1>5. WindowsEnd
  BY <1>4, RecorderAssumption DEF WindowsEnd, WindowsFollow
<1>6. RecordsTimed /\ AveragesTimed
  <2>1. DOMAIN records = {} /\ DOMAIN averages = {} /\ now = 0
    BY <1>4 DEF RecorderInit
  <2>2. QED BY <1>4, <2>1 DEF RecordsTimed, AveragesTimed
<1>7. QED BY <1>1, <1>2, <1>4, <1>5, <1>6 DEF RecorderInv

LEMMA RecorderInvStep == RecorderInv /\ [RecorderNext]_allVars => RecorderInv'
  BY RecorderStorageStep, PointersKeep, WindowsKeep, TimesKeep DEF RecorderInv

\* The windows of the averages follow each other without gap or overlap and
\* none is missing, and a window of Factor records has a time within its
\* records, for any factor, however often recording starts anew and whenever
\* the interpolation joins.
THEOREM AveragesSplit == RecorderSpec => []AveragesSplitRecords
<1>1. RecorderInv => AveragesSplitRecords
  BY DEF RecorderInv, WindowsEnd, AveragesTimed, AveragesSplitRecords
<1>2. QED BY <1>1, RecorderInvInit, RecorderInvStep, PTL DEF RecorderSpec

\* While its key is not removed, a pointer shows what the component shows.
LEMMA PointerShows ==
  ASSUME RecorderInv, NEW h \in Pointers, held[h] # Null, Watches[h] \notin removed
  PROVE  Current(Watches[h]) = value[held[h]]
<1>1. held[h] = IF db[Watches[h]] = Null THEN future[Watches[h]] ELSE db[Watches[h]]
  BY DEF RecorderInv, PointersFollow, Follows
<1>2. QED BY <1>1 DEF Current, ValueAt

LEMMA PointerShowsNext ==
  ASSUME RecorderInv', NEW h \in Pointers, held'[h] # Null, Watches[h] \notin removed'
  PROVE  Current(Watches[h])' = value'[held'[h]]
<1>1. held'[h] = IF db'[Watches[h]] = Null THEN future'[Watches[h]] ELSE db'[Watches[h]]
  BY DEF RecorderInv, PointersFollow, Follows
<1>2. QED BY <1>1 DEF Current, ValueAt

\* A step of the storage changes the trigger component to the trigger value
\* exactly if it changes the object of the recorder so.
LEMMA TriggerSeen ==
  ASSUME RecorderInv, StorageStep, logging, Watches[Trigger] \notin removed
  PROVE  Triggers <=> value'[held[Trigger]] = TriggerVal /\ value[held[Trigger]] # TriggerVal
<1>0. /\ RecorderInv' /\ Trigger \in Pointers /\ TriggerVal # Absent
  BY RecorderInvStep, RecorderAssumption, AbsentAssumption DEF RecorderNext, Val
<1>1. PICK k \in Keys : k = Watches[Trigger]
  BY <1>0 DEF Pointers
<1>2. held[Trigger] # Null /\ held'[Trigger] = held[Trigger] /\ Constructed
  BY <1>0, CommandStep DEF RecorderInv, PointersFollow, Constructed
<1>3. Current(k) = value[held[Trigger]]
  BY <1>0, <1>1, <1>2, PointerShows
<1>4. CASE k \notin removed'
  <2>1. Current(k)' = value'[held[Trigger]]
    BY <1>0, <1>1, <1>2, <1>4, PointerShowsNext
  <2>2. QED BY <1>1, <1>3, <2>1 DEF Triggers
<1>5. CASE k \in removed'
  <2>1. db[k] # Null /\ db'[k] = Null
    BY <1>1, <1>5 DEF StorageStep
  <2>2. value' = value /\ future' = future
    BY <2>1, CommandStep DEF RecorderInv
  <2>3. future[k] = Null
    BY <2>1 DEF RecorderInv, StorageInv, StoredOrFuture
  <2>4. Current(k)' = Absent
    BY <2>1, <2>2, <2>3 DEF Current, ValueAt
  <2>5. QED BY <1>0, <1>1, <2>2, <2>4 DEF Triggers
<1>6. QED BY <1>4, <1>5

\* While it logs, the recorder adds one record with the values of the components
\* whenever the trigger component changes to the trigger value, and only then,
\* for any number of recorded components, of other holders that write them, and
\* of components that were there before the recorder.
THEOREM RecordsWhatVeinShows == RecorderSpec => RecordsVein
<1> DEFINE Recording ==
      Watches[Trigger] \notin removed =>
        /\ Len(records') > Len(records) => logging /\ Triggers
        /\ logging /\ Triggers =>
             /\ Len(records') = Len(records) + 1
             /\ \A h \in Recorded :
                  Watches[h] \notin removed =>
                    Last(records').values[h] = ToFloat(Current(Watches[h])')
<1>1. ASSUME RecorderInv, [RecorderNext]_allVars, Watches[Trigger] \notin removed
      PROVE  Recording
  <2>0. /\ IsSequence(records) /\ Len(records) \in Nat /\ StorageInv /\ PointersFollow
        /\ Trigger \in Pointers /\ Watches[Trigger] \in Keys
    <3>1. IsSequence(records)
      BY <1>1 DEF RecorderInv
    <3>2. Len(records) \in Nat
      BY <3>1 DEF IsSequence
    <3>3. QED BY <1>1, <3>1, <3>2, RecorderAssumption DEF RecorderInv, Pointers
  <2>1. CASE ~StorageStep
    <3>1. Len(records') <= Len(records)
      <4>1. records' = records \/ records' = <<>>
        BY <1>1, <2>1 DEF RecorderNext, setupVeinLoggedComponents, startLogging, stopLogging,
           StorageRecorderInterpolation, Tick, allVars, recVars
      <4>2. QED BY <2>0, <4>1
    <3>2. ~(logging /\ Triggers)
      <4>1. CASE UNCHANGED vars
        BY <4>1 DEF Triggers, Current, ValueAt, vars
      <4>2. CASE \E h \in Pointers : setupVeinLoggedComponents(h)
        BY <2>0, <4>2 DEF setupVeinLoggedComponents, PointersFollow, Constructed
      <4>3. QED BY <1>1, <2>0, <2>1, <4>1, <4>2, RecorderStorageStep
    <3>3. QED BY <2>0, <3>1, <3>2
  <2>2. CASE StorageStep /\ ~(logging /\ Triggers)
    <3>1. ~(logging /\ value'[held[Trigger]] # value[held[Trigger]] /\ value'[held[Trigger]] = TriggerVal)
      BY <1>1, <2>2, TriggerSeen
    <3>2. records' = records
      BY <2>2, <3>1 DEF StorageStep, onTrigger
    <3>3. QED BY <2>0, <2>2, <3>2
  <2>3. CASE StorageStep /\ logging /\ Triggers
    <3>1. value'[held[Trigger]] = TriggerVal /\ value[held[Trigger]] # TriggerVal
      BY <1>1, <2>3, TriggerSeen
    <3>2. PICK start : records' = Append(records, createRecordEntry(start))
      BY <2>3, <3>1 DEF StorageStep, onTrigger
    <3>3. Len(records') = Len(records) + 1 /\ Last(records') = createRecordEntry(start)
      BY <2>0, <3>2, Appended
    <3>4. ASSUME NEW h \in Recorded, Watches[h] \notin removed
          PROVE  Last(records').values[h] = ToFloat(Current(Watches[h])')
      <4>1. /\ h \in Pointers /\ Watches[h] \in Keys /\ RecorderInv'
            /\ held'[h] = held[h] /\ held[h] # Null
        BY <1>1, <2>0, <2>3, RecorderInvStep, CommandStep
           DEF Recorded, Pointers, PointersFollow, Constructed
      <4>2. Watches[h] \notin removed'
        <5>1. CASE \E k \in Keys : db[k] # Null /\ db'[k] = Null
          BY <2>0, <2>3, <3>1, <5>1, CommandStep
        <5>2. CASE ~\E k \in Keys : db[k] # Null /\ db'[k] = Null
          BY <2>3, <3>4, <5>2 DEF StorageStep
        <5>3. QED BY <5>1, <5>2
      <4>3. Current(Watches[h])' = value'[held[h]]
        BY <4>1, <4>2, PointerShowsNext
      <4>4. createRecordEntry(start).values[h] = ToFloat(value'[held[h]])
        BY DEF createRecordEntry
      <4>5. QED BY <3>3, <4>3, <4>4
    <3>5. QED BY <2>0, <2>3, <3>3, <3>4
  <2>4. QED BY <2>1, <2>2, <2>3
<1>2. QED BY <1>1, RecorderInvInit, RecorderInvStep, PTL DEF RecorderSpec, RecordsVein
=============================================================================
