---------------------------- MODULE VeinNetProofs ----------------------------
(***************************************************************************)
(* Proofs about server and clients, for any number of entities,            *)
(* components, peers and calls.                                            *)
(*                                                                         *)
(* No subscription outlives its entity: every stored component lies below  *)
(* an entity that exists, and introspection, which looks for components    *)
(* only, comes before NetworkSystem subscribes.                            *)
(*                                                                         *)
(* The storage follows the modules: the stored value of a component and    *)
(* the queued notifications about it end in the value of its module.       *)
(*                                                                         *)
(* The replicas converge: of all that is under way to a subscriber about a *)
(* component, the last thing that counts has the value of the storage or   *)
(* is a FETCH that will be given it; if there is none, the replica has it. *)
(***************************************************************************)
EXTENDS VeinNet, SequenceTheorems, TLAPS

\* A stored component belongs to an existing entity.
StoredBelowKnown == \A k \in Keys : stored[k] # Absent => k[1] \in known

\* The inductive invariant: it says nothing of the events in the queue.
SubscriptionInv ==
  /\ DOMAIN subscribed = Entities
  /\ DOMAIN stored = Keys
  /\ StoredBelowKnown
  /\ NoSneakingSubscription

USE DEF SubscriptionInv, StoredBelowKnown, NoSneakingSubscription, Keys

\* A step that leaves storage and subscriptions alone keeps the invariant.
LEMMA FrameKeeps ==
  ASSUME SubscriptionInv, UNCHANGED <<known, stored, subscribed, subKeys>>
  PROVE  SubscriptionInv'
  OBVIOUS

\* The initial state has no subscriptions, and entities for all components.
LEMMA SubscriptionInvInit == Init => SubscriptionInv
  BY InitAssumption DEF Init

\* A subscription is only added for an entity with a stored component.
LEMMA SubscribeKeeps ==
  ASSUME SubscriptionInv, dispatchSubscribe
  PROVE  SubscriptionInv'
  <1> DEFINE c == Validated(Head(queue))
  <1>1. UNCHANGED <<known, stored>>
    BY DEF dispatchSubscribe, dbVars
  <1>2. CASE ~HasComponents(c.ent)
    BY <1>1, <1>2, FrameKeeps DEF dispatchSubscribe, subVars
  <1>3. CASE HasComponents(c.ent)
    <2>1. PICK x \in Components : stored[<<c.ent, x>>] # Absent
      BY <1>3 DEF HasComponents
    <2>2. c.ent \in Entities => c.ent \in known
      BY <2>1
    <2>3. tryAddSubscription(c)
      BY <1>3 DEF dispatchSubscribe
    <2> HIDE DEF c
    <2>4. QED
      BY <1>1, <2>2, <2>3 DEF tryAddSubscription
  <1>4. QED
    BY <1>2, <1>3

\* UNSUBSCRIBE and a disconnect only take peers out of lists.
LEMMA DropPeerKeeps ==
  ASSUME SubscriptionInv, dispatchUnsubscribe \/ dispatchStatus
  PROVE  SubscriptionInv'
  <1>1. CASE dispatchUnsubscribe
    <2> DEFINE c == Validated(Head(queue))
    <2>1. dropSubscription(c) /\ UNCHANGED <<known, stored, subKeys>>
      BY <1>1 DEF dispatchUnsubscribe, dbVars
    <2> HIDE DEF c
    <2>2. QED
      BY <2>1 DEF dropSubscription
  <1>2. CASE dispatchStatus
    BY <1>2 DEF dispatchStatus, dbVars
  <1>3. QED
    BY <1>1, <1>2

\* An entity that is added keeps everything; one that is removed takes its
\* components and its subscriptions along in the same step.
LEMMA EntityKeeps ==
  ASSUME SubscriptionInv, dispatchEntityAdd \/ dispatchEntityRemove
  PROVE  SubscriptionInv'
  <1> DEFINE e == Head(queue).ent
  <1>1. CASE dispatchEntityAdd
    <2>1. AddEntity(e, TRUE) /\ UNCHANGED <<subscribed, subKeys>>
      BY <1>1 DEF dispatchEntityAdd, subVars
    <2> HIDE DEF e
    <2>2. QED
      BY <2>1 DEF AddEntity
  <1>2. CASE dispatchEntityRemove
    <2>1. /\ RemoveEntity(e, TRUE)
          /\ IF reply'.kind # "error" /\ e \in subKeys
               THEN dropEntity(e) ELSE UNCHANGED <<subscribed, subKeys>>
      BY <1>2 DEF dispatchEntityRemove, subVars
    <2> HIDE DEF e
    <2>2. CASE e \notin known
      <3>1. UNCHANGED <<known, stored>> /\ reply'.kind = "error"
        BY <2>1, <2>2 DEF RemoveEntity, Rejected
      <3>2. QED
        BY <2>1, <3>1, FrameKeeps
    <2>3. CASE e \in known
      <3>1. /\ known' = known \ {e}
            /\ stored' = [k \in Keys |-> IF k[1] = e THEN Absent ELSE stored[k]]
            /\ reply'.kind # "error"
        BY <2>1, <2>3 DEF RemoveEntity, Done
      <3>2. StoredBelowKnown' /\ DOMAIN stored' = Keys
        BY <3>1
      <3>3. DOMAIN subscribed' = Entities /\ NoSneakingSubscription'
        BY <2>1, <3>1 DEF dropEntity
      <3>4. QED
        BY <3>2, <3>3
    <2>4. QED
      BY <2>2, <2>3
  <1>3. QED
    BY <1>1, <1>2

\* Component events change stored components of existing entities only.
LEMMA ComponentKeeps ==
  ASSUME SubscriptionInv,
         \/ dispatchComponentAdd \/ dispatchComponentRemove
         \/ dispatchComponentSet \/ dispatchFetch
  PROVE  SubscriptionInv'
  <1> DEFINE k == <<Head(queue).ent, Head(queue).comp>>
  <1>1. UNCHANGED <<subscribed, subKeys>>
    BY DEF dispatchComponentAdd, dispatchComponentRemove, dispatchComponentSet,
           dispatchFetch, subVars
  <1>2. CASE dispatchComponentAdd
    <2>1. AddComponent(k, Head(queue).val)
      BY <1>2 DEF dispatchComponentAdd
    <2>2. known' = known /\ (stored' = stored \/ (k[1] \in known /\ stored' = [stored EXCEPT ![k] = Head(queue).val]))
      BY <2>1 DEF AddComponent, Reject
    <2> HIDE DEF k
    <2>3. QED
      BY <1>1, <2>2
  <1>3. CASE dispatchComponentRemove
    <2>1. RemoveComponent(k)
      BY <1>3 DEF dispatchComponentRemove
    <2> HIDE DEF k
    <2>2. QED
      BY <1>1, <2>1 DEF RemoveComponent, Reject
  <1>4. CASE dispatchComponentSet
    <2>1. SetComponent(k, Head(queue).val)
      BY <1>4 DEF dispatchComponentSet
    <2>2. known' = known /\ (stored' = stored \/ (stored[k] # Absent /\ stored' = [stored EXCEPT ![k] = Head(queue).val]))
      BY <2>1 DEF SetComponent, Reject
    <2> HIDE DEF k
    <2>3. QED
      BY <1>1, <2>2
  <1>5. CASE dispatchFetch
    <2>1. UNCHANGED <<known, stored>>
      BY <1>5 DEF dispatchFetch, FetchComponent, Reject
    <2>2. QED
      BY <1>1, <2>1, FrameKeeps
  <1>6. QED
    BY <1>2, <1>3, <1>4, <1>5

\* All other actions leave storage and subscriptions alone.
LEMMA OthersFrame ==
  ASSUME \/ dispatchClientSet \/ dispatchForwardOnly \/ dispatchRemote \/ dispatchLocal
         \/ ModuleCall
         \/ \E p \in Peers : ClientCall(p) \/ onMessageReceived(p) \/ clientReceive(p)
  PROVE  UNCHANGED <<known, stored, subscribed, subKeys>>
  <1>1. CASE dispatchClientSet \/ dispatchForwardOnly \/ dispatchRemote \/ dispatchLocal
    BY <1>1 DEF dispatchClientSet, dispatchForwardOnly, dispatchRemote, dispatchLocal,
                dbVars, subVars
  <1>2. CASE ModuleCall
    BY <1>2 DEF ModuleCall, initModule, removeEntity, removeComponent, createComponent,
                moduleSetValue, dbVars, subVars
  <1>3. ASSUME NEW p \in Peers, ClientCall(p) \/ onMessageReceived(p) \/ clientReceive(p)
        PROVE  UNCHANGED <<known, stored, subscribed, subKeys>>
    BY <1>3 DEF ClientCall, connectToServer, onClientDisconnected, sendSubscription,
                sendUnsubscription, startGetComponent, startSetComponent, request,
                onMessageReceived, clientReceive, receive, dbVars, subVars
  <1>4. QED
    BY <1>1, <1>2, <1>3

\* Every step of server, modules, links and clients keeps the invariant.
LEMMA SubscriptionInvStep == SubscriptionInv /\ [Next]_vars => SubscriptionInv'
  <1> SUFFICES ASSUME SubscriptionInv, [Next]_vars PROVE SubscriptionInv'
    OBVIOUS
  <1> USE DEF Next, Dispatch
  <1>1. CASE dispatchSubscribe
    BY <1>1, SubscribeKeeps
  <1>2. CASE dispatchUnsubscribe \/ dispatchStatus
    BY <1>2, DropPeerKeeps
  <1>3. CASE dispatchEntityAdd \/ dispatchEntityRemove
    BY <1>3, EntityKeeps
  <1>4. CASE \/ dispatchComponentAdd \/ dispatchComponentRemove
             \/ dispatchComponentSet \/ dispatchFetch
    BY <1>4, ComponentKeeps
  <1>5. CASE \/ dispatchClientSet \/ dispatchForwardOnly \/ dispatchRemote \/ dispatchLocal
             \/ ModuleCall
             \/ \E p \in Peers : ClientCall(p) \/ onMessageReceived(p) \/ clientReceive(p)
    BY <1>5, OthersFrame, FrameKeeps
  <1>6. CASE UNCHANGED vars
    BY <1>6, FrameKeeps DEF vars, dbVars, netVars
  <1> HIDE DEF SubscriptionInv
  <1>7. QED
    BY <1>1, <1>2, <1>3, <1>4, <1>5, <1>6

\* Whatever modules and clients do and however connections break, nobody is
\* subscribed to an entity that does not exist: "avoid subscriptions sneaking
\* into next session" in NetworkSystem::processCmdEvents.
THEOREM SubscriptionsEndWithEntity == Spec => []NoSneakingSubscription
  <1>1. SubscriptionInv => NoSneakingSubscription
    OBVIOUS
  <1> HIDE DEF SubscriptionInv, NoSneakingSubscription
  <1>2. QED
    BY <1>1, SubscriptionInvInit, SubscriptionInvStep, PTL DEF Spec

HIDE DEF SubscriptionInv, StoredBelowKnown, NoSneakingSubscription, Keys

-----------------------------------------------------------------------------
(* The storage follows the modules, and the replicas the storage           *)

Elems(q) == {q[i] : i \in DOMAIN q}

EntityKinds == {"SUBSCRIBE", "UNSUBSCRIBE", "E_ADD", "E_REMOVE"}
ComponentKinds == {"C_ADD", "C_REMOVE", "C_SET", "C_FETCH"}
RequestKinds == {"SUBSCRIBE", "UNSUBSCRIBE", "C_SET", "C_FETCH"}
Stored == Values \cup {Absent}

\* What the data of a command carries.
GoodData(d) ==
  /\ d.data \in EntityKinds => d.val = Invalid
  /\ d.data \in ComponentKinds => d.comp \in Components /\ d.val \in Val
  /\ d.data \in {"C_ADD", "C_SET"} => d.val \in Values
  /\ d.data = "INTRO" => d.val \in [Components -> MaybeVal]
  /\ d.data = "ERROR" => d.val \in Kinds

Payloads == Val \cup [Components -> MaybeVal] \cup Kinds
Messages ==
  {m \in [trans : BOOLEAN, data : Kinds, ent : Entities, comp : Components \cup {NoComponent},
          val : Payloads] : GoodData(m)}
Requests == {m \in Messages : m.trans /\ m.data \in RequestKinds}

\* A notification of a module or an introspection is meant for the network; a
\* subscription and its introspection name the peer.
Commands ==
  {c \in [ev : {"cmd"}, trans : BOOLEAN, out : BOOLEAN, data : Kinds, ent : Entities,
          comp : Components \cup {NoComponent}, val : Payloads, peer : Peers \cup {NoPeer}] :
     /\ GoodData(c)
     /\ c.trans => c.data \in RequestKinds
     /\ ~c.trans /\ c.data \in {"E_REMOVE", "C_ADD", "C_REMOVE", "C_SET", "INTRO"} => c.out
     /\ c.data \in {"SUBSCRIBE", "INTRO"} => c.peer \in Peers}
Remotes == [ev : {"remote"}, peer : Peers, msg : Requests \cup {Greeting}]
Locals == [ev : {"local"}, to : SUBSET Peers, msg : Messages]
Statuses == [ev : {"status"}, peer : Peers \cup {NoPeer}]
Events == Commands \cup Remotes \cup Locals \cup Statuses

Typed ==
  /\ known \subseteq Entities
  /\ stored \in [Keys -> Stored] /\ module \in [Keys -> Stored]
  /\ pending = [k \in Keys |-> Absent]
  /\ subKeys \subseteq Entities /\ subscribed \in [Entities -> SUBSET Peers]
  /\ peerState \in [Peers -> {"new", "waiting", "auth", "gone"}]
  /\ online \subseteq Peers /\ repEntities \in [Peers -> SUBSET Entities]
  /\ replica \in [Peers -> [Keys -> MaybeVal]] /\ refused \in [Peers -> SUBSET Keys]
  /\ queue \in Seq(Events)
  /\ up \in [Peers -> Seq(Requests \cup {Greeting})]
  /\ down \in [Peers -> Seq(Messages \cup {Greeting})]
  /\ ops \in 0..MaxOps

\* Links of the chain of key k: link 0 is the stored value, the others are the
\* queued events that will write it.
Writes(e, k) ==
  /\ e.ev = "cmd" /\ ~e.trans /\ e.ent = k[1]
  /\ e.data = "E_REMOVE" \/ (e.data \in {"C_ADD", "C_REMOVE", "C_SET"} /\ e.comp = k[2])
Written(e) == IF e.data \in {"C_ADD", "C_SET"} THEN e.val ELSE Absent
Link(q, k, i) == i = 0 \/ Writes(q[i], k)
Shown(q, s, i) == IF i = 0 THEN s ELSE Written(q[i])

\* The last link has the value of the module or removes the component, ...
Settled(q, k, s, x) ==
  \A i \in 0..Len(q) :
    Link(q, k, i) /\ (\A n \in (i + 1)..Len(q) : ~Writes(q[n], k)) => Shown(q, s, i) \in {Absent, x}

\* ... and a component is only added where the link before has removed it.
AddsToNothing(q, k, s) ==
  \A i \in 0..Len(q), j \in 1..Len(q) :
    /\ i < j /\ Link(q, k, i) /\ Writes(q[j], k) /\ q[j].data = "C_ADD"
    /\ \A n \in (i + 1)..(j - 1) : ~Writes(q[n], k)
    => Shown(q, s, i) = Absent

Chain(q, k, s, x) == Settled(q, k, s, x) /\ AddsToNothing(q, k, s)

StorageFollows == \A k \in Keys : Chain(queue, k, stored[k], module[k])

\* A message about component k on its way to a client, when the storage has
\* the value v: it brings v or takes the component away, or it is stale. A
\* snapshot counts as stale: a client that has the entity does not take it.
About(m, k) ==
  /\ m.ent = k[1]
  /\ \/ m.data \in {"UNSUBSCRIBE", "E_REMOVE"}
     \/ m.data \in ComponentKinds /\ m.comp = k[2]
     \/ m.data = "INTRO" /\ m.val[k[2]] # Absent
Good(m, k, v) ==
  About(m, k) /\ (m.data \in {"UNSUBSCRIBE", "E_REMOVE", "C_REMOVE"} \/ (m.data # "INTRO" /\ m.val = v))
Stale(m, k, v) == About(m, k) /\ ~Good(m, k, v)

GoodMessages(k, v) == {m \in Messages : Good(m, k, v)}
StaleMessages(k, v) == {m \in Messages : Stale(m, k, v)}
GoodLocals(p, k, v) == {e \in Locals : p \in e.to /\ Good(e.msg, k, v)}
StaleLocals(p, k, v) == {e \in Locals : p \in e.to /\ Stale(e.msg, k, v)}

EndsWell(q, G, B) == \E i \in DOMAIN q : q[i] \in G /\ \A j \in DOMAIN q : j > i => q[j] \notin B
Clean(q, B) == \A i \in DOMAIN q : q[i] \notin B

\* A FETCH the storage will answer with the value it has then.
Refetch(e, k) == e.ev = "cmd" /\ e.data = "C_FETCH" /\ e.ent = k[1] /\ e.comp = k[2]
Refetched(q, k) == \E e \in Elems(q) : Refetch(e, k)

\* The last that client p hears about component k is the value v: q is the
\* queue, d what is on the way to the client, x what it has, and R what it
\* refused. What is queued as a command arrives after all that is queued as a
\* message.
Fresh(q, d, x, R, p, k, v) ==
  \/ Refetched(q, k)
  \/ EndsWell(q, GoodLocals(p, k, v), StaleLocals(p, k, v))
  \/ /\ Clean(q, StaleLocals(p, k, v))
     /\ EndsWell(d, GoodMessages(k, v), StaleMessages(k, v))
  \/ /\ Clean(q, StaleLocals(p, k, v))
     /\ Clean(d, StaleMessages(k, v))
     /\ x \in {Absent, v} \/ k \in R

Obliged(p, k) == peerState[p] = "auth" /\ p \in subscribed[k[1]] /\ stored[k] # Absent
ReplicaFresh ==
  \A p \in Peers, k \in Keys :
    Obliged(p, k) => Fresh(queue, down[p], replica[p][k], refused[p], p, k, stored[k])

\* A snapshot in the queue is followed by a FETCH of everything in it.
Snapshot(e, k) == e.ev = "cmd" /\ e.data = "INTRO" /\ e.ent = k[1] /\ e.val[k[2]] # Absent
SnapshotsFetched ==
  \A k \in Keys : \A i \in DOMAIN queue :
    Snapshot(queue[i], k) => \E j \in DOMAIN queue : j > i /\ Refetch(queue[j], k)

\* Before its first message nothing in the server is about a peer, and a client
\* has values only of entities it has.
PeersArrive ==
  /\ \A p \in Peers : peerState[p] \in {"new", "waiting"} =>
       /\ \A e \in Entities : p \notin subscribed[e]
       /\ \A e \in Elems(queue) : e.ev \in {"cmd", "remote"} => e.peer # p
  /\ \A p \in Peers, k \in Keys : k[1] \notin repEntities[p] => replica[p][k] = Absent

NetInv ==
  /\ SubscriptionInv /\ Typed /\ StorageFollows
  /\ PeersArrive /\ SnapshotsFetched /\ ReplicaFresh

-----------------------------------------------------------------------------
(* Queues                                                                  *)

\* Positions of a queue whose first event was taken and to which others were
\* posted.
LEMMA Joined ==
  ASSUME NEW S, NEW q \in Seq(S), NEW r \in Seq(S)
  PROVE  /\ q \o r \in Seq(S) /\ Len(q) \in Nat /\ Len(r) \in Nat
         /\ Len(q \o r) = Len(q) + Len(r)
         /\ DOMAIN q = 1..Len(q) /\ DOMAIN r = 1..Len(r) /\ DOMAIN (q \o r) = 1..Len(q \o r)
         /\ \A i \in 1..Len(q) : (q \o r)[i] = q[i]
         /\ \A i \in 1..Len(r) : (q \o r)[Len(q) + i] = r[i]
         /\ \A i \in 1..Len(q \o r) : i \in 1..Len(q) \/ (i - Len(q) \in 1..Len(r) /\ (q \o r)[i] = r[i - Len(q)])
         /\ Elems(q \o r) = Elems(q) \cup Elems(r)
<1> DEFINE s == q \o r
<1>1. /\ s \in Seq(S) /\ Len(q) \in Nat /\ Len(r) \in Nat /\ Len(s) = Len(q) + Len(r)
      /\ DOMAIN q = 1..Len(q) /\ DOMAIN r = 1..Len(r) /\ DOMAIN s = 1..Len(s)
      /\ \A i \in 1..Len(s) : s[i] = IF i <= Len(q) THEN q[i] ELSE r[i - Len(q)]
  BY ConcatProperties
<1> HIDE DEF s
<1>2. /\ \A i \in 1..Len(q) : s[i] = q[i]
      /\ \A i \in 1..Len(r) : s[Len(q) + i] = r[i] /\ Len(q) + i \in 1..Len(s)
      /\ \A i \in 1..Len(s) : i \in 1..Len(q) \/ (i - Len(q) \in 1..Len(r) /\ s[i] = r[i - Len(q)])
  <2>1. ASSUME NEW i \in 1..Len(q) PROVE s[i] = q[i]
    BY <1>1
  <2>2. ASSUME NEW i \in 1..Len(r) PROVE s[Len(q) + i] = r[i] /\ Len(q) + i \in 1..Len(s)
    <3>1. Len(q) + i \in 1..Len(s) /\ ~(Len(q) + i <= Len(q)) /\ Len(q) + i - Len(q) = i
      BY <1>1
    <3>2. QED BY <3>1, <1>1
  <2>3. ASSUME NEW i \in 1..Len(s), i \notin 1..Len(q)
        PROVE  i - Len(q) \in 1..Len(r) /\ s[i] = r[i - Len(q)]
    BY <1>1, <2>3
  <2>4. QED BY <2>1, <2>2, <2>3
<1>3. \A x \in Elems(s) : x \in Elems(q) \cup Elems(r)
  BY <1>1, <1>2 DEF Elems
<1>4. \A x \in Elems(q) : x \in Elems(s)
  BY <1>1, <1>2 DEF Elems
<1>5. \A x \in Elems(r) : x \in Elems(s)
  BY <1>1, <1>2 DEF Elems
<1>6. QED BY <1>1, <1>2, <1>3, <1>4, <1>5 DEF s

LEMMA Taken ==
  ASSUME NEW S, NEW q \in Seq(S), q # <<>>
  PROVE  /\ Tail(q) \in Seq(S) /\ Head(q) \in S /\ Head(q) = q[1] /\ 1 \in DOMAIN q
         /\ Len(q) = Len(Tail(q)) + 1 /\ Len(Tail(q)) \in Nat
         /\ DOMAIN q = 1..Len(q) /\ DOMAIN Tail(q) = 1..Len(Tail(q))
         /\ \A i \in DOMAIN Tail(q) : Tail(q)[i] = q[i + 1] /\ i + 1 \in DOMAIN q
         /\ \A i \in DOMAIN q : i = 1 \/ (i - 1 \in DOMAIN Tail(q) /\ q[i] = Tail(q)[i - 1])
         /\ Elems(q) = Elems(Tail(q)) \cup {Head(q)}
<1> DEFINE r == Tail(q)
<1>1. /\ r \in Seq(S) /\ Len(q) = Len(r) + 1 /\ Len(r) \in Nat /\ Head(q) \in S
      /\ DOMAIN r = 1..Len(r) /\ DOMAIN q = 1..Len(q)
      /\ q[1] = Head(q) /\ \A i \in 1..Len(r) : r[i] = q[i + 1]
  BY HeadTailProperties
<1> HIDE DEF r
<1>2. /\ \A i \in DOMAIN r : r[i] = q[i + 1] /\ i + 1 \in DOMAIN q
      /\ \A i \in DOMAIN q : i = 1 \/ (i - 1 \in DOMAIN r /\ q[i] = r[i - 1])
      /\ 1 \in DOMAIN q
  BY <1>1
<1>3. \A x \in Elems(q) : x \in Elems(r) \cup {Head(q)}
  BY <1>1, <1>2 DEF Elems
<1>4. \A x \in Elems(r) : x \in Elems(q)
  BY <1>1, <1>2 DEF Elems
<1>5. Head(q) \in Elems(q)
  BY <1>1, <1>2 DEF Elems
<1>6. QED BY <1>1, <1>2, <1>3, <1>4, <1>5 DEF r

LEMMA ElemsTyped ==
  ASSUME NEW S, NEW q \in Seq(S)
  PROVE  Elems(q) \subseteq S
  BY DEF Elems

LEMMA OneEvent ==
  ASSUME NEW S, NEW e \in S
  PROVE  /\ <<e>> \in Seq(S) /\ Len(<<e>>) = 1 /\ Elems(<<e>>) = {e} /\ <<e>>[1] = e
         /\ <<>> \in Seq(S) /\ Elems(<<>>) = {}
  BY DEF Elems

LEMMA ElemsMoved ==
  ASSUME NEW S, NEW q \in Seq(S), q # <<>>, NEW r \in Seq(S)
  PROVE  Elems(Tail(q) \o r) = Elems(Tail(q)) \cup Elems(r)
<1>1. Tail(q) \in Seq(S)
  BY Taken
<1>2. QED BY <1>1, Joined

LEMMA WellJoined ==
  ASSUME NEW S, NEW q \in Seq(S), NEW r \in Seq(S), NEW G, NEW B
  PROVE  /\ Clean(q, B) /\ Clean(r, B) => Clean(q \o r, B)
         /\ EndsWell(q, G, B) /\ Clean(r, B) => EndsWell(q \o r, G, B)
         /\ EndsWell(r, G, B) => EndsWell(q \o r, G, B)
<1> DEFINE s == q \o r
<1>1. /\ Len(q) \in Nat /\ Len(r) \in Nat /\ Len(s) = Len(q) + Len(r)
      /\ DOMAIN q = 1..Len(q) /\ DOMAIN r = 1..Len(r) /\ DOMAIN s = 1..Len(s)
      /\ \A i \in 1..Len(q) : s[i] = q[i]
      /\ \A i \in 1..Len(r) : s[Len(q) + i] = r[i]
      /\ \A i \in 1..Len(s) : i \in 1..Len(q) \/ (i - Len(q) \in 1..Len(r) /\ s[i] = r[i - Len(q)])
  BY Joined
<1> HIDE DEF s
<1>2. Clean(q, B) /\ Clean(r, B) => Clean(s, B)
  BY <1>1 DEF Clean
<1>3. ASSUME EndsWell(q, G, B), Clean(r, B) PROVE EndsWell(s, G, B)
  <2>1. PICK i \in DOMAIN q : q[i] \in G /\ \A j \in DOMAIN q : j > i => q[j] \notin B
    BY <1>3 DEF EndsWell
  <2>2. i \in DOMAIN s /\ s[i] \in G
    BY <2>1, <1>1
  <2>3. ASSUME NEW j \in DOMAIN s, j > i PROVE s[j] \notin B
    BY <2>1, <2>3, <1>1, <1>3 DEF Clean
  <2>4. QED BY <2>2, <2>3 DEF EndsWell
<1>4. ASSUME EndsWell(r, G, B) PROVE EndsWell(s, G, B)
  <2>1. PICK i \in DOMAIN r : r[i] \in G /\ \A j \in DOMAIN r : j > i => r[j] \notin B
    BY <1>4 DEF EndsWell
  <2>2. Len(q) + i \in DOMAIN s /\ s[Len(q) + i] \in G
    BY <2>1, <1>1
  <2>3. ASSUME NEW j \in DOMAIN s, j > Len(q) + i PROVE s[j] \notin B
    <3>1. j - Len(q) \in DOMAIN r /\ s[j] = r[j - Len(q)] /\ j - Len(q) > i
      BY <2>3, <1>1
    <3>2. QED BY <2>1, <3>1
  <2>4. QED BY <2>2, <2>3 DEF EndsWell
<1>5. QED BY <1>2, <1>3, <1>4 DEF s

LEMMA WellTaken ==
  ASSUME NEW S, NEW q \in Seq(S), q # <<>>, NEW G, NEW B
  PROVE  /\ Clean(q, B) => Clean(Tail(q), B) /\ Head(q) \notin B
         /\ EndsWell(q, G, B) => EndsWell(Tail(q), G, B) \/ (Head(q) \in G /\ Clean(Tail(q), B))
<1> DEFINE r == Tail(q)
<1>1. /\ Head(q) = q[1] /\ 1 \in DOMAIN q
      /\ Len(q) = Len(r) + 1 /\ Len(r) \in Nat
      /\ DOMAIN q = 1..Len(q) /\ DOMAIN r = 1..Len(r)
      /\ \A i \in DOMAIN r : r[i] = q[i + 1] /\ i + 1 \in DOMAIN q
      /\ \A i \in DOMAIN q : i = 1 \/ (i - 1 \in DOMAIN r /\ q[i] = r[i - 1])
  BY Taken
<1> HIDE DEF r
<1>2. Clean(q, B) => Clean(r, B) /\ Head(q) \notin B
  BY <1>1 DEF Clean
<1>3. ASSUME EndsWell(q, G, B) PROVE EndsWell(r, G, B) \/ (Head(q) \in G /\ Clean(r, B))
  <2>1. PICK i \in DOMAIN q : q[i] \in G /\ \A j \in DOMAIN q : j > i => q[j] \notin B
    BY <1>3 DEF EndsWell
  <2>2. CASE i = 1
    BY <2>1, <2>2, <1>1 DEF Clean
  <2>3. CASE i # 1
    <3>1. i - 1 \in DOMAIN r /\ r[i - 1] \in G
      BY <2>1, <2>3, <1>1
    <3>2. \A j \in DOMAIN r : j > i - 1 => r[j] \notin B
      BY <2>1, <1>1
    <3>3. QED BY <3>1, <3>2 DEF EndsWell
  <2>4. QED BY <2>2, <2>3
<1>4. QED BY <1>2, <1>3 DEF r

-----------------------------------------------------------------------------
(* Chains                                                                  *)

\* Events that write nothing do not touch the chain.
LEMMA ChainPosted ==
  ASSUME NEW q \in Seq(Events), NEW r \in Seq(Events), NEW k, NEW s, NEW x,
         \A e \in Elems(r) : ~Writes(e, k), Chain(q, k, s, x)
  PROVE  Chain(q \o r, k, s, x)
<1> DEFINE t == q \o r
<1>1. /\ Len(q) \in Nat /\ Len(r) \in Nat /\ Len(t) = Len(q) + Len(r)
      /\ \A i \in 1..Len(q) : t[i] = q[i]
      /\ \A i \in 1..Len(t) : i \in 1..Len(q) \/ (i - Len(q) \in DOMAIN r /\ t[i] = r[i - Len(q)])
  BY Joined
<1> HIDE DEF t
<1>2. \A i \in 1..Len(t) : Writes(t[i], k) => i \in 1..Len(q)
  BY <1>1 DEF Elems
<1>3. \A i \in 0..Len(t) : Link(t, k, i) =>
        i \in 0..Len(q) /\ Link(q, k, i) /\ Shown(t, s, i) = Shown(q, s, i)
  BY <1>1, <1>2 DEF Link, Shown
<1>4. Settled(t, k, s, x)
  BY <1>1, <1>3 DEF Chain, Settled
<1>5. AddsToNothing(t, k, s)
  <2> SUFFICES ASSUME NEW i \in 0..Len(t), NEW j \in 1..Len(t), i < j, Link(t, k, i),
                      Writes(t[j], k), t[j].data = "C_ADD",
                      \A n \in (i + 1)..(j - 1) : ~Writes(t[n], k)
               PROVE  Shown(t, s, i) = Absent
    BY DEF AddsToNothing
  <2>1. j \in 1..Len(q) /\ t[j] = q[j]
    BY <1>1, <1>2
  <2>2. i \in 0..Len(q) /\ Link(q, k, i) /\ Shown(t, s, i) = Shown(q, s, i)
    BY <1>3
  <2>3. \A n \in (i + 1)..(j - 1) : ~Writes(q[n], k)
    BY <2>1, <2>2, <1>1
  <2>4. QED BY <2>1, <2>2, <2>3 DEF Chain, AddsToNothing
<1>6. QED BY <1>4, <1>5 DEF Chain, t

\* A notification is the new last link; an ADD needs a module that had nothing.
LEMMA ChainExtended ==
  ASSUME NEW q \in Seq(Events), NEW e \in Events, NEW k, NEW s, NEW x, NEW y,
         Writes(e, k), Written(e) \in {Absent, y}, e.data = "C_ADD" => x = Absent,
         Chain(q, k, s, x)
  PROVE  Chain(q \o <<e>>, k, s, y)
<1> DEFINE t == q \o <<e>>
<1>1. /\ Len(q) \in Nat /\ Len(t) = Len(q) + 1 /\ t[Len(q) + 1] = e
      /\ \A i \in 1..Len(q) : t[i] = q[i]
  <2>1. <<e>> \in Seq(Events) /\ Len(<<e>>) = 1 /\ <<e>>[1] = e
    BY OneEvent
  <2>2. QED BY <2>1, Joined
<1> HIDE DEF t
<1>2. \A i \in 0..Len(q) : (Link(t, k, i) <=> Link(q, k, i)) /\ Shown(t, s, i) = Shown(q, s, i)
  BY <1>1 DEF Link, Shown
<1>3. Settled(t, k, s, y)
  <2> SUFFICES ASSUME NEW i \in 0..Len(t), Link(t, k, i),
                      \A n \in (i + 1)..Len(t) : ~Writes(t[n], k)
               PROVE  Shown(t, s, i) \in {Absent, y}
    BY DEF Settled
  <2>1. i = Len(q) + 1
    BY <1>1
  <2>2. QED BY <2>1, <1>1 DEF Shown
<1>4. AddsToNothing(t, k, s)
  <2> SUFFICES ASSUME NEW i \in 0..Len(t), NEW j \in 1..Len(t), i < j, Link(t, k, i),
                      Writes(t[j], k), t[j].data = "C_ADD",
                      \A n \in (i + 1)..(j - 1) : ~Writes(t[n], k)
               PROVE  Shown(t, s, i) = Absent
    BY DEF AddsToNothing
  <2>0. i \in 0..Len(q) /\ Link(q, k, i) /\ Shown(t, s, i) = Shown(q, s, i)
    BY <1>1, <1>2
  <2>1. CASE j \in 1..Len(q)
    <3>1. q[j] = t[j] /\ \A n \in (i + 1)..(j - 1) : ~Writes(q[n], k)
      BY <2>1, <1>1
    <3>2. QED BY <2>0, <2>1, <3>1 DEF Chain, AddsToNothing
  <2>2. CASE j = Len(q) + 1
    <3>1. x = Absent
      BY <2>2, <1>1
    <3>2. \A n \in (i + 1)..Len(q) : ~Writes(q[n], k)
      BY <2>2, <1>1
    <3>3. QED BY <2>0, <3>1, <3>2 DEF Chain, Settled
  <2>3. QED BY <2>1, <2>2, <1>1
<1>5. QED BY <1>3, <1>4 DEF Chain, t

\* The storage takes the first link: it stores what the link says or, if the
\* event is rejected, has nothing.
LEMMA ChainTaken ==
  ASSUME NEW q \in Seq(Events), q # <<>>, NEW k, NEW s, NEW x, NEW t, Chain(q, k, s, x),
         IF Writes(Head(q), k) THEN t \in {Absent, Written(Head(q))} ELSE t = s
  PROVE  Chain(Tail(q), k, t, x)
<1> DEFINE r == Tail(q)
           at(i) == IF i = 0 /\ ~Writes(Head(q), k) THEN 0 ELSE i + 1
<1>1. /\ Len(q) = Len(r) + 1 /\ Len(r) \in Nat /\ q[1] = Head(q)
      /\ \A i \in 1..Len(r) : r[i] = q[i + 1]
  BY Taken
<1> HIDE DEF r
<1>2. \A i \in 0..Len(r) : /\ at(i) \in 0..Len(q)
                           /\ Link(r, k, i) => Link(q, k, at(i))
                           /\ Shown(r, t, i) \in {Absent, Shown(q, s, at(i))}
  BY <1>1 DEF Link, Shown
<1>3. ASSUME NEW i \in 0..Len(r), NEW n \in 0..Len(r),
             \A m \in (i + 1)..n : ~Writes(r[m], k)
      PROVE  \A m \in (at(i) + 1)..(n + 1) : ~Writes(q[m], k)
  <2> SUFFICES ASSUME NEW m \in (at(i) + 1)..(n + 1) PROVE ~Writes(q[m], k)
    OBVIOUS
  <2>1. CASE m = 1
    BY <2>1, <1>1
  <2>2. CASE m # 1
    <3>1. m - 1 \in (i + 1)..n
      BY <2>2
    <3>2. m - 1 \in 1..Len(r) /\ q[m] = r[m - 1]
      BY <3>1, <1>1
    <3>3. QED BY <3>1, <3>2, <1>3
  <2>3. QED BY <2>1, <2>2
<1>4. Settled(r, k, t, x)
  <2> SUFFICES ASSUME NEW i \in 0..Len(r), Link(r, k, i),
                      \A m \in (i + 1)..Len(r) : ~Writes(r[m], k)
               PROVE  Shown(r, t, i) \in {Absent, x}
    BY DEF Settled
  <2>1. \A m \in (at(i) + 1)..(Len(r) + 1) : ~Writes(q[m], k)
    BY <1>1, <1>3
  <2>2. at(i) \in 0..Len(q) /\ Link(q, k, at(i)) /\ Shown(r, t, i) \in {Absent, Shown(q, s, at(i))}
    BY <1>2
  <2> HIDE DEF at
  <2>3. Shown(q, s, at(i)) \in {Absent, x}
    BY <2>1, <2>2, <1>1 DEF Chain, Settled
  <2>4. QED BY <2>2, <2>3
<1>5. AddsToNothing(r, k, t)
  <2> SUFFICES ASSUME NEW i \in 0..Len(r), NEW j \in 1..Len(r), i < j, Link(r, k, i),
                      Writes(r[j], k), r[j].data = "C_ADD",
                      \A m \in (i + 1)..(j - 1) : ~Writes(r[m], k)
               PROVE  Shown(r, t, i) = Absent
    BY DEF AddsToNothing
  <2>1. \A m \in (at(i) + 1)..j : ~Writes(q[m], k)
    <3>1. j - 1 \in 0..Len(r) /\ (j - 1) + 1 = j
      BY <1>1
    <3>2. QED BY <3>1, <1>3
  <2>2. j + 1 \in 1..Len(q) /\ at(i) < j + 1 /\ q[j + 1] = r[j]
    BY <1>1
  <2>3. at(i) \in 0..Len(q) /\ Link(q, k, at(i)) /\ Shown(r, t, i) \in {Absent, Shown(q, s, at(i))}
    BY <1>2
  <2> HIDE DEF at
  <2>4. (j + 1) - 1 = j
    OBVIOUS
  <2>5. Shown(q, s, at(i)) = Absent
    BY <2>1, <2>2, <2>3, <2>4 DEF Chain, AddsToNothing
  <2>6. QED BY <2>3, <2>5
<1>6. QED BY <1>4, <1>5 DEF Chain, r

\* An ADD at the head of the queue finds no component.
LEMMA ChainAdd ==
  ASSUME NEW q \in Seq(Events), q # <<>>, NEW k, NEW s, NEW x, Chain(q, k, s, x),
         Writes(Head(q), k), Head(q).data = "C_ADD"
  PROVE  s = Absent
<1>1. Len(q) \in Nat /\ Len(q) >= 1 /\ q[1] = Head(q)
  BY Taken
<1>2. 0 \in 0..Len(q) /\ 1 \in 1..Len(q) /\ Link(q, k, 0) /\ \A n \in (0 + 1)..(1 - 1) : ~Writes(q[n], k)
  BY <1>1 DEF Link
<1>3. Shown(q, s, 0) = Absent
  BY <1>1, <1>2 DEF Chain, AddsToNothing
<1>4. QED BY <1>3 DEF Shown

-----------------------------------------------------------------------------
(* What a client hears                                                     *)

Heard == Seq(Messages \cup {Greeting})

LEMMA RefetchedJoined ==
  ASSUME NEW q \in Seq(Events), NEW r \in Seq(Events), NEW k
  PROVE  Refetched(q \o r, k) <=> Refetched(q, k) \/ Refetched(r, k)
<1>1. Elems(q \o r) = Elems(q) \cup Elems(r)
  BY Joined
<1>2. QED BY <1>1 DEF Refetched

\* Posting nothing stale, or a good message after all, keeps a client fresh.
LEMMA FreshPosted ==
  ASSUME NEW q \in Seq(Events), NEW r \in Seq(Events), NEW d \in Heard, NEW x, NEW R,
         NEW p, NEW k, NEW v, Fresh(q, d, x, R, p, k, v), Clean(r, StaleLocals(p, k, v))
  PROVE  Fresh(q \o r, d, x, R, p, k, v)
  BY RefetchedJoined, WellJoined DEF Fresh

LEMMA FreshRenewed ==
  ASSUME NEW q \in Seq(Events), NEW r \in Seq(Events), NEW d \in Heard, NEW x, NEW R,
         NEW p, NEW k, NEW v,
         \/ EndsWell(r, GoodLocals(p, k, v), StaleLocals(p, k, v))
         \/ Refetched(q, k) \/ Refetched(r, k)
  PROVE  Fresh(q \o r, d, x, R, p, k, v)
  BY RefetchedJoined, WellJoined DEF Fresh

\* An event that is neither a message nor the FETCH takes nothing away.
LEMMA FreshTaken ==
  ASSUME NEW q \in Seq(Events), q # <<>>, NEW d \in Heard, NEW x, NEW R, NEW p, NEW k, NEW v,
         Fresh(q, d, x, R, p, k, v), Head(q) \notin Locals, ~Refetch(Head(q), k)
  PROVE  Fresh(Tail(q), d, x, R, p, k, v)
<1>1. Head(q) \notin GoodLocals(p, k, v)
  BY DEF GoodLocals
<1>2. Refetched(q, k) => Refetched(Tail(q), k)
  BY Taken DEF Refetched
<1>3. QED BY <1>1, <1>2, WellTaken DEF Fresh

\* A message that goes out is the last one on its way to the client.
LEMMA FreshSent ==
  ASSUME NEW q \in Seq(Events), q # <<>>, NEW d \in Heard, NEW x, NEW R, NEW p, NEW k, NEW v,
         Fresh(q, d, x, R, p, k, v), Head(q) \in Locals
  PROVE  Fresh(Tail(q), IF p \in Head(q).to THEN d \o <<Head(q).msg>> ELSE d, x, R, p, k, v)
<1> DEFINE m == Head(q).msg
           G == GoodLocals(p, k, v)
           B == StaleLocals(p, k, v)
           GM == GoodMessages(k, v)
           BM == StaleMessages(k, v)
<1>1. m \in Messages
  BY DEF Locals
<1>2. /\ <<m>> \in Heard /\ <<m>>[1] = m /\ DOMAIN <<m>> = {1}
      /\ (m \notin BM => Clean(<<m>>, BM)) /\ (m \in GM => EndsWell(<<m>>, GM, BM))
  BY <1>1 DEF Heard, Clean, EndsWell
<1>3. ~Refetch(Head(q), k)
  BY DEF Locals, Refetch
<1>4. Refetched(q, k) => Refetched(Tail(q), k)
  BY <1>3, Taken DEF Refetched
<1>5. p \in Head(q).to => (Head(q) \in G <=> m \in GM) /\ (Head(q) \in B <=> m \in BM)
  BY <1>1 DEF GoodLocals, StaleLocals, GoodMessages, StaleMessages
<1>6. p \notin Head(q).to => Head(q) \notin G /\ Head(q) \notin B
  BY DEF GoodLocals, StaleLocals
<1>7. /\ Clean(q, B) => Clean(Tail(q), B) /\ Head(q) \notin B
      /\ EndsWell(q, G, B) => EndsWell(Tail(q), G, B) \/ (Head(q) \in G /\ Clean(Tail(q), B))
  BY WellTaken
<1>8. /\ Clean(d, BM) /\ Clean(<<m>>, BM) => Clean(d \o <<m>>, BM)
      /\ EndsWell(d, GM, BM) /\ Clean(<<m>>, BM) => EndsWell(d \o <<m>>, GM, BM)
      /\ EndsWell(<<m>>, GM, BM) => EndsWell(d \o <<m>>, GM, BM)
  BY <1>2, WellJoined DEF Heard
<1> HIDE DEF m, G, B, GM, BM
<1>9. CASE p \in Head(q).to
  <2>1. Fresh(Tail(q), d \o <<m>>, x, R, p, k, v)
    BY <1>2, <1>4, <1>5, <1>7, <1>8, <1>9 DEF Fresh, G, B, GM, BM
  <2>2. QED BY <2>1, <1>9 DEF m
<1>10. CASE p \notin Head(q).to
  BY <1>4, <1>6, <1>7, <1>10 DEF Fresh, G, B, GM, BM
<1>11. QED BY <1>9, <1>10

\* The client takes the first message.
LEMMA FreshReceived ==
  ASSUME NEW q \in Seq(Events), NEW d \in Heard, d # <<>>, NEW x, NEW R, NEW y, NEW T,
         NEW p, NEW k, NEW v, Fresh(q, d, x, R, p, k, v),
         Head(d) \in GoodMessages(k, v) => y \in {Absent, v} \/ k \in T,
         Head(d) \notin StaleMessages(k, v) /\ (x \in {Absent, v} \/ k \in R)
           => y \in {Absent, v} \/ k \in T
  PROVE  Fresh(q, Tail(d), y, T, p, k, v)
<1> DEFINE GM == GoodMessages(k, v)
           BM == StaleMessages(k, v)
<1>1. /\ Clean(d, BM) => Clean(Tail(d), BM) /\ Head(d) \notin BM
      /\ EndsWell(d, GM, BM) => EndsWell(Tail(d), GM, BM) \/ (Head(d) \in GM /\ Clean(Tail(d), BM))
  BY WellTaken DEF Heard
<1> HIDE DEF GM, BM
<1>2. QED BY <1>1 DEF Fresh, GM, BM

-----------------------------------------------------------------------------
(* What is posted                                                          *)

\* A command is no message, and neither is anything else but a message.
LEMMA Apart ==
  ASSUME NEW e \in Events
  PROVE  /\ (e \in Commands <=> e.ev = "cmd") /\ (e \in Locals <=> e.ev = "local")
         /\ (e \in Remotes <=> e.ev = "remote") /\ (e \in Statuses <=> e.ev = "status")
  BY DEF Events, Commands, Locals, Remotes, Statuses

LEMMA Notified ==
  ASSUME NEW cmd \in Kinds, NEW e \in Entities
  PROVE  /\ cmd \in EntityKinds /\ cmd # "SUBSCRIBE" =>
              \A out \in BOOLEAN : (cmd = "E_REMOVE" => out) =>
                Cmd(FALSE, out, EntityData(cmd, e), NoPeer) \in Commands
         /\ cmd \in ComponentKinds => \A c \in Components, v \in Val :
              (cmd \in {"C_ADD", "C_SET"} => v \in Values) =>
              /\ Notify(ComponentData(cmd, e, c, v)) \in Commands
              /\ \A p \in Peers : Cmd(FALSE, TRUE, ComponentData(cmd, e, c, v), p) \in Commands
  BY DEF Cmd, EntityData, ComponentData, Notify, Commands, GoodData, EntityKinds, ComponentKinds,
         RequestKinds, Kinds, Payloads, Val

\* SystemModuleEventSystem makes a notification of a request.
LEMMA ValidatedTyped ==
  ASSUME NEW c \in Commands
  PROVE  /\ Validated(c) \in Commands
         /\ Validated(c).out /\ Validated(c).ev = "cmd" /\ Validated(c).data = c.data
         /\ Validated(c).ent = c.ent /\ Validated(c).comp = c.comp
         /\ Validated(c).val = c.val /\ Validated(c).peer = c.peer
  BY DEF Validated, Commands, GoodData

LEMMA ErrorTyped ==
  ASSUME NEW c \in Commands
  PROVE  /\ ErrorOf(c) \in Commands /\ ErrorOf(c).data = "ERROR" /\ ErrorOf(c).peer = c.peer
         /\ ErrorOf(c).ent = c.ent
  BY DEF ErrorOf, ErrorData, Cmd, Commands, GoodData, EntityKinds, ComponentKinds, Kinds,
         RequestKinds, Payloads

\* What the network makes of a command: at most one message, to the peers
\* that are to have it.
LEMMA Forwarded ==
  ASSUME Typed, NEW c \in Commands
  PROVE  /\ Envelope(c) \in Messages /\ LocalProto(Receivers(c), Envelope(c)) \in Locals
         /\ Forward(c) \in Seq(Events)
         /\ \A e \in Elems(Forward(c)) : e \in Locals /\ e = LocalProto(Receivers(c), Envelope(c))
         /\ \A p \in Peers : p \in subscribed[c.ent] /\ c.ent \in subKeys /\ c.out /\ c.data # "INTRO"
              => Forward(c) = <<LocalProto(Receivers(c), Envelope(c))>> /\ p \in Receivers(c)
<1>1. Envelope(c) \in Messages
  BY DEF Envelope, Commands, Messages, GoodData
<1>2. Receivers(c) \subseteq Peers
  BY DEF Receivers, Commands, Typed
<1>3. LocalProto(Receivers(c), Envelope(c)) \in Locals
  BY <1>1, <1>2 DEF LocalProto, Locals
<1>4. LocalProto(Receivers(c), Envelope(c)) \in Events
  BY <1>3 DEF Events
<1>5. \/ Forward(c) = <<>>
      \/ Forward(c) = <<LocalProto(Receivers(c), Envelope(c))>>
  BY DEF Forward
<1>6. Forward(c) \in Seq(Events) /\ \A e \in Elems(Forward(c)) : e = LocalProto(Receivers(c), Envelope(c))
  BY <1>4, <1>5, OneEvent
<1>7. ASSUME NEW p \in Peers, p \in subscribed[c.ent], c.ent \in subKeys, c.out, c.data # "INTRO"
      PROVE  Forward(c) = <<LocalProto(Receivers(c), Envelope(c))>> /\ p \in Receivers(c)
  BY <1>7 DEF Forward, Receivers
<1>8. QED BY <1>1, <1>3, <1>6, <1>7

\* A message is stale for a client if its envelope is.
LEMMA ForwardClean ==
  ASSUME Typed, NEW c \in Commands, NEW p, NEW k, NEW v, ~Stale(Envelope(c), k, v)
  PROVE  Clean(Forward(c), StaleLocals(p, k, v))
<1>1. \A i \in DOMAIN Forward(c) : Forward(c)[i] = LocalProto(Receivers(c), Envelope(c))
  BY Forwarded DEF Elems
<1>2. LocalProto(Receivers(c), Envelope(c)).msg = Envelope(c)
  BY DEF LocalProto
<1>3. LocalProto(Receivers(c), Envelope(c)) \notin StaleLocals(p, k, v)
  BY <1>2 DEF StaleLocals
<1>4. QED BY <1>1, <1>3 DEF Clean

\* To a subscriber goes the value of the command.
LEMMA ForwardGood ==
  ASSUME Typed, NEW c \in Commands, NEW p \in Peers, NEW k, NEW v, Good(Envelope(c), k, v),
         p \in subscribed[c.ent], c.ent \in subKeys, c.out, c.data # "INTRO"
  PROVE  EndsWell(Forward(c), GoodLocals(p, k, v), StaleLocals(p, k, v))
<1> DEFINE e == LocalProto(Receivers(c), Envelope(c))
<1>1. Forward(c) = <<e>> /\ p \in Receivers(c) /\ e \in Locals
  BY Forwarded
<1>2. e.to = Receivers(c) /\ e.msg = Envelope(c)
  BY DEF LocalProto
<1>3. e \in GoodLocals(p, k, v)
  BY <1>1, <1>2 DEF GoodLocals
<1> HIDE DEF e
<1>4. QED BY <1>1, <1>3 DEF EndsWell

\* Commands and what comes from peers is not stale, it is no message.
LEMMA CommandsClean ==
  ASSUME NEW r \in Seq(Events), \A e \in Elems(r) : e.ev # "local", NEW p, NEW k, NEW v
  PROVE  Clean(r, StaleLocals(p, k, v))
  BY DEF Clean, Elems, StaleLocals, Locals

\* Introspection: the snapshot, and a FETCH for all that the snapshot has.
LEMMA Introspected ==
  ASSUME Typed, NEW c \in Commands, c.data = "SUBSCRIBE", NEW comps \in ComponentLists(c.ent)
  PROVE  /\ Introspection(c, comps) \in Seq(Events)
         /\ \E e \in Elems(Introspection(c, comps)) : e.data = "INTRO"
         /\ \A e \in Elems(Introspection(c, comps)) :
              e \in Commands /\ e.ent = c.ent /\ e.peer = c.peer /\ e.data \in {"INTRO", "C_FETCH"}
         /\ \A k \in Keys : k[1] = c.ent /\ stored[k] # Absent =>
              \E i \in DOMAIN Introspection(c, comps) : i > 1 /\ Refetch(Introspection(c, comps)[i], k)
         /\ \A k \in Keys, i \in DOMAIN Introspection(c, comps) :
              Snapshot(Introspection(c, comps)[i], k) => i = 1 /\ k[1] = c.ent /\ stored[k] # Absent
<1> DEFINE snap == Cmd(FALSE, TRUE, IntrospectionData(c.ent, [x \in Components |-> stored[<<c.ent, x>>]]), c.peer)
           fetch(x) == Cmd(FALSE, TRUE, ComponentData("C_FETCH", c.ent, x, stored[<<c.ent, x>>]), c.peer)
           F == [i \in DOMAIN comps |-> fetch(comps[i])]
           I == <<snap>> \o F
<1>0. c.ent \in Entities /\ c.peer \in Peers
  BY DEF Commands
<1>1. PICK n \in Nat : comps \in [1..n -> Components]
  <2>1. PICK n \in 0..Len(ComponentOrder) : comps \in [1..n -> Components]
    BY DEF ComponentLists
  <2>2. Len(ComponentOrder) \in Nat
    BY OrderAssumption
  <2>3. n \in Nat
    BY <2>2
  <2>4. QED BY <2>1, <2>3
<1>2. \A x \in Components : stored[<<c.ent, x>>] # Absent <=> \E i \in 1..n : comps[i] = x
  BY <1>1 DEF ComponentLists
<1>3. snap \in Commands /\ snap.ent = c.ent /\ snap.peer = c.peer /\ snap.data = "INTRO"
      /\ snap.val = [x \in Components |-> stored[<<c.ent, x>>]]
  <2>1. [x \in Components |-> stored[<<c.ent, x>>]] \in [Components -> MaybeVal]
    BY <1>0 DEF Typed, Stored, MaybeVal, Val, Keys
  <2>2. QED BY <1>0, <2>1 DEF Cmd, IntrospectionData, Commands, GoodData, Payloads, Kinds, RequestKinds,
              EntityKinds, ComponentKinds
<1>4. ASSUME NEW i \in 1..n
      PROVE  /\ F[i] \in Commands /\ F[i].ent = c.ent /\ F[i].peer = c.peer
             /\ F[i].data = "C_FETCH" /\ F[i].comp = comps[i]
  <2>1. comps[i] \in Components /\ stored[<<c.ent, comps[i]>>] # Absent
    BY <1>1, <1>2
  <2>2. stored[<<c.ent, comps[i]>>] \in Val
    BY <1>0, <2>1 DEF Typed, Stored, Val, Keys
  <2>3. F[i] = fetch(comps[i])
    BY <1>1
  <2>4. "C_FETCH" \in Kinds /\ "C_FETCH" \in ComponentKinds /\ "C_FETCH" \notin {"C_ADD", "C_SET"}
    BY DEF Kinds, ComponentKinds
  <2>5. fetch(comps[i]) \in Commands
    BY <1>0, <2>1, <2>2, <2>4, Notified
  <2>6. QED BY <2>1, <2>3, <2>5 DEF Cmd, ComponentData
<1>5. DOMAIN F = 1..n
  BY <1>1
<1> HIDE DEF snap, F, fetch
<1>6. snap \in Events /\ \A i \in 1..n : F[i] \in Events
  BY <1>3, <1>4 DEF Events
<1>7. F \in [1..n -> Events]
  BY <1>6, <1>5 DEF F
<1>8. F \in Seq(Events) /\ Len(F) = n
  BY <1>7
<1>9. <<snap>> \in Seq(Events) /\ Len(<<snap>>) = 1 /\ <<snap>>[1] = snap /\ Elems(<<snap>>) = {snap}
  BY <1>6, OneEvent
<1>10. /\ I \in Seq(Events) /\ DOMAIN I = 1..(1 + n) /\ I[1] = snap
       /\ \A i \in 1..n : I[1 + i] = F[i]
       /\ \A i \in 1..(1 + n) : i = 1 \/ (i - 1 \in 1..n /\ I[i] = F[i - 1])
  <2>1. /\ I \in Seq(Events) /\ DOMAIN I = 1..Len(I) /\ Len(I) = 1 + n
        /\ \A i \in 1..1 : I[i] = <<snap>>[i]
        /\ \A i \in 1..n : I[1 + i] = F[i]
        /\ \A i \in 1..Len(I) : i \in 1..1 \/ (i - 1 \in 1..n /\ I[i] = F[i - 1])
    BY <1>8, <1>9, Joined
  <2>2. QED BY <2>1, <1>9
<1>11. I = Introspection(c, comps)
  BY DEF Introspection, snap, F, fetch
<1> HIDE DEF I
<1>12. \A e \in Elems(I) : e \in Commands /\ e.ent = c.ent /\ e.peer = c.peer /\ e.data \in {"INTRO", "C_FETCH"}
  BY <1>3, <1>4, <1>10 DEF Elems
<1>13. ASSUME NEW k \in Keys, k[1] = c.ent, stored[k] # Absent
       PROVE  \E i \in DOMAIN I : i > 1 /\ Refetch(I[i], k)
  <2>1. k = <<c.ent, k[2]>> /\ k[2] \in Components
    BY <1>13 DEF Keys
  <2>2. PICK i \in 1..n : comps[i] = k[2]
    BY <2>1, <1>13, <1>2
  <2>3. I[1 + i] = F[i] /\ 1 + i \in DOMAIN I /\ 1 + i > 1
    BY <1>10, <2>2
  <2>4. Refetch(F[i], k)
    BY <1>4, <2>2, <1>13 DEF Refetch, Commands
  <2>5. QED BY <2>3, <2>4
<1>14. ASSUME NEW k \in Keys, NEW i \in DOMAIN I, Snapshot(I[i], k)
       PROVE  i = 1 /\ k[1] = c.ent /\ stored[k] # Absent
  <2>1. i = 1
    BY <1>4, <1>10, <1>14 DEF Snapshot
  <2>2. k[1] = c.ent /\ snap.val[k[2]] # Absent
    BY <2>1, <1>10, <1>14, <1>3 DEF Snapshot
  <2>3. k = <<c.ent, k[2]>> /\ k[2] \in Components
    BY <2>2 DEF Keys
  <2>4. QED BY <2>1, <2>2, <2>3, <1>3
<1>15. \E e \in Elems(I) : e.data = "INTRO"
  <2>1. 1 \in DOMAIN I /\ I[1].data = "INTRO"
    BY <1>3, <1>10
  <2>2. QED BY <2>1 DEF Elems
<1>16. QED BY <1>10, <1>11, <1>12, <1>13, <1>14, <1>15

-----------------------------------------------------------------------------
(* Steps of the event loop                                                 *)

LEMMA QueueTyped ==
  ASSUME Typed, NEW new \in Seq(Events),
         queue' = queue \o new \/ (queue # <<>> /\ queue' = Tail(queue) \o new)
  PROVE  queue' \in Seq(Events)
<1>1. queue \in Seq(Events) /\ (queue # <<>> => Tail(queue) \in Seq(Events))
  BY Taken DEF Typed
<1>2. queue \o new \in Seq(Events)
  BY <1>1, Joined
<1>3. queue # <<>> => Tail(queue) \o new \in Seq(Events)
  BY <1>1, Joined
<1>4. QED BY <1>2, <1>3

\* The storage does what the event at the head says, or rejects it because
\* it has nothing, and nobody posts an event that writes.
LEMMA FollowsTaken ==
  ASSUME Typed, StorageFollows, queue # <<>>, NEW new \in Seq(Events),
         queue' = Tail(queue) \o new, module' = module,
         \A k \in Keys : \A e \in Elems(new) : ~Writes(e, k),
         \A k \in Keys : IF Writes(Head(queue), k)
                           THEN stored'[k] \in {Absent, Written(Head(queue))}
                           ELSE stored'[k] = stored[k]
  PROVE  StorageFollows'
<1> SUFFICES ASSUME NEW k \in Keys PROVE Chain(queue, k, stored[k], module[k])'
  BY DEF StorageFollows
<1>0. queue \in Seq(Events) /\ Tail(queue) \in Seq(Events)
  BY Taken DEF Typed
<1>1. Chain(queue, k, stored[k], module[k])
  BY DEF StorageFollows
<1>2. Chain(Tail(queue), k, stored'[k], module[k])
  BY <1>0, <1>1, ChainTaken
<1>3. Chain(Tail(queue) \o new, k, stored'[k], module[k])
  BY <1>0, <1>2, ChainPosted
<1>4. QED BY <1>3

\* Snapshots stay together with their FETCHes.
LEMMA SnapshotsKept ==
  ASSUME Typed, SnapshotsFetched, NEW new \in Seq(Events),
         queue' = queue \o new \/ (queue # <<>> /\ queue' = Tail(queue) \o new),
         \A k \in Keys : \A i \in DOMAIN new :
           Snapshot(new[i], k) => \E j \in DOMAIN new : j > i /\ Refetch(new[j], k)
  PROVE  SnapshotsFetched'
<1> DEFINE Followed(q) == \A k \in Keys : \A i \in DOMAIN q :
                            Snapshot(q[i], k) => \E j \in DOMAIN q : j > i /\ Refetch(q[j], k)
<1>1. Followed(queue) /\ Followed(new)
  BY DEF SnapshotsFetched
<1>2. ASSUME queue # <<>> PROVE Followed(Tail(queue))
  <2> SUFFICES ASSUME NEW k \in Keys, NEW i \in DOMAIN Tail(queue), Snapshot(Tail(queue)[i], k)
               PROVE  \E j \in DOMAIN Tail(queue) : j > i /\ Refetch(Tail(queue)[j], k)
    OBVIOUS
  <2> DEFINE r == Tail(queue)
  <2>1. /\ DOMAIN r = 1..Len(r) /\ Len(r) \in Nat
        /\ \A n \in DOMAIN r : r[n] = queue[n + 1] /\ n + 1 \in DOMAIN queue
        /\ \A n \in DOMAIN queue : n = 1 \/ (n - 1 \in DOMAIN r /\ queue[n] = r[n - 1])
        /\ DOMAIN queue = 1..Len(queue) /\ Len(queue) = Len(r) + 1
    BY <1>2, Taken DEF Typed
  <2> HIDE DEF r
  <2>2. i + 1 \in DOMAIN queue /\ Snapshot(queue[i + 1], k) /\ i \in 1..Len(r)
    BY <2>1 DEF r
  <2>3. PICK j \in DOMAIN queue : j > i + 1 /\ Refetch(queue[j], k)
    BY <2>2, <1>1
  <2>4. j - 1 \in DOMAIN r /\ queue[j] = r[j - 1] /\ j - 1 > i
    BY <2>1, <2>2, <2>3
  <2>5. QED BY <2>3, <2>4 DEF r
<1>3. ASSUME NEW q \in Seq(Events), Followed(q) PROVE Followed(q \o new)
  <2> DEFINE s == q \o new
  <2> SUFFICES ASSUME NEW k \in Keys, NEW i \in DOMAIN s, Snapshot(s[i], k)
               PROVE  \E j \in DOMAIN s : j > i /\ Refetch(s[j], k)
    OBVIOUS
  <2>1. /\ Len(q) \in Nat /\ Len(new) \in Nat /\ Len(s) = Len(q) + Len(new)
        /\ DOMAIN q = 1..Len(q) /\ DOMAIN new = 1..Len(new) /\ DOMAIN s = 1..Len(s)
        /\ \A n \in 1..Len(q) : s[n] = q[n]
        /\ \A n \in 1..Len(new) : s[Len(q) + n] = new[n]
        /\ \A n \in 1..Len(s) : n \in 1..Len(q) \/ (n - Len(q) \in 1..Len(new) /\ s[n] = new[n - Len(q)])
    BY Joined
  <2> HIDE DEF s
  <2>2. CASE i \in 1..Len(q)
    <3>1. PICK j \in DOMAIN q : j > i /\ Refetch(q[j], k)
      BY <2>1, <2>2, <1>3
    <3>2. j \in DOMAIN s /\ s[j] = q[j]
      BY <2>1, <3>1
    <3>3. QED BY <3>1, <3>2
  <2>3. CASE i \notin 1..Len(q)
    <3>1. i - Len(q) \in DOMAIN new /\ Snapshot(new[i - Len(q)], k)
      BY <2>1, <2>3
    <3>2. PICK j \in DOMAIN new : j > i - Len(q) /\ Refetch(new[j], k)
      BY <3>1, <1>1
    <3>3. Len(q) + j \in DOMAIN s /\ s[Len(q) + j] = new[j] /\ Len(q) + j > i
      BY <2>1, <3>2
    <3>4. QED BY <3>2, <3>3
  <2>4. QED BY <2>2, <2>3
<1>4. queue \in Seq(Events) /\ (queue # <<>> => Tail(queue) \in Seq(Events))
  BY Taken DEF Typed
<1> HIDE DEF Followed
<1>5. Followed(queue')
  BY <1>1, <1>2, <1>3, <1>4
<1>6. QED BY <1>5 DEF Followed, SnapshotsFetched

\* No step of the event loop but the sending of a message touches a client.
LEMMA DispatchStep ==
  ASSUME NetInv, queue # <<>>, Head(queue) \notin Locals, NEW new \in Seq(Events),
         queue' = Tail(queue) \o new,
         UNCHANGED <<peerState, down, repEntities, replica, refused>>,
         SubscriptionInv', Typed', StorageFollows',
         \A e \in Elems(new) : e.ev \in {"cmd", "remote"} /\ e.peer \in Peers =>
           Head(queue).ev \in {"cmd", "remote"} /\ e.peer = Head(queue).peer,
         \A p \in Peers, e \in Entities : p \in subscribed'[e] =>
           p \in subscribed[e] \/ (Head(queue).ev \in {"cmd", "remote"} /\ p = Head(queue).peer),
         \A k \in Keys : \A i \in DOMAIN new :
           Snapshot(new[i], k) => \E j \in DOMAIN new : j > i /\ Refetch(new[j], k),
         \A p \in Peers, k \in Keys : Obliged(p, k)' =>
           \/ /\ Obliged(p, k) /\ stored'[k] = stored[k]
              /\ Clean(new, StaleLocals(p, k, stored[k])) /\ ~Refetch(Head(queue), k)
           \/ EndsWell(new, GoodLocals(p, k, stored'[k]), StaleLocals(p, k, stored'[k]))
           \/ Refetched(Tail(queue), k) \/ Refetched(new, k)
  PROVE  NetInv'
<1>1. /\ queue \in Seq(Events) /\ Tail(queue) \in Seq(Events)
      /\ \A p \in Peers : down[p] \in Heard
  BY Taken DEF NetInv, Typed, Heard
<1>2. SnapshotsFetched'
  BY SnapshotsKept DEF NetInv
<1>3. PeersArrive'
  <2>1. Elems(queue') = Elems(Tail(queue)) \cup Elems(new)
    BY <1>1, ElemsMoved
  <2>2. Elems(queue) = Elems(Tail(queue)) \cup {Head(queue)}
    BY <1>1, Taken
  <2>3. ASSUME NEW p \in Peers, peerState'[p] \in {"new", "waiting"}
        PROVE  /\ \A e \in Entities : p \notin subscribed'[e]
               /\ \A e \in Elems(queue') : e.ev \in {"cmd", "remote"} => e.peer # p
    <3>1. /\ \A e \in Entities : p \notin subscribed[e]
          /\ \A e \in Elems(queue) : e.ev \in {"cmd", "remote"} => e.peer # p
      BY <2>3 DEF NetInv, PeersArrive
    <3>2. \A e \in Entities : p \notin subscribed'[e]
      BY <2>2, <3>1
    <3>3. \A e \in Elems(queue') : e.ev \in {"cmd", "remote"} => e.peer # p
      BY <2>1, <2>2, <3>1
    <3>4. QED BY <3>2, <3>3
  <2>4. \A p \in Peers, k \in Keys : k[1] \notin repEntities'[p] => replica'[p][k] = Absent
    BY DEF NetInv, PeersArrive
  <2>5. QED BY <2>3, <2>4 DEF PeersArrive
<1>4. ASSUME NEW p \in Peers, NEW k \in Keys, Obliged(p, k)'
      PROVE  Fresh(queue', down'[p], replica'[p][k], refused'[p], p, k, stored'[k])
  <2>1. CASE /\ Obliged(p, k) /\ stored'[k] = stored[k]
             /\ Clean(new, StaleLocals(p, k, stored[k])) /\ ~Refetch(Head(queue), k)
    <3>1. Fresh(queue, down[p], replica[p][k], refused[p], p, k, stored[k])
      BY <2>1 DEF NetInv, ReplicaFresh
    <3>2. Fresh(Tail(queue), down[p], replica[p][k], refused[p], p, k, stored[k])
      BY <1>1, <2>1, <3>1, FreshTaken
    <3>3. Fresh(Tail(queue) \o new, down[p], replica[p][k], refused[p], p, k, stored[k])
      BY <1>1, <2>1, <3>2, FreshPosted
    <3>4. QED BY <2>1, <3>3
  <2>2. CASE \/ EndsWell(new, GoodLocals(p, k, stored'[k]), StaleLocals(p, k, stored'[k]))
             \/ Refetched(Tail(queue), k) \/ Refetched(new, k)
    <3>1. Fresh(Tail(queue) \o new, down[p], replica[p][k], refused[p], p, k, stored'[k])
      BY <1>1, <2>2, FreshRenewed
    <3>2. QED BY <3>1
  <2>3. QED BY <2>1, <2>2, <1>4
<1>5. ReplicaFresh'
  BY <1>4 DEF ReplicaFresh
<1>6. QED BY <1>2, <1>3, <1>5 DEF NetInv

\* A call posts commands; it touches neither storage, subscriptions nor clients.
LEMMA PostStep ==
  ASSUME NetInv, NEW new \in Seq(Events), queue' = queue \o new,
         UNCHANGED <<known, stored, subscribed, subKeys, repEntities, replica, refused>>,
         Typed', StorageFollows',
         \A p \in Peers : peerState'[p] = "auth" => peerState[p] \in {"auth", "waiting"} /\ down'[p] = down[p],
         \A p \in Peers : peerState'[p] \in {"new", "waiting"} => peerState[p] \in {"new", "waiting"},
         \A e \in Elems(new) : /\ e.ev # "local" /\ (e.ev = "cmd" => e.data # "INTRO")
                               /\ e.ev \in {"cmd", "remote"} /\ e.peer \in Peers => peerState'[e.peer] = "auth"
  PROVE  NetInv'
<1>1. queue \in Seq(Events) /\ \A p \in Peers : down[p] \in Heard
  BY DEF NetInv, Typed, Heard
<1>2. SnapshotsFetched'
  <2>1. \A k \in Keys : \A i \in DOMAIN new : ~Snapshot(new[i], k)
    BY DEF Snapshot, Elems
  <2>2. QED BY <2>1, SnapshotsKept DEF NetInv
<1>3. PeersArrive'
  <2>1. Elems(queue') = Elems(queue) \cup Elems(new)
    BY <1>1, Joined
  <2>2. ASSUME NEW p \in Peers, peerState'[p] \in {"new", "waiting"}
        PROVE  /\ \A e \in Entities : p \notin subscribed'[e]
               /\ \A e \in Elems(queue') : e.ev \in {"cmd", "remote"} => e.peer # p
    <3>1. /\ \A e \in Entities : p \notin subscribed[e]
          /\ \A e \in Elems(queue) : e.ev \in {"cmd", "remote"} => e.peer # p
      BY <2>2 DEF NetInv, PeersArrive
    <3>2. \A e \in Elems(new) : e.ev \in {"cmd", "remote"} => e.peer # p
      BY <2>2
    <3>3. QED BY <2>1, <3>1, <3>2
  <2>3. \A p \in Peers, k \in Keys : k[1] \notin repEntities'[p] => replica'[p][k] = Absent
    BY DEF NetInv, PeersArrive
  <2>4. QED BY <2>2, <2>3 DEF PeersArrive
<1>4. ASSUME NEW p \in Peers, NEW k \in Keys, Obliged(p, k)'
      PROVE  Fresh(queue', down'[p], replica'[p][k], refused'[p], p, k, stored'[k])
  <2>1. peerState'[p] = "auth" /\ p \in subscribed[k[1]] /\ stored[k] # Absent /\ k[1] \in Entities
    BY <1>4 DEF Obliged, Keys
  <2>2. peerState[p] = "auth" /\ down'[p] = down[p]
    BY <2>1 DEF NetInv, PeersArrive
  <2>3. Fresh(queue, down[p], replica[p][k], refused[p], p, k, stored[k])
    BY <2>1, <2>2 DEF NetInv, ReplicaFresh, Obliged
  <2>4. Clean(new, StaleLocals(p, k, stored[k]))
    BY CommandsClean
  <2>5. Fresh(queue \o new, down[p], replica[p][k], refused[p], p, k, stored[k])
    BY <1>1, <2>3, <2>4, FreshPosted
  <2>6. QED BY <2>2, <2>5
<1>5. ReplicaFresh'
  BY <1>4 DEF ReplicaFresh
<1>6. SubscriptionInv'
  BY FrameKeeps DEF NetInv
<1>7. QED BY <1>2, <1>3, <1>5, <1>6 DEF NetInv

\* The event at the head of the queue, by its kind.
LEMMA HeadTyped ==
  ASSUME Typed, queue # <<>>
  PROVE  /\ Head(queue) \in Events
         /\ Head(queue).ev = "cmd" => Head(queue) \in Commands /\ Head(queue) \notin Locals
<1>1. Head(queue) \in Events
  BY Taken DEF Typed
<1>2. QED BY <1>1, Apart

LEMMA TypedDispatch ==
  ASSUME Typed, queue' \in Seq(Events), known' \subseteq Entities,
         stored' \in [Keys -> Stored], module' \in [Keys -> Stored], pending' = pending,
         subKeys' \subseteq Entities, subscribed' \in [Entities -> SUBSET Peers],
         UNCHANGED <<linkVars, clientVars, ops>>
  PROVE  Typed'
  BY DEF Typed, linkVars, clientVars

\* The answer to a command: nothing, an error, or its way to the network.
LEMMA Answered ==
  ASSUME Typed, NEW c \in Commands, NEW new,
         new = <<>> \/ new = <<ErrorOf(c)>> \/ new = Forward(c)
  PROVE  /\ new \in Seq(Events)
         /\ \A e \in Elems(new) : (e.ev = "cmd" => e.data = "ERROR" /\ e.peer = c.peer) /\ e.ev # "remote"
         /\ \A k \in Keys : \A e \in Elems(new) : ~Writes(e, k)
         /\ \A k \in Keys : \A i \in DOMAIN new : ~Snapshot(new[i], k)
         /\ \A p \in Peers, k \in Keys : \A v \in Stored :
              ~Stale(Envelope(c), k, v) => Clean(new, StaleLocals(p, k, v))
<1>1. ErrorOf(c) \in Commands /\ ErrorOf(c).data = "ERROR" /\ ErrorOf(c).peer = c.peer
  BY ErrorTyped
<1>2. ErrorOf(c) \in Events /\ ErrorOf(c).ev = "cmd"
  BY <1>1 DEF Events, Commands
<1>3. /\ <<>> \in Seq(Events) /\ Elems(<<>>) = {}
      /\ <<ErrorOf(c)>> \in Seq(Events) /\ Elems(<<ErrorOf(c)>>) = {ErrorOf(c)}
  BY <1>2, OneEvent
<1>4. /\ Forward(c) \in Seq(Events)
      /\ \A e \in Elems(Forward(c)) : e \in Locals
  BY Forwarded
<1>5. new \in Seq(Events) /\ \A e \in Elems(new) : e = ErrorOf(c) \/ e \in Locals
  BY <1>3, <1>4
<1>6. \A e \in Elems(new) : (e.ev = "cmd" => e.data = "ERROR" /\ e.peer = c.peer) /\ e.ev # "remote"
  BY <1>1, <1>2, <1>5 DEF Locals
<1>7. \A k \in Keys : \A e \in Elems(new) : ~Writes(e, k) /\ ~Snapshot(e, k)
  BY <1>6 DEF Writes, Snapshot
<1>8. \A k \in Keys : \A i \in DOMAIN new : ~Snapshot(new[i], k)
  BY <1>7 DEF Elems
<1>9. ASSUME NEW p \in Peers, NEW k \in Keys, NEW v \in Stored, ~Stale(Envelope(c), k, v)
      PROVE  Clean(new, StaleLocals(p, k, v))
  <2>1. Clean(Forward(c), StaleLocals(p, k, v))
    BY <1>9, ForwardClean
  <2>2. Clean(<<>>, StaleLocals(p, k, v))
    BY DEF Clean
  <2>3. Clean(<<ErrorOf(c)>>, StaleLocals(p, k, v))
    BY <1>2, <1>3, CommandsClean
  <2>4. QED BY <2>1, <2>2, <2>3
<1>10. QED BY <1>5, <1>6, <1>7, <1>8, <1>9

\* A command c goes through the storage to the network as b.
LEMMA AnswerStep ==
  ASSUME NetInv, SubscriptionInv', queue # <<>>, NEW c \in Commands, Head(queue) = c,
         NEW b \in Commands, b.peer = c.peer, NEW new,
         new = <<>> \/ new = <<ErrorOf(b)>> \/ new = Forward(b), queue' = Tail(queue) \o new,
         UNCHANGED <<module, pending, linkVars, clientVars, ops>>,
         known' \subseteq Entities, stored' \in [Keys -> Stored],
         subKeys' \subseteq Entities, subscribed' \in [Entities -> SUBSET Peers],
         \A e \in Entities : subscribed'[e] \subseteq subscribed[e],
         \A k \in Keys : IF Writes(c, k) THEN stored'[k] \in {Absent, Written(c)}
                                         ELSE stored'[k] = stored[k],
         \A p \in Peers, k \in Keys : Obliged(p, k)' =>
           \/ /\ stored'[k] = stored[k] /\ ~Stale(Envelope(b), k, stored[k]) /\ ~Refetch(c, k)
           \/ EndsWell(new, GoodLocals(p, k, stored'[k]), StaleLocals(p, k, stored'[k]))
           \/ Refetched(Tail(queue), k)
  PROVE  NetInv'
<1>1. Typed
  BY DEF NetInv
<1>2. /\ new \in Seq(Events)
      /\ \A e \in Elems(new) : (e.ev = "cmd" => e.data = "ERROR" /\ e.peer = c.peer) /\ e.ev # "remote"
      /\ \A k \in Keys : \A e \in Elems(new) : ~Writes(e, k)
      /\ \A k \in Keys : \A i \in DOMAIN new : ~Snapshot(new[i], k)
      /\ \A p \in Peers, k \in Keys : \A v \in Stored :
           ~Stale(Envelope(b), k, v) => Clean(new, StaleLocals(p, k, v))
  BY <1>1, Answered
<1>3. Head(queue).ev = "cmd" /\ Head(queue) \notin Locals
  BY DEF Commands, Locals
<1>4. queue' \in Seq(Events)
  BY <1>1, <1>2, QueueTyped
<1>5. Typed'
  BY <1>1, <1>4, TypedDispatch DEF Typed
<1>6. StorageFollows'
  BY <1>1, <1>2, FollowsTaken DEF NetInv
<1>7. ASSUME NEW p \in Peers, NEW k \in Keys, Obliged(p, k)'
      PROVE  \/ /\ Obliged(p, k) /\ stored'[k] = stored[k]
                /\ Clean(new, StaleLocals(p, k, stored[k])) /\ ~Refetch(Head(queue), k)
             \/ EndsWell(new, GoodLocals(p, k, stored'[k]), StaleLocals(p, k, stored'[k]))
             \/ Refetched(Tail(queue), k) \/ Refetched(new, k)
  <2>1. CASE stored'[k] = stored[k] /\ ~Stale(Envelope(b), k, stored[k]) /\ ~Refetch(c, k)
    <3>1. Obliged(p, k)
      BY <1>7, <2>1 DEF Obliged, Keys, linkVars
    <3>2. stored[k] \in Stored
      BY <1>1 DEF Typed
    <3>3. QED BY <1>2, <2>1, <3>1, <3>2
  <2>2. QED BY <1>7, <2>1
<1>8. UNCHANGED <<peerState, down, repEntities, replica, refused>>
  BY DEF linkVars, clientVars
<1>9. QED BY <1>2, <1>3, <1>5, <1>6, <1>7, <1>8, DispatchStep

LEMMA HeadCommand ==
  ASSUME NetInv, NEW kind, First(kind)
  PROVE  queue # <<>> /\ Head(queue) \in Commands /\ Head(queue).data = kind
  BY HeadTyped DEF NetInv, First

\* A new entity writes no component and is told to nobody yet.
LEMMA EntityAddKeeps ==
  ASSUME NetInv, SubscriptionInv', dispatchEntityAdd
  PROVE  NetInv'
<1>1. PICK c : c = Head(queue)
  OBVIOUS
<1>2. queue # <<>> /\ c \in Commands /\ c.data = "E_ADD"
  BY <1>1, HeadCommand DEF dispatchEntityAdd
<1>3. PICK new : new = IF reply'.kind = "error" THEN <<ErrorOf(c)>> ELSE Forward(c)
  OBVIOUS
<1>4. queue' = Tail(queue) \o new /\ AddEntity(c.ent, TRUE)
  BY <1>1, <1>3 DEF dispatchEntityAdd, afterStorage, consume
<1>5. UNCHANGED <<module, linkVars, clientVars, ops, subscribed, subKeys>>
  BY DEF dispatchEntityAdd, modVars, subVars
<1>6. c.ent \in Entities /\ Typed
  BY <1>2 DEF Commands, NetInv
<1>7. UNCHANGED <<stored, pending>> /\ known' \subseteq Entities
  BY <1>4, <1>6 DEF AddEntity, Typed
<1>8. \A k \in Keys : ~Writes(c, k) /\ ~Refetch(c, k)
  BY <1>2 DEF Writes, Refetch
<1>9. \A k \in Keys : ~Stale(Envelope(c), k, stored[k])
  BY <1>2 DEF Stale, About, Envelope, ComponentKinds
<1>10. QED
  BY <1>1, <1>2, <1>3, <1>4, <1>5, <1>6, <1>7, <1>8, <1>9, AnswerStep DEF Typed

\* An entity that goes takes its components along.
LEMMA EntityRemoveKeeps ==
  ASSUME NetInv, SubscriptionInv', dispatchEntityRemove
  PROVE  NetInv'
<1>1. PICK c : c = Head(queue)
  OBVIOUS
<1>2. queue # <<>> /\ c \in Commands /\ c.data = "E_REMOVE"
  BY <1>1, HeadCommand DEF dispatchEntityRemove
<1>3. PICK new : new = IF reply'.kind = "error" THEN <<ErrorOf(c)>> ELSE Forward(c)
  OBVIOUS
<1>4. queue' = Tail(queue) \o new /\ RemoveEntity(c.ent, TRUE)
  BY <1>1, <1>3 DEF dispatchEntityRemove, afterStorage, consume
<1>5. UNCHANGED <<module, linkVars, clientVars, ops>>
  BY DEF dispatchEntityRemove, modVars
<1>6. c.ent \in Entities /\ ~c.trans /\ c.ev = "cmd" /\ Typed
  BY <1>2 DEF Commands, NetInv, RequestKinds
<1>7. dropEntity(c.ent) \/ UNCHANGED <<subscribed, subKeys>>
  BY <1>1 DEF dispatchEntityRemove, subVars
<1>8. /\ subKeys' \subseteq Entities /\ subscribed' \in [Entities -> SUBSET Peers]
      /\ \A e \in Entities : subscribed'[e] \subseteq subscribed[e]
  BY <1>6, <1>7 DEF Typed, dropEntity
<1>9. /\ pending' = pending /\ known' \subseteq Entities /\ stored' \in [Keys -> Stored]
      /\ \A k \in Keys : IF k[1] = c.ent THEN stored'[k] = Absent ELSE stored'[k] = stored[k]
  <2>1. CASE c.ent \notin known
    <3>1. UNCHANGED <<known, stored, pending>>
      BY <1>4, <2>1 DEF RemoveEntity
    <3>2. \A k \in Keys : k[1] = c.ent => stored[k] = Absent
      BY <2>1 DEF NetInv, SubscriptionInv, StoredBelowKnown
    <3>3. QED BY <3>1, <3>2, <1>6 DEF Typed
  <2>2. CASE c.ent \in known
    <3>1. /\ known' = known \ {c.ent} /\ pending' = pending
          /\ stored' = [k \in Keys |-> IF k[1] = c.ent THEN Absent ELSE stored[k]]
      BY <1>4, <2>2 DEF RemoveEntity
    <3>2. QED BY <3>1, <1>6 DEF Typed, Stored
  <2>3. QED BY <2>1, <2>2
<1>10. \A k \in Keys : (Writes(c, k) <=> k[1] = c.ent) /\ ~Refetch(c, k)
  BY <1>2, <1>6 DEF Writes, Refetch
<1>11. \A k \in Keys : k[1] # c.ent => ~Stale(Envelope(c), k, stored[k])
  BY <1>2 DEF Stale, About, Envelope
<1>12. \A p \in Peers, k \in Keys : Obliged(p, k)' => k[1] # c.ent
  BY <1>9 DEF Obliged
<1>13. \A k \in Keys : IF Writes(c, k) THEN stored'[k] \in {Absent, Written(c)}
                                       ELSE stored'[k] = stored[k]
  BY <1>9, <1>10
<1>14. \A p \in Peers, k \in Keys : Obliged(p, k)' =>
          stored'[k] = stored[k] /\ ~Stale(Envelope(c), k, stored[k]) /\ ~Refetch(c, k)
  BY <1>9, <1>10, <1>11, <1>12
<1>15. QED
  BY <1>1, <1>2, <1>3, <1>4, <1>5, <1>8, <1>9, <1>13, <1>14, AnswerStep

LEMMA ComponentKey ==
  ASSUME NEW c \in Commands, c.data \in ComponentKinds
  PROVE  c.ent \in Entities /\ c.comp \in Components /\ <<c.ent, c.comp>> \in Keys /\ c.ev = "cmd"
  BY DEF Commands, GoodData, Keys

\* What the four component events have in common: they are about one
\* component, its messages are not about another, and a subscriber is told.
LEMMA ComponentEvent ==
  ASSUME NetInv, NEW c \in Commands, c.data \in ComponentKinds, NEW k \in Keys
  PROVE  /\ Writes(c, k) <=> k = <<c.ent, c.comp>> /\ ~c.trans /\ c.data # "C_FETCH"
         /\ Refetch(c, k) <=> k = <<c.ent, c.comp>> /\ c.data = "C_FETCH"
         /\ \A v : k # <<c.ent, c.comp>> => ~Stale(Envelope(c), k, v)
         /\ \A p \in Peers : k = <<c.ent, c.comp>> /\ c.out /\ p \in subscribed[c.ent] =>
              EndsWell(Forward(c), GoodLocals(p, k, c.val), StaleLocals(p, k, c.val))
<1>1. c.ent \in Entities /\ c.comp \in Components /\ c.ev = "cmd"
  BY ComponentKey
<1>2. k = <<c.ent, c.comp>> <=> (c.ent = k[1] /\ c.comp = k[2])
  BY <1>1 DEF Keys
<1>3. /\ Writes(c, k) <=> k = <<c.ent, c.comp>> /\ ~c.trans /\ c.data # "C_FETCH"
      /\ Refetch(c, k) <=> k = <<c.ent, c.comp>> /\ c.data = "C_FETCH"
  BY <1>1, <1>2 DEF Writes, Refetch, ComponentKinds
<1>4. \A v : k # <<c.ent, c.comp>> => ~Stale(Envelope(c), k, v)
  BY <1>2 DEF Stale, About, Envelope, ComponentKinds
<1>5. ASSUME NEW p \in Peers, k = <<c.ent, c.comp>>, c.out, p \in subscribed[c.ent]
      PROVE  EndsWell(Forward(c), GoodLocals(p, k, c.val), StaleLocals(p, k, c.val))
  <2>1. c.ent \in subKeys
    BY <1>1, <1>5 DEF NetInv, SubscriptionInv, NoSneakingSubscription
  <2>2. Good(Envelope(c), k, c.val)
    BY <1>2, <1>5 DEF Good, About, Envelope, ComponentKinds
  <2>3. c.data # "INTRO" /\ Typed
    BY DEF ComponentKinds, NetInv
  <2>4. QED BY <1>5, <2>1, <2>2, <2>3, ForwardGood
<1>6. QED BY <1>1, <1>2, <1>3, <1>4, <1>5

\* A value that is written: the storage takes it and subscribers are told, or
\* it has no such component.
LEMMA WriteStep ==
  ASSUME NetInv, SubscriptionInv', queue # <<>>, NEW c \in Commands, Head(queue) = c,
         c.data \in {"C_ADD", "C_SET"}, ~c.trans, NEW k, k = <<c.ent, c.comp>>,
         UNCHANGED <<known, pending, module, subscribed, subKeys, linkVars, clientVars, ops>>,
         \/ stored[k] = Absent /\ stored' = stored /\ queue' = Tail(queue) \o <<ErrorOf(c)>>
         \/ stored' = [stored EXCEPT ![k] = c.val] /\ queue' = Tail(queue) \o Forward(c)
  PROVE  NetInv'
<1>1. c.data \in ComponentKinds /\ c.out /\ c.val \in Values
  BY DEF Commands, GoodData, ComponentKinds
<1>2. k \in Keys /\ Typed /\ k[1] = c.ent
  BY <1>1, ComponentKey DEF NetInv
<1>3. /\ known' \subseteq Entities /\ stored' \in [Keys -> Stored]
      /\ subKeys' \subseteq Entities /\ subscribed' \in [Entities -> SUBSET Peers]
      /\ \A e \in Entities : subscribed'[e] \subseteq subscribed[e]
  BY <1>1, <1>2 DEF Typed, Stored
<1>4. \A j \in Keys : /\ j # k => ~Stale(Envelope(c), j, stored[j]) /\ stored'[j] = stored[j]
                      /\ ~Refetch(c, j) /\ (Writes(c, j) <=> j = k)
  <2>1. \A j \in Keys : j # k => stored'[j] = stored[j]
    BY <1>2 DEF Typed
  <2>2. QED BY <2>1, <1>1, ComponentEvent
<1>5. stored'[k] \in {Absent, c.val} /\ Written(c) = c.val
  BY <1>2 DEF Written, Typed
<1>6. \A j \in Keys : IF Writes(c, j) THEN stored'[j] \in {Absent, Written(c)}
                                      ELSE stored'[j] = stored[j]
  BY <1>4, <1>5
<1>7. CASE stored[k] = Absent /\ stored' = stored /\ queue' = Tail(queue) \o <<ErrorOf(c)>>
  <2>1. \A p \in Peers, j \in Keys : Obliged(p, j)' => j # k
    BY <1>7 DEF Obliged
  <2>2. \A p \in Peers, j \in Keys : Obliged(p, j)' =>
          stored'[j] = stored[j] /\ ~Stale(Envelope(c), j, stored[j]) /\ ~Refetch(c, j)
    BY <2>1, <1>4
  <2>3. QED BY <1>3, <1>6, <1>7, <2>2, AnswerStep
<1>8. CASE stored' = [stored EXCEPT ![k] = c.val] /\ queue' = Tail(queue) \o Forward(c)
  <2>1. stored'[k] = c.val
    BY <1>2, <1>8 DEF Typed
  <2>2. ASSUME NEW p \in Peers, NEW j \in Keys, Obliged(p, j)'
        PROVE  \/ stored'[j] = stored[j] /\ ~Stale(Envelope(c), j, stored[j]) /\ ~Refetch(c, j)
               \/ EndsWell(Forward(c), GoodLocals(p, j, stored'[j]), StaleLocals(p, j, stored'[j]))
    <3>1. CASE j = k
      <4>1. p \in subscribed[c.ent]
        BY <1>2, <2>2, <3>1 DEF Obliged
      <4>2. EndsWell(Forward(c), GoodLocals(p, k, c.val), StaleLocals(p, k, c.val))
        BY <1>1, <1>2, <4>1, ComponentEvent
      <4>3. QED BY <2>1, <3>1, <4>2
    <3>2. CASE j # k
      BY <1>4, <3>2
    <3>3. QED BY <3>1, <3>2
  <2>3. PICK new : new = Forward(c)
    OBVIOUS
  <2>4. QED BY <1>3, <1>6, <1>8, <2>2, <2>3, AnswerStep
<1>9. QED BY <1>7, <1>8

\* Only a component that is not there is added: the storage never rejects an
\* ADD because it has one.
LEMMA ComponentAddKeeps ==
  ASSUME NetInv, SubscriptionInv', dispatchComponentAdd
  PROVE  NetInv'
<1>1. PICK c : c = Head(queue)
  OBVIOUS
<1>2. queue # <<>> /\ c \in Commands /\ c.data = "C_ADD"
  BY <1>1, HeadCommand DEF dispatchComponentAdd
<1>3. c.data \in ComponentKinds /\ ~c.trans /\ c.out /\ c.val \in Values
  BY <1>2 DEF Commands, GoodData, ComponentKinds, RequestKinds
<1>4. PICK k : k = <<c.ent, c.comp>>
  OBVIOUS
<1>5. k \in Keys /\ Typed
  BY <1>2, <1>3, <1>4, ComponentKey DEF NetInv
<1>6. UNCHANGED <<module, linkVars, clientVars, ops, subscribed, subKeys>>
  BY DEF dispatchComponentAdd, modVars, subVars
<1>7. AddComponent(k, c.val) /\ queue' = Tail(queue) \o (IF reply'.kind = "error" THEN <<ErrorOf(c)>> ELSE Forward(c))
  BY <1>1, <1>4 DEF dispatchComponentAdd, afterStorage, consume
<1>8. stored[k] = Absent
  <2>1. Writes(c, k)
    BY <1>2, <1>3, <1>4, <1>5, ComponentEvent
  <2>2. Chain(queue, k, stored[k], module[k]) /\ queue \in Seq(Events)
    BY <1>5 DEF NetInv, StorageFollows, Typed
  <2>3. QED BY <1>1, <1>2, <2>1, <2>2, ChainAdd
<1>9. CASE k[1] \notin known
  <2>1. reply' = Rejected /\ UNCHANGED <<known, stored, pending>>
    BY <1>7, <1>9 DEF AddComponent, Reject
  <2>2. queue' = Tail(queue) \o <<ErrorOf(c)>>
    BY <1>7, <2>1 DEF Rejected
  <2>3. QED BY <1>1, <1>2, <1>3, <1>4, <1>6, <1>8, <2>1, <2>2, WriteStep
<1>10. CASE k[1] \in known
  <2>1. /\ reply' = Done /\ stored' = [stored EXCEPT ![k] = c.val] /\ known' = known
        /\ pending' = [pending EXCEPT ![k] = Absent]
    BY <1>7, <1>8, <1>10 DEF AddComponent
  <2>2. queue' = Tail(queue) \o Forward(c)
    BY <1>7, <2>1 DEF Done
  <2>3. pending' = pending
    BY <2>1, <1>5 DEF Typed
  <2>4. QED BY <1>1, <1>2, <1>3, <1>4, <1>6, <2>1, <2>2, <2>3, WriteStep
<1>11. QED BY <1>9, <1>10

LEMMA ComponentSetKeeps ==
  ASSUME NetInv, SubscriptionInv', dispatchComponentSet
  PROVE  NetInv'
<1>1. PICK c : c = Head(queue)
  OBVIOUS
<1>2. queue # <<>> /\ c \in Commands /\ c.data = "C_SET" /\ ~c.trans
  BY <1>1, HeadCommand DEF dispatchComponentSet
<1>3. c.data \in ComponentKinds /\ c.val \in Values
  BY <1>2 DEF Commands, GoodData, ComponentKinds
<1>4. PICK k : k = <<c.ent, c.comp>>
  OBVIOUS
<1>5. UNCHANGED <<module, linkVars, clientVars, ops, subscribed, subKeys>>
  BY DEF dispatchComponentSet, modVars, subVars
<1>6. /\ SetComponent(k, c.val)
      /\ reply'.kind # "dropped" =>
           queue' = Tail(queue) \o (IF reply'.kind = "error" THEN <<ErrorOf(c)>> ELSE Forward(c))
  BY <1>1, <1>4 DEF dispatchComponentSet, afterStorage, consume
<1>7. c.val # Invalid
  BY <1>3, ValueAssumption
<1>8. CASE stored[k] = Absent
  <2>1. reply' = Rejected /\ UNCHANGED <<known, stored, pending>>
    BY <1>6, <1>7, <1>8 DEF SetComponent, Reject
  <2>2. queue' = Tail(queue) \o <<ErrorOf(c)>>
    BY <1>6, <2>1 DEF Rejected
  <2>3. QED BY <1>1, <1>2, <1>3, <1>4, <1>5, <1>8, <2>1, <2>2, WriteStep
<1>9. CASE stored[k] # Absent
  <2>1. reply' = Done /\ stored' = [stored EXCEPT ![k] = c.val] /\ known' = known /\ pending' = pending
    BY <1>6, <1>7, <1>9 DEF SetComponent
  <2>2. queue' = Tail(queue) \o Forward(c)
    BY <1>6, <2>1 DEF Done
  <2>3. QED BY <1>1, <1>2, <1>3, <1>4, <1>5, <2>1, <2>2, WriteStep
<1>10. QED BY <1>8, <1>9

\* A component that goes; rejected, it was gone before.
LEMMA ComponentRemoveKeeps ==
  ASSUME NetInv, SubscriptionInv', dispatchComponentRemove
  PROVE  NetInv'
<1>1. PICK c : c = Head(queue)
  OBVIOUS
<1>2. queue # <<>> /\ c \in Commands /\ c.data = "C_REMOVE"
  BY <1>1, HeadCommand DEF dispatchComponentRemove
<1>3. c.data \in ComponentKinds /\ ~c.trans
  BY <1>2 DEF Commands, ComponentKinds, RequestKinds
<1>4. PICK k : k = <<c.ent, c.comp>>
  OBVIOUS
<1>5. k \in Keys /\ Typed
  BY <1>2, <1>3, <1>4, ComponentKey DEF NetInv
<1>6. UNCHANGED <<module, linkVars, clientVars, ops, subscribed, subKeys>>
  BY DEF dispatchComponentRemove, modVars, subVars
<1>7. PICK new : new = IF reply'.kind = "error" THEN <<ErrorOf(c)>> ELSE Forward(c)
  OBVIOUS
<1>8. RemoveComponent(k) /\ queue' = Tail(queue) \o new
  BY <1>1, <1>4, <1>7 DEF dispatchComponentRemove, afterStorage, consume
<1>9. /\ UNCHANGED <<known, pending>> /\ stored' \in [Keys -> Stored]
      /\ stored'[k] = Absent /\ \A j \in Keys : j # k => stored'[j] = stored[j]
  <2>1. CASE stored[k] = Absent
    BY <1>5, <1>8, <2>1 DEF RemoveComponent, Reject, Typed
  <2>2. CASE stored[k] # Absent
    <3>1. UNCHANGED <<known, pending>> /\ stored' = [stored EXCEPT ![k] = Absent]
      BY <1>8, <2>2 DEF RemoveComponent
    <3>2. QED BY <1>5, <3>1 DEF Typed, Stored
  <2>3. QED BY <2>1, <2>2
<1>10. \A j \in Keys : /\ j # k => ~Stale(Envelope(c), j, stored[j])
                       /\ ~Refetch(c, j) /\ (Writes(c, j) <=> j = k)
  BY <1>2, <1>3, <1>4, ComponentEvent
<1>11. \A j \in Keys : IF Writes(c, j) THEN stored'[j] \in {Absent, Written(c)}
                                       ELSE stored'[j] = stored[j]
  BY <1>9, <1>10
<1>12. \A p \in Peers, j \in Keys : Obliged(p, j)' =>
          stored'[j] = stored[j] /\ ~Stale(Envelope(c), j, stored[j]) /\ ~Refetch(c, j)
  BY <1>9, <1>10 DEF Obliged
<1>13. /\ known' \subseteq Entities
       /\ subKeys' \subseteq Entities /\ subscribed' \in [Entities -> SUBSET Peers]
       /\ \A e \in Entities : subscribed'[e] \subseteq subscribed[e]
  BY <1>5, <1>6, <1>9 DEF Typed
<1>14. QED
  BY <1>1, <1>2, <1>6, <1>7, <1>8, <1>9, <1>11, <1>12, <1>13, AnswerStep

\* The FETCH is answered with the value the storage has now.
LEMMA FetchKeeps ==
  ASSUME NetInv, SubscriptionInv', dispatchFetch
  PROVE  NetInv'
<1>1. PICK h : h = Head(queue)
  OBVIOUS
<1>2. queue # <<>> /\ h \in Commands /\ h.data = "C_FETCH"
  BY <1>1, HeadCommand DEF dispatchFetch
<1>3. PICK c : c = Validated(h)
  OBVIOUS
<1>4. /\ c \in Commands /\ c.out /\ c.data = "C_FETCH" /\ c.ent = h.ent /\ c.comp = h.comp
      /\ c.peer = h.peer
  BY <1>2, <1>3, ValidatedTyped
<1>5. PICK k : k = <<c.ent, c.comp>>
  OBVIOUS
<1>6. k \in Keys /\ Typed /\ c.data \in ComponentKinds /\ h.data \in ComponentKinds /\ c.val \in Val
  <2>1. c.data \in ComponentKinds /\ h.data \in ComponentKinds
    BY <1>2, <1>4 DEF ComponentKinds
  <2>2. c.val \in Val
    BY <1>4, <2>1 DEF Commands, GoodData
  <2>3. QED BY <1>4, <1>5, <2>1, <2>2, ComponentKey DEF NetInv
<1>7. UNCHANGED <<module, linkVars, clientVars, ops, subscribed, subKeys>>
  BY DEF dispatchFetch, modVars, subVars
<1>8. PICK b : b = [c EXCEPT !.val = reply'.val]
  OBVIOUS
<1>9. PICK new : new = IF reply'.kind = "error" THEN <<ErrorOf(b)>> ELSE Forward(b)
  OBVIOUS
<1>10. FetchComponent(k, c.val) /\ queue' = Tail(queue) \o new
  BY <1>1, <1>3, <1>5, <1>8, <1>9 DEF dispatchFetch, afterStorage, consume
<1>11. UNCHANGED <<known, stored, pending>> /\ reply'.val \in Val
       /\ (stored[k] # Absent => reply'.kind # "error" /\ reply'.val = stored[k])
  <2>1. pending[k] = Absent /\ stored[k] \in Stored
    BY <1>6 DEF Typed
  <2>2. CASE k[1] \notin known \/ stored[k] = Absent
    <3>1. reply' = Rejected /\ UNCHANGED <<known, stored, pending>>
      BY <1>10, <2>1, <2>2 DEF FetchComponent, Reject
    <3>2. stored[k] = Absent
      BY <1>6, <2>2 DEF NetInv, SubscriptionInv, StoredBelowKnown
    <3>3. QED BY <3>1, <3>2 DEF Rejected, Val
  <2>3. CASE k[1] \in known /\ stored[k] # Absent
    <3>1. stored[k] \in Values /\ stored[k] # Invalid
      BY <2>1, <2>3, ValueAssumption DEF Stored
    <3>2. reply' = Answer(stored[k]) /\ UNCHANGED <<known, stored, pending>>
      BY <1>10, <2>3, <3>1 DEF FetchComponent
    <3>3. QED BY <3>1, <3>2 DEF Answer, Val
  <2>4. QED BY <2>2, <2>3
<1>12. b \in Commands /\ b.out /\ b.data = "C_FETCH" /\ b.ent = h.ent /\ b.comp = h.comp
       /\ b.peer = h.peer /\ b.val = reply'.val
  <2>1. PICK v : v = reply'.val
    OBVIOUS
  <2>2. v \in Val /\ b = [c EXCEPT !.val = v]
    BY <1>8, <1>11, <2>1
  <2>3. b \in Commands /\ b.val = v
    BY <2>2, <1>4 DEF Commands, GoodData, Payloads, EntityKinds, ComponentKinds
  <2>4. b.out = c.out /\ b.data = c.data /\ b.ent = c.ent /\ b.comp = c.comp /\ b.peer = c.peer
    BY <2>2, <1>4 DEF Commands
  <2>5. QED BY <2>1, <2>3, <2>4, <1>4
<1>13. b.data \in ComponentKinds /\ k = <<b.ent, b.comp>> /\ k = <<h.ent, h.comp>> /\ k[1] = b.ent
  BY <1>4, <1>5, <1>12 DEF ComponentKinds
<1>14. \A j \in Keys : ~Writes(h, j) /\ (Refetch(h, j) <=> j = k)
  BY <1>2, <1>6, <1>13, ComponentEvent
<1>15. \A j \in Keys : j # k => ~Stale(Envelope(b), j, stored[j])
  BY <1>12, <1>13, ComponentEvent
<1>16. ASSUME NEW p \in Peers, NEW j \in Keys, Obliged(p, j)'
       PROVE  \/ stored'[j] = stored[j] /\ ~Stale(Envelope(b), j, stored[j]) /\ ~Refetch(h, j)
              \/ EndsWell(new, GoodLocals(p, j, stored'[j]), StaleLocals(p, j, stored'[j]))
  <2>1. CASE j # k
    BY <1>11, <1>14, <1>15, <2>1
  <2>2. CASE j = k
    <3>1. p \in subscribed[b.ent] /\ stored[k] # Absent
      BY <1>7, <1>11, <1>13, <1>16, <2>2 DEF Obliged
    <3>2. new = Forward(b) /\ b.val = stored[k]
      BY <1>9, <1>11, <1>12, <3>1
    <3>3. EndsWell(Forward(b), GoodLocals(p, k, b.val), StaleLocals(p, k, b.val))
      BY <1>6, <1>12, <1>13, <3>1, ComponentEvent
    <3>4. QED BY <1>11, <2>2, <3>2, <3>3
  <2>3. QED BY <2>1, <2>2
<1>17. /\ known' \subseteq Entities /\ stored' \in [Keys -> Stored]
       /\ subKeys' \subseteq Entities /\ subscribed' \in [Entities -> SUBSET Peers]
       /\ \A e \in Entities : subscribed'[e] \subseteq subscribed[e]
       /\ \A j \in Keys : stored'[j] = stored[j]
  BY <1>6, <1>7, <1>11 DEF Typed
<1>18. QED
  BY <1>1, <1>2, <1>7, <1>9, <1>10, <1>11, <1>12, <1>14, <1>16, <1>17, AnswerStep

\* The snapshot on its way may be stale, but a FETCH follows it.
LEMMA ForwardOnlyKeeps ==
  ASSUME NetInv, SubscriptionInv', dispatchForwardOnly
  PROVE  NetInv'
<1>1. PICK c : c = Head(queue)
  OBVIOUS
<1>2. queue # <<>> /\ c \in Commands /\ c.data \in {"INTRO", "ERROR"} /\ Typed
  BY <1>1, HeadCommand DEF dispatchForwardOnly, NetInv
<1>3. UNCHANGED <<module, linkVars, clientVars, ops, subscribed, subKeys, known, stored, pending>>
  BY DEF dispatchForwardOnly, modVars, subVars, dbVars
<1>4. PICK new : new = Forward(c)
  OBVIOUS
<1>5. queue' = Tail(queue) \o new
  BY <1>1, <1>4 DEF dispatchForwardOnly, consume
<1>6. \A j \in Keys : ~Writes(c, j) /\ ~Refetch(c, j)
  BY <1>2 DEF Writes, Refetch
<1>7. ASSUME NEW j \in Keys
      PROVE  ~Stale(Envelope(c), j, stored[j]) \/ Refetched(Tail(queue), j)
  <2>1. CASE c.data = "ERROR" \/ c.ent # j[1] \/ c.val[j[2]] = Absent
    BY <1>2, <2>1 DEF Stale, About, Envelope, ComponentKinds
  <2>2. CASE c.data = "INTRO" /\ c.ent = j[1] /\ c.val[j[2]] # Absent
    <3>1. /\ c = queue[1] /\ 1 \in DOMAIN queue /\ DOMAIN queue = 1..Len(queue)
          /\ \A i \in DOMAIN queue : i = 1 \/ (i - 1 \in DOMAIN Tail(queue) /\ queue[i] = Tail(queue)[i - 1])
      BY <1>1, <1>2, Taken DEF Typed
    <3>2. Snapshot(queue[1], j)
      BY <1>2, <2>2, <3>1 DEF Snapshot, Commands
    <3>3. PICK i \in DOMAIN queue : i > 1 /\ Refetch(queue[i], j)
      BY <3>1, <3>2 DEF NetInv, SnapshotsFetched
    <3>4. i - 1 \in DOMAIN Tail(queue) /\ Refetch(Tail(queue)[i - 1], j)
      BY <3>1, <3>3
    <3>5. QED BY <3>4 DEF Refetched, Elems
  <2>3. QED BY <1>2, <2>1, <2>2
<1>8. \A p \in Peers, j \in Keys : Obliged(p, j)' =>
        \/ stored'[j] = stored[j] /\ ~Stale(Envelope(c), j, stored[j]) /\ ~Refetch(c, j)
        \/ Refetched(Tail(queue), j)
  BY <1>3, <1>6, <1>7
<1>9. /\ known' \subseteq Entities /\ stored' \in [Keys -> Stored]
      /\ subKeys' \subseteq Entities /\ subscribed' \in [Entities -> SUBSET Peers]
      /\ \A e \in Entities : subscribed'[e] \subseteq subscribed[e]
      /\ \A j \in Keys : stored'[j] = stored[j]
  BY <1>2, <1>3 DEF Typed
<1>10. QED BY <1>1, <1>2, <1>3, <1>4, <1>5, <1>6, <1>8, <1>9, AnswerStep

LEMMA UnsubscribeKeeps ==
  ASSUME NetInv, SubscriptionInv', dispatchUnsubscribe
  PROVE  NetInv'
<1>1. PICK h : h = Head(queue)
  OBVIOUS
<1>2. queue # <<>> /\ h \in Commands /\ h.data = "UNSUBSCRIBE" /\ Typed
  BY <1>1, HeadCommand DEF dispatchUnsubscribe, NetInv
<1>3. PICK c : c = Validated(h)
  OBVIOUS
<1>4. c \in Commands /\ c.data = "UNSUBSCRIBE" /\ c.peer = h.peer /\ c.ent \in Entities
  BY <1>2, <1>3, ValidatedTyped DEF Commands
<1>5. UNCHANGED <<module, linkVars, clientVars, ops, subKeys, known, stored, pending>>
  BY DEF dispatchUnsubscribe, modVars, dbVars
<1>6. PICK new : new = Forward(c)
  OBVIOUS
<1>7. queue' = Tail(queue) \o new /\ dropSubscription(c)
  BY <1>1, <1>3, <1>6 DEF dispatchUnsubscribe, consume
<1>8. \A j \in Keys : ~Writes(h, j) /\ ~Refetch(h, j) /\ ~Stale(Envelope(c), j, stored[j])
  BY <1>2, <1>4 DEF Writes, Refetch, Stale, Good, About, Envelope
<1>9. /\ subscribed' \in [Entities -> SUBSET Peers]
      /\ \A e \in Entities : subscribed'[e] \subseteq subscribed[e]
  BY <1>2, <1>4, <1>7 DEF Typed, dropSubscription
<1>10. /\ known' \subseteq Entities /\ stored' \in [Keys -> Stored]
       /\ subKeys' \subseteq Entities /\ \A j \in Keys : stored'[j] = stored[j]
  BY <1>2, <1>5 DEF Typed
<1>11. QED BY <1>1, <1>2, <1>4, <1>5, <1>6, <1>7, <1>8, <1>9, <1>10, AnswerStep

\* A new subscriber gets a FETCH of every component; a subscription that is
\* refused changes nothing.
LEMMA SubscribedKeeps ==
  ASSUME NetInv, SubscriptionInv', dispatchSubscribe
  PROVE  NetInv'
<1>1. PICK h : h = Head(queue)
  OBVIOUS
<1>2. queue # <<>> /\ h \in Commands /\ h.data = "SUBSCRIBE" /\ Typed
  BY <1>1, HeadCommand DEF dispatchSubscribe, NetInv
<1>3. PICK c : c = Validated(h)
  OBVIOUS
<1>4. c \in Commands /\ c.data = "SUBSCRIBE" /\ c.peer = h.peer /\ c.ent \in Entities /\ c.peer \in Peers
  BY <1>2, <1>3, ValidatedTyped DEF Commands
<1>5. UNCHANGED <<module, linkVars, clientVars, ops, known, stored, pending>>
  BY DEF dispatchSubscribe, modVars, dbVars
<1>6. \A j \in Keys : ~Writes(h, j) /\ ~Refetch(h, j)
  BY <1>2 DEF Writes, Refetch
<1>7. /\ known' \subseteq Entities /\ stored' \in [Keys -> Stored] /\ module' \in [Keys -> Stored]
      /\ \A j \in Keys : stored'[j] = stored[j]
  BY <1>2, <1>5 DEF Typed
<1>8. CASE ~HasComponents(c.ent)
  <2>1. queue' = Tail(queue) \o <<ErrorOf(c)>> /\ UNCHANGED <<subscribed, subKeys>>
    BY <1>1, <1>3, <1>8 DEF dispatchSubscribe, consume, subVars
  <2>2. /\ subKeys' \subseteq Entities /\ subscribed' \in [Entities -> SUBSET Peers]
        /\ \A e \in Entities : subscribed'[e] \subseteq subscribed[e]
    BY <1>2, <2>1 DEF Typed
  <2>3. \A j \in Keys : ~Stale(Envelope(c), j, stored[j])
    BY <1>4 DEF Stale, About, Envelope, ComponentKinds
  <2>4. QED BY <1>1, <1>2, <1>4, <1>5, <1>6, <1>7, <2>1, <2>2, <2>3, AnswerStep
<1>9. CASE HasComponents(c.ent)
  <2>1. PICK comps \in ComponentLists(c.ent) : queue' = Tail(queue) \o Introspection(c, comps)
    BY <1>1, <1>3, <1>9 DEF dispatchSubscribe, consume
  <2>2. tryAddSubscription(c)
    BY <1>1, <1>3, <1>9 DEF dispatchSubscribe
  <2>3. PICK new : new = Introspection(c, comps)
    OBVIOUS
  <2>4. /\ new \in Seq(Events)
        /\ \A e \in Elems(new) :
             e \in Commands /\ e.ent = c.ent /\ e.peer = c.peer /\ e.data \in {"INTRO", "C_FETCH"}
        /\ \A k \in Keys : k[1] = c.ent /\ stored[k] # Absent => \E i \in DOMAIN new : i > 1 /\ Refetch(new[i], k)
        /\ \A k \in Keys, i \in DOMAIN new : Snapshot(new[i], k) => i = 1 /\ k[1] = c.ent /\ stored[k] # Absent
    BY <1>2, <1>4, <2>3, Introspected
  <2>5. queue' = Tail(queue) \o new
    BY <2>1, <2>3
  <2>6. queue' \in Seq(Events)
    BY <1>2, <2>4, <2>5, QueueTyped
  <2>7. /\ subKeys' \subseteq Entities /\ subscribed' \in [Entities -> SUBSET Peers]
        /\ \A p \in Peers, e \in Entities : p \in subscribed'[e] =>
             p \in subscribed[e] \/ (p = c.peer /\ e = c.ent)
    BY <1>2, <1>4, <2>2 DEF Typed, tryAddSubscription
  <2>8. Typed'
    BY <1>2, <1>5, <1>7, <2>6, <2>7, TypedDispatch
  <2>9. StorageFollows'
    <3>1. \A k \in Keys : \A e \in Elems(new) : ~Writes(e, k)
      BY <2>4 DEF Writes
    <3>2. \A k \in Keys : IF Writes(Head(queue), k)
                            THEN stored'[k] \in {Absent, Written(Head(queue))}
                            ELSE stored'[k] = stored[k]
      BY <1>1, <1>6, <1>7
    <3>3. QED BY <1>2, <1>5, <2>4, <2>5, <3>1, <3>2, FollowsTaken DEF NetInv
  <2>10. \A k \in Keys : \A i \in DOMAIN new :
           Snapshot(new[i], k) => \E j \in DOMAIN new : j > i /\ Refetch(new[j], k)
    BY <2>4
  <2>11. ASSUME NEW p \in Peers, NEW k \in Keys, Obliged(p, k)'
         PROVE  \/ /\ Obliged(p, k) /\ stored'[k] = stored[k]
                   /\ Clean(new, StaleLocals(p, k, stored[k])) /\ ~Refetch(Head(queue), k)
                \/ Refetched(new, k)
    <3>1. CASE k[1] = c.ent
      <4>1. stored[k] # Absent
        BY <1>7, <2>11 DEF Obliged
      <4>2. PICK i \in DOMAIN new : Refetch(new[i], k)
        BY <2>4, <3>1, <4>1
      <4>3. QED BY <4>2 DEF Refetched, Elems
    <3>2. CASE k[1] # c.ent
      <4>1. k[1] \in Entities
        BY DEF Keys
      <4>2. Obliged(p, k)
        BY <1>5, <2>7, <2>11, <3>2, <4>1 DEF Obliged, linkVars
      <4>3. \A e \in Elems(new) : e.ev # "local"
        BY <2>4 DEF Commands
      <4>4. Clean(new, StaleLocals(p, k, stored[k]))
        BY <2>4, <4>3, CommandsClean
      <4>5. QED BY <1>1, <1>6, <1>7, <4>2, <4>4
    <3>3. QED BY <3>1, <3>2
  <2>12. UNCHANGED <<peerState, down, repEntities, replica, refused>>
    BY <1>5 DEF linkVars, clientVars
  <2>13. Head(queue).ev = "cmd" /\ Head(queue) \notin Locals /\ Head(queue).peer = c.peer
    BY <1>1, <1>2, <1>4 DEF Commands, Locals
  <2>14. \A e \in Elems(new) : e.ev \in {"cmd", "remote"} /\ e.peer \in Peers =>
           Head(queue).ev \in {"cmd", "remote"} /\ e.peer = Head(queue).peer
    BY <2>4, <2>13
  <2>15. \A p \in Peers, e \in Entities : p \in subscribed'[e] =>
           p \in subscribed[e] \/ (Head(queue).ev \in {"cmd", "remote"} /\ p = Head(queue).peer)
    BY <2>7, <2>13
  <2>16. QED
    BY <1>2, <2>4, <2>5, <2>8, <2>9, <2>10, <2>11, <2>12, <2>13, <2>14, <2>15, DispatchStep
<1>10. QED BY <1>8, <1>9

\* A client's SET makes a notification of its module, or none.
LEMMA ClientSetKeeps ==
  ASSUME NetInv, SubscriptionInv', dispatchClientSet
  PROVE  NetInv'
<1>1. PICK c : c = Head(queue)
  OBVIOUS
<1>2. queue # <<>> /\ c \in Commands /\ c.data = "C_SET" /\ c.trans /\ Typed
  BY <1>1, HeadCommand DEF dispatchClientSet, NetInv
<1>3. c.data \in ComponentKinds /\ c.val \in Values /\ c.ent \in Entities /\ c.comp \in Components
  BY <1>2 DEF Commands, GoodData, ComponentKinds
<1>4. PICK k : k = <<c.ent, c.comp>>
  OBVIOUS
<1>5. k \in Keys /\ k[1] = c.ent /\ k[2] = c.comp
  BY <1>3, <1>4 DEF Keys
<1>6. PICK n : n = Notify(ComponentData("C_SET", c.ent, c.comp, c.val))
  OBVIOUS
<1>7. n \in Commands /\ n.data = "C_SET" /\ n.peer = NoPeer /\ Writes(n, k) /\ Written(n) = c.val
      /\ \A j \in Keys : j # k => ~Writes(n, j)
  <2>1. n \in Commands
    <3>1. "C_SET" \in Kinds /\ "C_SET" \in ComponentKinds /\ c.val \in Val
      BY <1>3 DEF Kinds, ComponentKinds, Val
    <3>2. QED BY <1>3, <1>6, <3>1, Notified
  <2>2. /\ n.ev = "cmd" /\ ~n.trans /\ n.data = "C_SET" /\ n.ent = c.ent /\ n.comp = c.comp
        /\ n.val = c.val /\ n.peer = NoPeer
    BY <1>6 DEF Notify, Cmd, ComponentData
  <2>3. QED BY <1>5, <2>1, <2>2 DEF Writes, Written, Keys
<1>8. n \in Events /\ n.ev = "cmd" /\ NoPeer \notin Peers
  BY <1>7, PeerAssumption DEF Events, Commands
<1>9. UNCHANGED <<linkVars, clientVars, ops, known, stored, pending, subscribed, subKeys>>
  BY DEF dispatchClientSet, dbVars, subVars
<1>10. PICK none : none = <<>>
  OBVIOUS
<1> DEFINE posts(new) == /\ queue' = Tail(queue) \o new
                         /\ \/ new = none /\ module' = module
                            \/ new = <<n>> /\ module' = [module EXCEPT ![k] = c.val]
<1>11. PICK new : posts(new)
  <2>1. module \in [Keys -> Stored]
    BY <1>2 DEF Typed
  <2>2. posts(none) \/ posts(<<n>>)
    BY <1>1, <1>4, <1>5, <1>6, <1>10, <2>1 DEF dispatchClientSet, consume
  <2>3. QED BY <2>2
<1>12. new \in Seq(Events) /\ Elems(new) \subseteq {n}
  <2>1. <<n>> \in Seq(Events) /\ Elems(<<n>>) = {n} /\ none \in Seq(Events) /\ Elems(none) = {}
    BY <1>8, <1>10, OneEvent
  <2>2. new = none \/ new = <<n>>
    BY <1>11
  <2>3. QED BY <2>1, <2>2
<1>13. queue \in Seq(Events) /\ Tail(queue) \in Seq(Events) /\ queue' \in Seq(Events)
  BY <1>2, <1>11, <1>12, QueueTyped, Taken DEF Typed
<1>14. Typed'
  <2>1. module' \in [Keys -> Stored]
    BY <1>2, <1>3, <1>11 DEF Typed, Stored
  <2>2. QED BY <1>2, <1>9, <1>13, <2>1, TypedDispatch DEF Typed
<1>15. ASSUME NEW j \in Keys PROVE Chain(queue, j, stored[j], module[j])'
  <2>1. Chain(Tail(queue), j, stored[j], module[j])
    <3>1. ~Writes(Head(queue), j)
      BY <1>1, <1>2 DEF Writes
    <3>2. Chain(queue, j, stored[j], module[j])
      BY DEF NetInv, StorageFollows
    <3>3. QED BY <1>2, <1>13, <3>1, <3>2, ChainTaken
  <2>2. CASE (new = none /\ module' = module) \/ (j # k /\ new = <<n>>)
    <3>1. module'[j] = module[j]
      BY <1>2, <1>11, <2>2 DEF Typed
    <3>2. \A e \in Elems(new) : ~Writes(e, j)
      BY <1>7, <1>8, <1>10, <1>12, <2>2, OneEvent
    <3>3. Chain(Tail(queue) \o new, j, stored[j], module[j])
      BY <1>12, <1>13, <2>1, <3>2, ChainPosted
    <3>4. QED BY <1>9, <1>11, <3>1, <3>3
  <2>3. CASE j = k /\ new = <<n>> /\ module' = [module EXCEPT ![k] = c.val]
    <3>1. module'[j] = c.val
      BY <1>2, <1>5, <2>3 DEF Typed
    <3>2. Chain(Tail(queue) \o <<n>>, j, stored[j], c.val)
      BY <1>7, <1>8, <1>13, <2>1, <2>3, ChainExtended
    <3>3. QED BY <1>9, <1>11, <2>3, <3>1, <3>2
  <2>4. QED BY <1>11, <2>2, <2>3
<1>16. StorageFollows'
  BY <1>15 DEF StorageFollows
<1>17. \A j \in Keys : \A i \in DOMAIN new : ~Snapshot(new[i], j)
  BY <1>7, <1>12 DEF Snapshot, Elems
<1>18. ASSUME NEW p \in Peers, NEW j \in Keys, Obliged(p, j)'
       PROVE  /\ Obliged(p, j) /\ stored'[j] = stored[j]
              /\ Clean(new, StaleLocals(p, j, stored[j])) /\ ~Refetch(Head(queue), j)
  <2>1. Obliged(p, j) /\ stored'[j] = stored[j]
    BY <1>9, <1>18 DEF Obliged, linkVars
  <2>2. Clean(new, StaleLocals(p, j, stored[j]))
    BY <1>8, <1>12, CommandsClean
  <2>3. QED BY <1>1, <1>2, <2>1, <2>2 DEF Refetch
<1>19. UNCHANGED <<peerState, down, repEntities, replica, refused>>
  BY <1>9 DEF linkVars, clientVars
<1>20. Head(queue) \notin Locals
  BY <1>1, <1>2 DEF Commands, Locals
<1>21. \A e \in Elems(new) : e.peer \notin Peers
  BY <1>7, <1>8, <1>12
<1>22. QED
  BY <1>2, <1>9, <1>11, <1>12, <1>14, <1>16, <1>17, <1>18, <1>19, <1>20, <1>21, DispatchStep

\* A message of a peer becomes a command, with the peer's name.
LEMMA RemoteKeeps ==
  ASSUME NetInv, SubscriptionInv', dispatchRemote
  PROVE  NetInv'
<1>1. PICK h : h = Head(queue)
  OBVIOUS
<1>2. queue # <<>> /\ h \in Remotes /\ Typed
  BY <1>1, HeadTyped, Apart DEF dispatchRemote, NetInv
<1>3. /\ h.ev = "remote" /\ h.peer \in Peers /\ h.msg \in Requests \cup {Greeting} /\ h \notin Locals
  BY <1>2 DEF Remotes, Locals
<1>4. PICK c : c = Cmd(h.msg.trans, FALSE, h.msg, h.peer)
  OBVIOUS
<1>5. h.msg # Greeting => c \in Commands /\ c.data \in RequestKinds /\ c.trans
  <2> SUFFICES ASSUME h.msg \in Requests PROVE c \in Commands /\ c.data \in RequestKinds /\ c.trans
    BY <1>3
  <2>1. /\ h.msg.trans = TRUE /\ h.msg.data \in RequestKinds /\ h.msg.ent \in Entities
        /\ h.msg.data \in Kinds /\ h.msg.comp \in Components \cup {NoComponent} /\ h.msg.val \in Payloads
        /\ GoodData(h.msg)
    BY DEF Requests, Messages
  <2>2. QED BY <1>3, <1>4, <2>1 DEF Cmd, Commands, GoodData, RequestKinds
<1>6. c.peer = h.peer
  BY <1>4 DEF Cmd
<1>7. UNCHANGED <<module, linkVars, clientVars, ops, known, stored, pending, subscribed, subKeys>>
  BY DEF dispatchRemote, dbVars, modVars, subVars
<1>8. PICK new : new = IF h.msg = Greeting THEN <<>> ELSE <<c>>
  OBVIOUS
<1>9. queue' = Tail(queue) \o new
  BY <1>1, <1>4, <1>8 DEF dispatchRemote, consume
<1>10. /\ new \in Seq(Events)
       /\ \A e \in Elems(new) : e = c /\ c \in Commands /\ c.data \in RequestKinds /\ c.trans
  <2>1. CASE h.msg = Greeting
    BY <1>8, <2>1 DEF Elems
  <2>2. CASE h.msg # Greeting
    <3>1. c \in Events /\ new = <<c>>
      BY <1>5, <1>8, <2>2 DEF Events
    <3>2. new \in Seq(Events) /\ Elems(new) = {c}
      BY <3>1, OneEvent
    <3>3. QED BY <1>5, <2>2, <3>2
  <2>3. QED BY <2>1, <2>2
<1>11. queue' \in Seq(Events)
  BY <1>2, <1>9, <1>10, QueueTyped
<1>12. Typed'
  BY <1>2, <1>7, <1>11, TypedDispatch DEF Typed
<1>13. StorageFollows'
  <2>1. \A k \in Keys : \A e \in Elems(new) : ~Writes(e, k)
    BY <1>10 DEF Writes
  <2>2. \A k \in Keys : ~Writes(Head(queue), k)
    BY <1>1, <1>3 DEF Writes
  <2>3. QED BY <1>2, <1>7, <1>9, <1>10, <2>1, <2>2, FollowsTaken DEF NetInv
<1>14. \A k \in Keys : \A i \in DOMAIN new : ~Snapshot(new[i], k)
  BY <1>10 DEF Snapshot, Elems, RequestKinds
<1>15. ASSUME NEW p \in Peers, NEW j \in Keys, Obliged(p, j)'
       PROVE  /\ Obliged(p, j) /\ stored'[j] = stored[j]
              /\ Clean(new, StaleLocals(p, j, stored[j])) /\ ~Refetch(Head(queue), j)
  <2>1. Obliged(p, j) /\ stored'[j] = stored[j]
    BY <1>7, <1>15 DEF Obliged, linkVars
  <2>2. \A e \in Elems(new) : e.ev # "local"
    BY <1>10 DEF Commands
  <2>3. Clean(new, StaleLocals(p, j, stored[j]))
    BY <1>10, <2>2, CommandsClean
  <2>4. QED BY <1>1, <1>3, <2>1, <2>3 DEF Refetch
<1>16. UNCHANGED <<peerState, down, repEntities, replica, refused>>
  BY <1>7 DEF linkVars, clientVars
<1>17. QED
  BY <1>1, <1>2, <1>3, <1>6, <1>7, <1>9, <1>10, <1>12, <1>13, <1>14, <1>15, <1>16, DispatchStep

\* A peer that is gone loses its subscriptions.
LEMMA StatusKeeps ==
  ASSUME NetInv, SubscriptionInv', dispatchStatus
  PROVE  NetInv'
<1>1. PICK h : h = Head(queue)
  OBVIOUS
<1>2. queue # <<>> /\ h.ev = "status" /\ h \notin Locals /\ Typed
  BY <1>1 DEF dispatchStatus, NetInv, Locals
<1>3. UNCHANGED <<module, linkVars, clientVars, ops, known, stored, pending, subKeys>>
  BY DEF dispatchStatus, dbVars, modVars
<1>4. queue' = Tail(queue) \o <<>> /\ subscribed' = [e \in Entities |-> subscribed[e] \ {h.peer}]
  BY <1>1 DEF dispatchStatus, consume
<1>5. /\ subscribed' \in [Entities -> SUBSET Peers]
      /\ \A e \in Entities : subscribed'[e] \subseteq subscribed[e]
  BY <1>2, <1>4 DEF Typed
<1>6. PICK new : new = <<>>
  OBVIOUS
<1>7. new \in Seq(Events) /\ Elems(new) = {} /\ queue' = Tail(queue) \o new
  BY <1>4, <1>6 DEF Elems
<1>8. queue' \in Seq(Events)
  BY <1>2, <1>7, QueueTyped
<1>9. Typed'
  BY <1>2, <1>3, <1>5, <1>8, TypedDispatch DEF Typed
<1>10. StorageFollows'
  <2>1. \A k \in Keys : ~Writes(Head(queue), k)
    BY <1>1, <1>2 DEF Writes
  <2>2. QED BY <1>2, <1>3, <1>7, <2>1, FollowsTaken DEF NetInv
<1>11. ASSUME NEW p \in Peers, NEW j \in Keys, Obliged(p, j)'
       PROVE  /\ Obliged(p, j) /\ stored'[j] = stored[j]
              /\ Clean(new, StaleLocals(p, j, stored[j])) /\ ~Refetch(Head(queue), j)
  <2>1. j[1] \in Entities
    BY DEF Keys
  <2>2. Obliged(p, j) /\ stored'[j] = stored[j]
    BY <1>3, <1>5, <1>11, <2>1 DEF Obliged, linkVars
  <2>3. Clean(new, StaleLocals(p, j, stored[j]))
    BY <1>7, CommandsClean
  <2>4. QED BY <1>1, <1>2, <2>2, <2>3 DEF Refetch
<1>12. UNCHANGED <<peerState, down, repEntities, replica, refused>>
  BY <1>3 DEF linkVars, clientVars
<1>13. \A k \in Keys : \A i \in DOMAIN new : ~Snapshot(new[i], k)
  BY <1>7 DEF Elems
<1>14. QED
  BY <1>1, <1>2, <1>5, <1>7, <1>9, <1>10, <1>11, <1>12, <1>13, DispatchStep

\* TcpSystem sends a message to the peers it lists.
LEMMA LocalKeeps ==
  ASSUME NetInv, SubscriptionInv', dispatchLocal
  PROVE  NetInv'
<1>1. PICK h : h = Head(queue)
  OBVIOUS
<1>2. queue # <<>> /\ h \in Locals /\ Typed
  BY <1>1, HeadTyped, Apart DEF dispatchLocal, NetInv
<1>3. /\ UNCHANGED <<module, peerState, up, online, repEntities, replica, refused, ops>>
      /\ UNCHANGED <<known, stored, pending, subscribed, subKeys>>
  BY DEF dispatchLocal, dbVars, modVars, subVars, clientVars
<1>4. down' = [p \in Peers |-> IF p \in h.to /\ peerState[p] = "auth"
                                 THEN Append(down[p], h.msg) ELSE down[p]]
  BY <1>1 DEF dispatchLocal
<1>5. PICK new : new = <<>>
  OBVIOUS
<1>6. new \in Seq(Events) /\ Elems(new) = {} /\ queue' = Tail(queue) \o new
  BY <1>5 DEF Elems, dispatchLocal, consume
<1>7. queue \in Seq(Events) /\ Tail(queue) \in Seq(Events) /\ queue' = Tail(queue)
  <2>1. queue \in Seq(Events) /\ Tail(queue) \in Seq(Events)
    BY <1>2, Taken DEF Typed
  <2>2. Tail(queue) \o <<>> = Tail(queue)
    BY <2>1
  <2>3. QED BY <2>1, <2>2, <1>5, <1>6
<1>8. h.msg \in Messages /\ down \in [Peers -> Heard]
  BY <1>2 DEF Locals, Typed, Heard
<1>9. down' \in [Peers -> Heard]
  BY <1>4, <1>8 DEF Heard
<1>10. Typed'
  <2>1. queue' \in Seq(Events)
    BY <1>7
  <2>2. QED BY <1>2, <1>3, <1>9, <2>1 DEF Typed, Heard
<1>11. StorageFollows'
  <2>1. \A k \in Keys : ~Writes(Head(queue), k)
    BY <1>1, <1>2 DEF Writes, Locals
  <2>2. QED BY <1>2, <1>3, <1>6, <2>1, FollowsTaken DEF NetInv
<1>12. SnapshotsFetched'
  <2>1. \A k \in Keys : \A i \in DOMAIN new : ~Snapshot(new[i], k)
    BY <1>6 DEF Elems
  <2>2. QED BY <1>2, <1>6, <2>1, SnapshotsKept DEF NetInv
<1>13. PeersArrive'
  <2>1. Elems(queue') \subseteq Elems(queue)
    BY <1>2, <1>7, Taken
  <2>2. QED BY <1>3, <2>1 DEF NetInv, PeersArrive
<1>14. ASSUME NEW p \in Peers, NEW k \in Keys, Obliged(p, k)'
       PROVE  Fresh(queue', down'[p], replica'[p][k], refused'[p], p, k, stored'[k])
  <2>1. Obliged(p, k) /\ peerState[p] = "auth"
    BY <1>3, <1>14 DEF Obliged
  <2>2. Fresh(queue, down[p], replica[p][k], refused[p], p, k, stored[k])
    BY <2>1 DEF NetInv, ReplicaFresh
  <2>3. Fresh(Tail(queue), IF p \in h.to THEN down[p] \o <<h.msg>> ELSE down[p],
              replica[p][k], refused[p], p, k, stored[k])
    BY <1>1, <1>2, <1>7, <1>8, <2>2, FreshSent
  <2>4. down'[p] = IF p \in h.to THEN down[p] \o <<h.msg>> ELSE down[p]
    <3>1. Append(down[p], h.msg) = down[p] \o <<h.msg>>
      BY <1>8 DEF Heard
    <3>2. QED BY <1>4, <2>1, <3>1
  <2>5. QED BY <1>3, <1>7, <2>3, <2>4
<1>15. ReplicaFresh'
  BY <1>14 DEF ReplicaFresh
<1>16. QED BY <1>10, <1>11, <1>12, <1>13, <1>15 DEF NetInv

-----------------------------------------------------------------------------
(* Calls                                                                   *)

LEMMA CallCounted ==
  ASSUME NetInv, Call
  PROVE  ops' \in 0..MaxOps
  BY BoundAssumption DEF NetInv, Typed, Call

\* A module posts one notification, which is the new last link of the chains
\* it belongs to.
LEMMA ModulePost ==
  ASSUME NetInv, NEW e \in Commands, e.peer = NoPeer, e.data # "INTRO", queue' = queue \o <<e>>,
         UNCHANGED <<dbVars, subVars, linkVars, clientVars>>, Call, module' \in [Keys -> Stored],
         \A k \in Keys :
           IF Writes(e, k)
             THEN Written(e) \in {Absent, module'[k]} /\ (e.data = "C_ADD" => module[k] = Absent)
             ELSE module'[k] = module[k]
  PROVE  NetInv'
<1>1. Typed /\ queue \in Seq(Events) /\ e \in Events /\ e.ev = "cmd"
  BY DEF NetInv, Typed, Events, Commands
<1>2. PICK new : new = <<e>>
  OBVIOUS
<1>3. new \in Seq(Events) /\ Elems(new) = {e} /\ queue' = queue \o new
  BY <1>1, <1>2, OneEvent
<1>4. queue' \in Seq(Events) /\ ops' \in 0..MaxOps
  BY <1>1, <1>3, QueueTyped, CallCounted
<1>5. /\ UNCHANGED <<known, stored, pending, subscribed, subKeys, peerState, up, down>>
      /\ UNCHANGED <<online, repEntities, replica, refused>>
  BY DEF dbVars, subVars, linkVars, clientVars
<1>6. Typed'
  BY <1>1, <1>4, <1>5 DEF Typed
<1>7. ASSUME NEW k \in Keys PROVE Chain(queue, k, stored[k], module[k])'
  <2>1. Chain(queue, k, stored[k], module[k])
    BY DEF NetInv, StorageFollows
  <2>2. CASE Writes(e, k)
    <3>1. Chain(queue \o <<e>>, k, stored[k], module'[k])
      BY <1>1, <2>1, <2>2, ChainExtended
    <3>2. QED BY <1>5, <3>1
  <2>3. CASE ~Writes(e, k)
    <3>1. Chain(queue \o new, k, stored[k], module[k])
      BY <1>1, <1>3, <2>1, <2>3, ChainPosted
    <3>2. QED BY <1>3, <1>5, <2>3, <3>1
  <2>4. QED BY <2>2, <2>3
<1>8. StorageFollows'
  BY <1>7 DEF StorageFollows
<1>9. NoPeer \notin Peers
  BY PeerAssumption
<1>10. QED BY <1>1, <1>3, <1>5, <1>6, <1>8, <1>9, PostStep

LEMMA ModuleCallKeeps ==
  ASSUME NetInv, ModuleCall
  PROVE  NetInv'
<1>0. module \in [Keys -> Stored] /\ {"E_ADD", "E_REMOVE", "C_ADD", "C_SET", "C_REMOVE"} \subseteq Kinds
  BY DEF NetInv, Typed, Kinds
<1>1. ASSUME NEW n \in Entities, initModule(n) PROVE NetInv'
  <2>1. PICK e : e = Cmd(FALSE, FALSE, EntityData("E_ADD", n), NoPeer)
    OBVIOUS
  <2>2. e \in Commands /\ e.peer = NoPeer /\ e.data = "E_ADD"
    <3>1. e \in Commands
      BY <1>0, <2>1, Notified DEF EntityKinds
    <3>2. QED BY <2>1, <3>1 DEF Cmd, EntityData
  <2>3. \A k \in Keys : ~Writes(e, k)
    BY <2>2 DEF Writes
  <2>4. /\ queue' = queue \o <<e>> /\ Call /\ UNCHANGED <<dbVars, subVars, linkVars, clientVars>>
        /\ module' = module
    BY <1>1, <2>1 DEF initModule, post, modVars
  <2>5. QED BY <1>0, <2>2, <2>3, <2>4, ModulePost
<1>2. ASSUME NEW n \in Entities, removeEntity(n) PROVE NetInv'
  <2>1. PICK e : e = Notify(EntityData("E_REMOVE", n))
    OBVIOUS
  <2>2. e \in Commands /\ e.peer = NoPeer /\ e.data = "E_REMOVE" /\ e.ent = n /\ ~e.trans /\ e.ev = "cmd"
    <3>1. e \in Commands
      BY <1>0, <2>1, Notified DEF EntityKinds, Notify
    <3>2. QED BY <2>1, <3>1 DEF Cmd, EntityData, Notify
  <2>3. \A k \in Keys : (Writes(e, k) <=> k[1] = n) /\ Written(e) = Absent
    BY <2>2 DEF Writes, Written
  <2>4. /\ queue' = queue \o <<e>> /\ Call /\ UNCHANGED <<dbVars, subVars, linkVars, clientVars>>
        /\ module' = [k \in Keys |-> IF k[1] = n THEN Absent ELSE module[k]]
    BY <1>2, <2>1 DEF removeEntity, post
  <2>5. module' \in [Keys -> Stored] /\ \A k \in Keys : k[1] # n => module'[k] = module[k]
    BY <1>0, <2>4 DEF Stored
  <2>6. QED BY <2>2, <2>3, <2>4, <2>5, ModulePost
<1>3. ASSUME NEW k \in Keys, removeComponent(k) PROVE NetInv'
  <2>1. PICK e : e = Notify(ComponentData("C_REMOVE", k[1], k[2], Invalid))
    OBVIOUS
  <2>2. e \in Commands /\ e.peer = NoPeer /\ e.data = "C_REMOVE"
    <3>1. k[1] \in Entities /\ k[2] \in Components /\ Invalid \in Val
      BY DEF Keys, Val
    <3>2. e \in Commands
      BY <1>0, <2>1, <3>1, Notified DEF ComponentKinds
    <3>3. QED BY <2>1, <3>2 DEF Cmd, ComponentData, Notify
  <2>3. Written(e) = Absent
    BY <2>2 DEF Written
  <2>4. /\ queue' = queue \o <<e>> /\ Call /\ UNCHANGED <<dbVars, subVars, linkVars, clientVars>>
        /\ module' = module
    BY <1>3, <2>1 DEF removeComponent, post, modVars
  <2>5. QED BY <1>0, <2>2, <2>3, <2>4, ModulePost
<1>4. ASSUME NEW k \in Keys, NEW v \in Values, createComponent(k, v) \/ moduleSetValue(k, v) PROVE NetInv'
  <2>0. PICK kind \in {"C_ADD", "C_SET"} :
          /\ queue' = queue \o <<Notify(ComponentData(kind, k[1], k[2], v))>>
          /\ kind = "C_ADD" => module[k] = Absent
    BY <1>4 DEF createComponent, moduleSetValue, post
  <2>1. PICK e : e = Notify(ComponentData(kind, k[1], k[2], v))
    OBVIOUS
  <2>2. /\ e \in Commands /\ e.peer = NoPeer /\ e.data = kind /\ e.val = v
        /\ \A j \in Keys : Writes(e, j) => j = k
    <3>1. k[1] \in Entities /\ k[2] \in Components /\ v \in Val
      BY DEF Keys, Val
    <3>2. e \in Commands
      BY <1>0, <2>1, <3>1, Notified DEF ComponentKinds
    <3>3. e.peer = NoPeer /\ e.data = kind /\ e.val = v /\ e.ent = k[1] /\ e.comp = k[2]
      BY <2>1, <3>2 DEF Cmd, ComponentData, Notify
    <3>4. QED BY <3>2, <3>3 DEF Writes, Keys
  <2>3. Written(e) = v
    BY <2>2 DEF Written
  <2>4. /\ Call /\ UNCHANGED <<dbVars, subVars, linkVars, clientVars>>
        /\ module' = [module EXCEPT ![k] = v]
    BY <1>4 DEF createComponent, moduleSetValue
  <2>5. /\ module' \in [Keys -> Stored] /\ module'[k] = v
        /\ \A j \in Keys : j # k => module'[j] = module[j]
    BY <1>0, <2>4 DEF Stored
  <2>6. Writes(e, k)
    BY <2>1 DEF Writes, Notify, Cmd, ComponentData
  <2>7. \A j \in Keys :
           IF Writes(e, j)
             THEN Written(e) \in {Absent, module'[j]} /\ (e.data = "C_ADD" => module[j] = Absent)
             ELSE module'[j] = module[j]
    BY <2>0, <2>2, <2>3, <2>5, <2>6
  <2>8. QED BY <2>0, <2>1, <2>2, <2>4, <2>5, <2>7, ModulePost
<1>5. QED BY <1>1, <1>2, <1>3, <1>4 DEF ModuleCall

\* A call that posts nothing: at most it changes what a client has sent.
LEMMA QuietStep ==
  ASSUME NetInv, UNCHANGED <<dbVars, queue, modVars, subVars, clientVars>>, ops' \in 0..MaxOps,
         up' \in [Peers -> Seq(Requests \cup {Greeting})],
         UNCHANGED <<peerState, down>> \/
           \E p \in Peers : /\ peerState[p] = "new" /\ peerState' = [peerState EXCEPT ![p] = "waiting"]
                            /\ down' = [down EXCEPT ![p] = <<Greeting>>]
  PROVE  NetInv'
<1>1. Typed /\ queue \in Seq(Events)
  BY DEF NetInv, Typed
<1>2. PICK new : new = <<>>
  OBVIOUS
<1>3. new \in Seq(Events) /\ Elems(new) = {} /\ queue' = queue \o new
  <2>1. queue \o <<>> = queue
    BY <1>1
  <2>2. QED BY <1>2, <2>1 DEF Elems
<1>4. UNCHANGED <<known, stored, pending, subscribed, subKeys, module, queue, online, repEntities, replica, refused>>
  BY DEF dbVars, subVars, modVars, clientVars
<1>5. Typed'
  <2>1. <<Greeting>> \in Seq(Messages \cup {Greeting})
    OBVIOUS
  <2>2. /\ peerState' \in [Peers -> {"new", "waiting", "auth", "gone"}]
        /\ down' \in [Peers -> Seq(Messages \cup {Greeting})]
    BY <1>1, <2>1 DEF Typed
  <2>3. QED BY <1>1, <1>4, <2>2 DEF Typed
<1>6. StorageFollows'
  BY <1>4 DEF NetInv, StorageFollows
<1>7. /\ \A p \in Peers : peerState'[p] = "auth" => peerState[p] \in {"auth", "waiting"} /\ down'[p] = down[p]
      /\ \A p \in Peers : peerState'[p] \in {"new", "waiting"} => peerState[p] \in {"new", "waiting"}
  BY <1>1 DEF Typed
<1>8. QED BY <1>3, <1>4, <1>5, <1>6, <1>7, PostStep

LEMMA ClientCallKeeps ==
  ASSUME NetInv, NEW p \in Peers, ClientCall(p)
  PROVE  NetInv'
<1>1. ASSUME NEW d, request(p, d), d.data \in RequestKinds, d.ent \in Entities,
             d.comp \in Components \cup {NoComponent}, d.val \in Val, GoodData(d)
      PROVE  NetInv'
  <2>1. PICK m : m = Envelope(Cmd(TRUE, TRUE, d, NoPeer))
    OBVIOUS
  <2>2. m \in Requests
    BY <1>1, <2>1 DEF Requests, Messages, Envelope, Cmd, GoodData, RequestKinds, Kinds, Payloads
  <2>3. up' = [up EXCEPT ![p] = Append(@, m)]
    BY <1>1, <2>1 DEF request
  <2>4. up' \in [Peers -> Seq(Requests \cup {Greeting})]
    BY <2>2, <2>3 DEF NetInv, Typed
  <2>5. ops' \in 0..MaxOps
    BY <1>1, CallCounted DEF request
  <2>6. QED BY <1>1, <2>4, <2>5, QuietStep DEF request
<1>2. CASE connectToServer(p)
  <2>1. <<Greeting>> \in Seq(Requests \cup {Greeting})
    OBVIOUS
  <2>2. up' \in [Peers -> Seq(Requests \cup {Greeting})]
    BY <1>2, <2>1 DEF connectToServer, NetInv, Typed
  <2>3. ops' \in 0..MaxOps
    BY <1>2, CallCounted DEF connectToServer
  <2>4. QED BY <1>2, <2>2, <2>3, QuietStep DEF connectToServer
<1>3. CASE onClientDisconnected(p)
  <2>1. PICK e : e = Disconnected(IF peerState[p] = "auth" THEN p ELSE NoPeer)
    OBVIOUS
  <2>2. e \in Statuses /\ e \in Events /\ e.ev = "status"
    BY <2>1 DEF Disconnected, Statuses, Events
  <2>3. PICK new : new = <<e>>
    OBVIOUS
  <2>4. new \in Seq(Events) /\ Elems(new) = {e} /\ queue' = queue \o new
    BY <1>3, <2>1, <2>2, <2>3, OneEvent DEF onClientDisconnected, post
  <2>5. UNCHANGED <<known, stored, pending, module, subscribed, subKeys, repEntities, replica, refused>>
    BY <1>3 DEF onClientDisconnected, dbVars, modVars, subVars
  <2>6. /\ peerState' = [peerState EXCEPT ![p] = "gone"] /\ up' = [up EXCEPT ![p] = <<>>]
        /\ down' = [down EXCEPT ![p] = <<>>] /\ online' = online \ {p}
    BY <1>3 DEF onClientDisconnected
  <2>7. Typed /\ queue' \in Seq(Events) /\ ops' \in 0..MaxOps
    BY <1>3, <2>4, QueueTyped, CallCounted DEF NetInv, onClientDisconnected
  <2>8. Typed'
    BY <2>5, <2>6, <2>7 DEF Typed
  <2>9. StorageFollows'
    <3>1. \A k \in Keys : ~Writes(e, k)
      BY <2>2 DEF Writes
    <3>2. ASSUME NEW k \in Keys PROVE Chain(queue, k, stored[k], module[k])'
      <4>1. Chain(queue \o new, k, stored[k], module[k])
        BY <2>4, <2>7, <3>1, ChainPosted DEF NetInv, StorageFollows, Typed
      <4>2. QED BY <2>4, <2>5, <4>1
    <3>3. QED BY <3>2 DEF StorageFollows
  <2>10. /\ \A x \in Peers : peerState'[x] = "auth" => peerState[x] \in {"auth", "waiting"} /\ down'[x] = down[x]
         /\ \A x \in Peers : peerState'[x] \in {"new", "waiting"} => peerState[x] \in {"new", "waiting"}
    BY <2>6, <2>7 DEF Typed
  <2>11. QED BY <2>2, <2>4, <2>5, <2>8, <2>9, <2>10, PostStep
<1>4. ASSUME NEW e \in Entities, sendSubscription(p, e) \/ sendUnsubscription(p, e) PROVE NetInv'
  <2>1. PICK kind \in {"SUBSCRIBE", "UNSUBSCRIBE"} : request(p, EntityData(kind, e))
    BY <1>4 DEF sendSubscription, sendUnsubscription
  <2>2. PICK d : d = EntityData(kind, e)
    OBVIOUS
  <2>3. /\ d.data \in RequestKinds /\ d.ent \in Entities /\ d.comp \in Components \cup {NoComponent}
        /\ d.val \in Val /\ GoodData(d)
    BY <2>2 DEF EntityData, RequestKinds, Val, GoodData, EntityKinds, ComponentKinds
  <2>4. QED BY <1>1, <2>1, <2>2, <2>3
<1>5. ASSUME NEW k \in Keys, NEW v \in Values, startGetComponent(p, k) \/ startSetComponent(p, k, v)
      PROVE  NetInv'
  <2>1. PICK d : request(p, d) /\ d \in {ComponentData("C_FETCH", k[1], k[2], Invalid),
                                         ComponentData("C_SET", k[1], k[2], v)}
    BY <1>5 DEF startGetComponent, startSetComponent
  <2>2. k[1] \in Entities /\ k[2] \in Components
    BY DEF Keys
  <2>3. /\ d.data \in RequestKinds /\ d.ent \in Entities /\ d.comp \in Components \cup {NoComponent}
        /\ d.val \in Val /\ GoodData(d)
    BY <2>1, <2>2 DEF ComponentData, RequestKinds, Val, GoodData, EntityKinds, ComponentKinds
  <2>4. QED BY <1>1, <2>1, <2>3
<1>6. QED BY <1>2, <1>3, <1>4, <1>5, InitAssumption DEF ClientCall

\* The first message of a peer makes it one; all become events of the server.
LEMMA MessageKeeps ==
  ASSUME NetInv, NEW p \in Peers, onMessageReceived(p)
  PROVE  NetInv'
<1>1. Typed /\ up[p] # <<>> /\ up[p] \in Seq(Requests \cup {Greeting}) /\ queue \in Seq(Events)
  BY DEF NetInv, Typed, onMessageReceived
<1>2. Head(up[p]) \in Requests \cup {Greeting} /\ Tail(up[p]) \in Seq(Requests \cup {Greeting})
  BY <1>1, Taken
<1>3. PICK e : e = RemoteProto(p, Head(up[p]))
  OBVIOUS
<1>4. e \in Remotes /\ e \in Events /\ e.ev = "remote" /\ e.peer = p
  BY <1>2, <1>3 DEF RemoteProto, Remotes, Events
<1>5. PICK new : new = <<e>>
  OBVIOUS
<1>6. new \in Seq(Events) /\ Elems(new) = {e} /\ queue' = queue \o new
  BY <1>3, <1>4, <1>5, OneEvent DEF onMessageReceived, post
<1>7. /\ UNCHANGED <<known, stored, pending, module, subscribed, subKeys, repEntities, replica, refused>>
      /\ UNCHANGED <<down, online, ops>>
  BY DEF onMessageReceived, dbVars, modVars, subVars, clientVars
<1>8. /\ peerState' = [peerState EXCEPT ![p] = "auth"] /\ peerState[p] \in {"waiting", "auth"}
      /\ up' = [up EXCEPT ![p] = Tail(@)]
  BY DEF onMessageReceived
<1>9. queue' \in Seq(Events)
  BY <1>1, <1>6, QueueTyped
<1>10. Typed'
  BY <1>1, <1>2, <1>7, <1>8, <1>9 DEF Typed
<1>11. StorageFollows'
  <2>1. \A k \in Keys : ~Writes(e, k)
    BY <1>4 DEF Writes
  <2>2. ASSUME NEW k \in Keys PROVE Chain(queue, k, stored[k], module[k])'
    <3>1. Chain(queue \o new, k, stored[k], module[k])
      BY <1>1, <1>6, <2>1, ChainPosted DEF NetInv, StorageFollows
    <3>2. QED BY <1>6, <1>7, <3>1
  <2>3. QED BY <2>2 DEF StorageFollows
<1>12. /\ \A x \in Peers : peerState'[x] = "auth" => peerState[x] \in {"auth", "waiting"} /\ down'[x] = down[x]
       /\ \A x \in Peers : peerState'[x] \in {"new", "waiting"} => peerState[x] \in {"new", "waiting"}
       /\ peerState'[p] = "auth"
  BY <1>1, <1>7, <1>8 DEF Typed
<1>13. QED BY <1>4, <1>6, <1>7, <1>10, <1>11, <1>12, PostStep

\* What a message makes of a client's storage has the types of one, and
\* nothing is left of an entity the client does not have.
LEMMA ReplicaTyped ==
  ASSUME NEW f \in [Keys -> MaybeVal], NEW ents \in SUBSET Entities,
         NEW m \in Messages \cup {Greeting}, \A k \in Keys : k[1] \notin ents => f[k] = Absent
  PROVE  /\ NewReplica(f, ents, m) \in [Keys -> MaybeVal]
         /\ NewEntities(ents, m) \in SUBSET Entities
         /\ \A k \in Keys : k[1] \notin NewEntities(ents, m) => NewReplica(f, ents, m)[k] = Absent
<1>1. CASE m \in Messages
  <2>1. /\ m.ent \in Entities /\ GoodData(m)
    BY <1>1 DEF Messages
  <2>2. CASE m.data \in ComponentKinds
    <3>1. m.comp \in Components /\ m.val \in Val /\ <<m.ent, m.comp>> \in Keys
      BY <2>1, <2>2 DEF GoodData, Keys
    <3>2. PICK k : k = <<m.ent, m.comp>>
      OBVIOUS
    <3>3. NewEntities(ents, m) = ents
      BY <2>2 DEF NewEntities, ComponentKinds
    <3>4. NewReplica(f, ents, m) \in {f, [f EXCEPT ![k] = m.val], [f EXCEPT ![k] = Absent]}
          /\ (m.ent \notin ents => NewReplica(f, ents, m) = f)
      BY <2>2, <3>2 DEF NewReplica, ComponentKinds
    <3>5. k \in Keys /\ k[1] = m.ent
      BY <3>1, <3>2
    <3>6. QED BY <3>1, <3>3, <3>4, <3>5 DEF MaybeVal
  <2>3. CASE m.data = "INTRO"
    <3>1. m.val \in [Components -> MaybeVal]
      BY <2>1, <2>3 DEF GoodData
    <3>2. NewEntities(ents, m) = ents \cup {m.ent}
      BY <2>3 DEF NewEntities
    <3>3. NewReplica(f, ents, m) =
            IF m.ent \in ents THEN f ELSE [j \in Keys |-> IF j[1] = m.ent THEN m.val[j[2]] ELSE f[j]]
      BY <2>3 DEF NewReplica
    <3>4. \A j \in Keys : m.val[j[2]] \in MaybeVal
      BY <3>1 DEF Keys
    <3>5. QED BY <2>1, <3>2, <3>3, <3>4
  <2>4. CASE m.data \in {"UNSUBSCRIBE", "E_REMOVE"}
    <3>1. NewEntities(ents, m) = ents \ {m.ent}
      BY <2>4 DEF NewEntities
    <3>2. NewReplica(f, ents, m) = [j \in Keys |-> IF j[1] = m.ent THEN Absent ELSE f[j]]
      BY <2>4 DEF NewReplica
    <3>3. QED BY <3>1, <3>2 DEF MaybeVal
  <2>5. CASE m.data \notin ComponentKinds \cup {"INTRO", "UNSUBSCRIBE", "E_REMOVE"}
    <3>1. NewEntities(ents, m) = ents /\ NewReplica(f, ents, m) = f
      BY <2>5 DEF NewEntities, NewReplica, ComponentKinds
    <3>2. QED BY <3>1
  <2>6. QED BY <2>2, <2>3, <2>4, <2>5
<1>2. CASE m = Greeting
  <2>1. NewEntities(ents, m) = ents /\ NewReplica(f, ents, m) = f
    BY <1>2 DEF NewEntities, NewReplica, Greeting
  <2>2. QED BY <2>1
<1>3. QED BY <1>1, <1>2

\* A message that brings a value leaves the client with it or without the
\* component, except for an ADD it refuses; one that is not about the
\* component leaves it alone or takes it away.
LEMMA ReplicaHears ==
  ASSUME NEW f \in [Keys -> MaybeVal], NEW ents \in SUBSET Entities,
         NEW m \in Messages \cup {Greeting}, NEW k \in Keys, NEW v \in Stored,
         k[1] \notin ents => f[k] = Absent
  PROVE  /\ m \in GoodMessages(k, v) =>
              NewReplica(f, ents, m)[k] \in {Absent, v} \/ k \in Refused(f, ents, m)
         /\ m \notin StaleMessages(k, v) =>
              \/ NewReplica(f, ents, m)[k] \in {Absent, v} \/ NewReplica(f, ents, m)[k] = f[k]
              \/ k \in Refused(f, ents, m)
<1>1. ASSUME m \in GoodMessages(k, v)
      PROVE  NewReplica(f, ents, m)[k] \in {Absent, v} \/ k \in Refused(f, ents, m)
  <2>1. m \in Messages /\ m.ent = k[1] /\ Good(m, k, v)
    BY <1>1 DEF GoodMessages, Good, About
  <2>2. CASE m.data \in {"UNSUBSCRIBE", "E_REMOVE"}
    BY <2>2, <2>1 DEF NewReplica
  <2>3. CASE m.data \notin {"UNSUBSCRIBE", "E_REMOVE"}
    <3>1. m.data \in ComponentKinds /\ m.comp = k[2] /\ (m.data # "C_REMOVE" => m.val = v)
      BY <2>1, <2>3 DEF Good, About
    <3>2. k = <<m.ent, m.comp>>
      BY <2>1, <3>1 DEF Keys
    <3>3. CASE m.data = "C_ADD"
      BY <3>1, <3>2, <3>3 DEF NewReplica, Refused
    <3>4. CASE m.data = "C_REMOVE"
      BY <3>2, <3>4 DEF NewReplica
    <3>5. CASE m.data \in {"C_SET", "C_FETCH"}
      BY <3>1, <3>2, <3>5 DEF NewReplica
    <3>6. QED BY <3>1, <3>3, <3>4, <3>5 DEF ComponentKinds
  <2>4. QED BY <2>2, <2>3
<1>2. ASSUME m \notin StaleMessages(k, v), m \notin GoodMessages(k, v)
      PROVE  NewReplica(f, ents, m)[k] = Absent \/ NewReplica(f, ents, m)[k] = f[k]
  <2>1. CASE m = Greeting
    BY <2>1 DEF NewReplica, Greeting
  <2>2. CASE m \in Messages
    <3>1. ~About(m, k)
      BY <1>2, <2>2 DEF StaleMessages, GoodMessages, Stale
    <3>2. CASE m.data = "INTRO"
      BY <3>1, <3>2 DEF NewReplica, About
    <3>3. CASE m.data \in {"UNSUBSCRIBE", "E_REMOVE"}
      BY <3>3 DEF NewReplica
    <3>4. CASE m.data \in ComponentKinds
      <4>1. <<m.ent, m.comp>> # k
        BY <3>1, <3>4 DEF About
      <4>2. QED BY <3>4, <4>1 DEF NewReplica, ComponentKinds
    <3>5. CASE m.data \notin ComponentKinds \cup {"INTRO", "UNSUBSCRIBE", "E_REMOVE"}
      BY <3>5 DEF NewReplica, ComponentKinds
    <3>6. QED BY <3>2, <3>3, <3>4, <3>5
  <2>3. QED BY <2>1, <2>2
<1>3. QED BY <1>1, <1>2

\* A client takes its next message and answers with requests.
LEMMA ReceiveKeeps ==
  ASSUME NetInv, NEW p \in Peers, NEW requests \in Seq(Requests), receive(p, requests)
  PROVE  NetInv'
<1>1. Typed /\ down[p] # <<>> /\ down[p] \in Heard /\ queue \in Seq(Events)
  BY DEF NetInv, Typed, Heard, receive
<1>2. PICK m : m = Head(down[p])
  OBVIOUS
<1>3. m \in Messages \cup {Greeting} /\ Tail(down[p]) \in Heard
  BY <1>1, <1>2, Taken DEF Heard
<1>4. UNCHANGED <<known, stored, pending, queue, module, subscribed, subKeys, peerState, ops>>
  BY DEF receive, dbVars, modVars, subVars
<1>5. /\ down' = [down EXCEPT ![p] = Tail(@)] /\ up' = [up EXCEPT ![p] = @ \o requests]
      /\ online' = online \cup {p}
      /\ replica' = [replica EXCEPT ![p] = NewReplica(@, repEntities[p], m)]
      /\ repEntities' = [repEntities EXCEPT ![p] = NewEntities(@, m)]
      /\ refused' = [refused EXCEPT ![p] = {k \in @ : replica'[p][k] = replica[p][k]}
                       \cup Refused(replica[p], repEntities[p], m)]
  BY <1>2 DEF receive
<1>6. /\ replica[p] \in [Keys -> MaybeVal] /\ repEntities[p] \in SUBSET Entities
      /\ \A k \in Keys : k[1] \notin repEntities[p] => replica[p][k] = Absent
  BY <1>1 DEF Typed, NetInv, PeersArrive
<1>7. /\ NewReplica(replica[p], repEntities[p], m) \in [Keys -> MaybeVal]
      /\ NewEntities(repEntities[p], m) \in SUBSET Entities
      /\ \A k \in Keys : k[1] \notin NewEntities(repEntities[p], m) =>
           NewReplica(replica[p], repEntities[p], m)[k] = Absent
  BY <1>3, <1>6, ReplicaTyped
<1>8. /\ replica'[p] = NewReplica(replica[p], repEntities[p], m)
      /\ repEntities'[p] = NewEntities(repEntities[p], m)
      /\ refused'[p] = {k \in refused[p] : replica'[p][k] = replica[p][k]}
                         \cup Refused(replica[p], repEntities[p], m)
      /\ down'[p] = Tail(down[p])
      /\ \A x \in Peers : x # p =>
           /\ replica'[x] = replica[x] /\ repEntities'[x] = repEntities[x]
           /\ refused'[x] = refused[x] /\ down'[x] = down[x]
  BY <1>1, <1>5 DEF Typed
<1>9. Typed'
  <2>1. replica' \in [Peers -> [Keys -> MaybeVal]] /\ repEntities' \in [Peers -> SUBSET Entities]
    BY <1>1, <1>5, <1>7 DEF Typed
  <2>2. refused'[p] \subseteq Keys
    BY <1>1, <1>8 DEF Refused, Typed
  <2>3. refused' \in [Peers -> SUBSET Keys]
    BY <1>1, <1>5, <1>8, <2>2 DEF Typed
  <2>4. up' \in [Peers -> Seq(Requests \cup {Greeting})]
    <3>1. up[p] \in Seq(Requests \cup {Greeting}) /\ requests \in Seq(Requests \cup {Greeting})
      BY <1>1 DEF Typed
    <3>2. up[p] \o requests \in Seq(Requests \cup {Greeting})
      BY <3>1, Joined
    <3>3. QED BY <1>1, <1>5, <3>2 DEF Typed
  <2>5. down' \in [Peers -> Seq(Messages \cup {Greeting})]
    BY <1>1, <1>3, <1>5 DEF Typed, Heard
  <2>6. QED BY <1>1, <1>4, <1>5, <2>1, <2>3, <2>4, <2>5 DEF Typed
<1>10. StorageFollows' /\ SnapshotsFetched' /\ SubscriptionInv'
  <2>1. SubscriptionInv'
    BY <1>4, FrameKeeps DEF NetInv
  <2>2. QED BY <1>4, <2>1 DEF NetInv, StorageFollows, SnapshotsFetched
<1>11. PeersArrive'
  <2>1. \A x \in Peers : peerState'[x] \in {"new", "waiting"} =>
          /\ \A e \in Entities : x \notin subscribed'[e]
          /\ \A e \in Elems(queue') : e.ev \in {"cmd", "remote"} => e.peer # x
    BY <1>4 DEF NetInv, PeersArrive
  <2>2. ASSUME NEW x \in Peers, NEW k \in Keys, k[1] \notin repEntities'[x]
        PROVE  replica'[x][k] = Absent
    <3>1. CASE x = p
      BY <1>7, <1>8, <2>2, <3>1
    <3>2. CASE x # p
      BY <1>8, <2>2, <3>2 DEF NetInv, PeersArrive
    <3>3. QED BY <3>1, <3>2
  <2>3. QED BY <2>1, <2>2 DEF PeersArrive
<1>12. ASSUME NEW x \in Peers, NEW k \in Keys, Obliged(x, k)'
       PROVE  Fresh(queue', down'[x], replica'[x][k], refused'[x], x, k, stored'[k])
  <2>1. Obliged(x, k)
    BY <1>4, <1>12 DEF Obliged
  <2>2. Fresh(queue, down[x], replica[x][k], refused[x], x, k, stored[k])
    BY <2>1 DEF NetInv, ReplicaFresh
  <2>3. CASE x # p
    BY <1>4, <1>8, <2>2, <2>3
  <2>4. CASE x = p
    <3>1. PICK v : v = stored[k]
      OBVIOUS
    <3>2. v \in Stored
      BY <1>1, <3>1 DEF Typed
    <3>3. /\ m \in GoodMessages(k, v) =>
                replica'[p][k] \in {Absent, v} \/ k \in Refused(replica[p], repEntities[p], m)
          /\ m \notin StaleMessages(k, v) =>
                \/ replica'[p][k] \in {Absent, v} \/ replica'[p][k] = replica[p][k]
                \/ k \in Refused(replica[p], repEntities[p], m)
      BY <1>3, <1>6, <1>8, <3>2, ReplicaHears
    <3>4. /\ m \in GoodMessages(k, v) => replica'[p][k] \in {Absent, v} \/ k \in refused'[p]
          /\ m \notin StaleMessages(k, v) /\ (replica[p][k] \in {Absent, v} \/ k \in refused[p])
               => replica'[p][k] \in {Absent, v} \/ k \in refused'[p]
      BY <1>8, <3>3
    <3>5. Fresh(queue, Tail(down[p]), replica'[p][k], refused'[p], p, k, v)
      BY <1>1, <1>2, <2>2, <2>4, <3>1, <3>4, FreshReceived
    <3>6. QED BY <1>4, <1>8, <2>4, <3>1, <3>5
  <2>5. QED BY <2>3, <2>4
<1>13. ReplicaFresh'
  BY <1>12 DEF ReplicaFresh
<1>14. QED BY <1>9, <1>10, <1>11, <1>13 DEF NetInv

-----------------------------------------------------------------------------
(* The invariant, and what follows from it                                 *)

\* The started server has no events, no subscribers, and clients that know
\* nothing.
LEMMA NetInvInit == Init => NetInv
<1> SUFFICES ASSUME Init PROVE NetInv
  OBVIOUS
<1>1. SubscriptionInv
  BY SubscriptionInvInit
<1>2. Typed
  <2>1. known \subseteq Entities
    BY InitAssumption DEF Init, Keys
  <2>2. stored \in [Keys -> Stored] /\ module \in [Keys -> Stored]
    BY InitAssumption DEF Init, Stored
  <2>3. online \subseteq Peers
    BY PeerAssumption DEF Init
  <2>4. replica \in [Peers -> [Keys -> MaybeVal]]
    BY DEF Init, MaybeVal
  <2>5. queue \in Seq(Events) /\ ops \in 0..MaxOps
    BY BoundAssumption DEF Init
  <2>6. /\ up \in [Peers -> Seq(Requests \cup {Greeting})]
        /\ down \in [Peers -> Seq(Messages \cup {Greeting})]
    BY DEF Init
  <2>7. QED BY <2>1, <2>2, <2>3, <2>4, <2>5, <2>6 DEF Typed, Init
<1>3. StorageFollows
  <2> SUFFICES ASSUME NEW k \in Keys PROVE Chain(queue, k, stored[k], module[k])
    BY DEF StorageFollows
  <2>1. queue = <<>> /\ module = stored
    BY DEF Init
  <2>2. QED BY <2>1 DEF Chain, Settled, AddsToNothing, Link, Shown
<1>4. PeersArrive
  BY DEF Init, PeersArrive, Elems
<1>5. SnapshotsFetched
  BY DEF Init, SnapshotsFetched
<1>6. ReplicaFresh
  BY DEF Init, ReplicaFresh, Obliged, Keys
<1>7. QED BY <1>1, <1>2, <1>3, <1>4, <1>5, <1>6 DEF NetInv

\* Every step of server, modules, links and clients keeps the invariant.
LEMMA NetInvNext == NetInv /\ Next => NetInv'
<1> SUFFICES ASSUME NetInv, Next PROVE NetInv'
  OBVIOUS
<1>1. SubscriptionInv'
  BY SubscriptionInvStep DEF NetInv
<1>2. CASE Dispatch
  BY <1>1, <1>2, SubscribedKeeps, UnsubscribeKeeps, EntityAddKeeps, EntityRemoveKeeps,
     ComponentAddKeeps, ComponentRemoveKeeps, ComponentSetKeeps, ClientSetKeeps, FetchKeeps,
     ForwardOnlyKeeps, RemoteKeeps, LocalKeeps, StatusKeeps DEF Dispatch
<1>3. CASE ModuleCall
  BY <1>3, ModuleCallKeeps
<1>4. ASSUME NEW p \in Peers, clientReceive(p) PROVE NetInv'
  <2>1. <<>> \in Seq(Requests) /\ receive(p, <<>>)
    BY <1>4 DEF clientReceive
  <2>2. QED BY <2>1, ReceiveKeeps
<1>5. QED BY <1>2, <1>3, <1>4, ClientCallKeeps, MessageKeeps DEF Next

LEMMA NetInvFrame ==
  ASSUME NetInv, UNCHANGED vars
  PROVE  NetInv'
<1>1. /\ UNCHANGED <<known, stored, pending, queue, module, subscribed, subKeys, peerState, up, down>>
      /\ UNCHANGED <<online, repEntities, replica, refused, ops>>
  BY DEF vars, dbVars, netVars
<1>2. SubscriptionInv'
  BY <1>1, FrameKeeps DEF NetInv
<1>3. QED
  BY <1>1, <1>2 DEF NetInv, Typed, StorageFollows, PeersArrive, SnapshotsFetched, ReplicaFresh, Obliged

LEMMA NetInvStep == NetInv /\ [Next]_vars => NetInv'
  BY NetInvNext, NetInvFrame

\* The types of the invariant are those of TypeOK.
LEMMA TypedImplies == NetInv => TypeOK
<1> SUFFICES ASSUME NetInv PROVE TypeOK
  OBVIOUS
<1>1. Typed
  BY DEF NetInv
<1>2. \A m \in Messages : IsEnvelope(m) /\ m # Greeting
  <2> SUFFICES ASSUME NEW m \in Messages PROVE IsEnvelope(m) /\ m # Greeting
    OBVIOUS
  <2>1. m.data \in Kinds /\ m.ent \in Entities /\ GoodData(m)
    BY DEF Messages
  <2>2. m.data # "GREETING"
    BY <2>1 DEF Kinds
  <2>3. m.val \in Payload(m.data)
    BY <2>1 DEF GoodData, Payload, Kinds, EntityKinds, ComponentKinds, Val
  <2>4. QED BY <2>1, <2>2, <2>3 DEF IsEnvelope, Greeting
<1>3. IsEnvelope(Greeting)
  BY DEF IsEnvelope
<1>4. \A e \in Events : IsEvent(e)
  <2> SUFFICES ASSUME NEW e \in Events PROVE IsEvent(e)
    OBVIOUS
  <2>1. CASE e \in Commands
    BY <2>1 DEF IsEvent, Commands
  <2>2. CASE e \in Remotes
    <3>1. e.ev = "remote" /\ e.peer \in Peers /\ e.msg \in Messages \cup {Greeting}
      BY <2>2 DEF Remotes, Requests
    <3>2. QED BY <1>2, <1>3, <3>1 DEF IsEvent
  <2>3. CASE e \in Locals
    <3>1. e.ev = "local" /\ e.to \subseteq Peers /\ e.msg \in Messages
      BY <2>3 DEF Locals
    <3>2. QED BY <1>2, <3>1 DEF IsEvent
  <2>4. CASE e \in Statuses
    BY <2>4 DEF IsEvent, Statuses
  <2>5. QED BY <2>1, <2>2, <2>3, <2>4 DEF Events
<1>5. \A i \in DOMAIN queue : IsEvent(queue[i])
  BY <1>1, <1>4 DEF Typed
<1>6. \A p \in Peers : \A i \in DOMAIN up[p] : IsEnvelope(up[p][i])
  <2> SUFFICES ASSUME NEW p \in Peers, NEW i \in DOMAIN up[p] PROVE IsEnvelope(up[p][i])
    OBVIOUS
  <2>1. up[p] \in Seq(Requests \cup {Greeting})
    BY <1>1 DEF Typed
  <2>2. up[p][i] \in Requests \cup {Greeting}
    BY <2>1
  <2>3. up[p][i] \in Messages \cup {Greeting}
    BY <2>2 DEF Requests
  <2>4. QED BY <1>2, <1>3, <2>3
<1>7. \A p \in Peers : \A i \in DOMAIN down[p] : IsEnvelope(down[p][i])
  <2> SUFFICES ASSUME NEW p \in Peers, NEW i \in DOMAIN down[p] PROVE IsEnvelope(down[p][i])
    OBVIOUS
  <2>1. down[p] \in Seq(Messages \cup {Greeting})
    BY <1>1 DEF Typed
  <2>2. down[p][i] \in Messages \cup {Greeting}
    BY <2>1
  <2>3. QED BY <1>2, <1>3, <2>2
<1>8. stored \in [Keys -> MaybeVal] /\ module \in [Keys -> MaybeVal]
  BY <1>1 DEF Typed, Stored, MaybeVal, Val
<1>9. QED BY <1>1, <1>5, <1>6, <1>7, <1>8 DEF Typed, TypeOK

\* With an empty queue the stored value is the only link of its chain.
LEMMA FollowsImplies == NetInv => StorageFollowsModules
<1> SUFFICES ASSUME NetInv, queue = <<>>, NEW k \in Keys, stored[k] # Absent
             PROVE  stored[k] = module[k]
  BY DEF StorageFollowsModules
<1>1. Settled(queue, k, stored[k], module[k])
  BY DEF NetInv, StorageFollows, Chain
<1>2. Len(queue) = 0 /\ Link(queue, k, 0) /\ Shown(queue, stored[k], 0) = stored[k]
  BY DEF Link, Shown
<1>3. \A n \in (0 + 1)..Len(queue) : ~Writes(queue[n], k)
  BY <1>2
<1>4. QED BY <1>1, <1>2, <1>3 DEF Settled

\* When nothing is under way, only what the client has is left to be fresh.
LEMMA FreshImplies == NetInv => ReplicaConverges
<1> SUFFICES ASSUME NetInv, NEW p \in Peers, NEW k \in Keys, Quiet(p), p \in subscribed[k[1]],
                    k \notin refused[p], replica[p][k] # Absent, stored[k] # Absent
             PROVE  replica[p][k] = stored[k]
  BY DEF ReplicaConverges
<1>1. queue = <<>> /\ down[p] = <<>> /\ Obliged(p, k)
  BY DEF Quiet, Obliged
<1>2. Fresh(<<>>, <<>>, replica[p][k], refused[p], p, k, stored[k])
  BY <1>1 DEF NetInv, ReplicaFresh
<1>3. QED BY <1>2 DEF Fresh, Refetched, Elems, EndsWell

\* Every event, message and replica of the system has its type, in whatever
\* order modules call, clients ask and connections break.
THEOREM NetTypes == Spec => []TypeOK
  BY NetInvInit, NetInvStep, TypedImplies, PTL DEF Spec

\* The storage follows the modules: with an empty queue a stored component has
\* the value its module last set, for any number of modules, of clients that
\* write and of entities that go and come back.
THEOREM StorageFollowsItsModules == Spec => []StorageFollowsModules
  BY NetInvInit, NetInvStep, FollowsImplies, PTL DEF Spec

\* The replicas converge: a subscriber to whom nothing is under way has the
\* value of the server, whatever overtook the snapshot it started from, unless
\* it refused the component when it was added.
THEOREM ReplicasConverge == Spec => []ReplicaConverges
  BY NetInvInit, NetInvStep, FreshImplies, PTL DEF Spec
=============================================================================
