------------------------------ MODULE VeinNet -------------------------------
(***************************************************************************)
(* A vein server and its network clients.                                  *)
(*                                                                         *)
(* The server is one event loop: every event system posts to one FIFO      *)
(* queue, and one dispatch step hands the first event to the systems in    *)
(* their order (modules, system module, introspection, storage, network,   *)
(* tcp) until one accepts it.  The storage is VeinDatabase.  Modules own   *)
(* entities and post notifications, NetworkSystem keeps the subscriptions, *)
(* TcpSystem the peers, and each peer is a client with a replica of the    *)
(* entities it subscribed to (ClientStorageEventSystem).                   *)
(*                                                                         *)
(* Events that can no longer have an effect, such as what a client's own   *)
(* queue does between two messages, are not interleaved separately.        *)
(***************************************************************************)
EXTENDS Naturals, Sequences, VeinDatabase

CONSTANTS
  ComponentOrder, \* the components in the key order of QVariantMap
  ReadOnly,       \* keys whose module does not let clients write
  InitKeys,       \* components the started server has
  InitValue,      \* their value
  Peers,          \* TCP connections, each used once (fresh QUuid per connection)
  InitPeers,      \* connections already established in the initial state
  NoPeer,         \* the null QUuid of events nobody on the network asked for
  NoComponent,    \* componentName of events that carry none
  MaxOps          \* bound: calls of modules and clients in one run

ASSUME OrderAssumption ==
  /\ ComponentOrder \in Seq(Components)
  /\ \A c \in Components : \E i \in DOMAIN ComponentOrder : ComponentOrder[i] = c
ASSUME PeerAssumption == InitPeers \subseteq Peers /\ NoPeer \notin Peers
ASSUME InitAssumption == InitKeys \subseteq Keys /\ InitValue \in Values
ASSUME BoundAssumption == MaxOps \in Nat
ASSUME ValueAssumption == Absent \notin Val /\ Invalid \notin Values

VARIABLES
  queue,       \* events posted to the server's EventHandler
  module,      \* VfCppEntity::m_componentList: the modules' own values
  subscribed,  \* m_subscriptions: peers per entity
  subKeys,     \* m_subscriptions: the entities that have a list at all
  peerState,   \* TcpSystem: m_waitingAuth ("waiting"), m_peerList ("auth")
  up,          \* bytes on their way from a client to the server
  down,        \* bytes on their way from the server to a client
  online,      \* clients whose TcpSystem lists the server as a peer
  repEntities, \* client storage: entities known to each client
  replica,     \* client storage: value per component, or Absent
  refused,     \* history: components whose ADD a client refused, unchanged since
  ops          \* calls made so far

modVars == <<module>>
subVars == <<subscribed, subKeys>>
linkVars == <<peerState, up, down>>
clientVars == <<online, repEntities, replica, refused>>
netVars == <<queue, module, subscribed, subKeys, peerState, up, down, online,
             repEntities, replica, refused, ops>>
vars == <<dbVars, netVars>>

-----------------------------------------------------------------------------
(* Events                                                                  *)

\* The event data types, as they survive (de)serialization.
EntityData(cmd, e) == [data |-> cmd, ent |-> e, comp |-> NoComponent, val |-> Invalid]

ComponentData(cmd, e, c, v) == [data |-> cmd, ent |-> e, comp |-> c, val |-> v]

IntrospectionData(e, values) == [data |-> "INTRO", ent |-> e, comp |-> NoComponent, val |-> values]

\* Of the data an error quotes, clients look at the command and its subject.
ErrorData(d) == [data |-> "ERROR", ent |-> d.ent, comp |-> d.comp, val |-> d.data]

\* CommandEvent around data d.  "trans" is EventSubtype::TRANSACTION, "out"
\* stands for origin EO_LOCAL together with target ET_ALL.
Cmd(trans, out, d, p) ==
  [ev |-> "cmd", trans |-> trans, out |-> out, data |-> d.data,
   ent |-> d.ent, comp |-> d.comp, val |-> d.val, peer |-> p]

Notify(d) == Cmd(FALSE, TRUE, d, NoPeer)

\* What a serialized CommandEvent keeps: no origin, no target, no peer.
Envelope(c) == [trans |-> c.trans, data |-> c.data, ent |-> c.ent, comp |-> c.comp, val |-> c.val]

\* "hello" and "welcome": buffers that are no envelope.
Greeting == [trans |-> FALSE, data |-> "GREETING", ent |-> NoComponent, comp |-> NoComponent,
             val |-> Invalid]

RemoteProto(p, msg) == [ev |-> "remote", peer |-> p, msg |-> msg]
LocalProto(to, msg) == [ev |-> "local", to |-> to, msg |-> msg]
Disconnected(p) == [ev |-> "status", peer |-> p]

\* ErrorDataSender::errorOut: a notification with the target and the peer of
\* the event it replaces.
ErrorOf(c) == Cmd(FALSE, c.out, ErrorData(c), c.peer)

-----------------------------------------------------------------------------
Init ==
  /\ known = {k[1] : k \in InitKeys}
  /\ stored = [k \in Keys |-> IF k \in InitKeys THEN InitValue ELSE Absent]
  /\ pending = [k \in Keys |-> Absent]
  /\ rpcs = [e \in Entities |-> {}]
  /\ reply = Done
  /\ queue = <<>>
  /\ module = stored
  /\ subscribed = [e \in Entities |-> {}]
  /\ subKeys = {}
  /\ peerState = [p \in Peers |-> IF p \in InitPeers THEN "auth" ELSE "new"]
  /\ up = [p \in Peers |-> <<>>]
  /\ down = [p \in Peers |-> <<>>]
  /\ online = InitPeers
  /\ repEntities = [p \in Peers |-> {}]
  /\ replica = [p \in Peers |-> [k \in Keys |-> Absent]]
  /\ refused = [p \in Peers |-> {}]
  /\ ops = 0

-----------------------------------------------------------------------------
(* Module side: VfCppEntity and VfCppComponent                             *)

\* A call into the framework from outside the event loop.
Call == ops < MaxOps /\ ops' = ops + 1

post(events) == queue' = queue \o events

initModule(e) ==
  /\ Call
  /\ post(<<Cmd(FALSE, FALSE, EntityData("E_ADD", e), NoPeer)>>)
  /\ UNCHANGED <<dbVars, modVars, subVars, linkVars, clientVars>>

createComponent(k, v) ==
  /\ Call
  /\ module[k] = Absent
  /\ module' = [module EXCEPT ![k] = v]
  /\ post(<<Notify(ComponentData("C_ADD", k[1], k[2], v))>>)
  /\ UNCHANGED <<dbVars, subVars, linkVars, clientVars>>

\* Fault: a value the storage already shows is not notified again.
moduleSetValueSkips(k, v) ==
  /\ Call
  /\ module[k] # Absent
  /\ module' = [module EXCEPT ![k] = v]
  /\ post(IF stored[k] = v THEN <<>> ELSE <<Notify(ComponentData("C_SET", k[1], k[2], v))>>)
  /\ UNCHANGED <<dbVars, subVars, linkVars, clientVars>>

\* VfCppComponent::setValue by the module itself.
moduleSetValue(k, v) ==
  /\ Call
  /\ module[k] # Absent
  /\ module' = [module EXCEPT ![k] = v]
  /\ post(<<Notify(ComponentData("C_SET", k[1], k[2], v))>>)
  /\ UNCHANGED <<dbVars, subVars, linkVars, clientVars>>

\* The component stays in m_componentList.
removeComponent(k) ==
  /\ Call
  /\ module[k] # Absent
  /\ post(<<Notify(ComponentData("C_REMOVE", k[1], k[2], Invalid))>>)
  /\ UNCHANGED <<dbVars, modVars, subVars, linkVars, clientVars>>

removeEntity(e) ==
  /\ Call
  /\ module' = [k \in Keys |-> IF k[1] = e THEN Absent ELSE module[k]]
  /\ post(<<Notify(EntityData("E_REMOVE", e))>>)
  /\ UNCHANGED <<dbVars, subVars, linkVars, clientVars>>

-----------------------------------------------------------------------------
(* NetworkSystem                                                           *)

\* Introspection goes to the peer that asked, all else to all subscribers.
Receivers(c) == IF c.data = "INTRO" THEN {c.peer} ELSE subscribed[c.ent]

\* processCmdEvents in VNOM_SUBSCRIPTION: the protocol events for a command.
Forward(c) ==
  IF c.out /\ c.ent \in subKeys /\ Receivers(c) # {}
    THEN <<LocalProto(Receivers(c), Envelope(c))>>
    ELSE <<>>

tryAddSubscription(c) ==
  /\ subscribed' = [subscribed EXCEPT ![c.ent] = @ \cup {c.peer}]
  /\ subKeys' = subKeys \cup {c.ent}

\* The list of the entity stays, possibly empty.
dropSubscription(c) ==
  subscribed' = [subscribed EXCEPT ![c.ent] = IF c.ent \in subKeys THEN @ \ {c.peer} ELSE @]

dropEntity(e) ==
  /\ subscribed' = [subscribed EXCEPT ![e] = {}]
  /\ subKeys' = subKeys \ {e}

-----------------------------------------------------------------------------
(* Dispatch: one action per kind of event at the head of the queue         *)

First(kind) == queue # <<>> /\ Head(queue).ev = "cmd" /\ Head(queue).data = kind

\* The event leaves the queue; what its handling posts goes to the end.
consume(events) == queue' = Tail(queue) \o events

\* SystemModuleEventSystem: requests of clients become local notifications.
Validated(c) == [c EXCEPT !.trans = FALSE, !.out = TRUE]

\* The storage either rejects the event (it is accepted, so the network does
\* not see it, and an error is posted) or lets it pass on to the network.
afterStorage(c) == consume(IF reply'.kind = "error" THEN <<ErrorOf(c)>> ELSE Forward(c))

\* getComponentList: empty for an unknown entity as for one without components.
HasComponents(e) == \E x \in Components : stored[<<e, x>>] # Absent

\* Every component of the entity once, in the order of the keys.
Position(c) == CHOOSE i \in DOMAIN ComponentOrder : ComponentOrder[i] = c
ComponentLists(e) ==
  {s \in UNION {[1..n -> Components] : n \in 0..Len(ComponentOrder)} :
     /\ {s[i] : i \in DOMAIN s} = {x \in Components : stored[<<e, x>>] # Absent}
     /\ \A i, j \in DOMAIN s : i < j => Position(s[i]) < Position(s[j])}

\* Fault: only the values are sent, not the introspection itself.
IntrospectionValuesOnly(c, comps) ==
  [i \in DOMAIN comps |->
     Cmd(FALSE, TRUE, ComponentData("C_FETCH", c.ent, comps[i], stored[<<c.ent, comps[i]>>]), c.peer)]

\* IntrospectionSystem: a snapshot of the entity and one FETCH per component.
Introspection(c, comps) ==
  <<Cmd(FALSE, TRUE, IntrospectionData(c.ent, [x \in Components |-> stored[<<c.ent, x>>]]), c.peer)>>
  \o [i \in DOMAIN comps |->
        Cmd(FALSE, TRUE, ComponentData("C_FETCH", c.ent, comps[i], stored[<<c.ent, comps[i]>>]), c.peer)]

dispatchSubscribe ==
  /\ First("SUBSCRIBE")
  /\ LET c == Validated(Head(queue)) IN
     \/ /\ ~HasComponents(c.ent)
        /\ consume(<<ErrorOf(c)>>)
        /\ UNCHANGED subVars
     \/ /\ HasComponents(c.ent)
        /\ \E comps \in ComponentLists(c.ent) : consume(Introspection(c, comps))
        /\ tryAddSubscription(c)
  /\ UNCHANGED <<dbVars, modVars, linkVars, clientVars, ops>>

dispatchUnsubscribe ==
  /\ First("UNSUBSCRIBE")
  /\ LET c == Validated(Head(queue)) IN
     /\ consume(Forward(c))
     /\ dropSubscription(c)
  /\ UNCHANGED <<dbVars, modVars, subKeys, linkVars, clientVars, ops>>

dispatchEntityAdd ==
  /\ First("E_ADD")
  /\ AddEntity(Head(queue).ent, TRUE)
  /\ afterStorage(Head(queue))
  /\ UNCHANGED <<modVars, subVars, linkVars, clientVars, ops>>

\* Fault: the subscriptions of a removed entity stay.
dispatchEntityRemoveKeepsSubscriptions ==
  /\ First("E_REMOVE")
  /\ RemoveEntity(Head(queue).ent, TRUE)
  /\ afterStorage(Head(queue))
  /\ UNCHANGED <<modVars, subVars, linkVars, clientVars, ops>>

dispatchEntityRemove ==
  /\ First("E_REMOVE")
  /\ RemoveEntity(Head(queue).ent, TRUE)
  /\ afterStorage(Head(queue))
  /\ IF reply'.kind # "error" /\ Head(queue).ent \in subKeys
       THEN dropEntity(Head(queue).ent)
       ELSE UNCHANGED subVars
  /\ UNCHANGED <<modVars, linkVars, clientVars, ops>>

dispatchComponentAdd ==
  /\ First("C_ADD")
  /\ LET c == Head(queue) IN
     /\ AddComponent(<<c.ent, c.comp>>, c.val)
     /\ afterStorage(c)
  /\ UNCHANGED <<modVars, subVars, linkVars, clientVars, ops>>

dispatchComponentRemove ==
  /\ First("C_REMOVE")
  /\ LET c == Head(queue) IN
     /\ RemoveComponent(<<c.ent, c.comp>>)
     /\ afterStorage(c)
  /\ UNCHANGED <<modVars, subVars, linkVars, clientVars, ops>>

dispatchComponentSet ==
  /\ First("C_SET") /\ ~Head(queue).trans
  /\ LET c == Head(queue) IN
     /\ SetComponent(<<c.ent, c.comp>>, c.val)
     /\ IF reply'.kind = "dropped" THEN consume(<<>>) ELSE afterStorage(c)
  /\ UNCHANGED <<modVars, subVars, linkVars, clientVars, ops>>

\* A client's SET reaches the module: setValueFromVein notifies only when the
\* value differs and the component is writable.  Without a module nobody
\* takes the transaction and it vanishes.
dispatchClientSet ==
  /\ First("C_SET") /\ Head(queue).trans
  /\ LET c == Head(queue)
         k == <<c.ent, c.comp>>
         applies == module[k] \notin {Absent, c.val} /\ k \notin ReadOnly
     IN /\ consume(IF applies THEN <<Notify(ComponentData("C_SET", c.ent, c.comp, c.val))>> ELSE <<>>)
        /\ module' = [module EXCEPT ![k] = IF applies THEN c.val ELSE @]
  /\ UNCHANGED <<dbVars, subVars, linkVars, clientVars, ops>>

\* Fault: the value travels as it was when the fetch was posted.
dispatchFetchSnapshot ==
  /\ First("C_FETCH")
  /\ LET c == Validated(Head(queue)) IN
     /\ FetchComponent(<<c.ent, c.comp>>, c.val)
     /\ afterStorage(c)
  /\ UNCHANGED <<modVars, subVars, linkVars, clientVars, ops>>

\* The storage writes the current value into the event on its way.
dispatchFetch ==
  /\ First("C_FETCH")
  /\ LET c == Validated(Head(queue)) IN
     /\ FetchComponent(<<c.ent, c.comp>>, c.val)
     /\ afterStorage([c EXCEPT !.val = reply'.val])
  /\ UNCHANGED <<modVars, subVars, linkVars, clientVars, ops>>

\* Introspection data and errors concern only the network.
dispatchForwardOnly ==
  /\ First("INTRO") \/ First("ERROR")
  /\ consume(Forward(Head(queue)))
  /\ UNCHANGED <<dbVars, modVars, subVars, linkVars, clientVars, ops>>

\* deserializeIncomingAndSendCmdEvent: foreign origin, no target yet.
dispatchRemote ==
  /\ queue # <<>> /\ Head(queue).ev = "remote"
  /\ LET m == Head(queue).msg IN
     consume(IF m = Greeting THEN <<>>
             ELSE <<Cmd(m.trans, FALSE, m, Head(queue).peer)>>)
  /\ UNCHANGED <<dbVars, modVars, subVars, linkVars, clientVars, ops>>

\* TcpSystem::processEvent: to the receivers it still lists as peers.
dispatchLocal ==
  /\ queue # <<>> /\ Head(queue).ev = "local"
  /\ down' = [p \in Peers |-> IF p \in Head(queue).to /\ peerState[p] = "auth"
                                THEN Append(down[p], Head(queue).msg)
                                ELSE down[p]]
  /\ consume(<<>>)
  /\ UNCHANGED <<dbVars, modVars, subVars, peerState, up, clientVars, ops>>

\* handleNetworkStatusEvent, NSE_DISCONNECTED.
dispatchStatus ==
  /\ queue # <<>> /\ Head(queue).ev = "status"
  /\ subscribed' = [e \in Entities |-> subscribed[e] \ {Head(queue).peer}]
  /\ consume(<<>>)
  /\ UNCHANGED <<dbVars, modVars, subKeys, linkVars, clientVars, ops>>

Dispatch ==
  \/ dispatchSubscribe \/ dispatchUnsubscribe
  \/ dispatchEntityAdd \/ dispatchEntityRemove
  \/ dispatchComponentAdd \/ dispatchComponentRemove
  \/ dispatchComponentSet \/ dispatchClientSet \/ dispatchFetch
  \/ dispatchForwardOnly \/ dispatchRemote \/ dispatchLocal \/ dispatchStatus

-----------------------------------------------------------------------------
(* TcpSystem: connections                                                  *)

\* Both ends greet: onClientConnected on the server, onConnectionEstablished
\* on the client.
connectToServer(p) ==
  /\ Call
  /\ peerState[p] = "new"
  /\ peerState' = [peerState EXCEPT ![p] = "waiting"]
  /\ up' = [up EXCEPT ![p] = <<Greeting>>]
  /\ down' = [down EXCEPT ![p] = <<Greeting>>]
  /\ UNCHANGED <<dbVars, queue, modVars, subVars, clientVars>>

\* The first message of a waiting peer gives it an id and a place in m_peerList.
onMessageReceived(p) ==
  /\ peerState[p] \in {"waiting", "auth"} /\ up[p] # <<>>
  /\ peerState' = [peerState EXCEPT ![p] = "auth"]
  /\ up' = [up EXCEPT ![p] = Tail(@)]
  /\ post(<<RemoteProto(p, Head(up[p]))>>)
  /\ UNCHANGED <<dbVars, modVars, subVars, down, clientVars, ops>>

\* The connection breaks or the client leaves; unread bytes are lost.
onClientDisconnected(p) ==
  /\ Call
  /\ peerState[p] \in {"waiting", "auth"}
  /\ post(<<Disconnected(IF peerState[p] = "auth" THEN p ELSE NoPeer)>>)
  /\ peerState' = [peerState EXCEPT ![p] = "gone"]
  /\ up' = [up EXCEPT ![p] = <<>>]
  /\ down' = [down EXCEPT ![p] = <<>>]
  /\ online' = online \ {p}
  /\ UNCHANGED <<dbVars, modVars, subVars, repEntities, replica, refused>>

-----------------------------------------------------------------------------
(* Clients                                                                 *)

\* A transaction of a client; before the greeting arrived there is no peer to
\* send it to and it is lost.
request(p, d) ==
  /\ Call
  /\ p \in online
  /\ up' = [up EXCEPT ![p] = Append(@, Envelope(Cmd(TRUE, TRUE, d, NoPeer)))]
  /\ UNCHANGED <<dbVars, queue, modVars, subVars, peerState, down, clientVars>>

sendSubscription(p, e) == request(p, EntityData("SUBSCRIBE", e))
sendUnsubscription(p, e) == request(p, EntityData("UNSUBSCRIBE", e))
startGetComponent(p, k) == request(p, ComponentData("C_FETCH", k[1], k[2], Invalid))
startSetComponent(p, k, v) == request(p, ComponentData("C_SET", k[1], k[2], v))

\* ClientStorageEventSystem::processEvent: what message m makes of the
\* client's components (f) and entities (known).
NewReplica(f, ents, m) ==
  LET k == <<m.ent, m.comp>>
      have == m.ent \in ents
  IN CASE m.data = "INTRO" /\ ~have ->
            [j \in Keys |-> IF j[1] = m.ent THEN m.val[j[2]] ELSE f[j]]
       [] m.data \in {"C_FETCH", "C_SET"} /\ have /\ f[k] # Absent -> [f EXCEPT ![k] = m.val]
       [] m.data = "C_ADD" /\ have /\ f[k] = Absent -> [f EXCEPT ![k] = m.val]
       [] m.data = "C_REMOVE" /\ have /\ f[k] # Absent -> [f EXCEPT ![k] = Absent]
       [] m.data \in {"UNSUBSCRIBE", "E_REMOVE"} ->
            [j \in Keys |-> IF j[1] = m.ent THEN Absent ELSE f[j]]
       [] OTHER -> f

NewEntities(ents, m) ==
  CASE m.data = "INTRO" -> ents \cup {m.ent}
    [] m.data \in {"UNSUBSCRIBE", "E_REMOVE"} -> ents \ {m.ent}
    [] OTHER -> ents

\* "Cannot add existing component": the client keeps the value it has.
Refused(f, ents, m) ==
  {k \in Keys : m.data = "C_ADD" /\ k = <<m.ent, m.comp>> /\ m.ent \in ents /\ f[k] # Absent}

\* A message is handled and answered with requests.
receive(p, requests) ==
  /\ down[p] # <<>>
  /\ down' = [down EXCEPT ![p] = Tail(@)]
  /\ up' = [up EXCEPT ![p] = @ \o requests]
  /\ online' = online \cup {p}
  /\ replica' = [replica EXCEPT ![p] = NewReplica(@, repEntities[p], Head(down[p]))]
  /\ repEntities' = [repEntities EXCEPT ![p] = NewEntities(@, Head(down[p]))]
  /\ refused' = [refused EXCEPT ![p] = {k \in @ : replica'[p][k] = replica[p][k]}
                   \cup Refused(replica[p], repEntities[p], Head(down[p]))]
  /\ UNCHANGED <<dbVars, queue, modVars, subVars, peerState, ops>>

clientReceive(p) == receive(p, <<>>)

-----------------------------------------------------------------------------
ModuleCall ==
  \/ \E e \in Entities : initModule(e)
  \/ \E e \in Entities : removeEntity(e)
  \/ \E k \in Keys : removeComponent(k)
  \/ \E k \in Keys, v \in Values : createComponent(k, v)
  \/ \E k \in Keys, v \in Values : moduleSetValue(k, v)

ClientCall(p) ==
  \/ connectToServer(p)
  \/ onClientDisconnected(p)
  \/ \E e \in Entities : sendSubscription(p, e)
  \/ \E e \in Entities : sendUnsubscription(p, e)
  \/ \E k \in Keys : startGetComponent(p, k)
  \/ \E k \in Keys, v \in Values : startSetComponent(p, k, v)

Next ==
  \/ Dispatch
  \/ ModuleCall
  \/ \E p \in Peers : ClientCall(p)
  \/ \E p \in Peers : onMessageReceived(p)
  \/ \E p \in Peers : clientReceive(p)

Spec == Init /\ [][Next]_vars

-----------------------------------------------------------------------------
(* Properties                                                              *)

Kinds == {"SUBSCRIBE", "UNSUBSCRIBE", "E_ADD", "E_REMOVE", "C_ADD", "C_REMOVE",
          "C_SET", "C_FETCH", "INTRO", "ERROR"}
MaybeVal == Val \cup {Absent}
Payload(kind) == IF kind = "ERROR" THEN Kinds ELSE Val \cup [Components -> MaybeVal]

IsEnvelope(m) ==
  \/ m = Greeting
  \/ m.data \in Kinds /\ m.ent \in Entities /\ m.val \in Payload(m.data)

IsEvent(ev) ==
  CASE ev.ev = "cmd" -> ev.data \in Kinds /\ ev.ent \in Entities /\ ev.peer \in Peers \cup {NoPeer}
    [] ev.ev = "remote" -> ev.peer \in Peers /\ IsEnvelope(ev.msg)
    [] ev.ev = "local" -> ev.to \subseteq Peers /\ ev.msg # Greeting /\ IsEnvelope(ev.msg)
    [] ev.ev = "status" -> ev.peer \in Peers \cup {NoPeer}

\* Types of the server's state, of the links and of the replicas.
TypeOK ==
  /\ known \subseteq Entities
  /\ stored \in [Keys -> MaybeVal] /\ module \in [Keys -> MaybeVal]
  /\ subKeys \subseteq Entities
  /\ subscribed \in [Entities -> SUBSET Peers]
  /\ peerState \in [Peers -> {"new", "waiting", "auth", "gone"}]
  /\ online \subseteq Peers
  /\ repEntities \in [Peers -> SUBSET Entities]
  /\ replica \in [Peers -> [Keys -> MaybeVal]]
  /\ refused \in [Peers -> SUBSET Keys]
  /\ \A i \in DOMAIN queue : IsEvent(queue[i])
  /\ \A p \in Peers : \A i \in DOMAIN up[p] : IsEnvelope(up[p][i])
  /\ \A p \in Peers : \A i \in DOMAIN down[p] : IsEnvelope(down[p][i])
  /\ ops \in 0..MaxOps

\* Everything sent to or by peer p has been handled.
Quiet(p) == queue = <<>> /\ peerState[p] = "auth" /\ up[p] = <<>> /\ down[p] = <<>>

\* Replicas converge: when all is quiet a subscriber has the server's value
\* of every component both of them have.  Snapshots that were overtaken by a
\* SET are repaired by the FETCH that follows, because the storage rewrites it.
\* The exception is a component that was added while the client still had one
\* of a former entity: it refuses the ADD and waits for the next SET or FETCH.
ReplicaConverges ==
  \A p \in Peers, k \in Keys :
    Quiet(p) /\ p \in subscribed[k[1]] /\ k \notin refused[p]
      /\ replica[p][k] # Absent /\ stored[k] # Absent
      => replica[p][k] = stored[k]

\* Storage follows modules: when the queue is empty, a stored component has
\* the value its module last set, client writes and re-created entities included.
StorageFollowsModules ==
  queue = <<>> => \A k \in Keys : stored[k] # Absent => stored[k] = module[k]

\* No subscription outlives its entity ("avoid subscriptions sneaking into
\* next session"): introspection rejects subscriptions to missing entities
\* before the network sees them, and REMOVE drops the list.
NoSneakingSubscription ==
  \A e \in Entities : /\ e \in subKeys => e \in known
                      /\ e \notin subKeys => subscribed[e] = {}

\* A subscription to an entity with components is answered by its
\* introspection, unless the entity or the connection ends first.
SubscriptionAnswered ==
  \A p \in Peers, e \in Entities :
    (\E i \in DOMAIN up[p] : up[p][i].data = "SUBSCRIBE" /\ up[p][i].ent = e)
      ~> (e \in repEntities[p] \/ ~HasComponents(e) \/ peerState[p] = "gone")

\* A client that is subscribed knows the entity, whatever other clients do:
\* UNSUBSCRIBE "stops async notifications" for the client that sent it.
SubscriberHasEntity ==
  \A p \in Peers, e \in Entities :
    Quiet(p) /\ p \in subscribed[e] => e \in repEntities[p]
=============================================================================
