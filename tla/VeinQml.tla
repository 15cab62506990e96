------------------------------ MODULE VeinQml -------------------------------
(***************************************************************************)
(* The QML client (VeinQml with its EntityDictionary and one               *)
(* EntityComponentMap per entity) on one of the connections of VeinNet:    *)
(* reference-counted subscriptions, the values QML shows and the           *)
(* VQ_IDLE / VQ_LOADED state, driven by the messages the server of VeinNet *)
(* really sends, in the order it sends them.                               *)
(***************************************************************************)
EXTENDS VeinNet, Integers

CONSTANTS
  QmlPeer,       \* the connection of the QML client
  SessionKey,    \* entity 0, component "Session"
  EmptySession   \* the empty string, announced while a session is left

ASSUME QmlAssumption ==
  QmlPeer \in Peers /\ SessionKey \in Keys /\ EmptySession \in Values

VARIABLES
  refs,      \* m_entitySubscriptionReferenceTables; no entry is 0
  resolved,  \* m_resolvedIds
  dict,      \* m_entityDict: entities with an EntityComponentMap (ECM_READY)
  shown,     \* values of the maps: Absent is no key, Invalid a cleared key
  qmlState   \* m_state

qmlVars == <<refs, resolved, dict, shown, qmlState>>

QmlInit ==
  /\ Init
  /\ refs = [e \in Entities |-> 0]
  /\ resolved = {}
  /\ dict = {}
  /\ shown = [k \in Keys |-> Absent]
  /\ qmlState = "VQ_IDLE"

-----------------------------------------------------------------------------
(* Calls from QML                                                          *)

\* A call that sends nothing.
silentCall == Call /\ UNCHANGED <<dbVars, queue, modVars, subVars, linkVars, clientVars>>

\* Every subscription counts, but only an entity without a map is asked for.
entitySubscribeById(e) ==
  /\ QmlPeer \in online
  /\ IF e \in dict THEN silentCall ELSE sendSubscription(QmlPeer, e)
  /\ refs' = [refs EXCEPT ![e] = @ + 1]
  /\ UNCHANGED <<resolved, dict, shown, qmlState>>

\* Fault: the entity stays resolved when its map goes.
removeEntityMapKeepsResolved(e) ==
  /\ refs' = [refs EXCEPT ![e] = 0]
  /\ dict' = dict \ {e}
  /\ shown' = [k \in Keys |-> IF k[1] = e THEN Absent ELSE shown[k]]
  /\ UNCHANGED resolved

\* Fault: an entity that goes takes one subscription off the count.
removeEntityMapCounts(e) ==
  /\ refs' = [refs EXCEPT ![e] = @ - 1]
  /\ resolved' = resolved \ {e}
  /\ dict' = dict \ {e}
  /\ shown' = [k \in Keys |-> IF k[1] = e THEN Absent ELSE shown[k]]

\* VeinQml::removeEntity: count, resolution and map go together.
removeEntityMap(e) ==
  /\ refs' = [refs EXCEPT ![e] = 0]
  /\ resolved' = resolved \ {e}
  /\ dict' = dict \ {e}
  /\ shown' = [k \in Keys |-> IF k[1] = e THEN Absent ELSE shown[k]]

\* The Q_ASSERTs are preconditions of the caller.
entityUnsubscribeById(e) ==
  /\ QmlPeer \in online
  /\ e \in dict /\ refs[e] > 0
  /\ \/ /\ refs[e] > 1
        /\ silentCall
        /\ refs' = [refs EXCEPT ![e] = @ - 1]
        /\ UNCHANGED <<resolved, dict, shown>>
     \/ /\ refs[e] = 1
        /\ sendUnsubscription(QmlPeer, e)
        /\ removeEntityMap(e)
  /\ UNCHANGED qmlState

\* QML writes a property: a SET is sent if the value differs, and the map
\* keeps the old value until the server answers.
updateValue(k, v) ==
  /\ k[1] \in dict /\ shown[k] \notin {Absent, v}
  /\ startSetComponent(QmlPeer, k, v)
  /\ UNCHANGED qmlVars

-----------------------------------------------------------------------------
(* VeinQml::processEvent                                                   *)

\* The system entity announces the end of the session, by whichever command.
\* The string of an invalid value is empty too.
leavesSession(m) ==
  /\ m.data \in {"C_ADD", "C_SET", "C_FETCH", "C_REMOVE"}
  /\ <<m.ent, m.comp>> = SessionKey
  /\ m.val \in {EmptySession, Invalid}

\* EntityComponentMap::processComponentData ignores FETCH.
onComponentData(m) ==
  /\ m.data \in {"C_ADD", "C_SET", "C_FETCH", "C_REMOVE"}
  /\ shown' = IF m.ent \notin dict \/ m.data = "C_FETCH" THEN shown
              ELSE [shown EXCEPT ![<<m.ent, m.comp>>] =
                      IF m.data = "C_REMOVE" THEN Invalid ELSE m.val]
  /\ qmlState' = IF leavesSession(m) THEN "VQ_IDLE" ELSE qmlState
  /\ UNCHANGED <<refs, resolved, dict>>

\* The last missing entity makes the client LOADED.
onEntityLoaded(e) ==
  \/ /\ refs[e] = 0
     /\ UNCHANGED <<resolved, qmlState>>
  \/ /\ refs[e] > 0
     /\ resolved' = resolved \cup {e}
     /\ qmlState' = IF \A x \in Entities : refs[x] > 0 => x \in resolved'
                      THEN "VQ_LOADED" ELSE qmlState

\* The first introspection makes the map, with the values of the snapshot.
onIntrospection(m) ==
  /\ m.data = "INTRO"
  /\ \/ /\ m.ent \in dict
        /\ UNCHANGED qmlVars
     \/ /\ m.ent \notin dict
        /\ dict' = dict \cup {m.ent}
        /\ shown' = [k \in Keys |-> IF k[1] = m.ent THEN m.val[k[2]] ELSE shown[k]]
        /\ onEntityLoaded(m.ent)
        /\ UNCHANGED refs

\* Fault: the unsubscription of any client removes the map.
onEntityRemovedOrLeft(m) ==
  /\ m.data \in {"E_REMOVE", "UNSUBSCRIBE"}
  /\ removeEntityMap(m.ent)
  /\ UNCHANGED qmlState

onEntityRemoved(m) ==
  /\ m.data = "E_REMOVE"
  /\ removeEntityMap(m.ent)
  /\ UNCHANGED qmlState

processEvent ==
  /\ clientReceive(QmlPeer)
  /\ LET m == Head(down[QmlPeer]) IN
     \/ onComponentData(m)
     \/ onIntrospection(m)
     \/ onEntityRemoved(m)
     \/ m.data \in {"GREETING", "UNSUBSCRIBE", "ERROR"} /\ UNCHANGED qmlVars

-----------------------------------------------------------------------------
\* Everybody else: server, modules, the other clients and the link itself.
Elsewhere ==
  /\ \/ Dispatch
     \/ ModuleCall
     \/ \E p \in Peers : onMessageReceived(p)
     \/ \E p \in Peers \ {QmlPeer} : ClientCall(p) \/ clientReceive(p)
     \/ connectToServer(QmlPeer)
     \/ onClientDisconnected(QmlPeer)
  /\ UNCHANGED qmlVars

QmlNext ==
  \/ Elsewhere
  \/ \E e \in Entities : entitySubscribeById(e)
  \/ \E e \in Entities : entityUnsubscribeById(e)
  \/ \E k \in Keys, v \in Values : updateValue(k, v)
  \/ processEvent

QmlSpec == QmlInit /\ [][QmlNext]_<<vars, qmlVars>>

-----------------------------------------------------------------------------
(* Properties                                                              *)

\* Types of the QML client.
QmlTypeOK ==
  /\ TypeOK
  /\ refs \in [Entities -> 0..MaxOps]
  /\ resolved \subseteq Entities /\ dict \subseteq Entities
  /\ shown \in [Keys -> MaybeVal]
  /\ qmlState \in {"VQ_IDLE", "VQ_LOADED"}

\* The three tables agree: what counts as resolved has a map and a subscriber,
\* through late introspections, double subscriptions and removed entities.
\* A resolved id without a map would make the client LOADED with null entities.
ResolvedIsHeld == \A e \in resolved : e \in dict /\ refs[e] > 0

\* What the server notifies is shown: when all is quiet, a client that has a
\* subscription at the server has a map, whatever the other clients subscribe
\* and unsubscribe and however often the entity goes and comes back.
SubscribedHasMap ==
  \A e \in Entities : Quiet(QmlPeer) /\ QmlPeer \in subscribed[e] => e \in dict

\* The initial FETCH of the introspection system exists to "mimic what vf-qml
\* did", to bring the map up to date after the snapshot: when all is quiet, a
\* subscribed client shows the value the server has.
QmlUpToDate ==
  \A k \in Keys :
    Quiet(QmlPeer) /\ QmlPeer \in subscribed[k[1]]
      /\ k[1] \in dict /\ shown[k] \notin {Absent, Invalid} /\ stored[k] # Absent
      => shown[k] = stored[k]
=============================================================================
