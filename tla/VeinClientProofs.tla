--------------------------- MODULE VeinClientProofs ---------------------------
(***************************************************************************)
(* Proofs about clients on one connection: the QML client (VeinQml) and    *)
(* the tasks (VeinTasks).  What VeinNetProofs shows of server and replicas *)
(* holds with them too.  The QML client's tables agree, and while the      *)
(* server has its subscription a map exists or an introspection is on its  *)
(* way that no removal of the entity follows.  A setter is truthful        *)
(* because, until its module has the new value, the server tells nobody    *)
(* of a SET nor of that value.                                             *)
(***************************************************************************)
EXTENDS VeinQml, VeinTasks, FiniteSetTheorems, WellFoundedInduction, VeinNetProofs

\* The client's own tables; a count is at most the number of calls.
TablesTyped ==
  /\ refs \in [Entities -> Nat] /\ \A e \in Entities : refs[e] <= ops
  /\ resolved \subseteq Entities /\ dict \subseteq Entities
  /\ shown \in [Keys -> MaybeVal]
  /\ qmlState \in {"VQ_IDLE", "VQ_LOADED"}

\* The client's UNSUBSCRIBE of entity e, before the server has seen it.
Leaves(m, e) == m.data = "UNSUBSCRIBE" /\ m.ent = e
LeaveEvent(x, e) ==
  x.ev \in {"cmd", "remote"} /\ x.peer = QmlPeer /\ Leaves(IF x.ev = "cmd" THEN x ELSE x.msg, e)
Leaving(e) ==
  \/ \E m \in Elems(up[QmlPeer]) : Leaves(m, e)
  \/ \E x \in Elems(queue) : LeaveEvent(x, e)

\* The client's introspection of entity e, before it is a message.
Announces(x, e) == x.ev = "cmd" /\ x.data = "INTRO" /\ x.ent = e /\ x.peer = QmlPeer
Announced(q, e) == \E x \in Elems(q) : Announces(x, e)

\* With queue q, messages d on their way and maps D, the client ends up with
\* a map of entity e.
Intros(e) == {m \in Messages : m.data = "INTRO" /\ m.ent = e}
Removes(e) == {m \in Messages : m.data = "E_REMOVE" /\ m.ent = e}
ToQml(M) == {x \in Locals : QmlPeer \in x.to /\ x.msg \in M}
Mapped(q, d, D, e) ==
  \/ Announced(q, e)
  \/ EndsWell(q, ToQml(Intros(e)), ToQml(Removes(e)))
  \/ Clean(q, ToQml(Removes(e))) /\ EndsWell(d, Intros(e), Removes(e))
  \/ Clean(q, ToQml(Removes(e))) /\ Clean(d, Removes(e)) /\ e \in D

Subscriber(e) == peerState[QmlPeer] = "auth" /\ QmlPeer \in subscribed[e] /\ ~Leaving(e)
SubscriberMapped ==
  \A e \in Entities : Subscriber(e) => Mapped(queue, down[QmlPeer], dict, e)

QmlInv == NetInv /\ TablesTyped /\ ResolvedIsHeld /\ SubscriberMapped

-----------------------------------------------------------------------------
(* The client in the system of VeinNet                                     *)

\* Every step is one of VeinNet, or a call that sends nothing.
LEMMA QmlIsNet == QmlNext => Next \/ silentCall
<1>1. Elsewhere => Next
  BY QmlAssumption DEF Elsewhere, Next, ClientCall
<1>2. \A e \in Entities : entitySubscribeById(e) \/ entityUnsubscribeById(e) => Next \/ silentCall
  BY QmlAssumption DEF entitySubscribeById, entityUnsubscribeById, Next, ClientCall
<1>3. \A k \in Keys, v \in Values : updateValue(k, v) => Next
  BY QmlAssumption DEF updateValue, Next, ClientCall
<1>4. processEvent => Next
  BY QmlAssumption DEF processEvent, Next
<1>5. QED BY <1>1, <1>2, <1>3, <1>4 DEF QmlNext

LEMMA QmlKeepsNet == NetInv /\ [QmlNext]_<<vars, qmlVars>> => NetInv'
<1> SUFFICES ASSUME NetInv, [QmlNext]_<<vars, qmlVars>> PROVE NetInv'
  OBVIOUS
<1>1. CASE Next
  BY <1>1, NetInvNext
<1>2. CASE silentCall
  <2>1. up' \in [Peers -> Seq(Requests \cup {Greeting})] /\ UNCHANGED <<peerState, down>>
    BY <1>2 DEF silentCall, linkVars, NetInv, Typed
  <2>2. ops' \in 0..MaxOps
    BY <1>2, CallCounted DEF silentCall
  <2>3. QED BY <1>2, <2>1, <2>2, QuietStep DEF silentCall
<1>3. CASE UNCHANGED vars
  BY <1>3, NetInvFrame
<1>4. QED BY <1>1, <1>2, <1>3, QmlIsNet

-----------------------------------------------------------------------------
(* The tables                                                              *)

\* Of a removed entity nothing stays in the tables.
LEMMA RemoveMapKeeps ==
  ASSUME TablesTyped, ResolvedIsHeld, NEW e \in Entities, removeEntityMap(e),
         ops' \in Nat, ops' >= ops, ops \in Nat, qmlState' = qmlState
  PROVE  TablesTyped' /\ ResolvedIsHeld'
<1>1. TablesTyped'
  BY DEF TablesTyped, removeEntityMap, MaybeVal
<1>2. ResolvedIsHeld'
  BY DEF TablesTyped, removeEntityMap, ResolvedIsHeld
<1>3. QED BY <1>1, <1>2

LEMMA TablesKeep ==
  ASSUME NetInv, NetInv', TablesTyped, ResolvedIsHeld, [QmlNext]_<<vars, qmlVars>>
  PROVE  TablesTyped' /\ ResolvedIsHeld'
<1>0. ops \in Nat /\ ops' \in Nat
  BY BoundAssumption DEF NetInv, Typed
<1>1. ASSUME UNCHANGED qmlVars, ops' >= ops PROVE TablesTyped' /\ ResolvedIsHeld'
  BY <1>0, <1>1 DEF TablesTyped, ResolvedIsHeld, qmlVars
<1>2. CASE Elsewhere
  <2>1. UNCHANGED qmlVars
    BY <1>2 DEF Elsewhere
  <2>2. ops' = ops \/ Call
    <3>1. Dispatch => ops' = ops
      BY DEF Dispatch, dispatchSubscribe, dispatchUnsubscribe, dispatchEntityAdd, dispatchEntityRemove,
             dispatchComponentAdd, dispatchComponentRemove, dispatchComponentSet, dispatchClientSet,
             dispatchFetch, dispatchForwardOnly, dispatchRemote, dispatchLocal, dispatchStatus
    <3>2. ModuleCall => Call
      BY DEF ModuleCall, initModule, removeEntity, removeComponent, createComponent, moduleSetValue
    <3>3. \A p \in Peers : onMessageReceived(p) \/ clientReceive(p) => ops' = ops
      BY DEF onMessageReceived, clientReceive, receive
    <3>4. \A p \in Peers : ClientCall(p) => Call
      BY DEF ClientCall, connectToServer, onClientDisconnected, sendSubscription, sendUnsubscription,
             startGetComponent, startSetComponent, request
    <3>5. connectToServer(QmlPeer) \/ onClientDisconnected(QmlPeer) => Call
      BY DEF connectToServer, onClientDisconnected
    <3>6. QED BY <1>2, <3>1, <3>2, <3>3, <3>4, <3>5 DEF Elsewhere
  <2>3. ops' >= ops
    BY <1>0, <2>2 DEF Call
  <2>4. QED BY <1>1, <2>1, <2>3
<1>3. ASSUME NEW e \in Entities, entitySubscribeById(e) PROVE TablesTyped' /\ ResolvedIsHeld'
  <2>1. ops' = ops + 1 /\ refs' = [refs EXCEPT ![e] = @ + 1] /\ UNCHANGED <<resolved, dict, shown, qmlState>>
    BY <1>3 DEF entitySubscribeById, silentCall, sendSubscription, request, Call
  <2>2. TablesTyped'
    BY <1>0, <2>1 DEF TablesTyped
  <2>3. ResolvedIsHeld'
    BY <2>1 DEF TablesTyped, ResolvedIsHeld
  <2>4. QED BY <2>2, <2>3
<1>4. ASSUME NEW e \in Entities, entityUnsubscribeById(e) PROVE TablesTyped' /\ ResolvedIsHeld'
  <2>1. ops' = ops + 1 /\ qmlState' = qmlState
    BY <1>4 DEF entityUnsubscribeById, silentCall, sendUnsubscription, request, Call
  <2>2. CASE removeEntityMap(e)
    <3>1. ops' >= ops
      BY <1>0, <2>1
    <3>2. QED BY <1>0, <2>1, <2>2, <3>1, RemoveMapKeeps
  <2>3. CASE refs[e] > 1 /\ refs' = [refs EXCEPT ![e] = @ - 1] /\ UNCHANGED <<resolved, dict, shown>>
    <3>1. TablesTyped'
      BY <1>0, <2>1, <2>3 DEF TablesTyped
    <3>2. ResolvedIsHeld'
      BY <2>3 DEF TablesTyped, ResolvedIsHeld
    <3>3. QED BY <3>1, <3>2
  <2>4. QED BY <1>4, <2>2, <2>3 DEF entityUnsubscribeById
<1>5. ASSUME NEW k \in Keys, NEW v \in Values, updateValue(k, v) PROVE TablesTyped' /\ ResolvedIsHeld'
  <2>1. ops' = ops + 1 /\ UNCHANGED qmlVars
    BY <1>5 DEF updateValue, startSetComponent, request, Call
  <2>2. ops' >= ops
    BY <1>0, <2>1
  <2>3. QED BY <1>1, <2>1, <2>2
<1>6. CASE processEvent
  <2>1. PICK m : m = Head(down[QmlPeer])
    OBVIOUS
  <2>2. ops' = ops /\ ops' >= ops /\ down[QmlPeer] # <<>>
    BY <1>0, <1>6 DEF processEvent, clientReceive, receive
  <2>3. m \in Messages \cup {Greeting}
    BY <2>1, <2>2, Taken, QmlAssumption DEF NetInv, Typed
  <2>4. onComponentData(m) \/ onIntrospection(m) \/ onEntityRemoved(m) \/ UNCHANGED qmlVars
    BY <1>6, <2>1 DEF processEvent
  <2>5. m.data # "GREETING" => m.ent \in Entities /\ GoodData(m)
    BY <2>3 DEF Messages, Greeting
  <2>6. CASE onComponentData(m)
    <3>1. m.val \in Val
      BY <2>5, <2>6 DEF onComponentData, GoodData, ComponentKinds
    <3>2. TablesTyped'
      BY <2>2, <2>6, <3>1 DEF onComponentData, TablesTyped, MaybeVal, Val
    <3>3. ResolvedIsHeld'
      BY <2>6 DEF onComponentData, ResolvedIsHeld
    <3>4. QED BY <3>2, <3>3
  <2>7. CASE onIntrospection(m)
    <3>1. m.ent \in Entities /\ m.val \in [Components -> MaybeVal]
      BY <2>5, <2>7 DEF onIntrospection, GoodData
    <3>2. CASE UNCHANGED qmlVars
      BY <1>1, <2>2, <3>2
    <3>3. CASE /\ dict' = dict \cup {m.ent} /\ onEntityLoaded(m.ent) /\ UNCHANGED refs
               /\ shown' = [k \in Keys |-> IF k[1] = m.ent THEN m.val[k[2]] ELSE shown[k]]
      <4>1. \A k \in Keys : m.val[k[2]] \in MaybeVal
        BY <3>1 DEF Keys
      <4>2. /\ \/ resolved' = resolved \/ (refs[m.ent] > 0 /\ resolved' = resolved \cup {m.ent})
            /\ qmlState' \in {"VQ_LOADED", qmlState}
        BY <3>3 DEF onEntityLoaded
      <4>3. TablesTyped'
        BY <2>2, <3>1, <3>3, <4>1, <4>2 DEF TablesTyped
      <4>4. ResolvedIsHeld'
        BY <3>3, <4>2 DEF ResolvedIsHeld
      <4>5. QED BY <4>3, <4>4
    <3>4. QED BY <2>7, <3>2, <3>3 DEF onIntrospection
  <2>8. CASE onEntityRemoved(m)
    <3>1. m.ent \in Entities
      BY <2>5, <2>8 DEF onEntityRemoved
    <3>2. QED BY <1>0, <2>2, <2>8, <3>1, RemoveMapKeeps DEF onEntityRemoved
  <2>9. QED BY <1>1, <2>2, <2>4, <2>6, <2>7, <2>8
<1>7. CASE UNCHANGED <<vars, qmlVars>>
  <2>1. ops' >= ops /\ UNCHANGED qmlVars
    BY <1>0, <1>7 DEF vars, netVars
  <2>2. QED BY <1>1, <2>1
<1>8. QED BY <1>2, <1>3, <1>4, <1>5, <1>6, <1>7 DEF QmlNext

-----------------------------------------------------------------------------
(* The map of a subscriber                                                 *)

LEMMA AnnouncedJoined ==
  ASSUME NEW q \in Seq(Events), NEW r \in Seq(Events), NEW e
  PROVE  Announced(q \o r, e) <=> Announced(q, e) \/ Announced(r, e)
<1>1. Elems(q \o r) = Elems(q) \cup Elems(r)
  BY Joined
<1>2. QED BY <1>1 DEF Announced

\* A map stays due when no removal is posted, or the introspection after it.
LEMMA MappedPosted ==
  ASSUME NEW q \in Seq(Events), NEW r \in Seq(Events), NEW d \in Heard, NEW D, NEW e,
         \/ Mapped(q, d, D, e) /\ Clean(r, ToQml(Removes(e)))
         \/ Announced(r, e) \/ EndsWell(r, ToQml(Intros(e)), ToQml(Removes(e)))
  PROVE  Mapped(q \o r, d, D, e)
  BY AnnouncedJoined, WellJoined DEF Mapped

LEMMA MappedTaken ==
  ASSUME NEW q \in Seq(Events), q # <<>>, NEW d \in Heard, NEW D, NEW e,
         Mapped(q, d, D, e), Head(q) \notin Locals, ~Announces(Head(q), e)
  PROVE  Mapped(Tail(q), d, D, e)
<1>1. Head(q) \notin ToQml(Intros(e))
  BY DEF ToQml
<1>2. Announced(q, e) => Announced(Tail(q), e)
  BY Taken DEF Announced
<1>3. QED BY <1>1, <1>2, WellTaken DEF Mapped

LEMMA MappedSent ==
  ASSUME NEW q \in Seq(Events), q # <<>>, NEW d \in Heard, NEW D, NEW e,
         Mapped(q, d, D, e), Head(q) \in Locals
  PROVE  Mapped(Tail(q), IF QmlPeer \in Head(q).to THEN d \o <<Head(q).msg>> ELSE d, D, e)
<1> DEFINE m == Head(q).msg
           GM == Intros(e)
           BM == Removes(e)
           G == ToQml(GM)
           B == ToQml(BM)
<1>1. m \in Messages
  BY DEF Locals
<1>2. /\ <<m>> \in Heard /\ <<m>>[1] = m /\ DOMAIN <<m>> = {1}
      /\ (m \notin BM => Clean(<<m>>, BM)) /\ (m \in GM => EndsWell(<<m>>, GM, BM))
  BY <1>1 DEF Heard, Clean, EndsWell
<1>3. ~Announces(Head(q), e)
  BY DEF Locals, Announces
<1>4. Announced(q, e) => Announced(Tail(q), e)
  BY <1>3, Taken DEF Announced
<1>5. QmlPeer \in Head(q).to => (Head(q) \in G <=> m \in GM) /\ (Head(q) \in B <=> m \in BM)
  BY DEF ToQml
<1>6. QmlPeer \notin Head(q).to => Head(q) \notin G /\ Head(q) \notin B
  BY DEF ToQml
<1>7. /\ Clean(q, B) => Clean(Tail(q), B) /\ Head(q) \notin B
      /\ EndsWell(q, G, B) => EndsWell(Tail(q), G, B) \/ (Head(q) \in G /\ Clean(Tail(q), B))
  BY WellTaken
<1>8. /\ Clean(d, BM) /\ Clean(<<m>>, BM) => Clean(d \o <<m>>, BM)
      /\ EndsWell(d, GM, BM) /\ Clean(<<m>>, BM) => EndsWell(d \o <<m>>, GM, BM)
      /\ EndsWell(<<m>>, GM, BM) => EndsWell(d \o <<m>>, GM, BM)
  BY <1>2, WellJoined DEF Heard
<1> HIDE DEF m, G, B, GM, BM
<1>9. CASE QmlPeer \in Head(q).to
  <2>1. Mapped(Tail(q), d \o <<m>>, D, e)
    BY <1>2, <1>4, <1>5, <1>7, <1>8, <1>9 DEF Mapped, G, B, GM, BM
  <2>2. QED BY <2>1, <1>9 DEF m
<1>10. CASE QmlPeer \notin Head(q).to
  BY <1>4, <1>6, <1>7, <1>10 DEF Mapped, G, B, GM, BM
<1>11. QED BY <1>9, <1>10

LEMMA MappedReceived ==
  ASSUME NEW q \in Seq(Events), NEW d \in Heard, d # <<>>, NEW D, NEW E, NEW e, Mapped(q, d, D, e),
         Head(d) \in Intros(e) => e \in E, Head(d) \notin Removes(e) /\ e \in D => e \in E
  PROVE  Mapped(q, Tail(d), E, e)
<1> DEFINE GM == Intros(e)
           BM == Removes(e)
<1>1. /\ Clean(d, BM) => Clean(Tail(d), BM) /\ Head(d) \notin BM
      /\ EndsWell(d, GM, BM) => EndsWell(Tail(d), GM, BM) \/ (Head(d) \in GM /\ Clean(Tail(d), BM))
  BY WellTaken DEF Heard
<1> HIDE DEF GM, BM
<1>2. QED BY <1>1 DEF Mapped, GM, BM

LEMMA NoLocalsClean ==
  ASSUME NEW r \in Seq(Events), NEW e,
         \A x \in Elems(r) : x.ev = "local" => x.msg.data # "E_REMOVE" \/ x.msg.ent # e
  PROVE  Clean(r, ToQml(Removes(e)))
  BY DEF Clean, Elems, ToQml, Removes, Locals

\* A step of the event loop other than the sending of a message.
LEMMA MappedDispatch ==
  ASSUME QmlInv, queue # <<>>, Head(queue) \notin Locals, NEW new \in Seq(Events),
         queue' = Tail(queue) \o new, UNCHANGED <<peerState, up, down, dict>>,
         \A e \in Entities : QmlPeer \in subscribed'[e] /\ ~Leaving(e)' =>
           \/ /\ QmlPeer \in subscribed[e] /\ ~LeaveEvent(Head(queue), e)
              /\ Clean(new, ToQml(Removes(e))) /\ ~Announces(Head(queue), e)
           \/ Announced(new, e) \/ EndsWell(new, ToQml(Intros(e)), ToQml(Removes(e)))
  PROVE  SubscriberMapped'
<1>1. /\ queue \in Seq(Events) /\ Tail(queue) \in Seq(Events) /\ down[QmlPeer] \in Heard
      /\ Elems(queue) = Elems(Tail(queue)) \cup {Head(queue)}
  BY Taken, QmlAssumption DEF QmlInv, NetInv, Typed, Heard
<1>2. Elems(queue') = Elems(Tail(queue)) \cup Elems(new)
  BY <1>1, ElemsMoved
<1>3. ASSUME NEW e \in Entities, Subscriber(e)'
      PROVE  Mapped(queue', down'[QmlPeer], dict', e)
  <2>1. CASE /\ QmlPeer \in subscribed[e] /\ ~LeaveEvent(Head(queue), e)
             /\ Clean(new, ToQml(Removes(e))) /\ ~Announces(Head(queue), e)
    <3>1. ~Leaving(e)
      BY <1>1, <1>2, <1>3, <2>1 DEF Subscriber, Leaving
    <3>2. Mapped(queue, down[QmlPeer], dict, e)
      BY <1>3, <2>1, <3>1 DEF Subscriber, QmlInv, SubscriberMapped
    <3>3. Mapped(Tail(queue), down[QmlPeer], dict, e)
      BY <1>1, <2>1, <3>2, MappedTaken
    <3>4. Mapped(Tail(queue) \o new, down[QmlPeer], dict, e)
      BY <1>1, <2>1, <3>3, MappedPosted
    <3>5. QED BY <3>4
  <2>2. CASE Announced(new, e) \/ EndsWell(new, ToQml(Intros(e)), ToQml(Removes(e)))
    <3>1. Mapped(Tail(queue) \o new, down[QmlPeer], dict, e)
      BY <1>1, <2>2, MappedPosted
    <3>2. QED BY <3>1
  <2>3. QED BY <1>3, <2>1, <2>2 DEF Subscriber
<1>4. QED BY <1>3 DEF SubscriberMapped

\* A call, or a message of a client that arrives.
LEMMA MappedCall ==
  ASSUME QmlInv, NEW new \in Seq(Events), queue' = queue \o new, subscribed' = subscribed,
         \A x \in Elems(new) : x.ev # "local",
         peerState'[QmlPeer] = "auth" =>
           /\ peerState[QmlPeer] \in {"auth", "waiting"} /\ down'[QmlPeer] = down[QmlPeer]
           /\ \A e \in Entities : Leaving(e) => Leaving(e)',
         \A e \in Entities : e \in dict /\ ~Leaving(e)' => e \in dict'
  PROVE  SubscriberMapped'
<1>1. queue \in Seq(Events) /\ down[QmlPeer] \in Heard
  BY QmlAssumption DEF QmlInv, NetInv, Typed, Heard
<1>2. ASSUME NEW e \in Entities, Subscriber(e)'
      PROVE  Mapped(queue', down'[QmlPeer], dict', e)
  <2>1. Subscriber(e) /\ down'[QmlPeer] = down[QmlPeer] /\ (e \in dict => e \in dict')
    <3>1. peerState'[QmlPeer] = "auth" /\ QmlPeer \in subscribed[e] /\ ~Leaving(e)'
      BY <1>2 DEF Subscriber
    <3>2. peerState[QmlPeer] # "waiting"
      BY <3>1, QmlAssumption DEF QmlInv, NetInv, PeersArrive
    <3>3. QED BY <3>1, <3>2 DEF Subscriber
  <2>2. Mapped(queue, down[QmlPeer], dict, e)
    BY <2>1 DEF QmlInv, SubscriberMapped
  <2>3. Clean(new, ToQml(Removes(e)))
    BY NoLocalsClean
  <2>4. Mapped(queue \o new, down[QmlPeer], dict, e)
    BY <1>1, <2>2, <2>3, MappedPosted
  <2>5. Mapped(queue \o new, down[QmlPeer], dict', e)
    BY <2>1, <2>4 DEF Mapped
  <2>6. QED BY <2>1, <2>5
<1>3. QED BY <1>2 DEF SubscriberMapped

\* The messages of a command's answer are about the command.
LEMMA AnswerSays ==
  ASSUME Typed, NEW b \in Commands, NEW new, new = <<>> \/ new = <<ErrorOf(b)>> \/ new = Forward(b)
  PROVE  /\ new \in Seq(Events)
         /\ \A x \in Elems(new) : x.ev = "local" => x.msg.data = b.data /\ x.msg.ent = b.ent
<1>1. ErrorOf(b) \in Events /\ ErrorOf(b).ev = "cmd"
  BY ErrorTyped DEF Events, Commands
<1>2. /\ <<>> \in Seq(Events) /\ Elems(<<>>) = {}
      /\ <<ErrorOf(b)>> \in Seq(Events) /\ Elems(<<ErrorOf(b)>>) = {ErrorOf(b)}
  BY <1>1, OneEvent
<1>3. /\ Forward(b) \in Seq(Events)
      /\ \A x \in Elems(Forward(b)) : x = LocalProto(Receivers(b), Envelope(b))
  BY Forwarded
<1>4. LocalProto(Receivers(b), Envelope(b)).msg.data = b.data /\ LocalProto(Receivers(b), Envelope(b)).msg.ent = b.ent
  BY DEF LocalProto, Envelope
<1>5. QED BY <1>1, <1>2, <1>3, <1>4

\* Commands that are about no subscription and remove no entity.
LEMMA MappedAnswer ==
  ASSUME QmlInv, queue # <<>>, NEW c \in Commands, Head(queue) = c, NEW b \in Commands,
         c.data \notin {"INTRO", "UNSUBSCRIBE", "E_REMOVE"}, b.data = c.data, NEW new,
         new = <<>> \/ new = <<ErrorOf(b)>> \/ new = Forward(b), queue' = Tail(queue) \o new,
         UNCHANGED <<peerState, up, down, dict, subscribed>>
  PROVE  SubscriberMapped'
<1>1. Typed /\ c.ev = "cmd" /\ c \notin Locals
  BY DEF QmlInv, NetInv, Commands, Locals
<1>2. /\ new \in Seq(Events)
      /\ \A x \in Elems(new) : x.ev = "local" => x.msg.data # "E_REMOVE"
  BY <1>1, AnswerSays
<1>3. \A e \in Entities : Clean(new, ToQml(Removes(e)))
  BY <1>2, NoLocalsClean
<1>4. \A e \in Entities : ~LeaveEvent(c, e) /\ ~Announces(c, e)
  BY <1>1 DEF LeaveEvent, Leaves, Announces
<1>5. QED BY <1>1, <1>2, <1>3, <1>4, MappedDispatch

\* The event loop keeps a map for the client, or brings one.
LEMMA DispatchMapped ==
  ASSUME QmlInv, Dispatch, UNCHANGED qmlVars
  PROVE  SubscriberMapped'
<1>0. Typed /\ NetInv /\ dict' = dict
  BY DEF QmlInv, NetInv, qmlVars
<1>1. PICK h : h = Head(queue)
  OBVIOUS
<1>2. CASE dispatchEntityAdd
  <2>1. queue # <<>> /\ h \in Commands /\ h.data = "E_ADD"
    BY <1>0, <1>1, <1>2, HeadCommand DEF dispatchEntityAdd
  <2>2. PICK new : new = IF reply'.kind = "error" THEN <<ErrorOf(h)>> ELSE Forward(h)
    OBVIOUS
  <2>3. queue' = Tail(queue) \o new /\ UNCHANGED <<peerState, up, down, subscribed>>
    BY <1>1, <1>2, <2>2 DEF dispatchEntityAdd, afterStorage, consume, linkVars, subVars
  <2>4. QED BY <1>0, <1>1, <2>1, <2>2, <2>3, MappedAnswer
<1>3. CASE dispatchComponentAdd
  <2>1. queue # <<>> /\ h \in Commands /\ h.data = "C_ADD"
    BY <1>0, <1>1, <1>3, HeadCommand DEF dispatchComponentAdd
  <2>2. PICK new : new = IF reply'.kind = "error" THEN <<ErrorOf(h)>> ELSE Forward(h)
    OBVIOUS
  <2>3. queue' = Tail(queue) \o new /\ UNCHANGED <<peerState, up, down, subscribed>>
    BY <1>1, <1>3, <2>2 DEF dispatchComponentAdd, afterStorage, consume, linkVars, subVars
  <2>4. QED BY <1>0, <1>1, <2>1, <2>2, <2>3, MappedAnswer
<1>4. CASE dispatchComponentRemove
  <2>1. queue # <<>> /\ h \in Commands /\ h.data = "C_REMOVE"
    BY <1>0, <1>1, <1>4, HeadCommand DEF dispatchComponentRemove
  <2>2. PICK new : new = IF reply'.kind = "error" THEN <<ErrorOf(h)>> ELSE Forward(h)
    OBVIOUS
  <2>3. queue' = Tail(queue) \o new /\ UNCHANGED <<peerState, up, down, subscribed>>
    BY <1>1, <1>4, <2>2 DEF dispatchComponentRemove, afterStorage, consume, linkVars, subVars
  <2>4. QED BY <1>0, <1>1, <2>1, <2>2, <2>3, MappedAnswer
<1>5. CASE dispatchComponentSet
  <2>1. queue # <<>> /\ h \in Commands /\ h.data = "C_SET"
    BY <1>0, <1>1, <1>5, HeadCommand DEF dispatchComponentSet
  <2>2. PICK new : new = IF reply'.kind = "dropped" THEN <<>>
                         ELSE IF reply'.kind = "error" THEN <<ErrorOf(h)>> ELSE Forward(h)
    OBVIOUS
  <2>3. queue' = Tail(queue) \o new /\ UNCHANGED <<peerState, up, down, subscribed>>
    BY <1>1, <1>5, <2>2 DEF dispatchComponentSet, afterStorage, consume, linkVars, subVars
  <2>4. new = <<>> \/ new = <<ErrorOf(h)>> \/ new = Forward(h)
    BY <2>2
  <2>5. QED BY <1>0, <1>1, <2>1, <2>3, <2>4, MappedAnswer
<1>6. CASE dispatchClientSet
  <2>1. queue # <<>> /\ h \in Commands /\ h.data = "C_SET"
    BY <1>0, <1>1, <1>6, HeadCommand DEF dispatchClientSet
  <2>2. PICK n : n = Notify(ComponentData("C_SET", h.ent, h.comp, h.val))
    OBVIOUS
  <2>3. n \in Events /\ n.ev = "cmd"
    <3>1. h.ent \in Entities /\ h.comp \in Components /\ h.val \in Values
      BY <2>1 DEF Commands, GoodData, ComponentKinds
    <3>2. "C_SET" \in Kinds /\ "C_SET" \in ComponentKinds /\ h.val \in Val
      BY <3>1 DEF Kinds, ComponentKinds, Val
    <3>3. n \in Commands
      BY <2>2, <3>1, <3>2, Notified
    <3>4. QED BY <3>3 DEF Events, Commands
  <2>4. PICK none : none = <<>>
    OBVIOUS
  <2>5. /\ queue' = Tail(queue) \o none \/ queue' = Tail(queue) \o <<n>>
        /\ UNCHANGED <<peerState, up, down, subscribed>>
    BY <1>1, <1>6, <2>2, <2>4 DEF dispatchClientSet, consume, linkVars, subVars
  <2>6. <<n>> \in Seq(Events) /\ Elems(<<n>>) = {n} /\ none \in Seq(Events) /\ Elems(none) = {}
    BY <2>3, <2>4, OneEvent
  <2>7. PICK new : new \in Seq(Events) /\ queue' = Tail(queue) \o new /\ Elems(new) \subseteq {n}
    BY <2>5, <2>6
  <2>8. \A e \in Entities : Clean(new, ToQml(Removes(e)))
    BY <2>3, <2>7, NoLocalsClean
  <2>9. Head(queue) \notin Locals /\ \A e \in Entities : ~LeaveEvent(h, e) /\ ~Announces(h, e)
    BY <1>1, <2>1 DEF LeaveEvent, Leaves, Announces, Commands, Locals
  <2>10. QED BY <1>0, <1>1, <2>1, <2>5, <2>7, <2>8, <2>9, MappedDispatch
<1>7. CASE dispatchFetch
  <2>1. queue # <<>> /\ h \in Commands /\ h.data = "C_FETCH"
    BY <1>0, <1>1, <1>7, HeadCommand DEF dispatchFetch
  <2>2. PICK c : c = Validated(h)
    OBVIOUS
  <2>3. c \in Commands /\ c.data = "C_FETCH"
    BY <2>1, <2>2, ValidatedTyped
  <2>4. PICK b : b = [c EXCEPT !.val = reply'.val]
    OBVIOUS
  <2>5. PICK new : new = IF reply'.kind = "error" THEN <<ErrorOf(b)>> ELSE Forward(b)
    OBVIOUS
  <2>6. /\ queue' = Tail(queue) \o new /\ UNCHANGED <<peerState, up, down, subscribed>>
        /\ FetchComponent(<<c.ent, c.comp>>, c.val)
    BY <1>1, <1>7, <2>2, <2>4, <2>5 DEF dispatchFetch, afterStorage, consume, linkVars, subVars
  <2>7. c.val \in Val /\ <<c.ent, c.comp>> \in Keys
    <3>1. c.data \in ComponentKinds
      BY <2>3 DEF ComponentKinds
    <3>2. QED BY <2>3, <3>1, ComponentKey DEF Commands, GoodData
  <2>8. reply'.val \in Val
    <3>1. PICK k : k = <<c.ent, c.comp>>
      OBVIOUS
    <3>2. stored[k] \in Stored /\ pending[k] = Absent
      BY <1>0, <2>7, <3>1 DEF Typed
    <3>3. reply' = Rejected \/ (reply' \in {Answer(stored[k]), Answer(c.val)} /\ stored[k] # Absent)
      BY <2>6, <3>1, <3>2 DEF FetchComponent, Reject
    <3>4. QED BY <2>7, <3>2, <3>3 DEF Rejected, Answer, Stored, Val
  <2>9. b \in Commands /\ b.data = "C_FETCH"
    <3>1. PICK v : v = reply'.val
      OBVIOUS
    <3>2. v \in Val /\ b = [c EXCEPT !.val = v]
      BY <2>4, <2>8, <3>1
    <3>3. QED BY <2>3, <3>2 DEF Commands, GoodData, Payloads, EntityKinds, ComponentKinds
  <2>10. QED BY <1>0, <1>1, <2>1, <2>5, <2>6, <2>9, MappedAnswer
<1>8. CASE dispatchForwardOnly
  <2>1. queue # <<>> /\ h \in Commands /\ h.data \in {"INTRO", "ERROR"}
    BY <1>0, <1>1, <1>8, HeadCommand DEF dispatchForwardOnly
  <2>2. PICK new : new = Forward(h)
    OBVIOUS
  <2>3. queue' = Tail(queue) \o new /\ UNCHANGED <<peerState, up, down, subscribed>>
    BY <1>1, <1>8, <2>2 DEF dispatchForwardOnly, consume, linkVars, subVars
  <2>4. CASE h.data = "ERROR"
    BY <1>0, <1>1, <2>1, <2>2, <2>3, <2>4, MappedAnswer
  <2>5. CASE h.data = "INTRO"
    <3>1. /\ new \in Seq(Events)
          /\ \A x \in Elems(new) : x.ev = "local" => x.msg.data = "INTRO"
      BY <1>0, <2>1, <2>2, <2>5, AnswerSays
    <3>2. \A e \in Entities : Clean(new, ToQml(Removes(e)))
      BY <3>1, NoLocalsClean
    <3>3. Head(queue) \notin Locals /\ \A e \in Entities : ~LeaveEvent(h, e)
      BY <1>1, <2>1, <2>5 DEF LeaveEvent, Leaves, Commands, Locals
    <3>4. ASSUME NEW e \in Entities, QmlPeer \in subscribed[e], Announces(h, e)
          PROVE  EndsWell(new, ToQml(Intros(e)), ToQml(Removes(e)))
      <4>1. h.ent = e /\ h.peer = QmlPeer /\ h.out /\ e \in subKeys
        BY <1>0, <2>1, <2>5, <3>4 DEF Announces, Commands, RequestKinds, NetInv, SubscriptionInv,
                                      NoSneakingSubscription
      <4>2. Receivers(h) = {QmlPeer}
        BY <2>5, <4>1 DEF Receivers
      <4>3. PICK x : x = LocalProto(Receivers(h), Envelope(h))
        OBVIOUS
      <4>4. new = <<x>>
        BY <2>2, <4>1, <4>2, <4>3 DEF Forward
      <4>5. x \in Locals /\ x.to = {QmlPeer} /\ x.msg \in Messages /\ x.msg.data = "INTRO" /\ x.msg.ent = e
        BY <1>0, <2>1, <2>5, <4>1, <4>2, <4>3, Forwarded DEF LocalProto, Envelope
      <4>6. x \in ToQml(Intros(e))
        BY <4>5 DEF ToQml, Intros
      <4>7. QED BY <4>4, <4>6 DEF EndsWell
    <3>5. QED BY <1>0, <1>1, <2>1, <2>3, <3>1, <3>2, <3>3, <3>4, MappedDispatch
  <2>6. QED BY <2>1, <2>4, <2>5
<1>9. CASE dispatchSubscribe
  <2>1. queue # <<>> /\ h \in Commands /\ h.data = "SUBSCRIBE"
    BY <1>0, <1>1, <1>9, HeadCommand DEF dispatchSubscribe
  <2>2. PICK c : c = Validated(h)
    OBVIOUS
  <2>3. c \in Commands /\ c.data = "SUBSCRIBE" /\ c.ent \in Entities
    BY <2>1, <2>2, ValidatedTyped DEF Commands
  <2>4. UNCHANGED <<peerState, up, down>>
    BY <1>9 DEF dispatchSubscribe, linkVars
  <2>5. CASE ~HasComponents(c.ent)
    <3>1. queue' = Tail(queue) \o <<ErrorOf(c)>> /\ subscribed' = subscribed
      BY <1>1, <1>9, <2>2, <2>5 DEF dispatchSubscribe, consume, subVars
    <3>2. QED BY <1>0, <1>1, <2>1, <2>3, <2>4, <3>1, MappedAnswer
  <2>6. CASE HasComponents(c.ent)
    <3>1. PICK comps \in ComponentLists(c.ent) : queue' = Tail(queue) \o Introspection(c, comps)
      BY <1>1, <1>9, <2>2, <2>6 DEF dispatchSubscribe, consume
    <3>2. PICK new : new = Introspection(c, comps)
      OBVIOUS
    <3>3. /\ new \in Seq(Events)
          /\ \A x \in Elems(new) : x \in Commands /\ x.ent = c.ent /\ x.peer = c.peer
          /\ \E x \in Elems(new) : x.data = "INTRO"
      BY <1>0, <2>3, <3>2, Introspected
    <3>4. queue' = Tail(queue) \o new
      BY <3>1, <3>2
    <3>5. tryAddSubscription(c)
      BY <1>1, <1>9, <2>2, <2>6 DEF dispatchSubscribe
    <3>6. \A x \in Elems(new) : x.ev = "cmd"
      BY <3>3 DEF Commands
    <3>7. \A e \in Entities : Clean(new, ToQml(Removes(e)))
      BY <3>3, <3>6, NoLocalsClean
    <3>8. c.peer = QmlPeer => Announced(new, c.ent)
      BY <3>3, <3>6 DEF Announced, Announces
    <3>9. \A e \in Entities : QmlPeer \in subscribed'[e] =>
            QmlPeer \in subscribed[e] \/ (e = c.ent /\ c.peer = QmlPeer)
      BY <1>0, <2>3, <3>5 DEF tryAddSubscription, Typed
    <3>10. Head(queue) \notin Locals /\ \A e \in Entities : ~LeaveEvent(h, e) /\ ~Announces(h, e)
      BY <1>1, <2>1 DEF LeaveEvent, Leaves, Announces, Commands, Locals
    <3>11. QED BY <1>0, <1>1, <2>1, <2>4, <3>3, <3>4, <3>7, <3>8, <3>9, <3>10, MappedDispatch
  <2>7. QED BY <2>5, <2>6
<1>10. CASE dispatchUnsubscribe
  <2>1. queue # <<>> /\ h \in Commands /\ h.data = "UNSUBSCRIBE"
    BY <1>0, <1>1, <1>10, HeadCommand DEF dispatchUnsubscribe
  <2>2. PICK c : c = Validated(h)
    OBVIOUS
  <2>3. c \in Commands /\ c.data = "UNSUBSCRIBE" /\ c.ent = h.ent /\ c.peer = h.peer /\ c.ent \in Entities
    BY <2>1, <2>2, ValidatedTyped DEF Commands
  <2>4. PICK new : new = Forward(c)
    OBVIOUS
  <2>5. queue' = Tail(queue) \o new /\ UNCHANGED <<peerState, up, down>> /\ dropSubscription(c)
    BY <1>1, <1>10, <2>2, <2>4 DEF dispatchUnsubscribe, consume, linkVars
  <2>6. /\ new \in Seq(Events)
        /\ \A x \in Elems(new) : x.ev = "local" => x.msg.data = "UNSUBSCRIBE"
    BY <1>0, <2>3, <2>4, AnswerSays
  <2>7. \A e \in Entities : Clean(new, ToQml(Removes(e)))
    BY <2>6, NoLocalsClean
  <2>8. \A e \in Entities : QmlPeer \in subscribed'[e] =>
          QmlPeer \in subscribed[e] /\ ~(e = c.ent /\ c.peer = QmlPeer)
    BY <1>0, <2>3, <2>5 DEF dropSubscription, Typed, NetInv, SubscriptionInv, NoSneakingSubscription
  <2>9. /\ Head(queue) \notin Locals
        /\ \A e \in Entities : ~Announces(h, e) /\ (LeaveEvent(h, e) => e = c.ent /\ c.peer = QmlPeer)
    BY <1>1, <2>1, <2>3 DEF LeaveEvent, Leaves, Announces, Commands, Locals
  <2>10. QED BY <1>0, <1>1, <2>1, <2>5, <2>6, <2>7, <2>8, <2>9, MappedDispatch
<1>11. CASE dispatchEntityRemove
  <2>1. queue # <<>> /\ h \in Commands /\ h.data = "E_REMOVE" /\ h.ent \in Entities
    BY <1>0, <1>1, <1>11, HeadCommand DEF dispatchEntityRemove, Commands
  <2>2. PICK new : new = IF reply'.kind = "error" THEN <<ErrorOf(h)>> ELSE Forward(h)
    OBVIOUS
  <2>3. /\ queue' = Tail(queue) \o new /\ UNCHANGED <<peerState, up, down>>
        /\ IF reply'.kind # "error" /\ h.ent \in subKeys
             THEN dropEntity(h.ent) ELSE UNCHANGED <<subscribed, subKeys>>
    BY <1>1, <1>11, <2>2 DEF dispatchEntityRemove, afterStorage, consume, linkVars, subVars
  <2>4. /\ new \in Seq(Events)
        /\ \A x \in Elems(new) : x.ev = "local" => x.msg.ent = h.ent
    BY <1>0, <2>1, <2>2, AnswerSays
  <2>5. ASSUME NEW e \in Entities, QmlPeer \in subscribed'[e]
        PROVE  QmlPeer \in subscribed[e] /\ Clean(new, ToQml(Removes(e)))
    <3>1. QmlPeer \in subscribed[e]
      BY <1>0, <2>1, <2>3, <2>5 DEF dropEntity, Typed
    <3>2. CASE e # h.ent
      BY <2>4, <3>1, <3>2, NoLocalsClean
    <3>3. CASE e = h.ent
      <4>1. e \in subKeys
        BY <1>0, <3>1 DEF NetInv, SubscriptionInv, NoSneakingSubscription
      <4>2. reply'.kind = "error"
        BY <1>0, <2>1, <2>3, <2>5, <3>3, <4>1 DEF dropEntity, Typed
      <4>3. new = <<ErrorOf(h)>> /\ ErrorOf(h) \in Events /\ ErrorOf(h).ev = "cmd"
        BY <2>1, <2>2, <4>2, ErrorTyped DEF Events, Commands
      <4>4. Elems(new) = {ErrorOf(h)}
        BY <4>3, OneEvent
      <4>5. QED BY <2>4, <3>1, <4>3, <4>4, NoLocalsClean
    <3>4. QED BY <3>2, <3>3
  <2>6. Head(queue) \notin Locals /\ \A e \in Entities : ~LeaveEvent(h, e) /\ ~Announces(h, e)
    BY <1>1, <2>1 DEF LeaveEvent, Leaves, Announces, Commands, Locals
  <2>7. QED BY <1>0, <1>1, <2>1, <2>3, <2>4, <2>5, <2>6, MappedDispatch
<1>12. CASE dispatchRemote
  <2>1. queue # <<>> /\ h \in Remotes
    BY <1>0, <1>1, <1>12, HeadTyped, Apart DEF dispatchRemote
  <2>2. PICK c : c = Cmd(h.msg.trans, FALSE, h.msg, h.peer)
    OBVIOUS
  <2>3. PICK new : new = IF h.msg = Greeting THEN <<>> ELSE <<c>>
    OBVIOUS
  <2>4. queue' = Tail(queue) \o new /\ UNCHANGED <<peerState, up, down, subscribed>>
    BY <1>1, <1>12, <2>2, <2>3 DEF dispatchRemote, consume, linkVars, subVars
  <2>5. c.ev = "cmd" /\ c.data = h.msg.data /\ c.ent = h.msg.ent /\ c.peer = h.peer
    BY <2>2 DEF Cmd
  <2>6. /\ new \in Seq(Events) /\ \A x \in Elems(new) : x = c
        /\ h.msg # Greeting => c \in Elems(new)
    <3>1. CASE h.msg = Greeting
      BY <2>3, <3>1 DEF Elems
    <3>2. CASE h.msg # Greeting
      <4>1. h.msg \in Requests /\ h.peer \in Peers
        BY <2>1, <3>2 DEF Remotes
      <4>2. /\ h.msg.trans = TRUE /\ h.msg.data \in RequestKinds /\ h.msg.ent \in Entities
            /\ h.msg.data \in Kinds /\ h.msg.comp \in Components \cup {NoComponent} /\ h.msg.val \in Payloads
            /\ GoodData(h.msg)
        BY <4>1 DEF Requests, Messages
      <4>3. c \in Commands
        BY <2>2, <4>1, <4>2 DEF Cmd, Commands, GoodData, RequestKinds
      <4>4. c \in Events /\ new = <<c>>
        BY <2>3, <3>2, <4>3 DEF Events
      <4>5. new \in Seq(Events) /\ Elems(new) = {c}
        BY <4>4, OneEvent
      <4>6. QED BY <4>5
    <3>3. QED BY <3>1, <3>2
  <2>7. h.ev = "remote" /\ Head(queue) \notin Locals
    BY <1>1, <2>1 DEF Remotes, Locals
  <2>8. \A e \in Entities : Clean(new, ToQml(Removes(e))) /\ ~Announces(h, e)
    <3>1. \A x \in Elems(new) : x.ev # "local"
      BY <2>5, <2>6
    <3>2. QED BY <2>6, <2>7, <3>1, NoLocalsClean DEF Announces
  <2>9. ASSUME NEW e \in Entities, LeaveEvent(h, e) PROVE Leaving(e)'
    <3>1. h.msg # Greeting /\ h.peer = QmlPeer /\ Leaves(h.msg, e)
      BY <2>7, <2>9 DEF LeaveEvent, Leaves, Greeting
    <3>2. LeaveEvent(c, e)
      BY <2>5, <3>1 DEF LeaveEvent, Leaves
    <3>3. Elems(Tail(queue) \o new) = Elems(Tail(queue)) \cup Elems(new)
      BY <1>0, <2>1, <2>6, ElemsMoved DEF Typed
    <3>4. c \in Elems(queue')
      BY <2>4, <2>6, <3>1, <3>3
    <3>5. QED BY <3>2, <3>4 DEF Leaving
  <2>10. QED BY <1>0, <1>1, <2>1, <2>4, <2>6, <2>7, <2>8, <2>9, MappedDispatch
<1>13. CASE dispatchStatus
  <2>1. queue # <<>> /\ h.ev = "status" /\ h \notin Locals
    BY <1>1, <1>13 DEF dispatchStatus, Locals
  <2>2. PICK new : new = <<>>
    OBVIOUS
  <2>3. queue' = Tail(queue) \o new /\ UNCHANGED <<peerState, up, down>> /\ new \in Seq(Events) /\ Elems(new) = {}
    BY <1>13, <2>2 DEF dispatchStatus, consume, linkVars, Elems
  <2>4. \A e \in Entities : QmlPeer \in subscribed'[e] => QmlPeer \in subscribed[e]
    BY <1>13 DEF dispatchStatus
  <2>5. \A e \in Entities : Clean(new, ToQml(Removes(e))) /\ ~LeaveEvent(h, e) /\ ~Announces(h, e)
    BY <2>1, <2>3, NoLocalsClean DEF LeaveEvent, Announces
  <2>6. QED BY <1>0, <1>1, <2>1, <2>3, <2>4, <2>5, MappedDispatch
<1>14. CASE dispatchLocal
  <2>1. queue # <<>> /\ h \in Locals
    BY <1>0, <1>1, <1>14, HeadTyped, Apart DEF dispatchLocal
  <2>2. /\ UNCHANGED <<peerState, up, subscribed>>
        /\ down' = [p \in Peers |-> IF p \in h.to /\ peerState[p] = "auth"
                                      THEN Append(down[p], h.msg) ELSE down[p]]
    BY <1>1, <1>14 DEF dispatchLocal, subVars
  <2>3. /\ queue \in Seq(Events) /\ Tail(queue) \in Seq(Events) /\ down[QmlPeer] \in Heard
        /\ Elems(queue) = Elems(Tail(queue)) \cup {h} /\ h.msg \in Messages
    BY <1>0, <1>1, <2>1, Taken, QmlAssumption DEF Typed, Heard, Locals
  <2>4. queue' = Tail(queue)
    <3>1. Tail(queue) \o <<>> = Tail(queue)
      BY <2>3
    <3>2. QED BY <1>14, <3>1 DEF dispatchLocal, consume
  <2>5. ASSUME NEW e \in Entities, Subscriber(e)'
        PROVE  Mapped(queue', down'[QmlPeer], dict', e)
    <3>1. peerState[QmlPeer] = "auth" /\ QmlPeer \in subscribed[e] /\ ~Leaving(e)'
      BY <2>2, <2>5 DEF Subscriber
    <3>2. ~LeaveEvent(h, e)
      BY <2>1 DEF Locals, LeaveEvent
    <3>3. ~Leaving(e)
      BY <2>2, <2>3, <2>4, <3>1, <3>2 DEF Leaving
    <3>4. Mapped(queue, down[QmlPeer], dict, e)
      BY <3>1, <3>3 DEF Subscriber, QmlInv, SubscriberMapped
    <3>5. Mapped(Tail(queue), IF QmlPeer \in h.to THEN down[QmlPeer] \o <<h.msg>> ELSE down[QmlPeer], dict, e)
      BY <1>1, <2>1, <2>3, <3>4, MappedSent
    <3>6. Append(down[QmlPeer], h.msg) = down[QmlPeer] \o <<h.msg>>
      BY <2>3 DEF Heard
    <3>7. down'[QmlPeer] = IF QmlPeer \in h.to THEN down[QmlPeer] \o <<h.msg>> ELSE down[QmlPeer]
      BY <2>2, <3>1, <3>6, QmlAssumption
    <3>8. QED BY <1>0, <2>4, <3>5, <3>7
  <2>6. QED BY <2>5 DEF SubscriberMapped
<1>15. QED
  BY <1>2, <1>3, <1>4, <1>5, <1>6, <1>7, <1>8, <1>9, <1>10, <1>11, <1>12, <1>13, <1>14 DEF Dispatch

LEMMA LastTyped ==
  ASSUME NEW q \in Seq(Events), NEW x, q \o <<x>> \in Seq(Events)
  PROVE  <<x>> \in Seq(Events) /\ Elems(<<x>>) = {x}
<1> DEFINE S == Events \cup {x}
<1>1. q \in Seq(S) /\ <<x>> \in Seq(S) /\ Len(<<x>>) = 1 /\ <<x>>[1] = x
  OBVIOUS
<1>2. (q \o <<x>>)[Len(q) + 1] = x /\ Len(q \o <<x>>) = Len(q) + 1 /\ Len(q) \in Nat
  BY <1>1, Joined
<1>3. x \in Events
  BY <1>2
<1>4. QED BY <1>3, OneEvent

\* A call of a module, of another client or of this one, and a message that
\* arrives at the server.
LEMMA CallMapped ==
  ASSUME QmlInv, NetInv', UNCHANGED qmlVars,
         \/ ModuleCall
         \/ \E p \in Peers : onMessageReceived(p)
         \/ \E p \in Peers \ {QmlPeer} : ClientCall(p) \/ clientReceive(p)
         \/ connectToServer(QmlPeer) \/ onClientDisconnected(QmlPeer)
  PROVE  SubscriberMapped'
<1>0. /\ NetInv /\ dict' = dict /\ queue \in Seq(Events) /\ queue' \in Seq(Events) /\ QmlPeer \in Peers
      /\ up \in [Peers -> Seq(Requests \cup {Greeting})] /\ down \in [Peers -> Heard]
      /\ peerState \in [Peers -> {"new", "waiting", "auth", "gone"}]
  BY QmlAssumption DEF QmlInv, NetInv, Typed, qmlVars, Heard
<1>1. PICK none : none = <<>>
  OBVIOUS
<1>2. none \in Seq(Events) /\ Elems(none) = {} /\ queue \o none = queue
  BY <1>0, <1>1 DEF Elems
<1>3. CASE ModuleCall
  <2>1. PICK x : queue' = queue \o <<x>> /\ x.ev = "cmd"
    <3>1. PICK t, o, d, p : post(<<Cmd(t, o, d, p)>>)
      BY <1>3 DEF ModuleCall, initModule, removeEntity, removeComponent, createComponent, moduleSetValue,
                  Notify
    <3>2. Cmd(t, o, d, p).ev = "cmd"
      BY DEF Cmd
    <3>3. QED BY <3>1, <3>2 DEF post
  <2>2. UNCHANGED <<subscribed, peerState, up, down>>
    BY <1>3 DEF ModuleCall, initModule, removeEntity, removeComponent, createComponent, moduleSetValue,
                subVars, linkVars
  <2>3. PICK new : new = <<x>>
    OBVIOUS
  <2>4. new \in Seq(Events) /\ Elems(new) = {x} /\ queue' = queue \o new
    BY <1>0, <2>1, <2>3, LastTyped
  <2>5. Elems(queue') = Elems(queue) \cup Elems(new)
    BY <1>0, <2>4, Joined
  <2>6. \A e \in Entities : Leaving(e) => Leaving(e)'
    BY <2>2, <2>5 DEF Leaving
  <2>7. QED BY <1>0, <2>1, <2>2, <2>4, <2>6, MappedCall
<1>4. ASSUME NEW p \in Peers, onMessageReceived(p) PROVE SubscriberMapped'
  <2>1. PICK m : m = Head(up[p])
    OBVIOUS
  <2>2. PICK x : x = RemoteProto(p, m)
    OBVIOUS
  <2>3. /\ queue' = queue \o <<x>> /\ x.ev = "remote" /\ x.peer = p /\ x.msg = m
        /\ UNCHANGED <<subscribed, down>> /\ up[p] # <<>>
        /\ up' = [up EXCEPT ![p] = Tail(@)] /\ peerState' = [peerState EXCEPT ![p] = "auth"]
        /\ peerState[p] \in {"waiting", "auth"}
    BY <1>4, <2>1, <2>2 DEF onMessageReceived, post, RemoteProto, subVars
  <2>4. PICK new : new = <<x>>
    OBVIOUS
  <2>5. new \in Seq(Events) /\ Elems(new) = {x} /\ queue' = queue \o new
    BY <1>0, <2>3, <2>4, LastTyped
  <2>6. Elems(queue') = Elems(queue) \cup Elems(new)
    BY <1>0, <2>5, Joined
  <2>7. ASSUME NEW e \in Entities, Leaving(e) PROVE Leaving(e)'
    <3>1. CASE \E y \in Elems(queue) : LeaveEvent(y, e)
      BY <2>6, <3>1 DEF Leaving
    <3>2. CASE \E y \in Elems(up[QmlPeer]) : Leaves(y, e)
      <4>1. CASE p # QmlPeer
        <5>1. up'[QmlPeer] = up[QmlPeer]
          BY <1>0, <2>3, <4>1
        <5>2. QED BY <3>2, <5>1 DEF Leaving
      <4>2. CASE p = QmlPeer
        <5>1. up'[QmlPeer] = Tail(up[QmlPeer]) /\ Elems(up[QmlPeer]) = Elems(Tail(up[QmlPeer])) \cup {m}
          BY <1>0, <2>1, <2>3, <4>2, Taken
        <5>2. CASE Leaves(m, e)
          <6>1. LeaveEvent(x, e) /\ x \in Elems(queue')
            BY <2>3, <2>5, <2>6, <4>2, <5>2 DEF LeaveEvent
          <6>2. QED BY <6>1 DEF Leaving
        <5>3. CASE ~Leaves(m, e)
          BY <3>2, <5>1, <5>3 DEF Leaving
        <5>4. QED BY <5>2, <5>3
      <4>3. QED BY <4>1, <4>2
    <3>3. QED BY <2>7, <3>1, <3>2 DEF Leaving
  <2>8. /\ peerState'[QmlPeer] = "auth" => peerState[QmlPeer] \in {"auth", "waiting"}
    BY <1>0, <2>3
  <2>9. QED BY <1>0, <2>3, <2>5, <2>7, <2>8, MappedCall
<1>5. ASSUME NEW p \in Peers \ {QmlPeer}, ClientCall(p) \/ clientReceive(p) PROVE SubscriberMapped'
  <2>1. /\ up'[QmlPeer] = up[QmlPeer] /\ down'[QmlPeer] = down[QmlPeer]
        /\ peerState'[QmlPeer] = peerState[QmlPeer] /\ subscribed' = subscribed
    BY <1>0, <1>5 DEF ClientCall, connectToServer, onClientDisconnected, sendSubscription,
                      sendUnsubscription, startGetComponent, startSetComponent, request,
                      clientReceive, receive, subVars
  <2>2. queue' = queue \/ \E x : queue' = queue \o <<x>> /\ x.ev = "status"
    <3>1. CASE onClientDisconnected(p)
      <4>1. PICK x : x = Disconnected(IF peerState[p] = "auth" THEN p ELSE NoPeer)
        OBVIOUS
      <4>2. queue' = queue \o <<x>> /\ x.ev = "status"
        BY <3>1, <4>1 DEF onClientDisconnected, post, Disconnected
      <4>3. QED BY <4>2
    <3>2. CASE ~onClientDisconnected(p)
      BY <1>5, <3>2 DEF ClientCall, connectToServer, sendSubscription, sendUnsubscription,
                        startGetComponent, startSetComponent, request, clientReceive, receive
    <3>3. QED BY <3>1, <3>2
  <2>3. PICK new \in Seq(Events) : queue' = queue \o new /\ \A x \in Elems(new) : x.ev # "local"
    <3>1. CASE queue' = queue
      BY <1>2, <3>1
    <3>2. CASE \E x : queue' = queue \o <<x>> /\ x.ev = "status"
      <4>1. PICK x : queue' = queue \o <<x>> /\ x.ev = "status"
        BY <3>2
      <4>2. <<x>> \in Seq(Events) /\ Elems(<<x>>) = {x}
        BY <1>0, <4>1, LastTyped
      <4>3. QED BY <4>1, <4>2
    <3>3. QED BY <2>2, <3>1, <3>2
  <2>4. Elems(queue') = Elems(queue) \cup Elems(new)
    BY <1>0, <2>3, Joined
  <2>5. \A e \in Entities : Leaving(e) => Leaving(e)'
    BY <2>1, <2>4 DEF Leaving
  <2>6. QED BY <1>0, <2>1, <2>3, <2>5, MappedCall
<1>6. CASE connectToServer(QmlPeer) \/ onClientDisconnected(QmlPeer)
  <2>1. peerState'[QmlPeer] \in {"waiting", "gone"}
    BY <1>0, <1>6 DEF connectToServer, onClientDisconnected
  <2>2. QED BY <2>1 DEF SubscriberMapped, Subscriber
<1>7. QED BY <1>3, <1>4, <1>5, <1>6

LEMMA ElemsAdded ==
  ASSUME NEW S, NEW q \in Seq(S), NEW x
  PROVE  Elems(q \o <<x>>) = Elems(q) \cup {x}
<1>1. PICK T : T = S \cup {x}
  OBVIOUS
<1>2. PICK r : r = <<x>>
  OBVIOUS
<1>3. q \in Seq(T) /\ r \in Seq(T) /\ Elems(r) = {x}
  <2>1. q \in Seq(T) /\ r \in Seq(T) /\ DOMAIN r = {1} /\ r[1] = x
    BY <1>1, <1>2
  <2>2. QED BY <2>1 DEF Elems
<1>4. Elems(q \o r) = Elems(q) \cup Elems(r)
  BY <1>3, Joined
<1>5. QED BY <1>2, <1>3, <1>4

\* Calls from QML: an entity loses its map when its UNSUBSCRIBE is sent.
LEMMA QmlCallMapped ==
  ASSUME QmlInv,
         \/ \E e \in Entities : entitySubscribeById(e) \/ entityUnsubscribeById(e)
         \/ \E k \in Keys, v \in Values : updateValue(k, v)
  PROVE  SubscriberMapped'
<1>0. /\ queue \in Seq(Events) /\ QmlPeer \in Peers /\ up \in [Peers -> Seq(Requests \cup {Greeting})]
  BY QmlAssumption DEF QmlInv, NetInv, Typed
<1>1. PICK none : none = <<>>
  OBVIOUS
<1>2. none \in Seq(Events) /\ Elems(none) = {} /\ queue \o none = queue
  BY <1>0, <1>1 DEF Elems
<1>3. ASSUME NEW d, request(QmlPeer, d)
      PROVE  /\ UNCHANGED <<queue, subscribed, peerState, down>>
             /\ \A e \in Entities : Leaving(e) \/ Leaves(d, e) => Leaving(e)'
  <2>1. PICK m : m = Envelope(Cmd(TRUE, TRUE, d, NoPeer))
    OBVIOUS
  <2>2. UNCHANGED <<queue, subscribed, peerState, down>> /\ up' = [up EXCEPT ![QmlPeer] = Append(@, m)]
    BY <1>3, <2>1 DEF request, subVars
  <2>3. m.data = d.data /\ m.ent = d.ent
    BY <2>1 DEF Envelope, Cmd
  <2>4. PICK u : u = up[QmlPeer]
    OBVIOUS
  <2>5. u \in Seq(Requests \cup {Greeting})
    BY <1>0, <2>4
  <2>6. up'[QmlPeer] = u \o <<m>>
    BY <1>0, <2>2, <2>4, <2>5
  <2>7. Elems(u \o <<m>>) = Elems(u) \cup {m}
    BY <2>5, ElemsAdded
  <2>8. QED BY <2>2, <2>3, <2>4, <2>6, <2>7 DEF Leaving, Leaves
<1>4. ASSUME silentCall
      PROVE  /\ UNCHANGED <<queue, subscribed, peerState, down>>
             /\ \A e \in Entities : Leaving(e) => Leaving(e)'
  BY <1>4 DEF silentCall, subVars, linkVars, Leaving
<1>5. ASSUME UNCHANGED <<queue, subscribed, peerState, down>>,
             \A e \in Entities : Leaving(e) => Leaving(e)',
             \A e \in Entities : e \in dict /\ ~Leaving(e)' => e \in dict'
      PROVE  SubscriberMapped'
  <2>1. queue' = queue \o none
    BY <1>2, <1>5
  <2>2. QED BY <1>2, <1>5, <2>1, MappedCall
<1>6. ASSUME NEW e \in Entities, entitySubscribeById(e) PROVE SubscriberMapped'
  <2>1. dict' = dict /\ (silentCall \/ request(QmlPeer, EntityData("SUBSCRIBE", e)))
    BY <1>6 DEF entitySubscribeById, sendSubscription
  <2>2. QED BY <1>3, <1>4, <1>5, <2>1
<1>7. ASSUME NEW e \in Entities, entityUnsubscribeById(e) PROVE SubscriberMapped'
  <2>1. CASE silentCall /\ dict' = dict
    BY <1>4, <1>5, <2>1
  <2>2. CASE request(QmlPeer, EntityData("UNSUBSCRIBE", e)) /\ dict' = dict \ {e}
    <3>1. Leaves(EntityData("UNSUBSCRIBE", e), e)
      BY DEF Leaves, EntityData
    <3>2. Leaving(e)' /\ \A n \in Entities : Leaving(n) => Leaving(n)'
      BY <1>3, <2>2, <3>1
    <3>3. UNCHANGED <<queue, subscribed, peerState, down>>
      BY <1>3, <2>2
    <3>4. \A n \in Entities : n \in dict /\ ~Leaving(n)' => n \in dict'
      BY <2>2, <3>2
    <3>5. QED BY <1>5, <3>2, <3>3, <3>4
  <2>3. QED BY <1>7, <2>1, <2>2 DEF entityUnsubscribeById, sendUnsubscription, removeEntityMap
<1>8. ASSUME NEW k \in Keys, NEW v \in Values, updateValue(k, v) PROVE SubscriberMapped'
  <2>1. dict' = dict /\ request(QmlPeer, ComponentData("C_SET", k[1], k[2], v))
    BY <1>8 DEF updateValue, startSetComponent, qmlVars
  <2>2. QED BY <1>3, <1>5, <2>1
<1>9. QED BY <1>6, <1>7, <1>8

\* An introspection that arrives makes a map, a removal takes it away.
LEMMA EventMapped ==
  ASSUME QmlInv, processEvent
  PROVE  SubscriberMapped'
<1>0. /\ queue \in Seq(Events) /\ QmlPeer \in Peers /\ down \in [Peers -> Heard]
      /\ up \in [Peers -> Seq(Requests \cup {Greeting})]
  BY QmlAssumption DEF QmlInv, NetInv, Typed, Heard
<1>1. PICK m : m = Head(down[QmlPeer])
  OBVIOUS
<1>2. /\ down[QmlPeer] # <<>> /\ down' = [down EXCEPT ![QmlPeer] = Tail(@)]
      /\ up' = [up EXCEPT ![QmlPeer] = @ \o <<>>]
      /\ UNCHANGED <<queue, subscribed, peerState>>
  BY DEF processEvent, clientReceive, receive, subVars
<1>3. down'[QmlPeer] = Tail(down[QmlPeer]) /\ up'[QmlPeer] = up[QmlPeer]
  <2>1. up[QmlPeer] \o <<>> = up[QmlPeer]
    BY <1>0
  <2>2. QED BY <1>0, <1>2, <2>1
<1>4. /\ m.data = "INTRO" => dict' = dict \cup {m.ent}
      /\ m.data = "E_REMOVE" => dict' = dict \ {m.ent}
      /\ m.data \notin {"INTRO", "E_REMOVE"} => dict' = dict
  BY <1>1 DEF processEvent, onComponentData, onIntrospection, onEntityRemoved, removeEntityMap, qmlVars
<1>5. m \in Messages \cup {Greeting}
  BY <1>0, <1>1, <1>2, Taken DEF Heard
<1>6. ASSUME NEW e \in Entities, Subscriber(e)'
      PROVE  Mapped(queue', down'[QmlPeer], dict', e)
  <2>1. Subscriber(e)
    BY <1>2, <1>3, <1>6 DEF Subscriber, Leaving
  <2>2. Mapped(queue, down[QmlPeer], dict, e)
    BY <2>1 DEF QmlInv, SubscriberMapped
  <2>3. m \in Intros(e) => e \in dict'
    BY <1>4 DEF Intros
  <2>4. m \notin Removes(e) /\ e \in dict => e \in dict'
    BY <1>4, <1>5 DEF Removes, Greeting
  <2>5. Mapped(queue, Tail(down[QmlPeer]), dict', e)
    BY <1>0, <1>1, <1>2, <2>2, <2>3, <2>4, MappedReceived
  <2>6. QED BY <1>2, <1>3, <2>5
<1>7. QED BY <1>6 DEF SubscriberMapped

-----------------------------------------------------------------------------
(* The invariant, and what follows from it                                 *)

LEMMA QmlInvInit == QmlInit => QmlInv
<1> SUFFICES ASSUME QmlInit PROVE QmlInv
  OBVIOUS
<1>1. NetInv
  BY NetInvInit DEF QmlInit
<1>2. TablesTyped
  BY DEF QmlInit, Init, TablesTyped, MaybeVal
<1>3. ResolvedIsHeld
  BY DEF QmlInit, ResolvedIsHeld
<1>4. SubscriberMapped
  BY DEF QmlInit, Init, SubscriberMapped, Subscriber
<1>5. QED BY <1>1, <1>2, <1>3, <1>4 DEF QmlInv

LEMMA QmlInvStep == QmlInv /\ [QmlNext]_<<vars, qmlVars>> => QmlInv'
<1> SUFFICES ASSUME QmlInv, [QmlNext]_<<vars, qmlVars>> PROVE QmlInv'
  OBVIOUS
<1>1. NetInv'
  BY QmlKeepsNet DEF QmlInv
<1>2. TablesTyped' /\ ResolvedIsHeld'
  BY <1>1, TablesKeep DEF QmlInv
<1>3. SubscriberMapped'
  <2>1. CASE Elsewhere
    BY <1>1, <2>1, DispatchMapped, CallMapped DEF Elsewhere
  <2>2. CASE \/ \E e \in Entities : entitySubscribeById(e) \/ entityUnsubscribeById(e)
             \/ \E k \in Keys, v \in Values : updateValue(k, v)
    BY <2>2, QmlCallMapped
  <2>3. CASE processEvent
    BY <2>3, EventMapped
  <2>4. CASE UNCHANGED <<vars, qmlVars>>
    <3>1. UNCHANGED <<queue, up, down, peerState, subscribed, dict>>
      BY <2>4 DEF vars, netVars, qmlVars
    <3>2. QED BY <3>1 DEF QmlInv, SubscriberMapped, Subscriber, Leaving
  <2>5. QED BY <2>1, <2>2, <2>3, <2>4 DEF QmlNext
<1>4. QED BY <1>1, <1>2, <1>3 DEF QmlInv

\* When nothing is under way, the map is all that is left.
LEMMA MappedImplies == QmlInv => SubscribedHasMap
<1> SUFFICES ASSUME QmlInv, NEW e \in Entities, Quiet(QmlPeer), QmlPeer \in subscribed[e]
             PROVE  e \in dict
  BY DEF SubscribedHasMap
<1>1. queue = <<>> /\ down[QmlPeer] = <<>> /\ up[QmlPeer] = <<>> /\ peerState[QmlPeer] = "auth"
  BY DEF Quiet
<1>2. Subscriber(e)
  BY <1>1 DEF Subscriber, Leaving, Elems
<1>3. Mapped(<<>>, <<>>, dict, e)
  BY <1>1, <1>2 DEF QmlInv, SubscriberMapped
<1>4. QED BY <1>3 DEF Mapped, Announced, Elems, EndsWell

LEMMA TablesImply == QmlInv => QmlTypeOK
<1> SUFFICES ASSUME QmlInv PROVE QmlTypeOK
  OBVIOUS
<1>1. TypeOK /\ ops \in 0..MaxOps
  BY TypedImplies DEF QmlInv, NetInv, Typed
<1>2. refs \in [Entities -> 0..MaxOps]
  BY <1>1, BoundAssumption DEF QmlInv, TablesTyped
<1>3. QED BY <1>1, <1>2 DEF QmlInv, TablesTyped, QmlTypeOK

\* The QML client's tables have their types in every state of the system.
THEOREM QmlTypes == QmlSpec => []QmlTypeOK
  BY QmlInvInit, QmlInvStep, TablesImply, PTL DEF QmlSpec

\* What counts as resolved has a map and a subscriber, through every order of
\* introspections, repeated subscriptions and removals.
THEOREM ResolvedEntitiesHeld == QmlSpec => []ResolvedIsHeld
<1>1. QmlInv => ResolvedIsHeld
  BY DEF QmlInv
<1>2. QED BY <1>1, QmlInvInit, QmlInvStep, PTL DEF QmlSpec

\* Whoever the server notifies has a map to show it in: the introspection of
\* the last subscription is behind the last removal, and the client leaves
\* only with an UNSUBSCRIBE that the server will see.
THEOREM SubscribersHaveMaps == QmlSpec => []SubscribedHasMap
  BY QmlInvInit, QmlInvStep, MappedImplies, PTL DEF QmlSpec

\* With the QML client on one connection, the replicas still converge, the
\* storage follows the modules and no subscription outlives its entity.
THEOREM QmlSystemConverges ==
  QmlSpec => [](ReplicaConverges /\ StorageFollowsModules /\ NoSneakingSubscription)
<1>1. QmlInv => ReplicaConverges /\ StorageFollowsModules /\ NoSneakingSubscription
  BY FreshImplies, FollowsImplies DEF QmlInv, NetInv, SubscriptionInv
<1>2. QED BY <1>1, QmlInvInit, QmlInvStep, PTL DEF QmlSpec

-----------------------------------------------------------------------------
(* The tasks of a client                                                   *)

\* An introspection has a component, so that a getter of the whole entity has
\* something to wait for.
Full(m) == m.data = "INTRO" => \E c \in Components : m.val[c] # Absent
IntrosFull ==
  /\ \A x \in Elems(queue) : (x.ev = "cmd" => Full(x)) /\ (x.ev = "local" => Full(x.msg))
  /\ \A p \in Peers : \A m \in Elems(down[p]) : Full(m)

\* The tasks and the core stack client.
Stages == {"idle", "subscribing", "fetching", "setting", "finishing", "done"}
TaskTyped ==
  /\ stage \in [Tasks -> Stages] /\ waiting \in [Tasks -> SUBSET Components]
  /\ fetched \in [Tasks -> [Components -> MaybeVal]] /\ ok \in [Tasks -> BOOLEAN]
  /\ \A t \in Tasks : waiting[t] # {} <=> stage[t] = "fetching"
  /\ \A t \in Tasks : Kind[t] = "setter" => waiting[t] \subseteq {TaskKey[t][2]}
  /\ subItems \in [Entities -> Nat] /\ unsubItems \in [Entities -> Nat]
  /\ \A e \in Entities : subItems[e] <= ops /\ unsubItems[e] <= ops

\* Setter t is the only one of its component so far, and its module has never
\* had the new value.
Untouched(t) ==
  /\ Kind[t] = "setter" /\ calm /\ ~applied[t]
  /\ \A u \in Tasks \ {t} : Kind[u] = "setter" /\ TaskKey[u] = TaskKey[t] => stage[u] = "idle"

\* Then the component is what it was in the beginning, ...
InitialValue(k) == IF k \in InitKeys THEN InitValue ELSE Absent

\* ... only the setter itself has asked for another value, ...
Asks(m, t) ==
  m.data = "C_SET" /\ m.ent = TaskKey[t][1] /\ m.comp = TaskKey[t][2] =>
    m.val = TaskValue[t] /\ stage[t] # "idle"

\* ... and clients are told of no other value and of no SET at all.
Tells(m, t) ==
  m.ent = TaskKey[t][1] /\ m.comp = TaskKey[t][2] =>
    m.data # "C_SET" /\ (m.data = "C_FETCH" => m.val = InitialValue(TaskKey[t]))

Harmless(x, t) ==
  /\ x.ev = "cmd" => ~Writes(x, TaskKey[t]) /\ (x.trans => Asks(x, t))
  /\ x.ev = "remote" => Asks(x.msg, t)
  /\ x.ev = "local" => Tells(x.msg, t)

Still(t) ==
  /\ stored[TaskKey[t]] = InitialValue(TaskKey[t]) /\ module[TaskKey[t]] = InitialValue(TaskKey[t])
  /\ \A x \in Elems(queue) : Harmless(x, t)
  /\ \A p \in Peers : /\ \A m \in Elems(up[p]) : Asks(m, t)
                      /\ \A m \in Elems(down[p]) : Tells(m, t)
  /\ stage[t] # "idle" => InitialValue(TaskKey[t]) # TaskValue[t]
  /\ stage[t] \in {"finishing", "done"} => ~ok[t]

UntouchedStill == \A t \in Tasks : Untouched(t) => Still(t)

TaskInv == NetInv /\ IntrosFull /\ TaskTyped /\ UntouchedStill

-----------------------------------------------------------------------------
(* What the server posts and writes                                        *)

\* The event that handling event h posts; the storage puts its own value into
\* a FETCH on its way to the network.
Posted(h, x) ==
  \/ x.ev = "cmd" /\ x.data \in {"ERROR", "C_FETCH"}
  \/ x.ev = "cmd" /\ x.data = "INTRO" /\ \E c \in Components : x.val[c] # Absent
  \/ /\ x.ev = "cmd" /\ x.trans /\ h.ev = "remote" /\ h.msg \in Requests
     /\ x.data = h.msg.data /\ x.ent = h.msg.ent /\ x.comp = h.msg.comp /\ x.val = h.msg.val
  \/ /\ h.ev = "cmd" /\ h.data = "C_SET" /\ h.trans /\ module'[<<h.ent, h.comp>>] = h.val
     /\ x.ev = "cmd" /\ ~x.trans /\ x.data = "C_SET" /\ x.ent = h.ent /\ x.comp = h.comp
  \/ /\ h.ev = "cmd" /\ (h.data = "C_SET" => ~h.trans)
     /\ x.ev = "local" /\ x.msg.data = h.data /\ x.msg.ent = h.ent /\ x.msg.comp = h.comp
     /\ x.msg.val = IF h.data = "C_FETCH" THEN stored[<<h.ent, h.comp>>] ELSE h.val

LEMMA ForwardPosts ==
  ASSUME Typed, NEW h \in Commands, NEW c \in Commands, NEW x,
         h.data = "C_SET" => ~h.trans,
         c.data = h.data, c.ent = h.ent, c.comp = h.comp,
         c.val = IF h.data = "C_FETCH" THEN stored[<<h.ent, h.comp>>] ELSE h.val,
         x \in Elems(Forward(c))
  PROVE  Posted(h, x)
<1>1. x = LocalProto(Receivers(c), Envelope(c))
  BY Forwarded
<1>2. x.ev = "local" /\ x.msg = Envelope(c)
  BY <1>1 DEF LocalProto
<1>3. x.msg.data = c.data /\ x.msg.ent = c.ent /\ x.msg.comp = c.comp /\ x.msg.val = c.val
  BY <1>2 DEF Envelope
<1>4. h.ev = "cmd"
  BY DEF Commands
<1>5. QED BY <1>2, <1>3, <1>4 DEF Posted

LEMMA ErrorPosts ==
  ASSUME NEW h, NEW c \in Commands, NEW x, x \in Elems(<<ErrorOf(c)>>)
  PROVE  Posted(h, x)
<1>1. x = ErrorOf(c)
  BY DEF Elems
<1>2. x.ev = "cmd" /\ x.data = "ERROR"
  BY <1>1, ErrorTyped DEF Commands
<1>3. QED BY <1>2 DEF Posted

\* The event at the head leaves, what is posted comes in.
LEMMA QueueMoves ==
  ASSUME Typed, queue # <<>>, NEW new \in Seq(Events), queue' = Tail(queue) \o new,
         NEW x \in Elems(queue')
  PROVE  x \in Elems(queue) \/ x \in Elems(new)
<1>1. PICK rest \in Seq(Events) : rest = Tail(queue) /\ Elems(rest) \subseteq Elems(queue)
  BY Taken DEF Typed
<1>2. Elems(rest \o new) = Elems(rest) \cup Elems(new)
  BY Joined
<1>3. QED BY <1>1, <1>2

\* The snapshot is that of the storage.
LEMMA IntrospectionValue ==
  ASSUME NEW c, NEW comps, NEW x \in Elems(Introspection(c, comps)), comps \in ComponentLists(c.ent),
         x.data = "INTRO"
  PROVE  x.val = [y \in Components |-> stored[<<c.ent, y>>]]
<1> DEFINE snap == Cmd(FALSE, TRUE, IntrospectionData(c.ent, [y \in Components |-> stored[<<c.ent, y>>]]), c.peer)
           F == [i \in DOMAIN comps |->
                   Cmd(FALSE, TRUE, ComponentData("C_FETCH", c.ent, comps[i], stored[<<c.ent, comps[i]>>]), c.peer)]
<1>1. PICK n \in Nat : comps \in [1..n -> Components]
  <2>1. PICK n \in 0..Len(ComponentOrder) : comps \in [1..n -> Components]
    BY DEF ComponentLists
  <2>2. n \in Nat
    BY OrderAssumption
  <2>3. QED BY <2>1, <2>2
<1>2. /\ snap.val = [y \in Components |-> stored[<<c.ent, y>>]]
      /\ \A i \in DOMAIN comps : F[i].data = "C_FETCH"
      /\ Introspection(c, comps) = <<snap>> \o F /\ DOMAIN F = 1..n
  BY <1>1 DEF Cmd, IntrospectionData, ComponentData, Introspection
<1> HIDE DEF snap, F
<1>3. PICK S : S = {snap} \cup {F[i] : i \in 1..n}
  OBVIOUS
<1>4. F \in [1..n -> S]
  <2>1. \A i \in 1..n : F[i] \in S
    BY <1>3
  <2>2. F = [i \in DOMAIN F |-> F[i]]
    BY DEF F
  <2>3. QED BY <1>2, <2>1, <2>2
<1>5. F \in Seq(S) /\ <<snap>> \in Seq(S)
  BY <1>3, <1>4
<1>6. Elems(<<snap>> \o F) = Elems(<<snap>>) \cup Elems(F)
  <2>1. PICK one \in Seq(S), f \in Seq(S) : one = <<snap>> /\ f = F
    BY <1>5
  <2>2. Elems(one \o f) = Elems(one) \cup Elems(f)
    BY Joined
  <2>3. QED BY <2>1, <2>2, Zenon
<1>7. Elems(<<snap>>) = {snap}
  BY DEF Elems
<1>8. \A e \in Elems(F) : e.data = "C_FETCH"
  BY <1>1, <1>2 DEF Elems
<1>9. QED BY <1>2, <1>6, <1>7, <1>8

\* A command goes through the storage and on to the network, or an error is
\* posted, or nothing.
LEMMA AnswerPosts ==
  ASSUME Typed, queue # <<>>, NEW h \in Commands, h = Head(queue), NEW c \in Commands, NEW new,
         new = <<>> \/ new = <<ErrorOf(c)>> \/ new = Forward(c), queue' = Tail(queue) \o new,
         h.data = "C_SET" => ~h.trans,
         c.data = h.data, c.ent = h.ent, c.comp = h.comp,
         new = Forward(c) => c.val = IF h.data = "C_FETCH" THEN stored[<<h.ent, h.comp>>] ELSE h.val,
         NEW x \in Elems(queue')
  PROVE  x \in Elems(queue) \/ Posted(h, x)
<1>1. new \in Seq(Events)
  BY Answered
<1>2. x \in Elems(new) => Posted(h, x)
  <2>1. CASE new = <<>>
    BY <2>1 DEF Elems
  <2>2. CASE new = <<ErrorOf(c)>>
    BY <2>2, ErrorPosts
  <2>3. CASE new = Forward(c)
    BY <2>3, ForwardPosts
  <2>4. QED BY <2>1, <2>2, <2>3
<1>3. QED BY <1>1, <1>2, QueueMoves

\* Every event in the queue after a dispatch was there or has been posted.
LEMMA DispatchPosts ==
  ASSUME NetInv, Dispatch, NEW x \in Elems(queue')
  PROVE  x \in Elems(queue) \/ Posted(Head(queue), x)
<1>0. Typed
  BY DEF NetInv
<1>1. ASSUME NEW kind, First(kind), NEW new, new = <<>> \/ new = <<ErrorOf(Head(queue))>> \/ new = Forward(Head(queue)),
             queue' = Tail(queue) \o new, kind # "C_FETCH", kind = "C_SET" => ~Head(queue).trans
      PROVE  x \in Elems(queue) \/ Posted(Head(queue), x)
  <2>1. PICK h : h = Head(queue)
    OBVIOUS
  <2>2. queue # <<>> /\ h \in Commands /\ h.data = kind
    BY <1>1, <2>1, HeadCommand
  <2>3. QED BY <1>0, <1>1, <2>1, <2>2, AnswerPosts
<1>2. CASE dispatchSubscribe
  <2>1. PICK h : h = Head(queue)
    OBVIOUS
  <2>2. queue # <<>> /\ h \in Commands /\ h.data = "SUBSCRIBE"
    BY <1>2, <2>1, HeadCommand DEF dispatchSubscribe
  <2>3. PICK c : c = Validated(h)
    OBVIOUS
  <2>4. /\ c \in Commands /\ c.data = "SUBSCRIBE" /\ c.ent = h.ent /\ c.comp = h.comp /\ c.val = h.val
    BY <2>2, <2>3, ValidatedTyped
  <2>5. CASE ~HasComponents(c.ent)
    <3>1. queue' = Tail(queue) \o <<ErrorOf(c)>>
      BY <1>2, <2>1, <2>3, <2>5 DEF dispatchSubscribe, consume
    <3>2. QED BY <1>0, <2>1, <2>2, <2>4, <3>1, AnswerPosts
  <2>6. CASE HasComponents(c.ent)
    <3>1. PICK comps \in ComponentLists(c.ent) : queue' = Tail(queue) \o Introspection(c, comps)
      BY <1>2, <2>1, <2>3, <2>6 DEF dispatchSubscribe, consume
    <3>2. PICK new : new = Introspection(c, comps)
      OBVIOUS
    <3>3. new \in Seq(Events) /\ \A e \in Elems(new) : e \in Commands /\ e.data \in {"INTRO", "C_FETCH"}
      BY <1>0, <2>4, <3>2, Introspected
    <3>4. \A e \in Elems(new) : e.data = "INTRO" => e.val = [y \in Components |-> stored[<<c.ent, y>>]]
      BY <3>2, IntrospectionValue
    <3>5. PICK y \in Components : stored[<<c.ent, y>>] # Absent
      BY <2>6 DEF HasComponents
    <3>6. x \in Elems(new) => Posted(h, x)
      <4> SUFFICES ASSUME x \in Elems(new) PROVE Posted(h, x)
        OBVIOUS
      <4>1. x.ev = "cmd" /\ x.data \in {"INTRO", "C_FETCH"}
        BY <3>3 DEF Commands
      <4>2. CASE x.data = "INTRO"
        <5>1. x.val[y] # Absent
          BY <3>4, <3>5, <4>2
        <5>2. QED BY <4>1, <4>2, <5>1 DEF Posted
      <4>3. CASE x.data = "C_FETCH"
        BY <4>1, <4>3 DEF Posted
      <4>4. QED BY <4>1, <4>2, <4>3
    <3>7. QED BY <1>0, <2>1, <2>2, <3>1, <3>2, <3>3, <3>6, QueueMoves
  <2>7. QED BY <2>5, <2>6
<1>3. CASE dispatchUnsubscribe
  <2>1. PICK h : h = Head(queue)
    OBVIOUS
  <2>2. queue # <<>> /\ h \in Commands /\ h.data = "UNSUBSCRIBE"
    BY <1>3, <2>1, HeadCommand DEF dispatchUnsubscribe
  <2>3. PICK c : c = Validated(h)
    OBVIOUS
  <2>4. /\ c \in Commands /\ c.data = "UNSUBSCRIBE" /\ c.ent = h.ent /\ c.comp = h.comp /\ c.val = h.val
    BY <2>2, <2>3, ValidatedTyped
  <2>5. queue' = Tail(queue) \o Forward(c)
    BY <1>3, <2>1, <2>3 DEF dispatchUnsubscribe, consume
  <2>6. QED BY <1>0, <2>1, <2>2, <2>4, <2>5, AnswerPosts
<1>4. CASE dispatchEntityAdd \/ dispatchEntityRemove \/ dispatchComponentAdd \/ dispatchComponentRemove
  <2>1. PICK kind \in {"E_ADD", "E_REMOVE", "C_ADD", "C_REMOVE"} : First(kind) /\ afterStorage(Head(queue))
    BY <1>4 DEF dispatchEntityAdd, dispatchEntityRemove, dispatchComponentAdd, dispatchComponentRemove
  <2>2. PICK new : new = IF reply'.kind = "error" THEN <<ErrorOf(Head(queue))>> ELSE Forward(Head(queue))
    OBVIOUS
  <2>3. queue' = Tail(queue) \o new
    BY <2>1, <2>2 DEF afterStorage, consume
  <2>4. QED BY <1>1, <2>1, <2>2, <2>3
<1>5. CASE dispatchComponentSet
  <2>1. First("C_SET") /\ ~Head(queue).trans
    BY <1>5 DEF dispatchComponentSet
  <2>2. PICK new : (new = <<>> \/ new = <<ErrorOf(Head(queue))>> \/ new = Forward(Head(queue)))
                   /\ queue' = Tail(queue) \o new
    BY <1>5 DEF dispatchComponentSet, afterStorage, consume
  <2>3. QED BY <1>1, <2>1, <2>2
<1>6. CASE dispatchClientSet
  <2>1. PICK h : h = Head(queue)
    OBVIOUS
  <2>2. queue # <<>> /\ h \in Commands /\ h.data = "C_SET" /\ h.trans
    BY <1>6, <2>1, HeadCommand DEF dispatchClientSet
  <2>3. h.ent \in Entities /\ h.comp \in Components /\ h.val \in Values /\ h.ev = "cmd"
    BY <2>2 DEF Commands, GoodData, ComponentKinds
  <2>4. PICK n : n = Notify(ComponentData("C_SET", h.ent, h.comp, h.val))
    OBVIOUS
  <2>5. n.ev = "cmd" /\ ~n.trans /\ n.data = "C_SET" /\ n.ent = h.ent /\ n.comp = h.comp
    BY <2>4 DEF Notify, Cmd, ComponentData
  <2>6. n \in Events
    <3>1. "C_SET" \in Kinds /\ "C_SET" \in ComponentKinds /\ h.val \in Val
      BY <2>3 DEF Kinds, ComponentKinds, Val
    <3>2. n \in Commands
      BY <2>3, <2>4, <3>1, Notified
    <3>3. QED BY <3>2 DEF Events
  <2>7. PICK k : k = <<h.ent, h.comp>>
    OBVIOUS
  <2>8. k \in Keys /\ module \in [Keys -> Stored]
    BY <1>0, <2>3, <2>7 DEF Keys, Typed
  <2>9. PICK new : /\ new = <<>> \/ (new = <<n>> /\ module' = [module EXCEPT ![k] = h.val])
                   /\ queue' = Tail(queue) \o new
    BY <1>6, <2>1, <2>4, <2>7 DEF dispatchClientSet, consume
  <2>10. new \in Seq(Events) /\ \A e \in Elems(new) : e = n /\ module'[k] = h.val
    <3>1. CASE new = <<>>
      BY <3>1 DEF Elems
    <3>2. CASE new = <<n>> /\ module' = [module EXCEPT ![k] = h.val]
      BY <2>6, <2>8, <3>2, OneEvent
    <3>3. QED BY <2>9, <3>1, <3>2
  <2>11. x \in Elems(new) => Posted(h, x)
    BY <2>2, <2>3, <2>5, <2>7, <2>10 DEF Posted
  <2>12. QED BY <1>0, <2>1, <2>2, <2>9, <2>10, <2>11, QueueMoves
<1>7. CASE dispatchFetch
  <2>1. PICK h : h = Head(queue)
    OBVIOUS
  <2>2. queue # <<>> /\ h \in Commands /\ h.data = "C_FETCH"
    BY <1>7, <2>1, HeadCommand DEF dispatchFetch
  <2>3. PICK c : c = Validated(h)
    OBVIOUS
  <2>4. /\ c \in Commands /\ c.data = "C_FETCH" /\ c.ent = h.ent /\ c.comp = h.comp /\ c.val \in Val
    <3>1. /\ c \in Commands /\ c.data = "C_FETCH" /\ c.ent = h.ent /\ c.comp = h.comp
      BY <2>2, <2>3, ValidatedTyped
    <3>2. QED BY <3>1 DEF Commands, GoodData, ComponentKinds
  <2>5. PICK k : k = <<h.ent, h.comp>>
    OBVIOUS
  <2>6. k \in Keys /\ k = <<c.ent, c.comp>>
    BY <2>2, <2>4, <2>5, ComponentKey DEF ComponentKinds
  <2>7. PICK v : v = reply'.val
    OBVIOUS
  <2>8. PICK b : b = [c EXCEPT !.val = v]
    OBVIOUS
  <2>9. PICK new : new = IF reply'.kind = "error" THEN <<ErrorOf(b)>> ELSE Forward(b)
    OBVIOUS
  <2>10. FetchComponent(k, c.val) /\ queue' = Tail(queue) \o new
    BY <1>7, <2>1, <2>3, <2>6, <2>7, <2>8, <2>9 DEF dispatchFetch, afterStorage, consume
  <2>11. v \in Val /\ (reply'.kind # "error" => v = stored[k])
    <3>1. pending[k] = Absent /\ stored[k] \in Stored
      BY <1>0, <2>6 DEF Typed
    <3>2. CASE k[1] \notin known \/ stored[k] = Absent
      BY <2>7, <2>10, <3>1, <3>2 DEF FetchComponent, Reject, Rejected, Val
    <3>3. CASE k[1] \in known /\ stored[k] # Absent
      <4>1. stored[k] \in Values /\ stored[k] # Invalid
        BY <3>1, <3>3, ValueAssumption DEF Stored
      <4>2. reply' = Answer(stored[k])
        BY <2>10, <3>3, <4>1 DEF FetchComponent
      <4>3. QED BY <2>7, <4>1, <4>2 DEF Answer, Val
    <3>4. QED BY <3>2, <3>3
  <2>12. b \in Commands /\ b.data = h.data /\ b.ent = h.ent /\ b.comp = h.comp /\ b.val = v
    <3>1. b \in Commands /\ b.val = v
      BY <2>4, <2>8, <2>11 DEF Commands, GoodData, Payloads, EntityKinds, ComponentKinds
    <3>2. b.data = c.data /\ b.ent = c.ent /\ b.comp = c.comp
      BY <2>4, <2>8 DEF Commands
    <3>3. QED BY <2>2, <2>4, <3>1, <3>2
  <2>13. new = <<ErrorOf(b)>> \/ (new = Forward(b) /\ b.val = stored[<<h.ent, h.comp>>])
    BY <2>5, <2>9, <2>11, <2>12
  <2>14. x \in Elems(new) => Posted(h, x)
    <3>1. CASE new = <<ErrorOf(b)>>
      BY <2>12, <3>1, ErrorPosts
    <3>2. CASE new = Forward(b) /\ b.val = stored[<<h.ent, h.comp>>]
      BY <1>0, <2>2, <2>12, <3>2, ForwardPosts
    <3>3. QED BY <2>13, <3>1, <3>2
  <2>15. new \in Seq(Events)
    BY <1>0, <2>12, <2>13, Answered
  <2>16. QED BY <1>0, <2>1, <2>2, <2>10, <2>14, <2>15, QueueMoves
<1>8. CASE dispatchForwardOnly
  <2>1. PICK kind \in {"INTRO", "ERROR"} : First(kind)
    BY <1>8 DEF dispatchForwardOnly
  <2>2. queue' = Tail(queue) \o Forward(Head(queue))
    BY <1>8 DEF dispatchForwardOnly, consume
  <2>3. QED BY <1>1, <2>1, <2>2
<1>9. CASE dispatchRemote
  <2>1. PICK h : h = Head(queue)
    OBVIOUS
  <2>2. queue # <<>> /\ h \in Remotes /\ h.ev = "remote"
    BY <1>0, <1>9, <2>1, HeadTyped, Apart DEF dispatchRemote
  <2>3. h.msg \in Requests \cup {Greeting} /\ h.peer \in Peers
    BY <2>2 DEF Remotes
  <2>4. PICK c : c = Cmd(h.msg.trans, FALSE, h.msg, h.peer)
    OBVIOUS
  <2>5. PICK new : new = IF h.msg = Greeting THEN <<>> ELSE <<c>>
    OBVIOUS
  <2>6. queue' = Tail(queue) \o new
    BY <1>9, <2>1, <2>4, <2>5 DEF dispatchRemote, consume
  <2>7. h.msg # Greeting => c \in Events /\ Posted(h, c)
    <3> SUFFICES ASSUME h.msg \in Requests PROVE c \in Events /\ Posted(h, c)
      BY <2>3
    <3>1. /\ h.msg.trans = TRUE /\ h.msg.data \in RequestKinds /\ h.msg.ent \in Entities
          /\ h.msg.data \in Kinds /\ h.msg.comp \in Components \cup {NoComponent} /\ h.msg.val \in Payloads
          /\ GoodData(h.msg)
      BY DEF Requests, Messages
    <3>2. c \in Commands
      BY <2>3, <2>4, <3>1 DEF Cmd, Commands, GoodData, RequestKinds
    <3>3. /\ c.ev = "cmd" /\ c.trans /\ c.data = h.msg.data /\ c.ent = h.msg.ent
          /\ c.comp = h.msg.comp /\ c.val = h.msg.val
      BY <2>4, <3>1 DEF Cmd
    <3>4. QED BY <2>2, <3>2, <3>3 DEF Posted, Events
  <2>8. new \in Seq(Events) /\ \A e \in Elems(new) : Posted(h, e)
    <3>1. CASE new = <<>>
      BY <3>1 DEF Elems
    <3>2. CASE new = <<c>> /\ h.msg # Greeting
      BY <2>7, <3>2, OneEvent
    <3>3. QED BY <2>5, <3>1, <3>2
  <2>9. QED BY <1>0, <2>1, <2>2, <2>6, <2>8, QueueMoves
<1>10. CASE dispatchLocal \/ dispatchStatus
  <2>1. queue # <<>> /\ queue' = Tail(queue) \o <<>>
    BY <1>10 DEF dispatchLocal, dispatchStatus, consume
  <2>2. <<>> \in Seq(Events) /\ Elems(<<>>) = {}
    BY DEF Elems
  <2>3. QED BY <1>0, <2>1, <2>2, QueueMoves
<1>11. QED BY <1>2, <1>3, <1>4, <1>5, <1>6, <1>7, <1>8, <1>9, <1>10 DEF Dispatch

\* Only an event that writes the component changes it in the storage, ...
LEMMA DispatchStores ==
  ASSUME NetInv, Dispatch, NEW k \in Keys, ~Writes(Head(queue), k)
  PROVE  stored'[k] = stored[k]
<1>0. Typed /\ stored \in [Keys -> Stored]
  BY DEF NetInv, Typed
<1>1. PICK h : h = Head(queue)
  OBVIOUS
<1>2. ASSUME NEW kind \in ComponentKinds, First(kind), kind = "C_SET" => ~h.trans
      PROVE  kind # "C_FETCH" => k # <<h.ent, h.comp>>
  <2>1. h \in Commands /\ h.data = kind
    BY <1>1, <1>2, HeadCommand
  <2>2. h.ev = "cmd" /\ (kind # "C_FETCH" => ~h.trans \/ kind \in {"C_ADD", "C_REMOVE"})
    BY <1>2, <2>1 DEF Commands, ComponentKinds
  <2>3. kind \in {"C_ADD", "C_REMOVE"} => ~h.trans
    BY <2>1 DEF Commands, RequestKinds
  <2>4. QED BY <1>1, <2>1, <2>2, <2>3 DEF Writes, ComponentKinds
<1>3. CASE dispatchEntityRemove
  <2>1. h \in Commands /\ h.data = "E_REMOVE" /\ RemoveEntity(h.ent, TRUE)
    BY <1>1, <1>3, HeadCommand DEF dispatchEntityRemove
  <2>2. h.ev = "cmd" /\ ~h.trans
    BY <2>1 DEF Commands, RequestKinds
  <2>3. h.ent # k[1]
    BY <1>1, <2>1, <2>2 DEF Writes
  <2>4. stored' = stored \/ stored' = [j \in Keys |-> IF j[1] = h.ent THEN Absent ELSE stored[j]]
    BY <2>1 DEF RemoveEntity
  <2>5. QED BY <2>3, <2>4
<1>4. CASE dispatchComponentAdd \/ dispatchComponentRemove \/ dispatchComponentSet
  <2>1. k # <<h.ent, h.comp>>
    BY <1>1, <1>2, <1>4
       DEF dispatchComponentAdd, dispatchComponentRemove, dispatchComponentSet, ComponentKinds
  <2>2. PICK j, v : j = <<h.ent, h.comp>> /\ (AddComponent(j, v) \/ RemoveComponent(j) \/ SetComponent(j, v))
    BY <1>1, <1>4 DEF dispatchComponentAdd, dispatchComponentRemove, dispatchComponentSet
  <2>3. stored' = stored \/ stored' = [stored EXCEPT ![j] = v] \/ stored' = [stored EXCEPT ![j] = Absent]
    BY <2>2 DEF AddComponent, RemoveComponent, SetComponent, Reject
  <2>4. j # k
    BY <2>1, <2>2
  <2>5. QED BY <1>0, <2>3, <2>4
<1>5. CASE dispatchFetch
  BY <1>5 DEF dispatchFetch, FetchComponent, Reject
<1>6. CASE dispatchEntityAdd
  BY <1>6 DEF dispatchEntityAdd, AddEntity
<1>7. CASE \/ dispatchSubscribe \/ dispatchUnsubscribe \/ dispatchClientSet \/ dispatchForwardOnly
           \/ dispatchRemote \/ dispatchLocal \/ dispatchStatus
  BY <1>7 DEF dispatchSubscribe, dispatchUnsubscribe, dispatchClientSet, dispatchForwardOnly,
              dispatchRemote, dispatchLocal, dispatchStatus, dbVars
<1>8. QED BY <1>3, <1>4, <1>5, <1>6, <1>7 DEF Dispatch

\* ... only a client's SET of the component changes it in its module, ...
LEMMA DispatchSets ==
  ASSUME NetInv, Dispatch, NEW k \in Keys, module'[k] # module[k]
  PROVE  LET h == Head(queue) IN
         /\ queue # <<>> /\ h \in Commands /\ h.data = "C_SET" /\ h.trans
         /\ h.ent = k[1] /\ h.comp = k[2] /\ module'[k] = h.val
<1>1. CASE dispatchClientSet
  <2>1. PICK h : h = Head(queue)
    OBVIOUS
  <2>2. queue # <<>> /\ h \in Commands /\ h.data = "C_SET" /\ h.trans
    BY <1>1, <2>1, HeadCommand DEF dispatchClientSet
  <2>3. PICK j : j = <<h.ent, h.comp>>
    OBVIOUS
  <2>4. module' = [module EXCEPT ![j] = h.val] \/ module' = [module EXCEPT ![j] = @]
    BY <1>1, <2>1, <2>3 DEF dispatchClientSet
  <2>5. module \in [Keys -> Stored]
    BY DEF NetInv, Typed
  <2>6. j = k /\ module'[k] = h.val
    BY <2>4, <2>5
  <2>7. QED BY <2>1, <2>2, <2>3, <2>6
<1>2. CASE ~dispatchClientSet
  BY <1>2 DEF Dispatch, dispatchSubscribe, dispatchUnsubscribe, dispatchEntityAdd, dispatchEntityRemove,
              dispatchComponentAdd, dispatchComponentRemove, dispatchComponentSet, dispatchFetch,
              dispatchForwardOnly, dispatchRemote, dispatchLocal, dispatchStatus, modVars
<1>3. QED BY <1>1, <1>2

\* ... and only a message of the queue is sent.
LEMMA DispatchSends ==
  ASSUME NetInv, Dispatch, NEW p \in Peers
  PROVE  /\ up' = up /\ ops' = ops /\ queue # <<>> /\ Head(queue) \in Elems(queue)
         /\ \A m \in Elems(down'[p]) :
              m \in Elems(down[p]) \/ (Head(queue).ev = "local" /\ m = Head(queue).msg)
<1>1. CASE dispatchLocal
  <2>1. Typed /\ queue # <<>> /\ Head(queue).ev = "local"
    BY <1>1 DEF dispatchLocal, NetInv
  <2>2. PICK h : h = Head(queue) /\ h \in Elems(queue)
    BY <2>1, Taken DEF Typed
  <2>3. down'[p] = down[p] \/ down'[p] = Append(down[p], h.msg)
    BY <1>1, <2>2 DEF dispatchLocal
  <2>4. Elems(Append(down[p], h.msg)) \subseteq Elems(down[p]) \cup {h.msg}
    <3>1. PICK S : down[p] \in Seq(S) /\ h.msg \in S
      <4>1. down[p] \in Seq(Messages \cup {Greeting})
        BY <2>1 DEF Typed
      <4>2. down[p] \in Seq(Messages \cup {Greeting, h.msg})
        BY <4>1
      <4>3. QED BY <4>2
    <3>2. PICK d \in Seq(S), m \in S : d = down[p] /\ m = h.msg
      BY <3>1
    <3>3. Elems(Append(d, m)) \subseteq Elems(d) \cup {m}
      BY DEF Elems
    <3>4. QED BY <3>2, <3>3
  <2>5. QED BY <1>1, <2>1, <2>2, <2>3, <2>4 DEF dispatchLocal
<1>2. CASE ~dispatchLocal
  <2>1. UNCHANGED <<up, down, ops>>
    BY <1>2 DEF Dispatch, dispatchSubscribe, dispatchUnsubscribe, dispatchEntityAdd, dispatchEntityRemove,
              dispatchComponentAdd, dispatchComponentRemove, dispatchComponentSet, dispatchFetch,
              dispatchClientSet, dispatchForwardOnly, dispatchRemote, dispatchStatus, linkVars
  <2>2. queue # <<>>
    BY <1>2 DEF Dispatch, dispatchSubscribe, dispatchUnsubscribe, dispatchEntityAdd, dispatchEntityRemove,
              dispatchComponentAdd, dispatchComponentRemove, dispatchComponentSet, dispatchFetch,
              dispatchClientSet, dispatchForwardOnly, dispatchRemote, dispatchStatus, First
  <2>3. Head(queue) \in Elems(queue)
    BY <2>2, Taken DEF NetInv, Typed
  <2>4. QED BY <2>1, <2>2, <2>3
<1>3. QED BY <1>1, <1>2

-----------------------------------------------------------------------------
(* Lists of requests                                                       *)

LEMMA Induction ==
  ASSUME NEW X, 0 \in X, \A n \in Nat : n \in X => n + 1 \in X
  PROVE  Nat \subseteq X
<1> DEFINE T == Nat \ X
<1>1. SUFFICES ASSUME T # {} PROVE FALSE
  OBVIOUS
<1>2. T \subseteq Nat
  OBVIOUS
<1>3. PICK n \in T : \A i \in T : ~(<<i, n>> \in OpToRel(<, Nat))
  <2> HIDE DEF T
  <2>1. QED BY <1>1, <1>2, NatLessThanWellFounded, WFMin
<1>4. \A i \in T : ~(i < n)
  BY <1>2, <1>3 DEF OpToRel
<1>5. n \in Nat /\ n \notin X /\ n # 0
  <2>1. n \in Nat /\ n \notin X
    BY <1>3
  <2>2. QED BY <2>1, Zenon
<1>6. n - 1 \in Nat /\ n - 1 < n /\ n = (n - 1) + 1
  BY <1>5
<1>7. n - 1 \in X
  BY <1>4, <1>6
<1>8. QED BY <1>5, <1>6, <1>7

\* f lists what the first n components of the order have in common with W.
Lists(f, W, n) ==
  /\ f \in [0..n -> Seq(Components)] /\ f[0] = <<>>
  /\ \A i \in 1..n : f[i] = IF ComponentOrder[i] \in W THEN Append(f[i - 1], ComponentOrder[i]) ELSE f[i - 1]

LEMMA ListsExist ==
  ASSUME NEW W, NEW n \in Nat, n = Len(ComponentOrder)
  PROVE  \E f : Lists(f, W, n)
<1> DEFINE X == {k \in Nat : k <= n => \E f : Lists(f, W, k)}
<1>0. \A i \in 1..n : ComponentOrder[i] \in Components
  BY OrderAssumption
<1>1. 0 \in X
  <2>1. PICK g : g = [i \in 0..0 |-> <<>>]
    OBVIOUS
  <2>2. g \in [0..0 -> Seq(Components)] /\ g[0] = <<>>
    BY <2>1
  <2>3. Lists(g, W, 0)
    BY <2>2 DEF Lists
  <2>4. QED BY <2>3
<1>2. ASSUME NEW k \in Nat, k \in X PROVE k + 1 \in X
  <2> SUFFICES ASSUME k + 1 <= n PROVE \E f : Lists(f, W, k + 1)
    OBVIOUS
  <2>0. PICK f : Lists(f, W, k)
    BY <1>2
  <2>1. /\ f \in [0..k -> Seq(Components)] /\ f[0] = <<>>
        /\ \A i \in 1..k : f[i] = IF ComponentOrder[i] \in W THEN Append(f[i - 1], ComponentOrder[i]) ELSE f[i - 1]
    BY <2>0 DEF Lists
  <2>2. PICK c \in Components : c = ComponentOrder[k + 1]
    BY <1>0
  <2>3. PICK s \in Seq(Components) : s = IF c \in W THEN Append(f[k], c) ELSE f[k]
    <3>1. PICK d \in Seq(Components) : d = f[k]
      BY <2>1
    <3>2. Append(d, c) \in Seq(Components)
      OBVIOUS
    <3>3. QED BY <3>1, <3>2, Zenon
  <2>4. PICK g : g = [i \in 0..(k + 1) |-> IF i = k + 1 THEN s ELSE f[i]]
    OBVIOUS
  <2>5. g \in [0..(k + 1) -> Seq(Components)] /\ g[0] = <<>> /\ g[k + 1] = s /\ \A i \in 0..k : g[i] = f[i]
    BY <2>1, <2>4
  <2>6. ASSUME NEW i \in 1..(k + 1)
        PROVE  g[i] = IF ComponentOrder[i] \in W THEN Append(g[i - 1], ComponentOrder[i]) ELSE g[i - 1]
    <3>1. CASE i = k + 1
      <4>1. i - 1 = k /\ g[i - 1] = f[k] /\ g[i] = s /\ ComponentOrder[i] = c
        BY <2>2, <2>5, <3>1
      <4>2. QED BY <2>3, <4>1, Zenon
    <3>2. CASE i # k + 1
      <4>1. i \in 1..k /\ g[i] = f[i] /\ g[i - 1] = f[i - 1]
        BY <2>5, <3>2
      <4>2. QED BY <2>1, <4>1, Zenon
    <3>3. QED BY <3>1, <3>2
  <2>7. Lists(g, W, k + 1)
    BY <2>5, <2>6 DEF Lists
  <2>8. QED BY <2>7
<1>3. Nat \subseteq X
  <2> HIDE DEF X
  <2>1. QED BY <1>1, <1>2, Induction
<1>4. n \in X
  BY <1>3
<1>5. QED BY <1>4

\* The solution of a recursive definition is a list.
LEMMA InKeyOrderTyped ==
  ASSUME NEW W
  PROVE  InKeyOrder(W) \in Seq(Components)
<1> DEFINE F == CHOOSE h : h = [i \in 0..Len(ComponentOrder) |->
                   IF i = 0 THEN <<>>
                   ELSE IF ComponentOrder[i] \in W THEN Append(h[i - 1], ComponentOrder[i]) ELSE h[i - 1]]
           X == {k \in Nat : k <= Len(ComponentOrder) => F[k] \in Seq(Components)}
<1>0. PICK n \in Nat : n = Len(ComponentOrder)
  BY OrderAssumption
<1>1. PICK f : Lists(f, W, n)
  BY <1>0, ListsExist
<1>2. f = [i \in 0..n |-> IF i = 0 THEN <<>>
                ELSE IF ComponentOrder[i] \in W THEN Append(f[i - 1], ComponentOrder[i]) ELSE f[i - 1]]
  <2>1. /\ f \in [0..n -> Seq(Components)]
        /\ \A i \in 0..n : f[i] = IF i = 0 THEN <<>>
             ELSE IF ComponentOrder[i] \in W THEN Append(f[i - 1], ComponentOrder[i]) ELSE f[i - 1]
    <3>1. /\ f \in [0..n -> Seq(Components)] /\ f[0] = <<>>
          /\ \A i \in 1..n : f[i] = IF ComponentOrder[i] \in W THEN Append(f[i - 1], ComponentOrder[i]) ELSE f[i - 1]
      BY <1>1 DEF Lists
    <3>2. ASSUME NEW i \in 0..n
          PROVE  f[i] = IF i = 0 THEN <<>>
                        ELSE IF ComponentOrder[i] \in W THEN Append(f[i - 1], ComponentOrder[i]) ELSE f[i - 1]
      <4>1. i = 0 \/ (i # 0 /\ i \in 1..n)
        OBVIOUS
      <4>2. QED BY <3>1, <4>1, Zenon
    <3>3. QED BY <3>1, <3>2, Zenon
  <2>2. f = [i \in 0..n |-> f[i]]
    BY <2>1
  <2>3. QED BY <2>1, <2>2, Zenon
<1>3. \E h : h = [i \in 0..Len(ComponentOrder) |-> IF i = 0 THEN <<>>
                ELSE IF ComponentOrder[i] \in W THEN Append(h[i - 1], ComponentOrder[i]) ELSE h[i - 1]]
  BY <1>0, <1>2, Zenon
<1>4. F = [i \in 0..Len(ComponentOrder) |-> IF i = 0 THEN <<>>
                ELSE IF ComponentOrder[i] \in W THEN Append(F[i - 1], ComponentOrder[i]) ELSE F[i - 1]]
  BY <1>3, Zenon
<1>5. InKeyOrder(W) = F[Len(ComponentOrder)]
  BY Zenon DEF InKeyOrder
<1> HIDE DEF F
<1>6. F[0] = <<>> /\ \A k \in Nat : k + 1 <= n =>
        F[k + 1] = IF ComponentOrder[k + 1] \in W THEN Append(F[k], ComponentOrder[k + 1]) ELSE F[k]
  <2>1. \A i \in 0..n : F[i] = IF i = 0 THEN <<>>
          ELSE IF ComponentOrder[i] \in W THEN Append(F[i - 1], ComponentOrder[i]) ELSE F[i - 1]
    BY <1>0, <1>4
  <2>2. ASSUME NEW k \in Nat, k + 1 <= n
        PROVE F[k + 1] = IF ComponentOrder[k + 1] \in W THEN Append(F[k], ComponentOrder[k + 1]) ELSE F[k]
    <3>1. k + 1 \in 0..n /\ k + 1 # 0 /\ (k + 1) - 1 = k
      BY <2>2
    <3>2. PICK j \in 0..n : j = k + 1 /\ j # 0 /\ j - 1 = k
      BY <3>1
    <3>3. QED BY <2>1, <3>2
  <2>3. QED BY <2>1, <2>2
<1>7. 0 \in X
  <2>1. <<>> \in Seq(Components)
    OBVIOUS
  <2>2. F[0] \in Seq(Components)
    BY <1>6, <2>1, Zenon
  <2>3. QED BY <2>2
<1>8. ASSUME NEW k \in Nat, k \in X PROVE k + 1 \in X
  <2> SUFFICES ASSUME k + 1 <= n PROVE F[k + 1] \in Seq(Components)
    BY <1>0
  <2>1. F[k] \in Seq(Components)
    BY <1>0, <1>8
  <2>2. ComponentOrder[k + 1] \in Components
    BY <1>0, OrderAssumption
  <2>3. PICK d \in Seq(Components), c \in Components : d = F[k] /\ c = ComponentOrder[k + 1]
    BY <2>1, <2>2
  <2>4. Append(d, c) \in Seq(Components)
    OBVIOUS
  <2>5. F[k + 1] = IF c \in W THEN Append(d, c) ELSE d
    BY <1>6, <2>3
  <2>6. QED BY <2>4, <2>5, Zenon
<1>9. Nat \subseteq X
  <2> HIDE DEF X
  <2>1. QED BY <1>7, <1>8, Induction
<1>10. n \in X
  BY <1>9
<1>11. QED BY <1>0, <1>5, <1>10

\* f[i] joins the first i sequences.
Joins(f, seqs, S, n) ==
  /\ f \in [1..n -> Seq(S)]
  /\ \A i \in 1..n : f[i] = IF i = 1 THEN seqs[i] ELSE f[i - 1] \o seqs[i]

LEMMA JoinsExist ==
  ASSUME NEW S, NEW n \in Nat, NEW seqs \in [1..n -> Seq(S)]
  PROVE  \E f : Joins(f, seqs, S, n)
<1> DEFINE X == {k \in Nat : k <= n => \E f : Joins(f, seqs, S, k)}
<1>1. 0 \in X
  <2>1. PICK g : g = [i \in 1..0 |-> <<>>]
    OBVIOUS
  <2>2. g \in [1..0 -> Seq(S)]
    BY <2>1
  <2>3. Joins(g, seqs, S, 0)
    BY <2>2 DEF Joins
  <2>4. QED BY <2>3
<1>2. ASSUME NEW k \in Nat, k \in X PROVE k + 1 \in X
  <2> SUFFICES ASSUME k + 1 <= n PROVE \E f : Joins(f, seqs, S, k + 1)
    OBVIOUS
  <2>0. PICK f : Joins(f, seqs, S, k)
    BY <1>2
  <2>1. /\ f \in [1..k -> Seq(S)]
        /\ \A i \in 1..k : f[i] = IF i = 1 THEN seqs[i] ELSE f[i - 1] \o seqs[i]
    BY <2>0 DEF Joins
  <2>2. PICK c \in Seq(S) : c = seqs[k + 1]
    BY DEF Joins
  <2>3. PICK s \in Seq(S) : s = IF k + 1 = 1 THEN c ELSE f[k] \o c
    <3>1. CASE k = 0
      BY <3>1
    <3>2. CASE k # 0
      <4>1. k \in 1..k /\ k + 1 # 1
        BY <3>2
      <4>2. PICK d \in Seq(S) : d = f[k]
        BY <2>1, <4>1
      <4>3. d \o c \in Seq(S)
        OBVIOUS
      <4>4. QED BY <4>1, <4>2, <4>3, Zenon
    <3>3. QED BY <3>1, <3>2
  <2>4. PICK g : g = [i \in 1..(k + 1) |-> IF i = k + 1 THEN s ELSE f[i]]
    OBVIOUS
  <2>5. g \in [1..(k + 1) -> Seq(S)] /\ g[k + 1] = s /\ \A i \in 1..k : g[i] = f[i]
    BY <2>1, <2>4
  <2>6. ASSUME NEW i \in 1..(k + 1)
        PROVE  g[i] = IF i = 1 THEN seqs[i] ELSE g[i - 1] \o seqs[i]
    <3>1. CASE i = k + 1
      <4>1. g[i] = s /\ seqs[i] = c /\ (i = 1 <=> k + 1 = 1) /\ (i # 1 => g[i - 1] = f[k])
        BY <2>2, <2>5, <3>1
      <4>2. QED BY <2>3, <4>1, Zenon
    <3>2. CASE i # k + 1
      <4>1. i \in 1..k /\ g[i] = f[i] /\ (i # 1 => g[i - 1] = f[i - 1])
        BY <2>5, <3>2
      <4>2. QED BY <2>1, <4>1, Zenon
    <3>3. QED BY <3>1, <3>2
  <2>7. Joins(g, seqs, S, k + 1)
    BY <2>5, <2>6 DEF Joins
  <2>8. QED BY <2>7
<1>3. Nat \subseteq X
  <2> HIDE DEF X
  <2>1. QED BY <1>1, <1>2, Induction
<1>4. n \in X
  BY <1>3
<1>5. QED BY <1>4

\* What the tasks send is of the type of what each of them sends.
LEMMA Flattened ==
  ASSUME NEW S, NEW n \in Nat, NEW seqs \in [1..n -> Seq(S)]
  PROVE  FlattenSeq(seqs) \in Seq(S)
<1> DEFINE F == CHOOSE h : h = [i \in 1..Len(seqs) |-> IF i = 1 THEN seqs[i] ELSE h[i - 1] \o seqs[i]]
           X == {k \in Nat : k <= n /\ k # 0 => F[k] \in Seq(S)}
<1>0. Len(seqs) = n
  OBVIOUS
<1>1. PICK f : Joins(f, seqs, S, n)
  BY JoinsExist
<1>2. f = [i \in 1..n |-> IF i = 1 THEN seqs[i] ELSE f[i - 1] \o seqs[i]]
  <2>1. /\ f \in [1..n -> Seq(S)]
        /\ \A i \in 1..n : f[i] = IF i = 1 THEN seqs[i] ELSE f[i - 1] \o seqs[i]
    BY <1>1 DEF Joins
  <2>2. f = [i \in 1..n |-> f[i]]
    BY <2>1
  <2>3. QED BY <2>1, <2>2, Zenon
<1>3. \E h : h = [i \in 1..Len(seqs) |-> IF i = 1 THEN seqs[i] ELSE h[i - 1] \o seqs[i]]
  BY <1>0, <1>2, Zenon
<1>4. F = [i \in 1..Len(seqs) |-> IF i = 1 THEN seqs[i] ELSE F[i - 1] \o seqs[i]]
  BY <1>3, Zenon
<1>5. FlattenSeq(seqs) = IF Len(seqs) = 0 THEN seqs ELSE F[Len(seqs)]
  BY Zenon DEF FlattenSeq
<1> HIDE DEF F
<1>6. \A i \in 1..n : F[i] = IF i = 1 THEN seqs[i] ELSE F[i - 1] \o seqs[i]
  BY <1>0, <1>4
<1>7. 0 \in X
  OBVIOUS
<1>8. ASSUME NEW k \in Nat, k \in X PROVE k + 1 \in X
  <2> SUFFICES ASSUME k + 1 <= n PROVE F[k + 1] \in Seq(S)
    OBVIOUS
  <2>1. PICK j \in 1..n : j = k + 1 /\ j - 1 = k
    OBVIOUS
  <2>2. PICK c \in Seq(S) : c = seqs[j]
    OBVIOUS
  <2>3. CASE k = 0
    BY <1>6, <2>1, <2>2, <2>3
  <2>4. CASE k # 0
    <3>1. PICK d \in Seq(S) : d = F[k]
      BY <1>8, <2>4
    <3>2. d \o c \in Seq(S)
      OBVIOUS
    <3>3. F[j] = F[j - 1] \o seqs[j]
      <4>1. j # 1
        BY <2>1, <2>4
      <4>2. QED BY <1>6, <4>1, Zenon
    <3>4. F[j] = d \o c
      BY <2>1, <2>2, <3>1, <3>3, Zenon
    <3>5. QED BY <2>1, <3>2, <3>4
  <2>5. QED BY <2>3, <2>4
<1>9. Nat \subseteq X
  <2> HIDE DEF X
  <2>1. QED BY <1>7, <1>8, Induction
<1>10. CASE n = 0
  <2>1. seqs \in [1..0 -> S] /\ Len(seqs) = 0
    <3>1. seqs \in [1..0 -> Seq(S)] /\ \A i \in 1..0 : FALSE
      BY <1>10
    <3>2. seqs = [i \in 1..0 |-> seqs[i]]
      BY <3>1, Zenon
    <3>3. QED BY <1>0, <1>10, <3>1, <3>2, Zenon
  <2>2. seqs \in Seq(S)
    BY <2>1, 0 \in Nat, SMT
  <2>3. QED BY <1>0, <1>5, <1>10, <2>1, <2>2
<1>11. CASE n # 0
  <2>1. F[n] \in Seq(S)
    BY <1>9, <1>11
  <2>2. QED BY <1>0, <1>5, <1>11, <2>1
<1>12. QED BY <1>10, <1>11

-----------------------------------------------------------------------------
(* Reactions of a task                                                     *)

TaskStates == [stage : Stages, waiting : SUBSET Components, fetched : [Components -> MaybeVal], ok : BOOLEAN]

LEMMA TaskKeyTyped ==
  ASSUME NEW t \in Tasks
  PROVE  /\ TaskKey[t] \in Keys /\ Entity(t) \in Entities /\ TaskKey[t][1] = Entity(t)
         /\ TaskKey[t][2] \in Components /\ TaskKey[t] = <<TaskKey[t][1], TaskKey[t][2]>> /\ TaskValue[t] \in Val
  BY TaskAssumption DEF Keys, Entity

LEMMA TaskState ==
  ASSUME TaskTyped, NEW t \in Tasks
  PROVE  /\ Task(t) \in TaskStates /\ Task(t).stage = stage[t] /\ Task(t).waiting = waiting[t]
         /\ Task(t).fetched = fetched[t] /\ Task(t).ok = ok[t]
  BY DEF Task, TaskStates, TaskTyped

\* What a task takes for its answer.
LEMMA Reacts ==
  ASSUME TaskTyped, NEW t \in Tasks, NEW m \in Messages \cup {Greeting}
  PROVE  \/ react(t, m) = Task(t)
         \/ /\ stage[t] = "subscribing" /\ m \in Messages /\ m.ent = Entity(t)
            /\ \/ m.data = "INTRO" /\ react(t, m) = onIntrospected(t, m)
               \/ react(t, m) = Finished(Task(t), FALSE)
         \/ /\ stage[t] = "fetching" /\ m \in Messages /\ m.ent = Entity(t) /\ m.comp \in waiting[t]
            /\ \/ m.data = "C_FETCH" /\ react(t, m) = fetcherDone(t, m.comp, m.val, TRUE)
               \/ react(t, m) = fetcherDone(t, m.comp, Invalid, FALSE)
         \/ /\ stage[t] = "setting" /\ m \in Messages /\ m.ent = Entity(t) /\ m.comp = TaskKey[t][2]
            /\ \/ m.data = "C_SET" /\ react(t, m) = [Task(t) EXCEPT !.stage = "finishing", !.ok = TRUE]
               \/ react(t, m) = [Task(t) EXCEPT !.stage = "finishing", !.ok = FALSE]
<1>1. m.data \in Kinds \cup {"GREETING"} /\ (m.data = "ERROR" => m.val \in Kinds) /\ (m.data # "GREETING" => m \in Messages)
  BY DEF Messages, GoodData, Greeting
<1>2. stage[t] \in Stages
  BY DEF TaskTyped
<1>3. CASE ~Concerns(t, m) \/ ~(Answers(t, m) \/ Fails(t, m))
  BY <1>3 DEF react
<1>4. CASE Concerns(t, m) /\ (Answers(t, m) \/ Fails(t, m))
  <2>1. m.ent = Entity(t) /\ Answers(t, m) \in BOOLEAN
    BY <1>4 DEF Concerns, Answers
  <2>2. CASE stage[t] = "subscribing"
    <3>1. Answers(t, m) <=> m.data = "INTRO"
      BY <2>2 DEF Answers
    <3>2. m \in Messages
      BY <1>1, <1>4, <3>1 DEF Fails
    <3>3. CASE m.data = "INTRO"
      <4>1. ~Fails(t, m)
        BY <3>3 DEF Fails
      <4>2. react(t, m) = onIntrospected(t, m)
        BY <1>4, <2>2, <3>1, <3>3, <4>1 DEF react
      <4>3. QED BY <2>1, <2>2, <3>2, <3>3, <4>2
    <3>4. CASE m.data # "INTRO"
      <4>1. react(t, m) = Finished(Task(t), FALSE)
        BY <1>4, <2>2, <3>1, <3>4 DEF react
      <4>2. QED BY <2>1, <2>2, <3>2, <4>1
    <3>5. QED BY <3>3, <3>4
  <2>3. CASE stage[t] = "fetching"
    <3>1. (Answers(t, m) <=> m.data = "C_FETCH") /\ m.comp \in waiting[t]
      BY <1>4, <2>3 DEF Answers, Awaited, Concerns
    <3>2. m \in Messages
      BY <1>1, <1>4, <3>1 DEF Fails
    <3>3. react(t, m) = fetcherDone(t, m.comp, IF Answers(t, m) THEN m.val ELSE Invalid, Answers(t, m))
      BY <1>4, <2>3 DEF react
    <3>4. CASE m.data = "C_FETCH"
      <4>1. Answers(t, m) = TRUE
        BY <2>1, <3>1, <3>4
      <4>2. react(t, m) = fetcherDone(t, m.comp, m.val, TRUE)
        BY <3>3, <4>1
      <4>3. QED BY <2>1, <2>3, <3>1, <3>2, <3>4, <4>2
    <3>5. CASE m.data # "C_FETCH"
      <4>1. Answers(t, m) = FALSE
        BY <2>1, <3>1, <3>5
      <4>2. react(t, m) = fetcherDone(t, m.comp, Invalid, FALSE)
        BY <3>3, <4>1
      <4>3. QED BY <2>1, <2>3, <3>1, <3>2, <4>2
    <3>6. QED BY <3>4, <3>5
  <2>4. CASE stage[t] = "setting"
    <3>1. (Answers(t, m) <=> m.data = "C_SET") /\ m.comp = TaskKey[t][2]
      BY <1>4, <2>4 DEF Answers, Awaited, Concerns
    <3>2. m \in Messages
      BY <1>1, <1>4, <3>1 DEF Fails
    <3>3. react(t, m) = [Task(t) EXCEPT !.stage = "finishing", !.ok = Answers(t, m)]
      BY <1>4, <2>4 DEF react
    <3>4. CASE m.data = "C_SET"
      <4>1. Answers(t, m) = TRUE
        BY <2>1, <3>1, <3>4
      <4>2. QED BY <2>1, <2>4, <3>1, <3>2, <3>3, <3>4, <4>1
    <3>5. CASE m.data # "C_SET"
      <4>1. Answers(t, m) = FALSE
        BY <2>1, <3>1, <3>5
      <4>2. QED BY <2>1, <2>4, <3>1, <3>2, <3>3, <4>1
    <3>6. QED BY <3>4, <3>5
  <2>5. CASE stage[t] \notin {"subscribing", "fetching", "setting"}
    <3>1. Awaited(t) = "NOTHING"
      BY <2>5 DEF Awaited
    <3>2. ~Answers(t, m) /\ ~Fails(t, m)
      BY <1>1, <2>5, <3>1 DEF Answers, Fails, Kinds
    <3>3. QED BY <1>4, <3>2
  <2>6. QED BY <2>2, <2>3, <2>4, <2>5
<1>5. QED BY <1>3, <1>4

\* What becomes of a setter that has the old value.
LEMMA SetStarted ==
  ASSUME NEW t \in Tasks, NEW r \in TaskStates, r.waiting = {}
  PROVE  LET s == startSetComponentTask(t, r) IN
         /\ s \in TaskStates /\ s.waiting = {} /\ s.stage \in {"done", "finishing", "setting"}
         /\ s.stage = "setting" => TaskValue[t] # Invalid
         /\ r.fetched[TaskKey[t][2]] # TaskValue[t] => s.stage = "setting" \/ ~s.ok
<1>1. PICK s : s = startSetComponentTask(t, r)
  OBVIOUS
<1>2. PICK old, new : old = r.fetched[TaskKey[t][2]] /\ new = TaskValue[t]
  OBVIOUS
<1>3. \/ s = Finished(r, FALSE)
      \/ s = [r EXCEPT !.stage = "finishing", !.ok = FALSE]
      \/ old = new /\ s = [r EXCEPT !.stage = "finishing"]
      \/ new # Invalid /\ s = [r EXCEPT !.stage = "setting"]
  BY <1>1, <1>2 DEF startSetComponentTask
<1>4. CASE s = Finished(r, FALSE)
  <2>1. s \in TaskStates /\ s.waiting = {} /\ s.stage = "done" /\ s.ok = FALSE
    BY <1>4 DEF Finished, TaskStates, Stages
  <2>2. QED BY <1>1, <2>1
<1>5. CASE s = [r EXCEPT !.stage = "finishing", !.ok = FALSE]
  <2>1. s \in TaskStates /\ s.waiting = {} /\ s.stage = "finishing" /\ s.ok = FALSE
    BY <1>5 DEF TaskStates, Stages
  <2>2. QED BY <1>1, <2>1
<1>6. CASE old = new /\ s = [r EXCEPT !.stage = "finishing"]
  <2>1. s \in TaskStates /\ s.waiting = {} /\ s.stage = "finishing"
    BY <1>6 DEF TaskStates, Stages
  <2>2. QED BY <1>1, <1>2, <1>6, <2>1
<1>7. CASE new # Invalid /\ s = [r EXCEPT !.stage = "setting"]
  <2>1. s \in TaskStates /\ s.waiting = {} /\ s.stage = "setting"
    BY <1>7 DEF TaskStates, Stages
  <2>2. QED BY <1>1, <1>2, <1>7, <2>1
<1>8. QED BY <1>3, <1>4, <1>5, <1>6, <1>7

\* What a task is after it has got its answer.
Moved(t, s) ==
  /\ s \in TaskStates
  /\ s.waiting # {} <=> s.stage = "fetching"
  /\ Kind[t] = "setter" => s.waiting \subseteq {TaskKey[t][2]}
  /\ s.stage # "idle"
  /\ s.stage = "setting" => Kind[t] = "setter" /\ TaskValue[t] # Invalid

LEMMA FetcherMoves ==
  ASSUME TaskTyped, NEW t \in Tasks, stage[t] = "fetching", NEW c, c \in waiting[t], NEW v \in Val, NEW good \in BOOLEAN
  PROVE  LET s == fetcherDone(t, c, v, good) IN
         /\ Moved(t, s)
         /\ Kind[t] = "setter" /\ v # TaskValue[t] => s.stage = "setting" \/ ~s.ok
<1>1. PICK s : s = fetcherDone(t, c, v, good)
  OBVIOUS
<1>2. PICK r : r = [Task(t) EXCEPT !.waiting = @ \ {c}, !.fetched[c] = v, !.ok = @ /\ good]
  OBVIOUS
<1>3. c \in Components /\ v \in MaybeVal /\ waiting[t] \subseteq Components
  BY DEF TaskTyped, MaybeVal
<1>4. /\ r \in TaskStates /\ r.stage = "fetching" /\ r.waiting = waiting[t] \ {c} /\ r.fetched[c] = v
      /\ ~good => ~r.ok
  <2>1. Task(t) \in TaskStates /\ Task(t).stage = stage[t] /\ Task(t).waiting = waiting[t]
    BY TaskState
  <2>2. PICK u \in TaskStates : u = Task(t)
    BY <2>1
  <2>3. r = [u EXCEPT !.waiting = u.waiting \ {c}, !.fetched[c] = v, !.ok = u.ok /\ good]
    BY <1>2, <2>2
  <2>4. QED BY <1>3, <2>1, <2>2, <2>3 DEF TaskStates
<1>5. Kind[t] = "setter" => waiting[t] \subseteq {TaskKey[t][2]}
  BY DEF TaskTyped
<1>6. Kind[t] = "setter" => c = TaskKey[t][2] /\ r.waiting = {}
  BY <1>4, <1>5
<1>7. s = IF r.waiting # {} THEN r
          ELSE IF Kind[t] = "setter" /\ good THEN startSetComponentTask(t, r)
          ELSE Finished(r, r.ok)
  BY <1>1, <1>2 DEF fetcherDone
<1>8. CASE r.waiting # {}
  <2>1. s = r /\ Kind[t] # "setter"
    BY <1>6, <1>7, <1>8
  <2>2. QED BY <1>1, <1>4, <1>8, <2>1 DEF Moved
<1>9. CASE r.waiting = {} /\ Kind[t] = "setter" /\ good
  <2>1. s = startSetComponentTask(t, r)
    BY <1>7, <1>9
  <2>2. /\ s \in TaskStates /\ s.waiting = {} /\ s.stage \in {"done", "finishing", "setting"}
        /\ s.stage = "setting" => TaskValue[t] # Invalid
        /\ r.fetched[TaskKey[t][2]] # TaskValue[t] => s.stage = "setting" \/ ~s.ok
    BY <1>4, <1>9, <2>1, SetStarted
  <2>3. Moved(t, s)
    BY <1>9, <2>2 DEF Moved
  <2>4. QED BY <1>1, <1>4, <1>6, <1>9, <2>2, <2>3
<1>10. CASE r.waiting = {} /\ ~(Kind[t] = "setter" /\ good)
  <2>1. s = Finished(r, r.ok)
    BY <1>7, <1>10
  <2>2. s \in TaskStates /\ s.waiting = {} /\ s.stage = "done" /\ s.ok = r.ok
    BY <1>4, <2>1 DEF Finished, TaskStates, Stages
  <2>3. Moved(t, s)
    BY <2>2 DEF Moved
  <2>4. QED BY <1>1, <1>4, <1>10, <2>2, <2>3
<1>11. QED BY <1>8, <1>9, <1>10

\* A task stays as it is or moves on; a setter that is told neither a SET nor
\* the value it is to set does not succeed.
LEMMA ReactMoves ==
  ASSUME TaskTyped, NEW t \in Tasks, NEW m \in Messages \cup {Greeting}, Full(m)
  PROVE  LET s == react(t, m) IN
         /\ s = Task(t) \/ (Moved(t, s) /\ stage[t] \in {"subscribing", "fetching", "setting"})
         /\ s # Task(t) /\ s.stage = "setting" => stage[t] = "fetching"
         /\ /\ s # Task(t) /\ Kind[t] = "setter" /\ s.stage \in {"finishing", "done"}
            /\ Tells(m, t) /\ InitialValue(TaskKey[t]) # TaskValue[t]
            => ~s.ok
<1>1. PICK s : s = react(t, m)
  OBVIOUS
<1>2. Task(t) \in TaskStates /\ Task(t).stage = stage[t] /\ Task(t).waiting = waiting[t]
  BY TaskState
<1>3. /\ waiting[t] # {} <=> stage[t] = "fetching"
      /\ Kind[t] = "setter" => waiting[t] \subseteq {TaskKey[t][2]}
  BY DEF TaskTyped
<1>4. PICK u \in TaskStates : u = Task(t) /\ u.stage = stage[t] /\ u.waiting = waiting[t]
  BY <1>2
<1>5. CASE s = u
  BY <1>1, <1>4, <1>5
<1>6. CASE stage[t] = "subscribing" /\ m \in Messages /\ m.data = "INTRO" /\ s = onIntrospected(t, m)
  <2>1. PICK W : W = IF Kind[t] = "entityGetter" THEN {c \in Components : m.val[c] # Absent} ELSE {TaskKey[t][2]}
    OBVIOUS
  <2>2. W \subseteq Components /\ W # {} /\ (Kind[t] = "setter" => W \subseteq {TaskKey[t][2]})
    BY <1>6, <2>1, TaskKeyTyped DEF Full
  <2>3. s = [u EXCEPT !.stage = "fetching", !.waiting = W]
    BY <1>4, <1>6, <2>1 DEF onIntrospected
  <2>4. s \in TaskStates /\ s.stage = "fetching" /\ s.waiting = W
    BY <2>2, <2>3 DEF TaskStates, Stages
  <2>5. Moved(t, s)
    BY <2>2, <2>4 DEF Moved
  <2>6. QED BY <1>1, <1>6, <2>4, <2>5
<1>7. CASE stage[t] = "subscribing" /\ s = Finished(u, FALSE)
  <2>1. s \in TaskStates /\ s.waiting = {} /\ s.stage = "done" /\ s.ok = FALSE
    BY <1>7 DEF Finished, TaskStates, Stages
  <2>2. Moved(t, s)
    BY <2>1 DEF Moved
  <2>3. QED BY <1>1, <1>7, <2>1, <2>2
<1>8. CASE /\ stage[t] = "fetching" /\ m \in Messages /\ m.ent = Entity(t) /\ m.comp \in waiting[t]
           /\ m.data = "C_FETCH" /\ s = fetcherDone(t, m.comp, m.val, TRUE)
  <2>1. PICK c \in waiting[t], v \in Val : c = m.comp /\ v = m.val
    BY <1>8 DEF Messages, GoodData, ComponentKinds
  <2>2. Moved(t, s) /\ (Kind[t] = "setter" /\ v # TaskValue[t] => s.stage = "setting" \/ ~s.ok)
    BY <1>8, <2>1, FetcherMoves
  <2>3. Kind[t] = "setter" /\ Tells(m, t) => v = InitialValue(TaskKey[t])
    BY <1>3, <1>8, <2>1, TaskKeyTyped DEF Tells
  <2>4. QED BY <1>1, <1>8, <2>2, <2>3
<1>9. CASE stage[t] = "fetching" /\ m.comp \in waiting[t] /\ s = fetcherDone(t, m.comp, Invalid, FALSE)
  <2>1. PICK c \in waiting[t], v \in Val : c = m.comp /\ v = Invalid
    BY <1>9 DEF Val
  <2>2. Moved(t, s) /\ (Kind[t] = "setter" /\ v # TaskValue[t] => s.stage = "setting" \/ ~s.ok)
    BY <1>9, <2>1, FetcherMoves
  <2>3. s.stage = "setting" \/ ~s.ok \/ Kind[t] # "setter"
    <3>1. PICK r : r = [Task(t) EXCEPT !.waiting = @ \ {c}, !.fetched[c] = v, !.ok = @ /\ FALSE]
      OBVIOUS
    <3>2. r.waiting = waiting[t] \ {c} /\ r.ok = FALSE
      BY <1>4, <3>1 DEF TaskStates
    <3>3. Kind[t] = "setter" => s = Finished(r, r.ok)
      BY <1>3, <1>9, <2>1, <3>1, <3>2 DEF fetcherDone
    <3>4. r \in TaskStates
      <4>1. c \in Components /\ v \in MaybeVal
        BY <2>1 DEF TaskTyped, MaybeVal
      <4>2. QED BY <1>4, <3>1, <4>1 DEF TaskStates
    <3>5. QED BY <3>2, <3>3, <3>4 DEF Finished, TaskStates
  <2>4. QED BY <1>1, <1>9, <2>2, <2>3
<1>10. CASE /\ stage[t] = "setting" /\ m.ent = Entity(t) /\ m.comp = TaskKey[t][2]
            /\ m.data = "C_SET" /\ s = [u EXCEPT !.stage = "finishing", !.ok = TRUE]
  <2>1. s \in TaskStates /\ s.waiting = {} /\ s.stage = "finishing"
    BY <1>3, <1>4, <1>10 DEF TaskStates, Stages
  <2>2. Moved(t, s)
    BY <2>1 DEF Moved
  <2>3. ~Tells(m, t)
    BY <1>10, TaskKeyTyped DEF Tells
  <2>4. QED BY <1>1, <1>10, <2>1, <2>2, <2>3
<1>11. CASE stage[t] = "setting" /\ s = [u EXCEPT !.stage = "finishing", !.ok = FALSE]
  <2>1. s \in TaskStates /\ s.waiting = {} /\ s.stage = "finishing" /\ s.ok = FALSE
    BY <1>3, <1>4, <1>11 DEF TaskStates, Stages
  <2>2. Moved(t, s)
    BY <2>1 DEF Moved
  <2>3. QED BY <1>1, <1>11, <2>1, <2>2
<1>12. QED BY <1>1, <1>4, <1>5, <1>6, <1>7, <1>8, <1>9, <1>10, <1>11, Reacts

-----------------------------------------------------------------------------
(* Requests of the tasks                                                   *)

\* A SET is sent by a setter that is setting from now on.
Sent(m) ==
  {q \in Requests :
     q.data = "C_SET" =>
       \E u \in Tasks : /\ Kind[u] = "setter" /\ react(u, m).stage = "setting"
                        /\ q.ent = TaskKey[u][1] /\ q.comp = TaskKey[u][2] /\ q.val = TaskValue[u]}

LEMMA RequestTyped ==
  ASSUME NEW e \in Entities
  PROVE  /\ \A cmd \in {"SUBSCRIBE", "UNSUBSCRIBE"} :
              Request(EntityData(cmd, e)) \in Requests /\ Request(EntityData(cmd, e)).data = cmd
         /\ \A c \in Components : /\ Request(ComponentData("C_FETCH", e, c, Invalid)) \in Requests
                                  /\ Request(ComponentData("C_FETCH", e, c, Invalid)).data = "C_FETCH"
         /\ \A c \in Components, v \in Values :
              LET q == Request(ComponentData("C_SET", e, c, v)) IN
              q \in Requests /\ q.data = "C_SET" /\ q.ent = e /\ q.comp = c /\ q.val = v
<1>1. ASSUME NEW cmd \in {"SUBSCRIBE", "UNSUBSCRIBE"}
      PROVE  Request(EntityData(cmd, e)) \in Requests /\ Request(EntityData(cmd, e)).data = cmd
  <2>1. PICK q : q = Request(EntityData(cmd, e))
    OBVIOUS
  <2>2. q = [trans |-> TRUE, data |-> cmd, ent |-> e, comp |-> NoComponent, val |-> Invalid]
    BY <2>1 DEF Request, EntityData, Envelope, Cmd
  <2>3. Invalid \in Payloads /\ cmd \in Kinds /\ cmd \in RequestKinds
    BY DEF Payloads, Val, Kinds, RequestKinds
  <2>4. q \in Requests /\ q.data = cmd
    BY <2>2, <2>3 DEF Requests, Messages, GoodData, EntityKinds, ComponentKinds
  <2>5. QED BY <2>1, <2>4
<1>2. ASSUME NEW cmd \in {"C_FETCH", "C_SET"}, NEW c \in Components, NEW v \in Val, cmd = "C_SET" => v \in Values
      PROVE  LET q == Request(ComponentData(cmd, e, c, v)) IN
             q \in Requests /\ q.data = cmd /\ q.ent = e /\ q.comp = c /\ q.val = v
  <2>1. PICK q : q = Request(ComponentData(cmd, e, c, v))
    OBVIOUS
  <2>2. q = [trans |-> TRUE, data |-> cmd, ent |-> e, comp |-> c, val |-> v]
    BY <2>1 DEF Request, ComponentData, Envelope, Cmd
  <2>3. v \in Payloads /\ cmd \in Kinds /\ cmd \in RequestKinds
    BY DEF Payloads, Kinds, RequestKinds
  <2>4. q \in Requests /\ q.data = cmd /\ q.ent = e /\ q.comp = c /\ q.val = v
    BY <1>2, <2>2, <2>3 DEF Requests, Messages, GoodData, EntityKinds, ComponentKinds
  <2>5. QED BY <2>1, <2>4
<1>3. Invalid \in Val /\ Values \subseteq Val
  BY DEF Val
<1>4. QED BY <1>1, <1>2, <1>3

LEMMA RequestsTyped ==
  ASSUME TaskTyped, NEW t \in Tasks, NEW m \in Messages \cup {Greeting}, Full(m)
  PROVE  RequestsOf(t, react(t, m)) \in Seq(Sent(m))
<1>1. PICK r : r = react(t, m)
  OBVIOUS
<1>2. CASE stage[t] = "subscribing" /\ r.stage = "fetching"
  <2>1. PICK f \in Seq(Components) : f = InKeyOrder(r.waiting)
    BY InKeyOrderTyped
  <2>2. PICK s : s = [i \in DOMAIN f |-> Request(ComponentData("C_FETCH", Entity(t), f[i], Invalid))]
    OBVIOUS
  <2>3. RequestsOf(t, r) = s
    BY <1>2, <2>1, <2>2 DEF RequestsOf
  <2>4. \A c \in Components : Request(ComponentData("C_FETCH", Entity(t), c, Invalid)) \in Sent(m)
    BY RequestTyped, TaskKeyTyped DEF Sent
  <2>5. PICK n \in Nat : DOMAIN f = 1..n /\ \A i \in 1..n : f[i] \in Components
    BY <2>1
  <2>6. s \in [1..n -> Sent(m)]
    <3>1. \A i \in 1..n : Request(ComponentData("C_FETCH", Entity(t), f[i], Invalid)) \in Sent(m)
      BY <2>4, <2>5
    <3>2. QED BY <2>2, <2>5, <3>1, Zenon
  <2>7. s \in Seq(Sent(m))
    BY <2>6
  <2>8. QED BY <1>1, <2>3, <2>7
<1>3. CASE stage[t] = "fetching" /\ r.stage = "setting"
  <2>1. PICK q : q = Request(ComponentData("C_SET", Entity(t), TaskKey[t][2], TaskValue[t]))
    OBVIOUS
  <2>2. RequestsOf(t, r) = <<q>>
    BY <1>3, <2>1 DEF RequestsOf
  <2>3. Task(t).stage = stage[t]
    BY TaskState
  <2>4. Moved(t, r)
    BY <1>1, <1>3, <2>3, ReactMoves
  <2>5. Kind[t] = "setter" /\ TaskValue[t] \in Values
    BY <1>3, <2>4, TaskKeyTyped DEF Moved, Val
  <2>6. q \in Requests /\ q.ent = TaskKey[t][1] /\ q.comp = TaskKey[t][2] /\ q.val = TaskValue[t]
    BY <2>1, <2>5, TaskKeyTyped, RequestTyped
  <2>7. q \in Sent(m)
    BY <1>1, <1>3, <2>5, <2>6 DEF Sent
  <2>8. QED BY <1>1, <2>2, <2>7
<1>4. CASE ~(stage[t] = "subscribing" /\ r.stage = "fetching") /\ ~(stage[t] = "fetching" /\ r.stage = "setting")
  <2>1. RequestsOf(t, r) = <<>>
    BY <1>4 DEF RequestsOf
  <2>2. QED BY <1>1, <2>1
<1>5. QED BY <1>2, <1>3, <1>4

\* In whatever order the tasks are served.
LEMMA AllSent ==
  ASSUME TaskTyped, NEW m \in Messages \cup {Greeting}, Full(m), NEW order \in TaskOrders, NEW next,
         next = [t \in Tasks |-> react(t, m)]
  PROVE  FlattenSeq([i \in DOMAIN order |-> RequestsOf(order[i], next[order[i]])]) \in Seq(Sent(m))
<1>1. PICK n \in Nat : n = Cardinality(Tasks)
  BY TaskAssumption, FS_CardinalityType
<1>2. DOMAIN order = 1..n /\ \A i \in 1..n : order[i] \in Tasks
  BY <1>1 DEF TaskOrders, SetToSeqs
<1>3. PICK s : s = [i \in DOMAIN order |-> RequestsOf(order[i], next[order[i]])]
  OBVIOUS
<1>4. ASSUME NEW i \in 1..n PROVE RequestsOf(order[i], next[order[i]]) \in Seq(Sent(m))
  <2>1. PICK t \in Tasks : t = order[i]
    BY <1>2
  <2>2. RequestsOf(t, react(t, m)) \in Seq(Sent(m)) /\ next[t] = react(t, m)
    BY RequestsTyped
  <2>3. QED BY <2>1, <2>2
<1>5. s \in [1..n -> Seq(Sent(m))]
  BY <1>2, <1>3, <1>4, Zenon
<1>6. FlattenSeq(s) \in Seq(Sent(m))
  BY <1>5, Flattened
<1>7. QED BY <1>3, <1>6

-----------------------------------------------------------------------------
(* Introspections are full                                                 *)

LEMMA PostOne ==
  ASSUME Typed, NEW x, queue' = queue \o <<x>>, NEW y \in Elems(queue')
  PROVE  y \in Elems(queue) \/ y = x
<1>1. PICK S : S = Events \cup {x}
  OBVIOUS
<1>2. PICK q \in Seq(S), r \in Seq(S) : q = queue /\ r = <<x>>
  <2>1. PICK n \in Nat : queue \in [1..n -> Events]
    BY DEF Typed
  <2>2. queue \in Seq(S)
    BY <1>1, <2>1
  <2>3. <<x>> \in Seq(S)
    BY <1>1, OneEvent
  <2>4. QED BY <2>2, <2>3
<1>3. Elems(q \o r) = Elems(q) \cup Elems(r)
  BY Joined
<1>4. Elems(r) = {x}
  BY <1>2 DEF Elems
<1>5. QED BY <1>2, <1>3, <1>4

LEMMA IntrosFrame ==
  ASSUME IntrosFull, \A x \in Elems(queue') : x \in Elems(queue) \/ (x.ev # "local" /\ (x.ev = "cmd" => x.data # "INTRO")),
         \A p \in Peers : \A m \in Elems(down'[p]) : m \in Elems(down[p]) \/ m = Greeting
  PROVE  IntrosFull'
<1>1. Full(Greeting)
  BY DEF Full, Greeting
<1>2. \A x : x.data # "INTRO" => Full(x)
  BY DEF Full
<1>3. ASSUME NEW x \in Elems(queue') PROVE (x.ev = "cmd" => Full(x)) /\ (x.ev = "local" => Full(x.msg))
  <2>1. x \in Elems(queue) \/ (x.ev # "local" /\ (x.ev = "cmd" => x.data # "INTRO"))
    OBVIOUS
  <2>2. x \in Elems(queue) => (x.ev = "cmd" => Full(x)) /\ (x.ev = "local" => Full(x.msg))
    BY DEF IntrosFull
  <2>3. QED BY <1>2, <2>1, <2>2, Zenon
<1>4. ASSUME NEW p \in Peers, NEW m \in Elems(down'[p]) PROVE Full(m)
  BY <1>1 DEF IntrosFull
<1>5. QED
  BY <1>3, <1>4 DEF IntrosFull, Full

LEMMA DispatchFull == NetInv /\ IntrosFull /\ Dispatch => IntrosFull'
<1> SUFFICES ASSUME NetInv, IntrosFull, Dispatch PROVE IntrosFull'
  OBVIOUS
<1>1. ASSUME NEW x \in Elems(queue') PROVE (x.ev = "cmd" => Full(x)) /\ (x.ev = "local" => Full(x.msg))
  <2>1. CASE x \in Elems(queue)
    BY <2>1 DEF IntrosFull
  <2>2. CASE Posted(Head(queue), x)
    <3>1. PICK h : h = Head(queue)
      OBVIOUS
    <3>2. queue # <<>>
      BY DEF Dispatch, dispatchSubscribe, dispatchUnsubscribe, dispatchEntityAdd, dispatchEntityRemove,
             dispatchComponentAdd, dispatchComponentRemove, dispatchComponentSet, dispatchClientSet, dispatchFetch,
             dispatchForwardOnly, dispatchRemote, dispatchLocal, dispatchStatus, First
    <3>3. h \in Elems(queue)
      BY <3>1, <3>2, Taken DEF NetInv, Typed
    <3>4. h.ev = "cmd" => Full(h)
      BY <3>3 DEF IntrosFull
    <3>5. \A q \in Requests : q.data # "INTRO"
      BY DEF Requests, RequestKinds
    <3>6. QED BY <2>2, <3>1, <3>4, <3>5 DEF Posted, Full
  <2>3. QED BY <2>1, <2>2, DispatchPosts
<1>2. ASSUME NEW p \in Peers, NEW m \in Elems(down'[p]) PROVE Full(m)
  <2>1. CASE m \in Elems(down[p])
    BY <2>1 DEF IntrosFull
  <2>2. CASE Head(queue).ev = "local" /\ m = Head(queue).msg /\ Head(queue) \in Elems(queue)
    BY <2>2 DEF IntrosFull
  <2>3. QED BY <2>1, <2>2, DispatchSends
<1>3. QED
  BY <1>1, <1>2 DEF IntrosFull, Full

LEMMA ModuleFull == NetInv /\ IntrosFull /\ ModuleCall => IntrosFull'
<1> SUFFICES ASSUME NetInv, IntrosFull, ModuleCall PROVE IntrosFull'
  OBVIOUS
<1>1. down' = down
  BY DEF ModuleCall, initModule, removeEntity, removeComponent, createComponent, moduleSetValue, linkVars
<1>2. PICK x : queue' = queue \o <<x>> /\ x.ev = "cmd" /\ x.data # "INTRO"
  <2>1. PICK out, d : queue' = queue \o <<Cmd(FALSE, out, d, NoPeer)>> /\ d.data # "INTRO"
    <3>1. CASE \E e \in Entities : initModule(e)
      <4>1. PICK e \in Entities : initModule(e)
        BY <3>1
      <4>2. PICK d : d = EntityData("E_ADD", e)
        OBVIOUS
      <4>3. queue' = queue \o <<Cmd(FALSE, FALSE, d, NoPeer)>> /\ d.data = "E_ADD"
        BY <4>1, <4>2 DEF initModule, post, EntityData
      <4>4. QED BY <4>3
    <3>2. CASE \E e \in Entities : removeEntity(e)
      <4>1. PICK e \in Entities : removeEntity(e)
        BY <3>2
      <4>2. PICK d : d = EntityData("E_REMOVE", e)
        OBVIOUS
      <4>3. queue' = queue \o <<Cmd(FALSE, TRUE, d, NoPeer)>> /\ d.data = "E_REMOVE"
        BY <4>1, <4>2 DEF removeEntity, post, Notify, EntityData
      <4>4. QED BY <4>3
    <3>3. CASE \E k \in Keys, v \in Values : removeComponent(k) \/ createComponent(k, v) \/ moduleSetValue(k, v)
      <4>1. PICK k \in Keys, v \in Values : removeComponent(k) \/ createComponent(k, v) \/ moduleSetValue(k, v)
        BY <3>3
      <4>2. PICK kind, w : /\ kind # "INTRO"
                           /\ queue' = queue \o <<Notify(ComponentData(kind, k[1], k[2], w))>>
        BY <4>1 DEF removeComponent, createComponent, moduleSetValue, post
      <4>3. PICK d : d = ComponentData(kind, k[1], k[2], w)
        OBVIOUS
      <4>4. queue' = queue \o <<Cmd(FALSE, TRUE, d, NoPeer)>> /\ d.data = kind
        BY <4>2, <4>3 DEF Notify, ComponentData
      <4>5. QED BY <4>2, <4>4
    <3>4. Values # {}
      BY InitAssumption
    <3>5. QED BY <3>1, <3>2, <3>3, <3>4 DEF ModuleCall
  <2>2. PICK x : x = Cmd(FALSE, out, d, NoPeer)
    OBVIOUS
  <2>3. x.ev = "cmd" /\ x.data # "INTRO"
    BY <2>1, <2>2 DEF Cmd
  <2>4. QED BY <2>1, <2>2, <2>3
<1>3. \A y \in Elems(queue') : y \in Elems(queue) \/ y = x
  BY <1>2, PostOne DEF NetInv
<1>4. QED BY <1>1, <1>2, <1>3, IntrosFrame

LEMMA MessageFull ==
  ASSUME NetInv, IntrosFull, NEW p \in Peers, onMessageReceived(p)
  PROVE  IntrosFull'
<1>1. PICK x : queue' = queue \o <<x>> /\ x = RemoteProto(p, Head(up[p])) /\ down' = down
  BY DEF onMessageReceived, post
<1>2. x.ev = "remote"
  BY <1>1 DEF RemoteProto
<1>3. \A y \in Elems(queue') : y \in Elems(queue) \/ y = x
  BY <1>1, PostOne DEF NetInv
<1>4. QED BY <1>1, <1>2, <1>3, IntrosFrame

LEMMA LeaveFull ==
  ASSUME NetInv, IntrosFull, NEW p \in Peers, onClientDisconnected(p)
  PROVE  /\ IntrosFull'
         /\ \A x \in Elems(queue') : x \in Elems(queue) \/ x.ev = "status"
         /\ \A r \in Peers : Elems(up'[r]) \subseteq Elems(up[r]) /\ Elems(down'[r]) \subseteq Elems(down[r])
<1>1. PICK x, s : queue' = queue \o <<x>> /\ x = Disconnected(s)
  BY DEF onClientDisconnected, post
<1>2. x.ev = "status"
  BY <1>1 DEF Disconnected
<1>3. \A y \in Elems(queue') : y \in Elems(queue) \/ y = x
  BY <1>1, PostOne DEF NetInv
<1>4. ASSUME NEW r \in Peers PROVE Elems(up'[r]) \subseteq Elems(up[r]) /\ Elems(down'[r]) \subseteq Elems(down[r])
  <2>1. /\ up'[r] = up[r] \/ up'[r] = <<>>
        /\ down'[r] = down[r] \/ down'[r] = <<>>
    BY DEF onClientDisconnected, NetInv, Typed
  <2>2. Elems(<<>>) = {}
    BY DEF Elems
  <2>3. QED BY <2>1, <2>2
<1>5. QED BY <1>2, <1>3, <1>4, IntrosFrame

LEMMA ConnectFull ==
  ASSUME NetInv, IntrosFull, NEW p \in Peers, connectToServer(p)
  PROVE  /\ IntrosFull'
         /\ \A r \in Peers : /\ Elems(up'[r]) \subseteq Elems(up[r]) \cup {Greeting}
                             /\ Elems(down'[r]) \subseteq Elems(down[r]) \cup {Greeting}
<1>1. queue' = queue
  BY DEF connectToServer
<1>2. ASSUME NEW r \in Peers
      PROVE  /\ Elems(up'[r]) \subseteq Elems(up[r]) \cup {Greeting}
             /\ Elems(down'[r]) \subseteq Elems(down[r]) \cup {Greeting}
  <2>1. /\ up'[r] = up[r] \/ up'[r] = <<Greeting>>
        /\ down'[r] = down[r] \/ down'[r] = <<Greeting>>
    BY DEF connectToServer, NetInv, Typed
  <2>2. Elems(<<Greeting>>) = {Greeting}
    BY DEF Elems
  <2>3. QED BY <2>1, <2>2
<1>3. QED BY <1>1, <1>2, IntrosFrame

LEMMA ReceiveFull ==
  ASSUME NetInv, IntrosFull, NEW p \in Peers, NEW requests, receive(p, requests)
  PROVE  /\ IntrosFull' /\ queue' = queue
         /\ Head(down[p]) \in Elems(down[p])
         /\ \A r \in Peers : Elems(down'[r]) \subseteq Elems(down[r])
<1>1. down[p] # <<>> /\ queue' = queue /\ down' = [down EXCEPT ![p] = Tail(@)]
  BY DEF receive
<1>2. down \in [Peers -> Seq(Messages \cup {Greeting})]
  BY DEF NetInv, Typed
<1>3. PICK q \in Seq(Messages \cup {Greeting}) : q = down[p]
  BY <1>2
<1>4. Elems(q) = Elems(Tail(q)) \cup {Head(q)}
  BY <1>1, <1>3, Taken
<1>5. ASSUME NEW r \in Peers PROVE Elems(down'[r]) \subseteq Elems(down[r])
  <2>1. down'[r] = down[r] \/ (r = p /\ down'[r] = Tail(q))
    BY <1>1, <1>2, <1>3
  <2>2. QED BY <1>3, <1>4, <2>1
<1>6. QED BY <1>1, <1>3, <1>4, <1>5, IntrosFrame

-----------------------------------------------------------------------------
(* Untouched setters                                                       *)

LEMMA UntouchedBefore ==
  ASSUME UntouchedStill, NEW alone, remember(alone), NEW t \in Tasks, Untouched(t)',
         \A u \in Tasks : stage[u] # "idle" => stage'[u] # "idle"
  PROVE  /\ Untouched(t) /\ Still(t) /\ alone /\ Kind[t] = "setter"
         /\ stage'[t] # "idle" => module'[TaskKey[t]] # TaskValue[t]
<1>1. /\ calm' = (calm /\ alone)
      /\ applied'[t] = (applied[t] \/ (stage'[t] # "idle" /\ module'[TaskKey[t]] = TaskValue[t]))
  BY DEF remember
<1>2. /\ Kind[t] = "setter" /\ calm' /\ ~applied'[t]
      /\ \A u \in Tasks \ {t} : Kind[u] = "setter" /\ TaskKey[u] = TaskKey[t] => stage'[u] = "idle"
  BY DEF Untouched
<1>3. calm /\ alone /\ ~applied[t] /\ (stage'[t] # "idle" => module'[TaskKey[t]] # TaskValue[t])
  BY <1>1, <1>2
<1>4. \A u \in Tasks \ {t} : Kind[u] = "setter" /\ TaskKey[u] = TaskKey[t] => stage[u] = "idle"
  BY <1>2
<1>5. Untouched(t)
  BY <1>2, <1>3, <1>4 DEF Untouched
<1>6. QED BY <1>2, <1>3, <1>5 DEF UntouchedStill

LEMMA AsksStill ==
  ASSUME NEW t \in Tasks, NEW m, Asks(m, t), stage[t] # "idle" => stage'[t] # "idle"
  PROVE  Asks(m, t)'
  BY DEF Asks

LEMMA HarmlessStill ==
  ASSUME NEW t \in Tasks, NEW x, Harmless(x, t), stage[t] # "idle" => stage'[t] # "idle"
  PROVE  Harmless(x, t)'
  BY DEF Harmless, Asks, Tells, Writes, InitialValue

\* Nothing is set or told that was not before.
LEMMA StillKeeps ==
  ASSUME NEW t \in Tasks, Still(t), stage[t] # "idle" => stage'[t] # "idle",
         stage'[t] # "idle" => module'[TaskKey[t]] # TaskValue[t],
         stored'[TaskKey[t]] = stored[TaskKey[t]], module'[TaskKey[t]] = module[TaskKey[t]],
         \A x \in Elems(queue') : x \in Elems(queue) \/ Harmless(x, t)',
         \A p \in Peers : /\ \A m \in Elems(up'[p]) : m \in Elems(up[p]) \/ Asks(m, t)'
                          /\ \A m \in Elems(down'[p]) : m \in Elems(down[p]) \/ Tells(m, t),
         stage'[t] \in {"finishing", "done"} => ~ok'[t]
  PROVE  Still(t)'
<1>1. stored'[TaskKey[t]] = InitialValue(TaskKey[t]) /\ module'[TaskKey[t]] = InitialValue(TaskKey[t])
  BY DEF Still
<1>2. \A x \in Elems(queue') : Harmless(x, t)'
  BY HarmlessStill DEF Still
<1>3. ASSUME NEW p \in Peers PROVE \A m \in Elems(up'[p]) : Asks(m, t)'
  BY AsksStill DEF Still
<1>4. ASSUME NEW p \in Peers PROVE \A m \in Elems(down'[p]) : Tells(m, t)
  BY DEF Still
<1>5. \A p \in Peers : /\ \A m \in Elems(up'[p]) : Asks(m, t)'
                       /\ \A m \in Elems(down'[p]) : Tells(m, t)
  BY <1>3, <1>4
<1>6. stage'[t] # "idle" => InitialValue(TaskKey[t]) # TaskValue[t]
  BY <1>1
<1> HIDE DEF InitialValue, Tells
<1>7. QED
  BY <1>1, <1>2, <1>5, <1>6 DEF Still, Elems

\* Messages that neither set nor tell anything.
LEMMA SaysNothing ==
  ASSUME NEW t \in Tasks, NEW m, m.data \notin {"C_SET", "C_FETCH"}
  PROVE  Tells(m, t) /\ Asks(m, t)'
  BY DEF Tells, Asks

LEMMA DispatchStill ==
  ASSUME NetInv, Dispatch, NEW t \in Tasks, Still(t), stage' = stage, ok' = ok,
         stage[t] # "idle" => module'[TaskKey[t]] # TaskValue[t]
  PROVE  Still(t)'
<1>1. PICK h : h = Head(queue)
  OBVIOUS
<1>2. PICK k \in Keys : k = TaskKey[t] /\ k = <<k[1], k[2]>>
  BY TaskKeyTyped
<1>3. up' = up /\ h \in Elems(queue)
  <2>1. TaskPeer \in Peers
    BY TaskAssumption
  <2>2. QED BY <1>1, <2>1, DispatchSends
<1>4. Harmless(h, t)
  BY <1>3 DEF Still
<1>5. /\ h.ev = "cmd" => ~Writes(h, k) /\ (h.trans => Asks(h, t))
      /\ h.ev = "remote" => Asks(h.msg, t)
      /\ h.ev = "local" => Tells(h.msg, t)
  BY <1>2, <1>4 DEF Harmless
<1>6. ~Writes(h, k)
  BY <1>5 DEF Writes
<1>7. stored'[k] = stored[k]
  BY <1>1, <1>6, DispatchStores
<1>8. module'[k] = module[k]
  <2> SUFFICES ASSUME module'[k] # module[k] PROVE FALSE
    OBVIOUS
  <2>1. /\ h \in Commands /\ h.data = "C_SET" /\ h.trans
        /\ h.ent = k[1] /\ h.comp = k[2] /\ module'[k] = h.val
    BY <1>1, DispatchSets
  <2>2. h.ev = "cmd"
    BY <2>1 DEF Commands
  <2>3. h.val = TaskValue[t] /\ stage[t] # "idle"
    BY <1>2, <1>5, <2>1, <2>2 DEF Asks
  <2>4. QED BY <1>2, <2>1, <2>3
<1>9. ASSUME NEW x \in Elems(queue'), Posted(h, x) PROVE Harmless(x, t)
  <2>1. CASE x.ev = "cmd" /\ x.data \in {"ERROR", "C_FETCH", "INTRO"}
    BY <2>1 DEF Harmless, Writes, Asks
  <2>2. CASE /\ x.ev = "cmd" /\ x.trans /\ h.ev = "remote"
             /\ x.data = h.msg.data /\ x.ent = h.msg.ent /\ x.comp = h.msg.comp /\ x.val = h.msg.val
    BY <1>5, <2>2 DEF Harmless, Writes, Asks
  <2>3. CASE /\ h.ev = "cmd" /\ h.data = "C_SET" /\ h.trans /\ module'[<<h.ent, h.comp>>] = h.val
             /\ x.ev = "cmd" /\ ~x.trans /\ x.data = "C_SET" /\ x.ent = h.ent /\ x.comp = h.comp
    <3>1. ~(h.ent = k[1] /\ h.comp = k[2])
      <4> SUFFICES ASSUME h.ent = k[1], h.comp = k[2] PROVE FALSE
        OBVIOUS
      <4>1. h.val = TaskValue[t] /\ stage[t] # "idle"
        BY <1>2, <1>5, <2>3 DEF Asks
      <4>2. QED BY <1>2, <2>3, <4>1
    <3>2. ~Writes(x, k)
      BY <2>3, <3>1 DEF Writes
    <3>3. QED BY <1>2, <2>3, <3>2 DEF Harmless
  <2>4. CASE /\ h.ev = "cmd" /\ (h.data = "C_SET" => ~h.trans)
             /\ x.ev = "local" /\ x.msg.data = h.data /\ x.msg.ent = h.ent /\ x.msg.comp = h.comp
             /\ x.msg.val = IF h.data = "C_FETCH" THEN stored[<<h.ent, h.comp>>] ELSE h.val
    <3>1. stored[k] = InitialValue(k)
      BY <1>2 DEF Still
    <3>2. Tells(x.msg, t)
      <4> SUFFICES ASSUME x.msg.ent = k[1], x.msg.comp = k[2]
                   PROVE  x.msg.data # "C_SET" /\ (x.msg.data = "C_FETCH" => x.msg.val = InitialValue(k))
        BY <1>2 DEF Tells
      <4>1. x.msg.data # "C_SET"
        BY <1>6, <2>4 DEF Writes
      <4>2. x.msg.data = "C_FETCH" => x.msg.val = stored[k]
        BY <1>2, <2>4
      <4>3. QED BY <3>1, <4>1, <4>2
    <3>3. QED BY <2>4, <3>2 DEF Harmless
  <2>5. QED BY <1>9, <2>1, <2>2, <2>3, <2>4 DEF Posted
<1>10. \A x \in Elems(queue') : x \in Elems(queue) \/ Harmless(x, t)'
  <2>1. \A x \in Elems(queue') : x \in Elems(queue) \/ Posted(h, x)
    BY <1>1, DispatchPosts
  <2>2. QED BY <1>9, <2>1, HarmlessStill
<1>11. ASSUME NEW p \in Peers
       PROVE  /\ \A m \in Elems(up'[p]) : m \in Elems(up[p]) \/ Asks(m, t)'
              /\ \A m \in Elems(down'[p]) : m \in Elems(down[p]) \/ Tells(m, t)
  BY <1>1, <1>3, <1>5, DispatchSends
<1>12. stage[t] \in {"finishing", "done"} => ~ok[t]
  BY DEF Still
<1>13. QED BY <1>2, <1>7, <1>8, <1>10, <1>11, <1>12, StillKeeps

-----------------------------------------------------------------------------
(* Steps                                                                   *)

LEMMA CallsGrow ==
  ASSUME TaskTyped, UNCHANGED <<taskVars, itemVars>>, ops \in Nat, ops' \in Nat, ops <= ops'
  PROVE  TaskTyped'
<1>1. UNCHANGED <<stage, waiting, fetched, ok, subItems, unsubItems>>
  BY DEF taskVars, itemVars
<1>2. ASSUME NEW e \in Entities PROVE subItems[e] <= ops' /\ unsubItems[e] <= ops'
  <2>1. PICK i \in Nat, j \in Nat : i = subItems[e] /\ j = unsubItems[e] /\ i <= ops /\ j <= ops
    BY DEF TaskTyped
  <2>2. QED BY <2>1
<1>3. QED BY <1>1, <1>2 DEF TaskTyped

LEMMA CallsOfNext == NetInv /\ Next => ops \in Nat /\ ops' \in Nat /\ ops <= ops'
<1> SUFFICES ASSUME NetInv, Next PROVE ops \in Nat /\ ops' \in Nat /\ ops <= ops'
  OBVIOUS
<1>1. ops \in Nat
  BY BoundAssumption DEF NetInv, Typed
<1>2. ops' = ops \/ ops' = ops + 1
  <2>1. CASE Dispatch
    <3>1. TaskPeer \in Peers
      BY TaskAssumption
    <3>2. QED BY <2>1, <3>1, DispatchSends
  <2>2. CASE ModuleCall
    BY <2>2 DEF ModuleCall, initModule, removeEntity, removeComponent, createComponent, moduleSetValue, Call
  <2>3. CASE \E p \in Peers : ClientCall(p)
    BY <2>3 DEF ClientCall, connectToServer, onClientDisconnected, sendSubscription, sendUnsubscription,
                startGetComponent, startSetComponent, request, Call
  <2>4. CASE \E p \in Peers : onMessageReceived(p) \/ clientReceive(p)
    BY <2>4 DEF onMessageReceived, clientReceive, receive
  <2>5. QED BY <2>1, <2>2, <2>3, <2>4 DEF Next
<1>3. QED BY <1>1, <1>2

LEMMA OthersKeep == TaskInv /\ Others => TaskInv'
<1> SUFFICES ASSUME TaskInv, Others PROVE TaskInv'
  OBVIOUS
<1>0. NetInv /\ IntrosFull /\ TaskTyped /\ UntouchedStill
  BY DEF TaskInv
<1>1. Next /\ UNCHANGED <<taskVars, itemVars>> /\ remember(FALSE)
  BY DEF Others, Next
<1>2. NetInv' /\ TaskTyped'
  BY <1>0, <1>1, NetInvNext, CallsOfNext, CallsGrow
<1>3. IntrosFull'
  <2>1. CASE ModuleCall
    BY <1>0, <2>1, ModuleFull
  <2>2. ASSUME NEW p \in Peers, ClientCall(p) PROVE IntrosFull'
    <3>1. CASE connectToServer(p)
      BY <1>0, <3>1, ConnectFull
    <3>2. CASE onClientDisconnected(p)
      BY <1>0, <3>2, LeaveFull
    <3>3. CASE UNCHANGED <<queue, down>>
      BY <1>0, <3>3, IntrosFrame
    <3>4. QED BY <2>2, <3>1, <3>2, <3>3 DEF ClientCall, sendSubscription, sendUnsubscription,
                 startGetComponent, startSetComponent, request
  <2>3. ASSUME NEW p \in Peers, clientReceive(p) PROVE IntrosFull'
    BY <1>0, <2>3, ReceiveFull DEF clientReceive
  <2>4. QED BY <2>1, <2>2, <2>3 DEF Others
<1>4. UntouchedStill'
  <2>1. calm' = FALSE
    BY <1>1 DEF remember
  <2>2. QED BY <2>1 DEF UntouchedStill, Untouched
<1>5. QED BY <1>2, <1>3, <1>4 DEF TaskInv

LEMMA ServerAndLinkKeep == TaskInv /\ ServerAndLink => TaskInv'
<1> SUFFICES ASSUME TaskInv, ServerAndLink PROVE TaskInv'
  OBVIOUS
<1>0. NetInv /\ IntrosFull /\ TaskTyped /\ UntouchedStill /\ Typed
  BY DEF TaskInv, NetInv
<1>1. UNCHANGED <<taskVars, itemVars>> /\ remember(TRUE) /\ TaskPeer \in Peers
  BY TaskAssumption DEF ServerAndLink
<1>2. Next
  BY <1>1 DEF ServerAndLink, Next, ClientCall
<1>3. NetInv' /\ TaskTyped'
  BY <1>0, <1>1, <1>2, NetInvNext, CallsOfNext, CallsGrow
<1>4. stage' = stage /\ ok' = ok
  BY <1>1 DEF taskVars
<1>5. IntrosFull'
  BY <1>0, <1>1, DispatchFull, MessageFull, ConnectFull, LeaveFull DEF ServerAndLink
<1>6. ASSUME NEW t \in Tasks, Untouched(t)' PROVE Still(t)'
  <2>1. Still(t) /\ (stage'[t] # "idle" => module'[TaskKey[t]] # TaskValue[t])
    BY <1>0, <1>1, <1>4, <1>6, UntouchedBefore
  <2>2. stage[t] \in {"finishing", "done"} => ~ok[t]
    BY <2>1 DEF Still
  <2>3. CASE Dispatch
    BY <1>0, <1>4, <2>1, <2>3, DispatchStill
  <2>4. ASSUME NEW p \in Peers, onMessageReceived(p) PROVE Still(t)'
    <3>1. UNCHANGED <<stored, module, down>> /\ up[p] # <<>> /\ up' = [up EXCEPT ![p] = Tail(@)]
      BY <2>4 DEF onMessageReceived, dbVars, modVars
    <3>2. PICK q \in Seq(Requests \cup {Greeting}) : q = up[p] /\ q # <<>>
      BY <1>0, <3>1 DEF Typed
    <3>3. Elems(q) = Elems(Tail(q)) \cup {Head(q)}
      BY <3>2, Taken
    <3>4. \A r \in Peers : Elems(up'[r]) \subseteq Elems(up[r])
      <4>1. ASSUME NEW r \in Peers PROVE up'[r] = up[r] \/ (r = p /\ up'[r] = Tail(q))
        BY <1>0, <3>1, <3>2 DEF Typed
      <4>2. QED BY <3>2, <3>3, <4>1
    <3>5. PICK x : queue' = queue \o <<x>> /\ x = RemoteProto(p, Head(q))
      BY <2>4, <3>2 DEF onMessageReceived, post
    <3>6. Asks(Head(q), t)
      BY <2>1, <3>2, <3>3 DEF Still
    <3>7. x.ev = "remote" /\ x.msg = Head(q)
      BY <3>5 DEF RemoteProto
    <3>8. Harmless(x, t)
      BY <3>6, <3>7 DEF Harmless
    <3>9. \A y \in Elems(queue') : y \in Elems(queue) \/ y = x
      BY <1>0, <3>5, PostOne
    <3>10. Harmless(x, t)'
      BY <1>4, <3>8, HarmlessStill
    <3>11. QED BY <1>4, <2>1, <2>2, <3>1, <3>4, <3>9, <3>10, StillKeeps
  <2>5. CASE connectToServer(TaskPeer)
    <3>1. UNCHANGED <<stored, module, queue>>
      BY <2>5 DEF connectToServer, dbVars, modVars
    <3>2. \A r \in Peers : /\ Elems(up'[r]) \subseteq Elems(up[r]) \cup {Greeting}
                           /\ Elems(down'[r]) \subseteq Elems(down[r]) \cup {Greeting}
      BY <1>0, <1>1, <2>5, ConnectFull
    <3>3. Greeting.data \notin {"C_SET", "C_FETCH"}
      BY DEF Greeting
    <3>4. PICK g : g = Greeting
      OBVIOUS
    <3>5. Tells(g, t) /\ Asks(g, t)'
      BY <3>3, <3>4, SaysNothing
    <3>6. QED BY <1>4, <2>1, <2>2, <3>1, <3>2, <3>4, <3>5, StillKeeps
  <2>6. CASE onClientDisconnected(TaskPeer)
    <3>1. UNCHANGED <<stored, module>>
      BY <2>6 DEF onClientDisconnected, dbVars, modVars
    <3>2. /\ \A x \in Elems(queue') : x \in Elems(queue) \/ x.ev = "status"
          /\ \A r \in Peers : Elems(up'[r]) \subseteq Elems(up[r]) /\ Elems(down'[r]) \subseteq Elems(down[r])
      BY <1>0, <1>1, <2>6, LeaveFull
    <3>3. \A x : x.ev = "status" => Harmless(x, t)'
      BY DEF Harmless
    <3>4. QED BY <1>4, <2>1, <2>2, <3>1, <3>2, <3>3, StillKeeps
  <2>7. QED BY <2>3, <2>4, <2>5, <2>6 DEF ServerAndLink
<1>7. UntouchedStill'
  BY <1>6 DEF UntouchedStill
<1>8. QED BY <1>3, <1>5, <1>7 DEF TaskInv

\* A request that sets nothing.
LEMMA SendKeeps ==
  ASSUME NetInv, IntrosFull, NEW e \in Entities, NEW cmd \in {"SUBSCRIBE", "UNSUBSCRIBE"},
         Call, sendEvent(EntityData(cmd, e))
  PROVE  /\ NetInv' /\ IntrosFull' /\ UNCHANGED <<stored, module, queue, down>>
         /\ ops \in Nat /\ ops' = ops + 1
         /\ \A p \in Peers : \A m \in Elems(up'[p]) : m \in Elems(up[p]) \/ m.data = cmd
<1>1. Typed /\ ops \in 0..MaxOps /\ MaxOps \in Nat
  BY BoundAssumption DEF NetInv, Typed
<1>2. PICK q \in Requests : q = Request(EntityData(cmd, e)) /\ q.data = cmd
  BY RequestTyped
<1>3. UNCHANGED <<dbVars, queue, modVars, subVars, peerState, down, clientVars>>
  BY DEF sendEvent
<1>4. up \in [Peers -> Seq(Requests \cup {Greeting})]
  BY <1>1 DEF Typed
<1>5. up' = up \/ up' = [up EXCEPT ![TaskPeer] = Append(@, q)]
  <2>1. CASE TaskPeer \in online
    BY <1>2, <2>1 DEF sendEvent
  <2>2. CASE TaskPeer \notin online
    <3>1. up' = [up EXCEPT ![TaskPeer] = @]
      BY <2>2 DEF sendEvent
    <3>2. QED BY <1>4, <3>1
  <2>3. QED BY <2>1, <2>2
<1>6. ASSUME NEW s \in Seq(Requests \cup {Greeting})
      PROVE  Append(s, q) \in Seq(Requests \cup {Greeting}) /\ Elems(Append(s, q)) \subseteq Elems(s) \cup {q}
  <2>1. Append(s, q) \in Seq(Requests \cup {Greeting})
    OBVIOUS
  <2>2. Elems(Append(s, q)) \subseteq Elems(s) \cup {q}
    BY DEF Elems
  <2>3. QED BY <2>1, <2>2
<1>7. up' \in [Peers -> Seq(Requests \cup {Greeting})]
  BY <1>4, <1>5, <1>6
<1>8. ASSUME NEW p \in Peers, NEW m \in Elems(up'[p]) PROVE m \in Elems(up[p]) \/ m.data = cmd
  <2>1. PICK s \in Seq(Requests \cup {Greeting}) : s = up[p]
    BY <1>4
  <2>2. up'[p] = s \/ up'[p] = Append(s, q)
    BY <1>4, <1>5, <2>1
  <2>3. QED BY <1>2, <1>6, <2>1, <2>2
<1>9. ops \in Nat /\ ops' = ops + 1 /\ ops' \in 0..MaxOps
  BY <1>1 DEF Call
<1>10. NetInv'
  BY <1>3, <1>7, <1>9, QuietStep
<1>11. UNCHANGED <<stored, module, queue, down>>
  BY <1>3 DEF dbVars, modVars
<1>12. IntrosFull'
  BY <1>11, IntrosFrame
<1>13. QED BY <1>8, <1>9, <1>10, <1>11, <1>12

LEMMA SendStill ==
  ASSUME NEW t \in Tasks, Still(t), UNCHANGED <<stored, module, queue, down>>,
         NEW cmd \in {"SUBSCRIBE", "UNSUBSCRIBE"},
         \A p \in Peers : \A m \in Elems(up'[p]) : m \in Elems(up[p]) \/ m.data = cmd,
         stage[t] # "idle" => stage'[t] # "idle",
         stage'[t] # "idle" => module'[TaskKey[t]] # TaskValue[t],
         stage'[t] \in {"finishing", "done"} => ~ok'[t]
  PROVE  Still(t)'
<1>1. \A m : m.data = cmd => Asks(m, t)'
  BY SaysNothing
<1>2. QED BY <1>1, StillKeeps

LEMMA StartKeeps ==
  ASSUME TaskInv, NEW t \in Tasks, start(t)
  PROVE  TaskInv'
<1>0. NetInv /\ IntrosFull /\ TaskTyped /\ UntouchedStill
  BY DEF TaskInv
<1>1. /\ NetInv' /\ IntrosFull' /\ UNCHANGED <<stored, module, queue, down>>
      /\ ops \in Nat /\ ops' = ops + 1
      /\ \A p \in Peers : \A m \in Elems(up'[p]) : m \in Elems(up[p]) \/ m.data = "SUBSCRIBE"
  BY <1>0, TaskKeyTyped, SendKeeps DEF start
<1>2. /\ stage[t] = "idle" /\ stage' = [stage EXCEPT ![t] = "subscribing"]
      /\ UNCHANGED <<waiting, fetched, ok, subItems, unsubItems>> /\ remember(TRUE)
  BY DEF start, itemVars
<1>3. TaskTyped'
  <2>1. \A e \in Entities : subItems[e] <= ops' /\ unsubItems[e] <= ops'
    <3>1. ASSUME NEW e \in Entities PROVE subItems[e] <= ops' /\ unsubItems[e] <= ops'
      <4>1. PICK i \in Nat, j \in Nat : i = subItems[e] /\ j = unsubItems[e] /\ i <= ops /\ j <= ops
        BY <1>0 DEF TaskTyped
      <4>2. QED BY <1>1, <4>1
    <3>2. QED BY <3>1
  <2>2. stage \in [Tasks -> Stages] /\ \A u \in Tasks : waiting[u] # {} <=> stage[u] = "fetching"
    BY <1>0 DEF TaskTyped
  <2>3. stage' \in [Tasks -> Stages] /\ \A u \in Tasks : waiting[u] # {} <=> stage'[u] = "fetching"
    BY <1>2, <2>2 DEF Stages
  <2>4. QED BY <1>0, <1>2, <2>1, <2>3 DEF TaskTyped
<1>4. \A u \in Tasks : stage[u] # "idle" => stage'[u] # "idle"
  BY <1>0, <1>2 DEF TaskTyped
<1>5. ASSUME NEW u \in Tasks, Untouched(u)' PROVE Still(u)'
  <2>1. Still(u) /\ (stage'[u] # "idle" => module'[TaskKey[u]] # TaskValue[u])
    BY <1>0, <1>2, <1>4, <1>5, UntouchedBefore
  <2>2. stage'[u] \in {"finishing", "done"} => ~ok'[u]
    BY <1>0, <1>2, <2>1 DEF Still, TaskTyped
  <2>3. QED BY <1>1, <1>4, <2>1, <2>2, SendStill
<1>6. QED BY <1>1, <1>3, <1>5 DEF TaskInv, UntouchedStill

LEMMA SubscriberKeeps ==
  ASSUME TaskInv, NEW e \in Entities, subscribeEntity(e) \/ unsubscribeEntity(e)
  PROVE  TaskInv'
<1>0. NetInv /\ IntrosFull /\ TaskTyped /\ UntouchedStill
  BY DEF TaskInv
<1>1. PICK cmd \in {"SUBSCRIBE", "UNSUBSCRIBE"} : Call /\ sendEvent(EntityData(cmd, e))
  BY DEF subscribeEntity, unsubscribeEntity
<1>2. /\ NetInv' /\ IntrosFull' /\ UNCHANGED <<stored, module, queue, down>>
      /\ ops \in Nat /\ ops' = ops + 1
      /\ \A p \in Peers : \A m \in Elems(up'[p]) : m \in Elems(up[p]) \/ m.data = cmd
  BY <1>0, <1>1, SendKeeps
<1>3. /\ UNCHANGED <<stage, waiting, fetched, ok>> /\ remember(TRUE)
      /\ subItems' = subItems \/ subItems' = [subItems EXCEPT ![e] = @ + 1]
      /\ unsubItems' = unsubItems \/ unsubItems' = [unsubItems EXCEPT ![e] = @ + 1]
  BY DEF subscribeEntity, unsubscribeEntity, taskVars
<1>4. TaskTyped'
  <2>1. subItems \in [Entities -> Nat] /\ unsubItems \in [Entities -> Nat]
    BY <1>0 DEF TaskTyped
  <2>2. subItems' \in [Entities -> Nat] /\ unsubItems' \in [Entities -> Nat]
    BY <1>3, <2>1
  <2>3. ASSUME NEW f \in Entities PROVE subItems'[f] <= ops' /\ unsubItems'[f] <= ops'
    <3>1. PICK i \in Nat, j \in Nat : i = subItems[f] /\ j = unsubItems[f] /\ i <= ops /\ j <= ops
      BY <1>0, <2>1 DEF TaskTyped
    <3>2. subItems'[f] \in {i, i + 1} /\ unsubItems'[f] \in {j, j + 1}
      BY <1>3, <2>1, <3>1
    <3>3. QED BY <1>2, <3>1, <3>2
  <2>4. QED BY <1>0, <1>3, <2>2, <2>3 DEF TaskTyped
<1>5. ASSUME NEW u \in Tasks, Untouched(u)' PROVE Still(u)'
  <2>1. Still(u) /\ (stage'[u] # "idle" => module'[TaskKey[u]] # TaskValue[u])
    BY <1>0, <1>3, <1>5, UntouchedBefore
  <2>2. stage'[u] \in {"finishing", "done"} => ~ok'[u]
    BY <1>3, <2>1 DEF Still
  <2>3. QED BY <1>2, <1>3, <2>1, <2>2, SendStill
<1>6. QED BY <1>2, <1>4, <1>5 DEF TaskInv, UntouchedStill

\* The end of a task: by the queued signal or by the time-out.
LEMMA EndKeeps ==
  ASSUME TaskInv, NEW t \in Tasks, emitSigSetFinish(t) \/ timeout(t)
  PROVE  TaskInv'
<1>0. NetInv /\ IntrosFull /\ TaskTyped /\ UntouchedStill
  BY DEF TaskInv
<1>1. /\ UNCHANGED <<vars, fetched, subItems, unsubItems>> /\ remember(TRUE)
      /\ stage[t] # "idle" /\ stage' = [stage EXCEPT ![t] = "done"]
      /\ \/ stage[t] = "finishing" /\ UNCHANGED <<waiting, ok>>
         \/ waiting' = [waiting EXCEPT ![t] = {}] /\ ok' = [ok EXCEPT ![t] = FALSE]
  BY DEF emitSigSetFinish, timeout, itemVars
<1>2. UNCHANGED <<stored, module, queue, up, down, ops>>
  BY <1>1 DEF vars, dbVars, netVars
<1>3. NetInv' /\ IntrosFull'
  BY <1>0, <1>1, <1>2, NetInvFrame, IntrosFrame
<1>4. TaskTyped'
  <2>1. /\ stage \in [Tasks -> Stages] /\ waiting \in [Tasks -> SUBSET Components] /\ ok \in [Tasks -> BOOLEAN]
        /\ \A u \in Tasks : waiting[u] # {} <=> stage[u] = "fetching"
        /\ \A u \in Tasks : Kind[u] = "setter" => waiting[u] \subseteq {TaskKey[u][2]}
    BY <1>0 DEF TaskTyped
  <2>2. stage' \in [Tasks -> Stages] /\ waiting' \in [Tasks -> SUBSET Components] /\ ok' \in [Tasks -> BOOLEAN]
    BY <1>1, <2>1 DEF Stages
  <2>3. ASSUME NEW u \in Tasks
        PROVE  /\ waiting'[u] # {} <=> stage'[u] = "fetching"
               /\ Kind[u] = "setter" => waiting'[u] \subseteq {TaskKey[u][2]}
    BY <1>1, <2>1
  <2>4. QED BY <1>0, <1>1, <1>2, <2>2, <2>3 DEF TaskTyped
<1>5. \A u \in Tasks : stage[u] # "idle" => stage'[u] # "idle"
  BY <1>0, <1>1 DEF TaskTyped
<1>6. ASSUME NEW u \in Tasks, Untouched(u)' PROVE Still(u)'
  <2>1. Still(u) /\ (stage'[u] # "idle" => module'[TaskKey[u]] # TaskValue[u])
    BY <1>0, <1>1, <1>5, <1>6, UntouchedBefore
  <2>2. stage'[u] \in {"finishing", "done"} => ~ok'[u]
    <3>1. stage[u] \in {"finishing", "done"} => ~ok[u]
      BY <2>1 DEF Still
    <3>2. QED BY <1>0, <1>1, <3>1 DEF TaskTyped
  <2>3. QED BY <1>2, <1>5, <2>1, <2>2, StillKeeps
<1>7. QED BY <1>3, <1>4, <1>6 DEF TaskInv, UntouchedStill

LEMMA ProcessKeeps == TaskInv /\ processCommandEvent => TaskInv'
<1> SUFFICES ASSUME TaskInv, processCommandEvent PROVE TaskInv'
  OBVIOUS
<1>0. NetInv /\ IntrosFull /\ TaskTyped /\ UntouchedStill /\ Typed /\ TaskPeer \in Peers
  BY TaskAssumption DEF TaskInv, NetInv
<1> DEFINE m == Head(down[TaskPeer])
           next == [t \in Tasks |-> react(t, m)]
<1>1. m = Head(down[TaskPeer])
  OBVIOUS
<1>2. next = [t \in Tasks |-> react(t, m)]
  OBVIOUS
<1>3. PICK order \in TaskOrders :
        receive(TaskPeer, FlattenSeq([i \in DOMAIN order |-> RequestsOf(order[i], next[order[i]])]))
  BY Zenon DEF processCommandEvent
<1>4. /\ stage' = [t \in Tasks |-> next[t].stage] /\ waiting' = [t \in Tasks |-> next[t].waiting]
       /\ fetched' = [t \in Tasks |-> next[t].fetched] /\ ok' = [t \in Tasks |-> next[t].ok]
       /\ subItems' = [e \in Entities |-> IF endsSubscribers(e, m) THEN 0 ELSE subItems[e]]
       /\ unsubItems' = [e \in Entities |-> IF endsUnsubscribers(e, m) THEN 0 ELSE unsubItems[e]]
       /\ remember(TRUE)
  BY Zenon DEF processCommandEvent
<1> HIDE DEF m, next
<1>5. PICK requests : requests = FlattenSeq([i \in DOMAIN order |-> RequestsOf(order[i], next[order[i]])])
  OBVIOUS
<1>6. receive(TaskPeer, requests)
  BY <1>3, <1>5
<1>7. /\ IntrosFull' /\ queue' = queue /\ m \in Elems(down[TaskPeer])
      /\ \A r \in Peers : Elems(down'[r]) \subseteq Elems(down[r])
  BY <1>0, <1>1, <1>6, ReceiveFull
<1>8. m \in Messages \cup {Greeting} /\ Full(m)
  <2>1. PICK q \in Seq(Messages \cup {Greeting}) : q = down[TaskPeer]
    BY <1>0 DEF Typed
  <2>2. Elems(q) \subseteq Messages \cup {Greeting}
    BY ElemsTyped
  <2>3. QED BY <1>0, <1>7, <2>1, <2>2 DEF IntrosFull
<1>9. requests \in Seq(Sent(m))
  BY <1>0, <1>2, <1>5, <1>8, AllSent
<1>10. requests \in Seq(Requests) /\ Elems(requests) \subseteq Sent(m)
  <2>1. Sent(m) \subseteq Requests
    BY DEF Sent
  <2>2. PICK n \in Nat : requests \in [1..n -> Sent(m)]
    BY <1>9
  <2>3. requests \in Seq(Requests)
    BY <2>1, <2>2
  <2>4. QED BY <1>9, <2>3, ElemsTyped
<1>11. NetInv'
  BY <1>0, <1>6, <1>10, ReceiveKeeps
<1>12. UNCHANGED <<stored, module, ops>> /\ up' = [up EXCEPT ![TaskPeer] = @ \o requests]
  BY <1>6 DEF receive, dbVars, modVars
<1>13. ASSUME NEW t \in Tasks
       PROVE  /\ next[t] \in TaskStates /\ (next[t].waiting # {} <=> next[t].stage = "fetching")
              /\ Kind[t] = "setter" => next[t].waiting \subseteq {TaskKey[t][2]}
              /\ stage[t] # "idle" => next[t].stage # "idle"
  <2>1. PICK s : s = next[t] /\ s = react(t, m)
    BY <1>2
  <2>2. s = Task(t) \/ Moved(t, s)
    BY <1>0, <1>8, <2>1, ReactMoves
  <2>3. CASE s = Task(t)
    <3>1. /\ s \in TaskStates /\ s.stage = stage[t] /\ s.waiting = waiting[t]
      BY <1>0, <2>3, TaskState
    <3>2. /\ waiting[t] # {} <=> stage[t] = "fetching"
          /\ Kind[t] = "setter" => waiting[t] \subseteq {TaskKey[t][2]}
      BY <1>0 DEF TaskTyped
    <3>3. QED BY <2>1, <3>1, <3>2
  <2>4. CASE Moved(t, s)
    BY <2>1, <2>4 DEF Moved
  <2>5. QED BY <2>2, <2>3, <2>4
<1>14. \A u \in Tasks : stage[u] # "idle" => stage'[u] # "idle"
  BY <1>4, <1>13
<1>15. TaskTyped'
  <2>1. /\ stage' \in [Tasks -> Stages] /\ waiting' \in [Tasks -> SUBSET Components]
        /\ fetched' \in [Tasks -> [Components -> MaybeVal]] /\ ok' \in [Tasks -> BOOLEAN]
    <3>1. \A t \in Tasks : /\ next[t].stage \in Stages /\ next[t].waiting \in SUBSET Components
                           /\ next[t].fetched \in [Components -> MaybeVal] /\ next[t].ok \in BOOLEAN
      BY <1>13 DEF TaskStates
    <3>2. QED BY <1>4, <3>1
  <2>2. /\ \A t \in Tasks : waiting'[t] # {} <=> stage'[t] = "fetching"
        /\ \A t \in Tasks : Kind[t] = "setter" => waiting'[t] \subseteq {TaskKey[t][2]}
    BY <1>4, <1>13
  <2>3. /\ subItems' \in [Entities -> Nat] /\ unsubItems' \in [Entities -> Nat]
        /\ \A e \in Entities : subItems'[e] <= ops' /\ unsubItems'[e] <= ops'
    <3>1. subItems \in [Entities -> Nat] /\ unsubItems \in [Entities -> Nat]
      BY <1>0 DEF TaskTyped
    <3>2. ops \in Nat
      BY <1>0, BoundAssumption DEF Typed
    <3>3. subItems' \in [Entities -> Nat] /\ unsubItems' \in [Entities -> Nat]
      BY <1>4, <3>1
    <3>4. ASSUME NEW e \in Entities PROVE subItems'[e] <= ops' /\ unsubItems'[e] <= ops'
      <4>1. PICK i \in Nat, j \in Nat : i = subItems[e] /\ j = unsubItems[e] /\ i <= ops /\ j <= ops
        BY <1>0, <3>1 DEF TaskTyped
      <4>2. subItems'[e] \in {0, i} /\ unsubItems'[e] \in {0, j}
        BY <1>4, <4>1
      <4>3. QED BY <1>12, <3>2, <4>1, <4>2
    <3>5. QED BY <3>3, <3>4
  <2>4. QED BY <2>1, <2>2, <2>3 DEF TaskTyped
<1>16. ASSUME NEW t \in Tasks, Untouched(t)' PROVE Still(t)'
  <2>1. Still(t) /\ Kind[t] = "setter" /\ (stage'[t] # "idle" => module'[TaskKey[t]] # TaskValue[t])
    BY <1>0, <1>4, <1>14, <1>16, UntouchedBefore
  <2>2. ASSUME NEW q \in Sent(m) PROVE Asks(q, t)'
    <3> SUFFICES ASSUME q.data = "C_SET", q.ent = TaskKey[t][1], q.comp = TaskKey[t][2]
                 PROVE  q.val = TaskValue[t] /\ stage'[t] # "idle"
      BY DEF Asks
    <3>1. PICK u \in Tasks : /\ Kind[u] = "setter" /\ react(u, m).stage = "setting"
                             /\ q.ent = TaskKey[u][1] /\ q.comp = TaskKey[u][2] /\ q.val = TaskValue[u]
      BY DEF Sent
    <3>2. stage'[u] = "setting"
      BY <1>2, <1>4, <3>1
    <3>3. TaskKey[u] = TaskKey[t]
      <4>1. TaskKey[u] = <<TaskKey[u][1], TaskKey[u][2]>> /\ TaskKey[t] = <<TaskKey[t][1], TaskKey[t][2]>>
        BY TaskKeyTyped
      <4>2. QED BY <3>1, <4>1
    <3>4. u = t
      BY <1>16, <3>1, <3>2, <3>3 DEF Untouched
    <3>5. QED BY <3>1, <3>2, <3>4
  <2>3. ASSUME NEW p \in Peers, NEW q \in Elems(up'[p]) PROVE q \in Elems(up[p]) \/ Asks(q, t)'
    <3>1. PICK s \in Seq(Requests \cup {Greeting}) : s = up[p]
      BY <1>0 DEF Typed
    <3>2. up'[p] = s \/ up'[p] = s \o requests
      BY <1>0, <1>12, <3>1 DEF Typed
    <3>3. PICK more \in Seq(Requests \cup {Greeting}) : more = requests
      <4>1. PICK n \in Nat : requests \in [1..n -> Requests]
        BY <1>10
      <4>2. requests \in Seq(Requests \cup {Greeting})
        BY <4>1
      <4>3. QED BY <4>2
    <3>4. Elems(s \o more) = Elems(s) \cup Elems(more)
      BY Joined
    <3>5. QED BY <1>10, <2>2, <3>1, <3>2, <3>3, <3>4
  <2>4. stage'[t] \in {"finishing", "done"} => ~ok'[t]
    <3>1. PICK s : s = react(t, m) /\ stage'[t] = s.stage /\ ok'[t] = s.ok
      BY <1>2, <1>4
    <3>2. CASE s = Task(t)
      <4>1. s.stage = stage[t] /\ s.ok = ok[t]
        BY <1>0, <3>2, TaskState
      <4>2. QED BY <2>1, <3>1, <4>1 DEF Still
    <3>3. CASE s # Task(t)
      <4>1. module'[TaskKey[t]] = InitialValue(TaskKey[t]) /\ Tells(m, t)
        BY <1>0, <1>7, <1>12, <2>1 DEF Still
      <4>2. s.stage # "idle" => InitialValue(TaskKey[t]) # TaskValue[t]
        BY <2>1, <3>1, <4>1
      <4>3. QED BY <1>0, <1>8, <2>1, <3>1, <3>3, <4>1, <4>2, ReactMoves
    <3>4. QED BY <3>2, <3>3
  <2>5. QED BY <1>7, <1>12, <1>14, <2>1, <2>3, <2>4, StillKeeps
<1>17. QED BY <1>7, <1>11, <1>15, <1>16 DEF TaskInv, UntouchedStill

-----------------------------------------------------------------------------
LEMMA TaskInvInit == TaskInit => TaskInv
<1> SUFFICES ASSUME TaskInit PROVE TaskInv
  OBVIOUS
<1>1. NetInv
  BY NetInvInit DEF TaskInit
<1>2. queue = <<>> /\ \A p \in Peers : up[p] = <<>> /\ down[p] = <<>>
  BY DEF TaskInit, Init
<1>3. Elems(<<>>) = {}
  BY DEF Elems
<1>4. IntrosFull
  BY <1>2, <1>3 DEF IntrosFull
<1>5. TaskTyped
  BY DEF TaskInit, Init, TaskTyped, Stages, MaybeVal
<1>6. ASSUME NEW t \in Tasks PROVE Still(t)
  <2>1. stage[t] = "idle"
    BY DEF TaskInit
  <2>2. TaskKey[t] \in Keys
    BY TaskKeyTyped
  <2>3. stored[TaskKey[t]] = InitialValue(TaskKey[t]) /\ module[TaskKey[t]] = InitialValue(TaskKey[t])
    BY <2>2 DEF TaskInit, Init, InitialValue
  <2>4. QED BY <1>2, <1>3, <2>1, <2>3 DEF Still
<1>7. QED BY <1>1, <1>4, <1>5, <1>6 DEF TaskInv, UntouchedStill

LEMMA TaskInvStep == TaskInv /\ [TaskNext]_allVars => TaskInv'
<1> SUFFICES ASSUME TaskInv, [TaskNext]_allVars PROVE TaskInv'
  OBVIOUS
<1>1. CASE TaskNext
  BY <1>1, OthersKeep, ServerAndLinkKeep, StartKeeps, EndKeeps, SubscriberKeeps, ProcessKeeps DEF TaskNext
<1>2. CASE UNCHANGED allVars
  <2>1. UNCHANGED <<vars, stage, waiting, fetched, ok, subItems, unsubItems, calm, applied>>
    BY <1>2 DEF allVars, taskVars, itemVars, historyVars
  <2>2. UNCHANGED <<stored, module, queue, up, down, ops>>
    BY <2>1 DEF vars, dbVars, netVars
  <2>3. NetInv'
    BY <2>1, NetInvFrame DEF TaskInv
  <2>4. IntrosFull' /\ TaskTyped'
    BY <2>1, <2>2 DEF TaskInv, IntrosFull, TaskTyped, Elems
  <2>5. UntouchedStill'
    BY <2>1, <2>2 DEF TaskInv, UntouchedStill, Untouched, Still, Harmless, Asks, Tells, Elems
  <2>6. QED BY <2>3, <2>4, <2>5 DEF TaskInv
<1>3. QED BY <1>1, <1>2

LEMMA TaskTypesImplied == TaskInv => TaskTypeOK
<1> SUFFICES ASSUME TaskInv PROVE TaskTypeOK
  OBVIOUS
<1>1. TypeOK
  BY TypedImplies DEF TaskInv
<1>2. ops \in Nat /\ MaxOps \in Nat /\ ops <= MaxOps
  BY BoundAssumption DEF TaskInv, NetInv, Typed
<1>3. subItems \in [Entities -> 0..MaxOps] /\ unsubItems \in [Entities -> 0..MaxOps]
  <2>1. subItems \in [Entities -> Nat] /\ unsubItems \in [Entities -> Nat]
    BY DEF TaskInv, TaskTyped
  <2>2. ASSUME NEW e \in Entities PROVE subItems[e] \in 0..MaxOps /\ unsubItems[e] \in 0..MaxOps
    <3>1. PICK i \in Nat, j \in Nat : i = subItems[e] /\ j = unsubItems[e] /\ i <= ops /\ j <= ops
      BY <2>1 DEF TaskInv, TaskTyped
    <3>2. QED BY <1>2, <3>1
  <2>3. QED BY <2>1, <2>2
<1>4. QED BY <1>1, <1>3 DEF TaskInv, TaskTyped, TaskTypeOK, Stages

\* A setter that reports success while its component was never set would be
\* untouched, and an untouched setter has failed.
LEMMA TruthImplied == TaskInv => SetterTruthful
<1> SUFFICES ASSUME TaskInv, NEW t \in Tasks, Kind[t] = "setter", stage[t] = "done", ok[t], calm,
                    \A u \in Tasks \ {t} : Kind[u] = "setter" /\ TaskKey[u] = TaskKey[t] => stage[u] = "idle",
                    ~applied[t]
             PROVE  FALSE
  BY DEF SetterTruthful
<1>1. Untouched(t)
  BY DEF Untouched
<1>2. Still(t)
  BY <1>1 DEF TaskInv, UntouchedStill
<1>3. QED BY <1>2 DEF Still

\* The client's state stays in its types (TaskTypeOK): a task waits for
\* components exactly while it is fetching, and the items of the core stack
\* client never outnumber the calls.
THEOREM TaskTypes == TaskSpec => []TaskTypeOK
  BY TaskInvInit, TaskInvStep, TaskTypesImplied, PTL DEF TaskSpec

\* The only setter of a component that reports success while modules and other
\* clients are silent has set it (SetterTruthful), although its actors take any
\* answer about their component for theirs.
THEOREM SettersTruthful == TaskSpec => []SetterTruthful
  BY TaskInvInit, TaskInvStep, TruthImplied, PTL DEF TaskSpec

\* With the tasks of a client too replicas converge, the storage follows the
\* modules, and no subscription outlives its entity.
THEOREM TaskSystemConverges ==
  TaskSpec => [](ReplicaConverges /\ StorageFollowsModules /\ NoSneakingSubscription)
<1>1. TaskInv => ReplicaConverges /\ StorageFollowsModules /\ NoSneakingSubscription
  BY FreshImplies, FollowsImplies DEF TaskInv, NetInv, SubscriptionInv
<1>2. QED BY <1>1, TaskInvInit, TaskInvStep, PTL DEF TaskSpec
=============================================================================
