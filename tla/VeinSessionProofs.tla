-------------------------- MODULE VeinSessionProofs --------------------------
(***************************************************************************)
(* Proofs that the storage settles on the running session and that clients *)
(* always see the empty session between two others, for every number of    *)
(* sessions, names and requests.                                           *)
(*                                                                         *)
(* What the storage shows depends on the session notifications that are    *)
(* still queued, so the inductive invariant reads the queue: the stored    *)
(* session and the queued ones form a chain whose last link is the session *)
(* that runs (Settled) and of whose neighbours one is always the empty     *)
(* session unless they are the same (Stepwise).                            *)
(***************************************************************************)
EXTENDS VeinSession, SequenceTheorems, TLAPS

Events == Requests \cup Notifications

\* The session clients have to see in the end.
Running == IF loading = NoSession THEN currentSession ELSE NoSession

\* Links of the chain: link 0 is the stored session, the others are queued.
IsSession(e) == ~e.trans /\ e.comp = "Session"
Link(q, i) == i = 0 \/ IsSession(q[i])
Shown(q, s, i) == IF i = 0 THEN s ELSE q[i].val

Settled(q, s, x) ==
  \A i \in 0..Len(q) :
    Link(q, i) /\ (\A k \in (i + 1)..Len(q) : ~IsSession(q[k])) => Shown(q, s, i) = x

Stepwise(q, s) ==
  \A i \in 0..Len(q), j \in 1..Len(q) :
    i < j /\ Link(q, i) /\ Link(q, j) /\ (\A k \in (i + 1)..(j - 1) : ~IsSession(q[k]))
      => Shown(q, s, i) = Shown(q, s, j) \/ NoSession \in {Shown(q, s, i), Shown(q, s, j)}

Chain(q, s, x) == Settled(q, s, x) /\ Stepwise(q, s)

SessionInv ==
  /\ TypeOK
  /\ sessionReady \in BOOLEAN
  /\ Chain(queue, stored.Session, Running)

-----------------------------------------------------------------------------
(* The queue                                                               *)

\* What an event of each kind carries.
LEMMA EventFields ==
  ASSUME NEW e \in Events
  PROVE  /\ e.comp \in Components
         /\ IsSession(e) => e.val \in Sessions \cup {NoSession}
         /\ ~e.trans /\ e.comp = "XSession" => e.val \in XNames \cup {Invalid}
         /\ e.comp = "DevMode" /\ (~e.trans \/ e.cmd = "SET") => e.val \in BOOLEAN
         /\ e.comp = "ModulesPaused" => e.trans
         /\ e.comp = "ModulesPaused" /\ e.cmd = "SET" => e.val \in BOOLEAN
         /\ e.trans /\ e.comp = "XSession" /\ e.cmd = "SET" =>
              e.val \in XNames /\ e.old \in XNames \cup {Invalid}
         /\ e.trans /\ e.comp = "Session" /\ e.cmd = "SET" => e.val \in Names
<1>1. CASE e \in Requests
  BY <1>1 DEF Requests, ClientSet, ClientFetch, Components, IsSession
<1>2. CASE e \in Notifications
  BY <1>2, RequestBound DEF Notifications, Notify, Components, IsSession
<1>3. QED BY <1>1, <1>2 DEF Events

\* Events other than session notifications do not touch the chain.
LEMMA AppendOther ==
  ASSUME NEW q \in Seq(Events), NEW e \in Events, ~IsSession(e),
         NEW s, NEW x, Chain(q, s, x)
  PROVE  Append(q, e) \in Seq(Events) /\ Chain(Append(q, e), s, x)
<1> DEFINE r == Append(q, e)
<1>1. /\ r \in Seq(Events) /\ Len(r) = Len(q) + 1 /\ Len(q) \in Nat
      /\ r[Len(q) + 1] = e /\ \A i \in 1..Len(q) : r[i] = q[i]
  OBVIOUS
<1> HIDE DEF r
<1>2. \A i \in 0..Len(r) : Link(r, i) =>
        i \in 0..Len(q) /\ Link(q, i) /\ Shown(r, s, i) = Shown(q, s, i)
  BY <1>1 DEF Link, Shown
<1>3. Settled(r, s, x)
  BY <1>1, <1>2 DEF Chain, Settled
<1>4. Stepwise(r, s)
  BY <1>1, <1>2 DEF Chain, Stepwise
<1>5. QED BY <1>1, <1>3, <1>4 DEF Chain, r

\* A session notification is linked to the last one, which shows what ran
\* before.
LEMMA AppendSession ==
  ASSUME NEW q \in Seq(Events), NEW s, NEW x, NEW v \in Sessions \cup {NoSession},
         NoSession \in {x, v}, Chain(q, s, x)
  PROVE  /\ Append(q, Notify("Session", v)) \in Seq(Events)
         /\ Chain(Append(q, Notify("Session", v)), s, v)
<1> DEFINE e == Notify("Session", v)
           r == Append(q, e)
<1>1. e \in Events /\ IsSession(e) /\ e.val = v
  BY DEF Events, Notifications, Notify, IsSession
<1> HIDE DEF e
<1>2. /\ r \in Seq(Events) /\ Len(r) = Len(q) + 1 /\ Len(q) \in Nat
      /\ r[Len(q) + 1] = e /\ \A i \in 1..Len(q) : r[i] = q[i]
  BY <1>1
<1> HIDE DEF r
<1>3. \A i \in 0..Len(q) : (Link(r, i) <=> Link(q, i)) /\ Shown(r, s, i) = Shown(q, s, i)
  BY <1>2 DEF Link, Shown
<1>4. Settled(r, s, v)
  BY <1>1, <1>2 DEF Settled, Shown
<1>5. Stepwise(r, s)
  <2> SUFFICES ASSUME NEW i \in 0..Len(r), NEW j \in 1..Len(r), i < j, Link(r, i), Link(r, j),
                      \A k \in (i + 1)..(j - 1) : ~IsSession(r[k])
               PROVE  Shown(r, s, i) = Shown(r, s, j) \/ NoSession \in {Shown(r, s, i), Shown(r, s, j)}
    BY DEF Stepwise
  <2>1. CASE j \in 1..Len(q)
    BY <2>1, <1>2, <1>3 DEF Chain, Stepwise
  <2>2. CASE j = Len(q) + 1
    <3>1. Shown(r, s, i) = x
      BY <2>2, <1>2, <1>3 DEF Chain, Settled
    <3>2. Shown(r, s, j) = v
      BY <2>2, <1>1, <1>2 DEF Shown
    <3>3. QED BY <3>1, <3>2
  <2>3. QED BY <2>1, <2>2, <1>2
<1>6. QED BY <1>2, <1>4, <1>5 DEF Chain, r, e

\* Storing the first event moves the chain on by one link, taking any other
\* event from the queue leaves it alone.
LEMMA TailChain ==
  ASSUME NEW q \in Seq(Events), q # <<>>, NEW s, NEW x, Chain(q, s, x)
  PROVE  /\ Tail(q) \in Seq(Events)
         /\ Chain(Tail(q), IF IsSession(Head(q)) THEN Head(q).val ELSE s, x)
<1> DEFINE r == Tail(q)
           t == IF IsSession(Head(q)) THEN Head(q).val ELSE s
           at(i) == IF i = 0 /\ ~IsSession(Head(q)) THEN 0 ELSE i + 1
<1>1. /\ r \in Seq(Events) /\ Len(q) = Len(r) + 1 /\ Len(r) \in Nat
      /\ q[1] = Head(q) /\ \A i \in 1..Len(r) : r[i] = q[i + 1]
  BY HeadTailProperties
<1> HIDE DEF r
<1>2. \A i \in 0..Len(r) : /\ at(i) \in 0..Len(q)
                           /\ Link(r, i) => Link(q, at(i))
                           /\ Shown(r, t, i) = Shown(q, s, at(i))
  BY <1>1 DEF Link, Shown
<1>3. ASSUME NEW i \in 0..Len(r), NEW n \in 0..Len(r),
             \A k \in (i + 1)..n : ~IsSession(r[k])
      PROVE  \A k \in (at(i) + 1)..(n + 1) : ~IsSession(q[k])
  <2> SUFFICES ASSUME NEW k \in (at(i) + 1)..(n + 1) PROVE ~IsSession(q[k])
    OBVIOUS
  <2>1. CASE k = 1
    BY <2>1, <1>1
  <2>2. CASE k # 1
    <3>1. k - 1 \in (i + 1)..n
      BY <2>2
    <3>2. k - 1 \in 1..Len(r) /\ q[k] = r[k - 1]
      BY <3>1, <1>1
    <3>3. QED BY <3>1, <3>2, <1>3
  <2>3. QED BY <2>1, <2>2
<1> HIDE DEF t, at
<1>4. Settled(r, t, x)
  <2> SUFFICES ASSUME NEW i \in 0..Len(r), Link(r, i),
                      \A k \in (i + 1)..Len(r) : ~IsSession(r[k])
               PROVE  Shown(r, t, i) = x
    BY DEF Settled
  <2>1. \A k \in (at(i) + 1)..(Len(r) + 1) : ~IsSession(q[k])
    BY <1>1, <1>3
  <2>2. Shown(q, s, at(i)) = x
    BY <2>1, <1>1, <1>2 DEF Chain, Settled
  <2>3. QED BY <2>2, <1>2
<1>5. Stepwise(r, t)
  <2> SUFFICES ASSUME NEW i \in 0..Len(r), NEW j \in 1..Len(r), i < j, Link(r, i), Link(r, j),
                      \A k \in (i + 1)..(j - 1) : ~IsSession(r[k])
               PROVE  Shown(r, t, i) = Shown(r, t, j) \/ NoSession \in {Shown(r, t, i), Shown(r, t, j)}
    BY DEF Stepwise
  <2>1. at(j) = j + 1 /\ at(i) < at(j) /\ at(j) \in 1..Len(q)
    BY <1>1 DEF at
  <2>2. \A k \in (at(i) + 1)..(at(j) - 1) : ~IsSession(q[k])
    <3>1. j - 1 \in 0..Len(r)
      BY <1>1
    <3>2. \A k \in (at(i) + 1)..((j - 1) + 1) : ~IsSession(q[k])
      BY <3>1, <1>3
    <3>3. QED BY <3>2, <2>1
  <2>3. QED BY <2>1, <2>2, <1>2 DEF Chain, Stepwise
<1>6. QED BY <1>1, <1>4, <1>5 DEF Chain, r, t

-----------------------------------------------------------------------------
(* The invariant                                                           *)

\* Before the first session nothing is queued and the empty session stored.
LEMMA SessionInitially == Init => SessionInv
<1> SUFFICES ASSUME Init PROVE SessionInv
  OBVIOUS
<1>1. TypeOK
  <2>1. sessionReady <=> loading = NoSession
    BY SessionAssumption DEF Init
  <2>2. stored \in StoredValues
    BY XSessionAssumption DEF Init, StoredValues
  <2>3. requests \in 0..MaxRequests
    BY RequestBound DEF Init
  <2>4. queue \in Seq(Requests \cup Notifications)
    BY DEF Init
  <2>5. currentSession \in Sessions \cup {NoSession} /\ loading \in Sessions \cup {NoSession}
    BY DEF Init
  <2>6. conf \in XSessions /\ modulesPaused \in BOOLEAN
    BY XSessionAssumption DEF Init
  <2>7. QED BY <2>1, <2>2, <2>3, <2>4, <2>5, <2>6 DEF TypeOK
<1>2. Running = NoSession /\ stored.Session = NoSession
  BY SessionAssumption DEF Init, Running
<1>3. Chain(<<>>, NoSession, NoSession)
  BY DEF Chain, Settled, Stepwise, Shown
<1>4. QED BY <1>1, <1>2, <1>3 DEF Init, SessionInv

\* Requests of clients only join the queue.
LEMMA RequestKeeps ==
  ASSUME SessionInv, NEW r \in Requests, ClientRequest(r) PROVE SessionInv'
<1>1. r \in Events /\ ~IsSession(r)
  BY DEF Events, Requests, ClientSet, ClientFetch, IsSession
<1>2. queue \in Seq(Events)
  BY DEF SessionInv, TypeOK, Events
<1>3. queue' \in Seq(Events) /\ Chain(queue', stored.Session, Running)
  BY <1>1, <1>2, AppendOther DEF SessionInv, ClientRequest
<1>4. TypeOK'
  BY <1>3, RequestBound DEF SessionInv, ClientRequest, TypeOK, Events
<1>5. QED BY <1>3, <1>4 DEF SessionInv, ClientRequest, Running

\* The new session is announced behind the empty one that ended the old one.
LEMMA InitializeKeeps == ASSUME SessionInv, initializeEntity PROVE SessionInv'
<1> DEFINE q1 == Append(queue, Notify("Session", loading))
           q2 == Append(q1, Notify("XSession", conf))
           q3 == Append(q2, Notify("DevMode", DevMode))
<1>1. queue \in Seq(Events) /\ Running = NoSession /\ loading \in Sessions
  BY DEF SessionInv, TypeOK, Events, Running, initializeEntity
<1>2. q1 \in Seq(Events) /\ Chain(q1, stored.Session, loading)
  BY <1>1, AppendSession DEF SessionInv
<1> HIDE DEF q1
<1>3. /\ Notify("XSession", conf) \in Events /\ ~IsSession(Notify("XSession", conf))
      /\ Notify("DevMode", DevMode) \in Events /\ ~IsSession(Notify("DevMode", DevMode))
  BY XSessionAssumption DEF SessionInv, TypeOK, Events, Notifications, Notify, IsSession
<1>4. q2 \in Seq(Events) /\ Chain(q2, stored.Session, loading)
  BY <1>2, <1>3, AppendOther
<1> HIDE DEF q2
<1>5. q3 \in Seq(Events) /\ Chain(q3, stored.Session, loading)
  BY <1>3, <1>4, AppendOther
<1>6. queue' = q3
  <2>1. \A a, b, c \in Events :
          queue \o <<a, b, c>> = Append(Append(Append(queue, a), b), c)
    BY <1>1
  <2>2. Notify("Session", loading) \in Events
    BY <1>1 DEF Events, Notifications
  <2>3. QED BY <2>1, <2>2, <1>3 DEF initializeEntity, q1, q2
<1> HIDE DEF q3
<1>7. TypeOK'
  BY <1>1, <1>5, <1>6 DEF SessionInv, initializeEntity, TypeOK, Events
<1>8. Running' = loading
  BY DEF initializeEntity, Running
<1>9. QED BY <1>5, <1>6, <1>7, <1>8 DEF SessionInv, initializeEntity

\* What every dispatch takes from the queue and puts there.
LEMMA DispatchQueue ==
  ASSUME SessionInv, queue # <<>>
  PROVE  /\ Head(queue) \in Events
         /\ consume(<<>>) => queue' = Tail(queue)
         /\ \A e \in Events : consume(<<e>>) => queue' = Append(Tail(queue), e)
<1>1. Head(queue) \in Events /\ Tail(queue) \in Seq(Events)
  BY HeadTailProperties DEF SessionInv, TypeOK, Events
<1>2. consume(<<>>) => queue' = Tail(queue)
  BY <1>1, ConcatEmptySeq DEF consume
<1>3. \A e \in Events : Tail(queue) \o <<e>> = Append(Tail(queue), e)
  BY <1>1
<1>4. QED BY <1>1, <1>2, <1>3 DEF consume

\* A request that is not about the session leaves the chain alone, whether or
\* not it is answered by a notification.
LEMMA DispatchOther ==
  ASSUME SessionInv, queue # <<>>, ~IsSession(Head(queue)),
         \/ consume(<<>>)
         \/ \E e \in Events : ~IsSession(e) /\ consume(<<e>>)
  PROVE  queue' \in Seq(Events) /\ Chain(queue', stored.Session, Running)
<1>1. queue \in Seq(Events)
  BY DEF SessionInv, TypeOK, Events
<1>2. Tail(queue) \in Seq(Events) /\ Chain(Tail(queue), stored.Session, Running)
  BY <1>1, TailChain DEF SessionInv
<1>3. CASE consume(<<>>)
  BY <1>2, <1>3, DispatchQueue
<1>4. CASE \E e \in Events : ~IsSession(e) /\ consume(<<e>>)
  BY <1>2, <1>4, DispatchQueue, AppendOther
<1>5. QED BY <1>3, <1>4

\* A notification reaches the storage: a session moves the chain on.
LEMMA NotificationKeeps == ASSUME SessionInv, dispatchNotification PROVE SessionInv'
<1> DEFINE e == Head(queue)
<1>1. queue # <<>> /\ queue \in Seq(Events)
  BY DEF SessionInv, TypeOK, Events, dispatchNotification
<1>2. e \in Events /\ queue' = Tail(queue)
  BY <1>1, DispatchQueue DEF dispatchNotification
<1>3. /\ queue' \in Seq(Events)
      /\ Chain(queue', IF IsSession(e) THEN e.val ELSE stored.Session, Running)
  BY <1>1, <1>2, TailChain DEF SessionInv
<1> HIDE DEF e
<1>4. ~e.trans /\ stored' = IF e.val = Invalid THEN stored ELSE [stored EXCEPT ![e.comp] = e.val]
  BY DEF dispatchNotification, store, e
<1>5. stored'.Session = IF IsSession(e) THEN e.val ELSE stored.Session
  BY <1>2, <1>4, EventFields, InvalidAssumption DEF SessionInv, TypeOK, StoredValues, IsSession, Components
<1>6. stored' \in StoredValues
  BY <1>2, <1>4, EventFields DEF SessionInv, TypeOK, StoredValues, IsSession, Components
<1>7. TypeOK'
  BY <1>3, <1>6 DEF SessionInv, dispatchNotification, TypeOK, Events
<1>8. Running' = Running
  BY DEF dispatchNotification, Running
<1>9. QED BY <1>3, <1>5, <1>7, <1>8 DEF SessionInv, dispatchNotification

\* A session change queues the empty session, unless the request is ignored.
LEMMA SessionSetKeeps == ASSUME SessionInv, handleVeinSessionSet PROVE SessionInv'
<1> DEFINE s == JsonName[Head(queue).val]
<1>1. queue # <<>> /\ queue \in Seq(Events) /\ ~IsSession(Head(queue))
  BY DEF SessionInv, TypeOK, Events, handleVeinSessionSet, Transaction, IsSession
<1>2. CASE s \in Sessions /\ s # currentSession /\ sessionReady
  <2>1. /\ currentSession' = s /\ consume(<<Notify("Session", NoSession)>>)
        /\ loading' = s /\ sessionReady' = FALSE
    BY <1>2 DEF handleVeinSessionSet
  <2>2. Tail(queue) \in Seq(Events) /\ Chain(Tail(queue), stored.Session, Running)
    BY <1>1, TailChain DEF SessionInv
  <2>3. Notify("Session", NoSession) \in Events
    BY DEF Events, Notifications
  <2>4. queue' \in Seq(Events) /\ Chain(queue', stored.Session, NoSession)
    BY <2>1, <2>2, <2>3, <1>1, DispatchQueue, AppendSession
  <2>5. Running' = NoSession /\ (sessionReady' <=> loading' = NoSession)
    BY <2>1, <1>2, SessionAssumption DEF Running
  <2>6. TypeOK'
    BY <2>1, <2>4, <2>5, <1>2 DEF SessionInv, handleVeinSessionSet, TypeOK, Events
  <2>7. QED BY <2>1, <2>4, <2>5, <2>6 DEF SessionInv, handleVeinSessionSet
<1>3. CASE ~(s \in Sessions /\ s # currentSession /\ sessionReady)
  <2>1. consume(<<>>) /\ UNCHANGED <<currentSession, loading, sessionReady>>
    BY <1>3 DEF handleVeinSessionSet
  <2>2. queue' \in Seq(Events) /\ Chain(queue', stored.Session, Running)
    BY <2>1, <1>1, DispatchOther
  <2>3. TypeOK'
    BY <2>1, <2>2 DEF SessionInv, handleVeinSessionSet, TypeOK, Events
  <2>4. QED BY <2>1, <2>2, <2>3 DEF SessionInv, handleVeinSessionSet, Running
<1>4. QED BY <1>2, <1>3

\* Storing a component other than the session leaves the shown session alone.
LEMMA StoreOther ==
  ASSUME SessionInv, NEW c \in Components \ {"Session"}, NEW v, store(c, v),
         v = Invalid \/ v \in (IF c = "XSession" THEN XNames ELSE BOOLEAN)
  PROVE  stored' \in StoredValues /\ stored'.Session = stored.Session
BY DEF SessionInv, TypeOK, StoredValues, Components, store

\* A change of the XSession, whatever fails.
LEMMA XSessionSetKeeps == ASSUME SessionInv, handleXSessionSet PROVE SessionInv'
<1> DEFINE e == Head(queue)
           back == Notify("XSession", e.old)
<1>1. queue # <<>> /\ ~IsSession(e)
  BY DEF handleXSessionSet, Transaction, IsSession
<1>2. e.val \in XNames /\ e.old \in XNames \cup {Invalid}
  BY <1>1, DispatchQueue, EventFields DEF handleXSessionSet, Transaction, First
<1>3. back \in Events /\ ~IsSession(back)
  BY <1>2 DEF Events, Notifications, Notify, IsSession
<1>4. conf' \in XSessions
  BY DEF handleXSessionSet, setCurrentXSession, SessionInv, TypeOK
<1>5. \/ store("XSession", e.val) /\ consume(<<>>)
      \/ consume(<<back>>) /\ UNCHANGED stored
  BY DEF handleXSessionSet, acceptXSession, refuseXSession
<1>6. stored' \in StoredValues /\ stored'.Session = stored.Session
  <2>1. CASE store("XSession", e.val)
    BY <2>1, <1>2, StoreOther DEF Components
  <2>2. CASE UNCHANGED stored
    BY <2>2 DEF SessionInv, TypeOK
  <2>3. QED BY <2>1, <2>2, <1>5
<1>7. queue' \in Seq(Events) /\ Chain(queue', stored.Session, Running)
  BY <1>1, <1>3, <1>5, DispatchOther
<1>8. UNCHANGED <<currentSession, sessionReady, loading, modulesPaused, requests>>
  BY DEF handleXSessionSet
<1> HIDE DEF e, back
<1>9. TypeOK'
  BY <1>4, <1>6, <1>7, <1>8 DEF SessionInv, TypeOK, Events
<1>10. QED BY <1>6, <1>7, <1>8, <1>9 DEF SessionInv, Running

\* Pause state, developer mode and fetches.
LEMMA OthersKeep ==
  ASSUME SessionInv, setModulesPaused \/ setDevMode \/ sendNotificationForScpiModule
  PROVE  SessionInv'
<1> DEFINE e == Head(queue)
<1>1. queue # <<>> /\ ~IsSession(e) /\ e \in Events
  BY DispatchQueue DEF setModulesPaused, setDevMode, sendNotificationForScpiModule, Transaction, IsSession
<1>2. UNCHANGED <<currentSession, sessionReady, loading, conf, requests>>
  BY DEF setModulesPaused, setDevMode, sendNotificationForScpiModule
<1>3. /\ stored' \in StoredValues /\ stored'.Session = stored.Session
      /\ modulesPaused' \in BOOLEAN
  <2>1. CASE setModulesPaused
    <3>1. e.val \in BOOLEAN
      BY <2>1, <1>1, EventFields DEF setModulesPaused, First
    <3>2. QED BY <2>1, <3>1, StoreOther DEF setModulesPaused, Components
  <2>2. CASE setDevMode
    <3>1. e.val \in BOOLEAN
      BY <2>2, <1>1, EventFields DEF setDevMode, First
    <3>2. QED BY <2>2, <3>1, StoreOther DEF setDevMode, Components, SessionInv, TypeOK
  <2>3. CASE sendNotificationForScpiModule
    BY <2>3 DEF sendNotificationForScpiModule, SessionInv, TypeOK
  <2>4. QED BY <2>1, <2>2, <2>3
<1>4. queue' \in Seq(Events) /\ Chain(queue', stored.Session, Running)
  <2>1. /\ Notify("XSession", conf) \in Events
        /\ ~IsSession(Notify("XSession", conf))
    BY XSessionAssumption DEF SessionInv, TypeOK, Events, Notifications, Notify, IsSession
  <2>2. consume(<<>>) \/ consume(<<Notify("XSession", conf)>>)
    BY DEF setModulesPaused, setDevMode, sendNotificationForScpiModule
  <2>3. QED BY <1>1, <2>1, <2>2, DispatchOther
<1> HIDE DEF e
<1>5. TypeOK'
  BY <1>2, <1>3, <1>4 DEF SessionInv, TypeOK, Events
<1>6. QED BY <1>2, <1>3, <1>4, <1>5 DEF SessionInv, Running

-----------------------------------------------------------------------------
(* Theorems                                                                *)

\* The inductive invariant of the system module.
THEOREM SessionInvariant == Spec => []SessionInv
<1>1. SessionInv /\ [Next]_vars => SessionInv'
  <2> SUFFICES ASSUME SessionInv, [Next]_vars PROVE SessionInv'
    OBVIOUS
  <2>1. CASE UNCHANGED vars
    BY <2>1 DEF vars, SessionInv, TypeOK, Running
  <2>2. CASE \E r \in Requests : ClientRequest(r)
    BY <2>2, RequestKeeps
  <2>3. CASE Dispatch
    BY <2>3, NotificationKeeps, SessionSetKeeps, XSessionSetKeeps, OthersKeep DEF Dispatch
  <2>4. QED BY <2>1, <2>2, <2>3, InitializeKeeps DEF Next
<1>2. QED BY <1>1, SessionInitially, PTL DEF Spec

\* The system module keeps its types, and m_sessionReady is set exactly when
\* no session is being built, so a session can always be changed again.
THEOREM SessionTypes == Spec => []TypeOK
BY SessionInvariant, PTL DEF SessionInv

\* Once all events are handled the storage shows the session that runs.
THEOREM StorageSettles == Spec => []SessionSettles
<1>1. SessionInv => SessionSettles
  <2> SUFFICES ASSUME SessionInv, queue = <<>> PROVE stored.Session = Running
    BY DEF SessionSettles, Running
  <2>1. Settled(<<>>, stored.Session, Running)
    BY DEF SessionInv, Chain
  <2>2. QED BY <2>1 DEF Settled, Link, Shown
<1>2. QED BY <1>1, SessionInvariant, PTL

\* Clients see the empty session between two others.
THEOREM EmptySessionBetween == Spec => SessionLeftFirst
<1>1. SessionInv /\ [Next]_vars =>
        [stored'.Session # stored.Session => NoSession \in {stored.Session, stored'.Session}]_vars
  <2> SUFFICES ASSUME SessionInv, Next, stored'.Session # stored.Session
               PROVE  NoSession \in {stored.Session, stored'.Session}
    OBVIOUS
  <2>1. CASE dispatchNotification
    <3> DEFINE e == Head(queue)
    <3>1. queue \in Seq(Events) /\ queue # <<>> /\ e \in Events /\ e = queue[1]
      BY <2>1, DispatchQueue DEF SessionInv, TypeOK, Events, dispatchNotification
    <3>2. IsSession(e) /\ stored'.Session = e.val
      BY <2>1, <3>1, EventFields
      DEF dispatchNotification, store, SessionInv, TypeOK, StoredValues, IsSession, Components
    <3>3. 0 \in 0..Len(queue) /\ 1 \in 1..Len(queue)
      BY <3>1
    <3>4. QED BY <3>1, <3>2, <3>3 DEF SessionInv, Chain, Stepwise, Link, Shown
  <2>2. CASE handleXSessionSet \/ setModulesPaused \/ setDevMode
    BY <2>2 DEF handleXSessionSet, acceptXSession, refuseXSession, setModulesPaused, setDevMode,
                store, SessionInv, TypeOK, StoredValues
  <2>3. CASE ~(dispatchNotification \/ handleXSessionSet \/ setModulesPaused \/ setDevMode)
    BY <2>3 DEF Next, Dispatch, ClientRequest, initializeEntity, handleVeinSessionSet,
                sendNotificationForScpiModule
  <2>4. QED BY <2>1, <2>2, <2>3
<1>2. QED BY <1>1, SessionInvariant, PTL DEF Spec, SessionLeftFirst

\* The module manager builds one session at a time.
THEOREM BuiltOneByOne == Spec => OneSessionAtATime
<1>1. SessionInv /\ [Next]_vars => [loading # NoSession => loading' \in {loading, NoSession}]_vars
  BY DEF SessionInv, TypeOK, Next, Dispatch, ClientRequest, initializeEntity, dispatchNotification,
         handleVeinSessionSet, handleXSessionSet, setModulesPaused, setDevMode,
         sendNotificationForScpiModule, vars
<1>2. QED BY <1>1, SessionInvariant, PTL DEF Spec, OneSessionAtATime
=============================================================================
