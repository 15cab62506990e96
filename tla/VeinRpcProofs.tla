---------------------------- MODULE VeinRpcProofs ----------------------------
(***************************************************************************)
(* Proofs about remote procedure calls, for every number of clients, calls *)
(* and procedures.                                                         *)
(*                                                                         *)
(* A call travels as an event, a queued slot and a worker until it runs:   *)
(* the inductive invariant follows it. It says whose call every message,   *)
(* slot and worker is (Attributed), that a success on its way is about a   *)
(* call that ran (Truthful), that a call that was not cancelled is in one  *)
(* of these places at most (Single), and that what a worker has read of    *)
(* m_pendingRpcHash is true until it writes (Guarded).                     *)
(***************************************************************************)
EXTENDS VeinRpc, SequenceTheorems, WellFoundedInduction, TLAPS

CallEvents == [ev : {"call"}, id : Calls, name : Names, params : BOOLEAN, again : BOOLEAN]
Slots == [ev : {"slot"}, id : Calls, proc : Procs, params : BOOLEAN, again : BOOLEAN]
Results == [ev : {"result"}, id : Calls, code : Codes]
Errors == [ev : {"error"}, id : Calls]
Introspections == [ev : {"introspection"}]
PeerEvents == [ev : {"subscribe", "unsubscribe", "disconnected"}, peer : Peers]
Events == CallEvents \cup Slots \cup Results \cup Errors \cup PeerEvents
Replies == Results \cup Errors \cup Introspections
Workers == [call : Slots, stage : Stages, hash : SUBSET Calls]

Elems(q) == {q[i] : i \in DOMAIN q}

\* The server has still to execute the call of e.
IsToken(e, id) == e.ev \in {"call", "slot"} /\ e.id = id
NoToken(q, id) == \A e \in Elems(q) : ~IsToken(e, id)
OneToken(q, id) ==
  \A i, j \in DOMAIN q : IsToken(q[i], id) /\ IsToken(q[j], id) => i = j

\* A procedure the name of the call selects ran for it.
Ran(id) == \E pr \in Elems(ran[id]) : <<pr, called[id]>> \in Matches

Typed ==
  /\ TypeOK
  /\ queue \in Seq(Events) /\ down \in [Peers -> Seq(Replies)]
  /\ workers \subseteq Workers /\ owed \subseteq Slots

\* A client waits for exactly the calls without an outcome.
Waiting ==
  /\ \A id \in Calls : id \in calling <=> outcome[id] = "waiting"
  /\ \A id \in Calls : outcome[id] = "none" => id \notin cancelled /\ ran[id] = <<>>
  /\ \A id \in Calls : outcome[id] # "none" => called[id] \in Names

SlotOf(m) == outcome[m.id] # "none" /\ <<m.proc, called[m.id]>> \in Matches
Attributed ==
  /\ \A e \in Elems(queue) :
       /\ e.ev = "call" => outcome[e.id] # "none" /\ e.name = called[e.id]
       /\ e.ev = "slot" => SlotOf(e)
  /\ \A w \in workers : SlotOf(w.call)
  /\ \A m \in owed : SlotOf(m)

Honest(e) == e.ev = "result" /\ e.code = "success" => Ran(e.id)
Truthful ==
  /\ \A e \in Elems(queue) : Honest(e)
  /\ \A p \in Peers : \A e \in Elems(down[p]) : Honest(e)
  /\ \A m \in owed : Ran(m.id)
  /\ \A w \in workers : w.stage # "queued" /\ callOk(w.call) => Ran(w.call.id)
  /\ \A id \in Calls : outcome[id] = "success" => Ran(id)

Single ==
  \A id \in Calls \ cancelled :
    /\ OneToken(queue, id)
    /\ ran[id] # <<>> => NoToken(queue, id)
    /\ \A w \in workers : w.call.id = id =>
         NoToken(queue, id) /\ (w.stage = "queued" => ran[id] = <<>>)
    /\ \A v, w \in workers : v.call.id = id /\ w.call.id = id => v = w
    /\ Len(ran[id]) <= 1

\* m_mutex: one worker of a procedure at a time, so that what it has read of
\* m_pendingRpcHash is still true when it writes.
Guarded ==
  /\ \A v, w \in workers :
       v.stage # "queued" /\ w.stage # "queued" /\ v.call.proc = w.call.proc => v = w
  /\ \A w \in workers : w.stage = "invoked" => w.hash = pendingRpc[w.call.proc]

\* Who still answers the call id of a procedure.
Owed(pr, id) ==
  \/ \E m \in owed : m.proc = pr /\ m.id = id
  \/ pr \in Simplified /\ Queued(pr, id)
  \/ \E w \in workers : w.stage = "remembered" /\ w.call.proc = pr /\ w.call.id = id

RpcInv == Typed /\ Waiting /\ Attributed /\ Truthful /\ Single /\ Guarded /\ PendingIsOwed

-----------------------------------------------------------------------------
(* The queue                                                               *)

\* An event of a kind has the fields of that kind.
LEMMA EventKinds ==
  ASSUME NEW e \in Events
  PROVE  /\ e.ev = "call" => e \in CallEvents
         /\ e.ev = "slot" => e \in Slots
         /\ e.ev = "result" => e \in Results
         /\ e.ev = "error" => e \in Errors
         /\ e.ev \in {"subscribe", "unsubscribe", "disconnected"} => e \in PeerEvents
  BY DEF Events, CallEvents, Slots, Results, Errors, PeerEvents

LEMMA ReplyKinds ==
  ASSUME NEW e \in Replies
  PROVE  /\ e.ev = "result" => e \in Results
         /\ e.ev = "error" => e \in Errors
         /\ e.ev \in {"result", "error", "introspection"}
  BY DEF Replies, Results, Errors, Introspections

LEMMA ElemsTyped ==
  ASSUME NEW S, NEW q \in Seq(S), NEW e \in Elems(q)
  PROVE  e \in S
  BY DEF Elems

\* Posting an event adds it behind the others.
LEMMA Posted ==
  ASSUME NEW S, NEW q \in Seq(S), NEW e \in S
  PROVE  /\ Append(q, e) \in Seq(S) /\ Append(q, e) # <<>>
         /\ Elems(Append(q, e)) = Elems(q) \cup {e}
         /\ Len(Append(q, e)) = Len(q) + 1
<1> DEFINE r == Append(q, e)
<1>1. /\ r \in Seq(S) /\ r # <<>> /\ Len(r) = Len(q) + 1 /\ Len(q) \in Nat
      /\ DOMAIN r = 1..Len(r) /\ DOMAIN q = 1..Len(q)
      /\ r[Len(q) + 1] = e /\ \A i \in 1..Len(q) : r[i] = q[i]
  BY AppendProperties
<1> HIDE DEF r
<1>2. \A x \in Elems(r) : x \in Elems(q) \cup {e}
  BY <1>1 DEF Elems
<1>3. \A x \in Elems(q) \cup {e} : x \in Elems(r)
  BY <1>1 DEF Elems
<1>4. QED BY <1>1, <1>2, <1>3 DEF r

\* Taking the first event keeps the others.
LEMMA Taken ==
  ASSUME NEW S, NEW q \in Seq(S), q # <<>>
  PROVE  /\ Tail(q) \in Seq(S) /\ Head(q) \in S
         /\ Elems(q) = Elems(Tail(q)) \cup {Head(q)}
<1> DEFINE r == Tail(q)
<1>1. /\ r \in Seq(S) /\ Len(q) = Len(r) + 1 /\ Len(r) \in Nat /\ Head(q) \in S
      /\ DOMAIN r = 1..Len(r) /\ DOMAIN q = 1..Len(q)
      /\ q[1] = Head(q) /\ \A i \in 1..Len(r) : r[i] = q[i + 1]
  BY HeadTailProperties
<1> HIDE DEF r
<1>2. ASSUME NEW x \in Elems(q) PROVE x \in Elems(r) \cup {Head(q)}
  <2>1. PICK i \in 1..Len(q) : x = q[i]
    BY <1>1 DEF Elems
  <2>2. CASE i = 1
    BY <2>1, <2>2, <1>1
  <2>3. CASE i # 1
    <3>1. i - 1 \in 1..Len(r) /\ r[i - 1] = x
      BY <2>1, <2>3, <1>1
    <3>2. QED BY <3>1, <1>1 DEF Elems
  <2>4. QED BY <2>2, <2>3
<1>3. ASSUME NEW x \in Elems(r) PROVE x \in Elems(q)
  <2>1. PICK i \in 1..Len(r) : x = r[i]
    BY <1>1 DEF Elems
  <2>2. i + 1 \in DOMAIN q /\ q[i + 1] = x
    BY <2>1, <1>1
  <2>3. QED BY <2>2 DEF Elems
<1>4. Head(q) \in Elems(q)
  <2>1. 1 \in DOMAIN q
    BY <1>1
  <2>2. QED BY <2>1, <1>1 DEF Elems
<1>5. QED BY <1>1, <1>2, <1>3, <1>4 DEF r

\* A queue has one event to execute a call if it had none before it was posted.
LEMMA PostedToken ==
  ASSUME NEW S, NEW q \in Seq(S), NEW e \in S, NEW id, OneToken(q, id),
         ~IsToken(e, id) \/ NoToken(q, id)
  PROVE  OneToken(Append(q, e), id)
<1> DEFINE r == Append(q, e)
<1>1. /\ Len(r) = Len(q) + 1 /\ Len(q) \in Nat
      /\ DOMAIN r = 1..Len(r) /\ DOMAIN q = 1..Len(q)
      /\ r[Len(q) + 1] = e /\ \A i \in 1..Len(q) : r[i] = q[i]
  BY AppendProperties
<1> HIDE DEF r
<1> SUFFICES ASSUME NEW i \in DOMAIN r, NEW j \in DOMAIN r, IsToken(r[i], id), IsToken(r[j], id)
             PROVE  i = j
  BY DEF OneToken, r
<1>2. CASE ~IsToken(e, id)
  <2>1. i \in DOMAIN q /\ j \in DOMAIN q
    BY <1>1, <1>2
  <2>2. QED BY <2>1, <1>1 DEF OneToken
<1>3. CASE NoToken(q, id)
  <2>1. \A k \in DOMAIN q : ~IsToken(q[k], id)
    BY <1>3 DEF NoToken, Elems
  <2>2. i \notin DOMAIN q /\ j \notin DOMAIN q
    BY <1>1, <2>1
  <2>3. QED BY <1>1, <2>2
<1>4. QED BY <1>2, <1>3

\* Taking the only event to execute a call leaves none.
LEMMA TakenToken ==
  ASSUME NEW S, NEW q \in Seq(S), q # <<>>, NEW id, OneToken(q, id)
  PROVE  /\ OneToken(Tail(q), id)
         /\ IsToken(Head(q), id) => NoToken(Tail(q), id)
<1> DEFINE r == Tail(q)
<1>1. /\ Len(q) = Len(r) + 1 /\ Len(r) \in Nat
      /\ DOMAIN r = 1..Len(r) /\ DOMAIN q = 1..Len(q)
      /\ q[1] = Head(q) /\ \A i \in 1..Len(r) : r[i] = q[i + 1]
  BY HeadTailProperties
<1> HIDE DEF r
<1>2. \A i \in DOMAIN r : i + 1 \in DOMAIN q /\ r[i] = q[i + 1] /\ i + 1 # 1
  BY <1>1
<1>3. OneToken(r, id)
  <2> SUFFICES ASSUME NEW i \in DOMAIN r, NEW j \in DOMAIN r, IsToken(r[i], id), IsToken(r[j], id)
               PROVE  i = j
    BY DEF OneToken
  <2>1. i + 1 = j + 1
    BY <1>2 DEF OneToken
  <2>2. QED BY <2>1, <1>1
<1>4. IsToken(Head(q), id) => NoToken(r, id)
  <2> SUFFICES ASSUME IsToken(Head(q), id), NEW i \in DOMAIN r, IsToken(r[i], id) PROVE FALSE
    BY DEF NoToken, Elems
  <2>1. 1 \in DOMAIN q /\ IsToken(q[1], id)
    BY <1>1
  <2>2. QED BY <2>1, <1>2 DEF OneToken
<1>5. QED BY <1>3, <1>4 DEF r

LEMMA EmptyQueue ==
  /\ Elems(<<>>) = {}
  /\ \A id : NoToken(<<>>, id) /\ OneToken(<<>>, id)
  BY DEF Elems, NoToken, OneToken

\* What executes a call selects it.
LEMMA ChosenMatches ==
  ASSUME NEW name \in Names, Found(name) # {}
  PROVE  Chosen(name) \in Procs /\ <<Chosen(name), name>> \in Matches
<1> DEFINE T == {i \in DOMAIN ProcOrder : ProcOrder[i] \in Found(name)}
           Least(i) == /\ ProcOrder[i] \in Found(name)
                        /\ \A j \in DOMAIN ProcOrder : ProcOrder[j] \in Found(name) => i <= j
<1>1. DOMAIN ProcOrder \subseteq Nat
  BY ProcAssumption
<1>2. T \subseteq Nat /\ T # {}
  BY <1>1 DEF Found, Procs
<1>3. PICK i \in T : \A j \in T : ~(<<j, i>> \in OpToRel(<, Nat))
  <2> HIDE DEF T
  <2>1. QED BY <1>2, NatLessThanWellFounded, WFMin
<1>4. \A j \in T : ~(j < i)
  BY <1>2, <1>3 DEF OpToRel
<1>5. \E k \in DOMAIN ProcOrder : Least(k)
  <2>1. i \in DOMAIN ProcOrder /\ ProcOrder[i] \in Found(name)
    BY <1>3
  <2>2. ASSUME NEW j \in DOMAIN ProcOrder, ProcOrder[j] \in Found(name) PROVE i <= j
    <3>1. j \in T /\ i \in Nat /\ j \in Nat
      BY <2>1, <2>2, <1>1
    <3>2. QED BY <3>1, <1>4
  <2>3. QED BY <2>1, <2>2
<1>6. PICK k \in DOMAIN ProcOrder : Least(k) /\ Chosen(name) = ProcOrder[k]
  BY <1>5 DEF Chosen
<1>7. QED BY <1>6 DEF Found

\* A queued slot is one of the events.
LEMMA QueuedElem ==
  ASSUME NEW pr, NEW id
  PROVE  Queued(pr, id) <=> \E e \in Elems(queue) : e.ev = "slot" /\ e.proc = pr /\ e.id = id
  BY DEF Queued, Elems

LEMMA QueuedElemNext ==
  ASSUME NEW pr, NEW id
  PROVE  Queued(pr, id)' <=> \E e \in Elems(queue') : e.ev = "slot" /\ e.proc = pr /\ e.id = id
  BY DEF Queued, Elems

-----------------------------------------------------------------------------
(* The clients' steps                                                      *)

LEMMA InitInv == Init => RpcInv
<1> SUFFICES ASSUME Init PROVE RpcInv
  OBVIOUS
<1> USE DEF Init
<1>1. Typed
  BY CallerAssumption, InstanceAssumption DEF Typed, TypeOK, Outcomes, Pending, Codes
<1>2. Waiting
  BY DEF Waiting
<1>3. Attributed
  BY EmptyQueue DEF Attributed
<1>4. Truthful
  BY EmptyQueue DEF Truthful
<1>5. Single
  BY EmptyQueue DEF Single
<1>6. Guarded /\ PendingIsOwed
  BY DEF Guarded, PendingIsOwed
<1>7. QED BY <1>1, <1>2, <1>3, <1>4, <1>5, <1>6 DEF RpcInv

\* The first message of a call: nobody has heard of it before.
LEMMA GenerateInv ==
  ASSUME RpcInv, NEW id \in Calls, NEW name \in Names, NEW params \in BOOLEAN,
         generateEvent(id, name, params)
  PROVE  RpcInv'
<1> DEFINE e == Call(id, name, params, FALSE)
<1> USE DEF RpcInv
<1>0. /\ outcome[id] = "none"
      /\ calling' = calling \cup {id}
      /\ called' = [called EXCEPT ![id] = name]
      /\ outcome' = [outcome EXCEPT ![id] = "waiting"]
      /\ queue' = Append(queue, e)
      /\ UNCHANGED <<serverVars, netVars, mapVars, cancelled>>
  BY DEF generateEvent, post
<1>1. e \in Events /\ e.ev = "call" /\ e.id = id /\ e.name = name
  BY DEF Call, Events, CallEvents
<1> HIDE DEF e
<1>2. queue \in Seq(Events)
  BY DEF Typed
<1>3. /\ queue' \in Seq(Events) /\ Elems(queue') = Elems(queue) \cup {e}
  BY <1>0, <1>1, <1>2, Posted
<1>4. /\ \A x \in Elems(queue) : ~IsToken(x, id)
      /\ \A w \in workers : w.call.id # id
      /\ \A m \in owed : m.id # id
  BY <1>0 DEF IsToken, Attributed, SlotOf
<1>5. \A x \in Calls : x # id => outcome'[x] = outcome[x] /\ called'[x] = called[x]
  BY <1>0 DEF Typed, TypeOK
<1>6. outcome'[id] = "waiting" /\ called'[id] = name
  BY <1>0 DEF Typed, TypeOK
<1>7. Typed'
  BY <1>0, <1>1, <1>2, Posted, EventKinds DEF Typed, TypeOK, Outcomes, Pending, serverVars, netVars, mapVars
<1>8. Waiting'
  BY <1>0, <1>5, <1>6 DEF Waiting, serverVars
<1>9. Attributed'
  BY <1>0, <1>1, <1>2, <1>3, <1>4, <1>5, <1>6, ElemsTyped, EventKinds
  DEF Attributed, SlotOf, IsToken, serverVars, Typed, Slots, CallEvents
<1>10. Truthful'
  <2>1. \A x \in Calls : Ran(x) => Ran(x)' /\ x # id
    BY <1>0, <1>5, EmptyQueue DEF Ran, Waiting, serverVars
  <2>2. QED BY <1>0, <1>1, <1>2, <1>3, <1>5, <1>6, <2>1, ElemsTyped, EventKinds, ReplyKinds
            DEF Truthful, Honest, serverVars, netVars, Typed, Results, Slots, Workers
<1>11. Single'
  <2> SUFFICES ASSUME NEW x \in Calls \ cancelled
               PROVE  /\ OneToken(queue', x)
                      /\ ran[x] # <<>> => NoToken(queue', x)
                      /\ \A w \in workers : w.call.id = x =>
                           NoToken(queue', x) /\ (w.stage = "queued" => ran[x] = <<>>)
                      /\ \A v, w \in workers : v.call.id = x /\ w.call.id = x => v = w
                      /\ Len(ran[x]) <= 1
    BY <1>0 DEF Single, serverVars
  <2>1. OneToken(queue', x)
    BY <1>0, <1>1, <1>2, <1>4, PostedToken DEF Single, NoToken, IsToken
  <2>2. QED BY <2>1, <1>0, <1>1, <1>3, <1>4 DEF Single, NoToken, IsToken, Waiting
<1>12. Guarded'
  BY <1>0 DEF Guarded, serverVars
<1>13. PendingIsOwed'
  BY <1>0, <1>3, QueuedElem, QueuedElemNext DEF PendingIsOwed, serverVars
<1>14. QED BY <1>7, <1>8, <1>9, <1>10, <1>11, <1>12, <1>13

\* The message of a cancellation: the call is not among the ones that run once
\* from now on.
LEMMA CancelInv ==
  ASSUME RpcInv, NEW id \in Calls, cancelRPCInvokation(id)
  PROVE  RpcInv'
<1> DEFINE e == Call(id, called[id], FALSE, TRUE)
<1> USE DEF RpcInv
<1>0. /\ id \in calling
      /\ cancelled' = cancelled \cup {id}
      /\ queue' = Append(queue, e)
      /\ UNCHANGED <<serverVars, netVars, mapVars, calling, called, outcome>>
  BY DEF cancelRPCInvokation, post
<1>1. outcome[id] # "none" /\ called[id] \in Names
  BY <1>0 DEF Waiting
<1>2. e \in Events /\ e.ev = "call" /\ e.id = id /\ e.name = called[id]
  BY <1>1 DEF Call, Events, CallEvents
<1> HIDE DEF e
<1>3. queue \in Seq(Events)
  BY DEF Typed
<1>4. queue' \in Seq(Events) /\ Elems(queue') = Elems(queue) \cup {e}
  BY <1>0, <1>2, <1>3, Posted
<1>5. Typed'
  BY <1>0, <1>2, <1>4, ElemsTyped DEF Typed, TypeOK, Elems, serverVars, netVars, mapVars
<1>6. Waiting' /\ Attributed'
  BY <1>0, <1>1, <1>2, <1>4 DEF Waiting, Attributed, SlotOf, serverVars
<1>7. Truthful'
  BY <1>0, <1>2, <1>4 DEF Truthful, Honest, Ran, serverVars, netVars
<1>8. Single'
  BY <1>0, <1>2, <1>3, <1>4, PostedToken DEF Single, NoToken, IsToken, serverVars
<1>9. Guarded' /\ PendingIsOwed'
  BY <1>0, <1>4, QueuedElem, QueuedElemNext DEF Guarded, PendingIsOwed, serverVars
<1>10. QED BY <1>5, <1>6, <1>7, <1>8, <1>9

\* A time-out changes the outcome of one call that is waited for.
LEMMA TimeoutInv ==
  ASSUME RpcInv, NEW id \in Calls, timeout(id)
  PROVE  RpcInv'
<1> USE DEF RpcInv
<1>0. /\ id \in calling
      /\ calling' = calling \ {id}
      /\ outcome' = [outcome EXCEPT ![id] = "timeout"]
      /\ UNCHANGED <<queue, serverVars, netVars, mapVars, called, cancelled>>
  BY DEF timeout
<1>1. Typed'
  BY <1>0 DEF Typed, TypeOK, Outcomes, serverVars, netVars, mapVars
<1>2. Waiting'
  BY <1>0 DEF Typed, TypeOK, Waiting, serverVars
<1>3. Attributed'
  BY <1>0, ElemsTyped, EventKinds DEF Typed, TypeOK, Attributed, SlotOf, serverVars, Slots, CallEvents, Workers
<1>4. Truthful'
  BY <1>0 DEF Typed, TypeOK, Truthful, Honest, Ran, serverVars, netVars
<1>5. Single' /\ Guarded' /\ PendingIsOwed'
  BY <1>0 DEF Single, NoToken, Guarded, PendingIsOwed, Queued, serverVars
<1>6. QED BY <1>1, <1>2, <1>3, <1>4, <1>5

\* Events of peers are about no call.
LEMMA PeerEventPosted ==
  ASSUME RpcInv, NEW p \in Peers, NEW k \in {"subscribe", "unsubscribe", "disconnected"},
         queue' = Append(queue, [ev |-> k, peer |-> p])
  PROVE  /\ queue' \in Seq(Events)
         /\ Elems(queue') = Elems(queue) \cup {[ev |-> k, peer |-> p]}
         /\ \A id \in Calls : OneToken(queue, id) => OneToken(queue', id)
         /\ \A id \in Calls : NoToken(queue, id) => NoToken(queue', id)
<1> DEFINE e == [ev |-> k, peer |-> p]
<1>1. e \in Events /\ e.ev \notin {"call", "slot"}
  BY DEF Events, PeerEvents
<1> HIDE DEF e
<1>2. queue \in Seq(Events) /\ queue' = Append(queue, e)
  BY DEF RpcInv, Typed, e
<1>3. queue' \in Seq(Events) /\ Elems(queue') = Elems(queue) \cup {e}
  BY <1>1, <1>2, Posted
<1>4. \A id \in Calls : OneToken(queue, id) => OneToken(queue', id)
  BY <1>1, <1>2, PostedToken DEF IsToken
<1>5. \A id \in Calls : NoToken(queue, id) => NoToken(queue', id)
  BY <1>1, <1>3 DEF NoToken, IsToken
<1>6. QED BY <1>3, <1>4, <1>5 DEF e

LEMMA SubscribeInv ==
  ASSUME RpcInv, NEW p \in Peers, subscribe(p)
  PROVE  RpcInv'
<1> USE DEF RpcInv
<1>0. /\ wants' = wants \cup {p} /\ changes < MaxChanges /\ changes' = changes + 1
      /\ queue' = queue \/ queue' = Append(queue, [ev |-> "subscribe", peer |-> p])
      /\ UNCHANGED <<serverVars, netVars, mapped, callVars>>
  BY DEF subscribe, post
<1> DEFINE e == [ev |-> "subscribe", peer |-> p]
<1>1. /\ queue' \in Seq(Events) /\ Elems(queue) \subseteq Elems(queue')
      /\ Elems(queue') \subseteq Elems(queue) \cup {e}
      /\ \A id \in Calls : OneToken(queue, id) => OneToken(queue', id)
      /\ \A id \in Calls : NoToken(queue, id) => NoToken(queue', id)
  BY <1>0, PeerEventPosted DEF Typed
<1>2. e.ev = "subscribe"
  OBVIOUS
<1> HIDE DEF e
<1>3. Typed'
  BY <1>0, <1>1, EventKinds, InstanceAssumption
  DEF Typed, TypeOK, serverVars, netVars, callVars, Results
<1>4. Waiting' /\ Attributed'
  BY <1>0, <1>1, <1>2 DEF Waiting, Attributed, SlotOf, serverVars, callVars
<1>5. Truthful'
  BY <1>0, <1>1, <1>2 DEF Truthful, Honest, Ran, serverVars, netVars, callVars
<1>6. Single'
  BY <1>0, <1>1 DEF Single, serverVars, callVars
<1>7. Guarded' /\ PendingIsOwed'
  BY <1>0, <1>1, QueuedElem, QueuedElemNext DEF Guarded, PendingIsOwed, serverVars
<1>8. QED BY <1>3, <1>4, <1>5, <1>6, <1>7

LEMMA UnsubscribeInv ==
  ASSUME RpcInv, NEW p \in Peers, unsubscribe(p)
  PROVE  RpcInv'
<1> USE DEF RpcInv
<1> DEFINE e == [ev |-> "unsubscribe", peer |-> p]
           dropped == {id \in calling : Caller[id] = p /\ p \in QmlPeers}
<1>0. /\ wants' = wants \ {p} /\ mapped' = mapped \ {p}
      /\ changes < MaxChanges /\ changes' = changes + 1
      /\ queue' = Append(queue, e)
      /\ calling' = calling \ dropped
      /\ outcome' = [id \in Calls |-> IF id \in dropped THEN "dropped" ELSE outcome[id]]
      /\ UNCHANGED <<serverVars, netVars, called, cancelled>>
  BY DEF unsubscribe, post
<1>1. /\ queue' \in Seq(Events) /\ Elems(queue') = Elems(queue) \cup {e}
      /\ \A id \in Calls : OneToken(queue, id) => OneToken(queue', id)
      /\ \A id \in Calls : NoToken(queue, id) => NoToken(queue', id)
  BY <1>0, PeerEventPosted DEF Typed
<1>2. e.ev = "unsubscribe" /\ dropped \subseteq calling
  OBVIOUS
<1> HIDE DEF e, dropped
<1>3. /\ \A id \in Calls : outcome'[id] \in Outcomes
      /\ \A id \in Calls : outcome'[id] = "none" <=> outcome[id] = "none"
      /\ \A id \in Calls : outcome'[id] = "success" <=> outcome[id] = "success"
      /\ \A id \in Calls : outcome'[id] = "waiting" <=> outcome[id] = "waiting" /\ id \notin dropped
  BY <1>0, <1>2 DEF Waiting, Typed, TypeOK, Outcomes
<1>4. Typed'
  BY <1>0, <1>1, <1>3, EventKinds, InstanceAssumption
  DEF Typed, TypeOK, serverVars, netVars, Results
<1>5. Waiting'
  BY <1>0, <1>3 DEF Waiting, serverVars
<1>6. Attributed'
  BY <1>0, <1>1, <1>2, <1>3, ElemsTyped, EventKinds
  DEF Attributed, SlotOf, serverVars, Typed, CallEvents, Slots, Workers
<1>7. Truthful'
  BY <1>0, <1>1, <1>2, <1>3 DEF Truthful, Honest, Ran, serverVars, netVars
<1>8. Single'
  BY <1>0, <1>1 DEF Single, serverVars
<1>9. Guarded' /\ PendingIsOwed'
  BY <1>0, <1>1, QueuedElem, QueuedElemNext DEF Guarded, PendingIsOwed, serverVars
<1>10. QED BY <1>4, <1>5, <1>6, <1>7, <1>8, <1>9

LEMMA DisconnectInv ==
  ASSUME RpcInv, NEW p \in Peers, disconnect(p)
  PROVE  RpcInv'
<1> USE DEF RpcInv
<1> DEFINE e == [ev |-> "disconnected", peer |-> p]
<1>0. /\ gone' = gone \cup {p} /\ down' = [down EXCEPT ![p] = <<>>]
      /\ queue' = Append(queue, e)
      /\ UNCHANGED <<serverVars, subscribed, listed, clientVars>>
  BY DEF disconnect, post
<1>1. /\ queue' \in Seq(Events) /\ Elems(queue') = Elems(queue) \cup {e}
      /\ \A id \in Calls : OneToken(queue, id) => OneToken(queue', id)
      /\ \A id \in Calls : NoToken(queue, id) => NoToken(queue', id)
  BY <1>0, PeerEventPosted DEF Typed
<1>2. e.ev = "disconnected"
  OBVIOUS
<1> HIDE DEF e
<1>3. Typed'
  BY <1>0, <1>1, EventKinds DEF Typed, TypeOK, serverVars, clientVars, mapVars, callVars, Results
<1>4. Waiting' /\ Attributed'
  BY <1>0, <1>1, <1>2 DEF Waiting, Attributed, SlotOf, serverVars, clientVars, callVars
<1>5. Truthful'
  BY <1>0, <1>1, <1>2, EmptyQueue
  DEF Truthful, Honest, Ran, Typed, serverVars, clientVars, callVars
<1>6. Single'
  BY <1>0, <1>1 DEF Single, serverVars, clientVars, callVars
<1>7. Guarded' /\ PendingIsOwed'
  BY <1>0, <1>1, QueuedElem, QueuedElemNext DEF Guarded, PendingIsOwed, serverVars
<1>8. QED BY <1>3, <1>4, <1>5, <1>6, <1>7

\* What a client makes of a message: at most one call it waited for ends, with
\* success only if the message says so.
LEMMA Received ==
  ASSUME RpcInv, NEW p \in Peers, clientReceive(p)
  PROVE  /\ \A id \in Calls : outcome'[id] \in Outcomes
         /\ outcome' \in [Calls -> Outcomes]
         /\ \A id \in Calls : outcome[id] # "waiting" => outcome'[id] = outcome[id]
         /\ \A id \in Calls : outcome'[id] # outcome[id] => outcome'[id] \notin Pending
         /\ calling' \subseteq calling
         /\ \A id \in calling : id \in calling' <=> outcome'[id] = outcome[id]
         /\ \A id \in Calls : outcome'[id] = "success" => Ran(id)
         /\ mapped' \subseteq QmlPeers
<1> USE DEF RpcInv
<1> DEFINE m == Head(down[p])
<1>1. down[p] \in Seq(Replies) /\ down[p] # <<>>
  BY DEF clientReceive, Typed
<1>2. m \in Replies /\ m \in Elems(down[p])
  BY <1>1, Taken
<1>3. \/ m.ev = "result" /\ processRpcResult(m.id, m.code) /\ UNCHANGED mapped
      \/ m.ev = "error" /\ processErrorData(p, m.id) /\ UNCHANGED mapped
      \/ /\ m.ev = "introspection" /\ mapped' = mapped \cup ({p} \cap QmlPeers)
         /\ UNCHANGED <<calling, outcome>>
  BY DEF clientReceive
<1> HIDE DEF m
<1>4. ASSUME NEW id \in Calls, NEW how \in Codes \cup {"error"}, finish(id, how),
             how = "success" => Ran(id), UNCHANGED mapped
      PROVE  /\ outcome' \in [Calls -> Outcomes]
             /\ \A x \in Calls : outcome[x] # "waiting" => outcome'[x] = outcome[x]
             /\ \A x \in Calls : outcome'[x] # outcome[x] => outcome'[x] \notin Pending
             /\ calling' \subseteq calling
             /\ \A x \in calling : x \in calling' <=> outcome'[x] = outcome[x]
             /\ \A x \in Calls : outcome'[x] = "success" => Ran(x)
             /\ mapped' \subseteq QmlPeers
  BY <1>4 DEF finish, Typed, TypeOK, Waiting, Outcomes, Codes, Pending, Truthful
<1>5. CASE m.ev = "result" /\ processRpcResult(m.id, m.code) /\ UNCHANGED mapped
  <2>1. m.id \in Calls /\ m.code \in Codes /\ (m.code = "success" => Ran(m.id))
    BY <1>2, <1>5, ReplyKinds DEF Results, Truthful, Honest
  <2>2. QED BY <2>1, <1>4, <1>5 DEF processRpcResult
<1>6. CASE UNCHANGED <<calling, outcome>> /\ mapped' \subseteq QmlPeers
  BY <1>6 DEF Typed, TypeOK, Waiting, Truthful
<1>7. CASE m.ev = "error" /\ processErrorData(p, m.id) /\ UNCHANGED mapped
  <2>1. m.id \in Calls
    BY <1>2, <1>7, ReplyKinds DEF Errors
  <2>2. CASE finish(m.id, "error")
    BY <2>1, <2>2, <1>4, <1>7
  <2>3. CASE UNCHANGED <<calling, outcome>>
    BY <2>3, <1>6, <1>7 DEF Typed, TypeOK
  <2>4. QED BY <2>2, <2>3, <1>7 DEF processErrorData
<1>8. QED BY <1>3, <1>5, <1>6, <1>7 DEF Typed, TypeOK

LEMMA ReceiveInv ==
  ASSUME RpcInv, NEW p \in Peers, clientReceive(p)
  PROVE  RpcInv'
<1> USE DEF RpcInv
<1>0. /\ down[p] # <<>> /\ down' = [down EXCEPT ![p] = Tail(@)]
      /\ UNCHANGED <<queue, serverVars, subscribed, listed, gone, wants, changes, called, cancelled>>
  BY DEF clientReceive
<1>1. /\ down[p] \in Seq(Replies) /\ Tail(down[p]) \in Seq(Replies)
      /\ Elems(Tail(down[p])) \subseteq Elems(down[p])
  BY <1>0, Taken DEF Typed
<1>2. \A id \in Calls : outcome'[id] = "none" <=> outcome[id] = "none"
  BY Received DEF Pending
<1>3. Typed'
  BY <1>0, <1>1, Received DEF Typed, TypeOK, serverVars
<1>4. Waiting'
  BY <1>0, <1>2, Received DEF Waiting, serverVars, Pending, Typed, TypeOK
<1>5. Attributed'
  <2>1. \A x \in Slots : SlotOf(x) => SlotOf(x)'
    BY <1>0, <1>2 DEF SlotOf, Slots
  <2>2. \A x \in Elems(queue) : /\ x.ev = "call" => x.id \in Calls
                                /\ x.ev = "slot" => x \in Slots
    BY ElemsTyped, EventKinds DEF Typed, CallEvents
  <2>3. QED BY <1>0, <1>2, <2>1, <2>2 DEF Attributed, serverVars, Typed, Workers
<1>6. Truthful'
  BY <1>0, <1>1, Received DEF Truthful, Honest, Ran, serverVars, Typed
<1>7. Single' /\ Guarded' /\ PendingIsOwed'
  BY <1>0 DEF Single, NoToken, Guarded, PendingIsOwed, Queued, serverVars
<1>8. QED BY <1>3, <1>4, <1>5, <1>6, <1>7

-----------------------------------------------------------------------------
(* The server's steps                                                      *)

\* The first event of the queue and the ones behind it.
LEMMA Consumed ==
  ASSUME RpcInv, queue # <<>>
  PROVE  /\ Head(queue) \in Events /\ Head(queue) \in Elems(queue)
         /\ Tail(queue) \in Seq(Events) /\ Tail(queue) \o <<>> = Tail(queue)
         /\ Elems(queue) = Elems(Tail(queue)) \cup {Head(queue)}
         /\ \A id \in Calls \ cancelled :
              /\ OneToken(Tail(queue), id)
              /\ NoToken(queue, id) => NoToken(Tail(queue), id)
              /\ IsToken(Head(queue), id) => NoToken(Tail(queue), id)
<1>1. queue \in Seq(Events)
  BY DEF RpcInv, Typed
<1>2. /\ Head(queue) \in Events /\ Tail(queue) \in Seq(Events)
      /\ Elems(queue) = Elems(Tail(queue)) \cup {Head(queue)}
  BY <1>1, Taken
<1>3. Tail(queue) \o <<>> = Tail(queue)
  BY <1>2, ConcatEmptySeq
<1>4. \A id \in Calls \ cancelled :
        OneToken(Tail(queue), id) /\ (IsToken(Head(queue), id) => NoToken(Tail(queue), id))
  BY <1>1, TakenToken DEF RpcInv, Single
<1>5. \A id \in Calls : NoToken(queue, id) => NoToken(Tail(queue), id)
  BY <1>2 DEF NoToken
<1>6. QED BY <1>2, <1>3, <1>4, <1>5

\* Appending a procedure to what ran.
LEMMA RanMore ==
  ASSUME NEW s \in Seq(Procs), NEW pr \in Procs
  PROVE  /\ Append(s, pr) \in Seq(Procs) /\ Append(s, pr) # <<>>
         /\ Elems(Append(s, pr)) = Elems(s) \cup {pr}
         /\ s = <<>> => Len(Append(s, pr)) = 1
  BY Posted

\* cVeinModuleRpc::rpcHandling: the call runs if it can, and is either answered
\* now or owed.
LEMMA Handled ==
  ASSUME RpcInv, NEW m \in Slots, NEW after \in Seq(Events), rpcHandling(m, after)
  PROVE  /\ queue' \in Seq(Events) /\ Elems(after) \subseteq Elems(queue')
         /\ \A e \in Elems(queue') :
              \/ e \in Elems(after)
              \/ e \in Results /\ e.id = m.id /\ (e.code = "success" => callOk(m))
         /\ \A id \in Calls : OneToken(after, id) => OneToken(queue', id)
         /\ ran' \in [Calls -> Seq(Procs)]
         /\ \A id \in Calls : id # m.id => ran'[id] = ran[id]
         /\ ran'[m.id] = ran[m.id] \/ ran'[m.id] = Append(ran[m.id], m.proc)
         /\ callOk(m) => ran'[m.id] = Append(ran[m.id], m.proc)
         /\ owed \subseteq owed' /\ owed' \subseteq owed \cup {m}
         /\ Later(m) => m \in owed'
         /\ ~Later(m) => owed' = owed
         /\ pendingRpc' \in [Procs -> SUBSET Calls]
         /\ \A pr \in Procs : \A id \in pendingRpc'[pr] :
              id \in pendingRpc[pr] \/ (Later(m) /\ pr = m.proc /\ id = m.id)
         /\ \A pr \in Procs : pr # m.proc => pendingRpc'[pr] = pendingRpc[pr]
<1> USE DEF RpcInv
<1> DEFINE code == resultCode(m)
           e == Result(m.id, code)
<1>1. m.id \in Calls /\ m.proc \in Procs
  BY DEF Slots
<1>2. e \in Results /\ e \in Events /\ e.ev = "result" /\ e.id = m.id /\ e.code = code
  BY <1>1 DEF Result, resultCode, Results, Events, Codes
<1>3. code = "success" => callOk(m)
  BY DEF resultCode
<1>4. /\ run(m) /\ owe(m)
      /\ pendingRpc' = [pendingRpc EXCEPT ![m.proc] = IF Later(m) THEN @ \cup {m.id} ELSE @ \ {m.id}]
      /\ queue' = IF Later(m) THEN after ELSE Append(after, e)
  BY DEF rpcHandling, answer
<1> HIDE DEF e, code
<1>5. /\ Append(after, e) \in Seq(Events) /\ Elems(Append(after, e)) = Elems(after) \cup {e}
      /\ \A id \in Calls : OneToken(after, id) => OneToken(Append(after, e), id)
  BY <1>2, Posted, PostedToken DEF IsToken
<1>6. /\ ran' \in [Calls -> Seq(Procs)]
      /\ \A id \in Calls : id # m.id => ran'[id] = ran[id]
      /\ ran'[m.id] = ran[m.id] \/ ran'[m.id] = Append(ran[m.id], m.proc)
      /\ callOk(m) => ran'[m.id] = Append(ran[m.id], m.proc)
  BY <1>1, <1>4, RanMore DEF run, Typed, TypeOK
<1>7. /\ owed \subseteq owed' /\ owed' \subseteq owed \cup {m} /\ (Later(m) => m \in owed')
      /\ ~Later(m) => owed' = owed
  BY <1>4 DEF owe
<1>8. /\ pendingRpc' \in [Procs -> SUBSET Calls]
      /\ \A pr \in Procs : \A id \in pendingRpc'[pr] :
           id \in pendingRpc[pr] \/ (Later(m) /\ pr = m.proc /\ id = m.id)
      /\ \A pr \in Procs : pr # m.proc => pendingRpc'[pr] = pendingRpc[pr]
  BY <1>1, <1>4 DEF Typed, TypeOK
<1>9. CASE Later(m)
  BY <1>4, <1>6, <1>7, <1>8, <1>9
<1>10. CASE ~Later(m)
  BY <1>2, <1>3, <1>4, <1>5, <1>6, <1>7, <1>8, <1>10
<1>11. QED BY <1>9, <1>10

\* Handling the call m keeps the invariant if m was the only trace of its call.
LEMMA HandledInv ==
  ASSUME RpcInv, NEW m \in Slots, SlotOf(m), m.proc \notin Threaded \cup Simplified,
         NEW after \in Seq(Events), rpcHandling(m, after),
         Elems(after) \subseteq Elems(queue),
         \A e \in Elems(queue) \ Elems(after) : e = m,
         \A id \in Calls \ cancelled : OneToken(after, id),
         UNCHANGED workers,
         m.id \notin cancelled =>
           ran[m.id] = <<>> /\ NoToken(after, m.id) /\ \A w \in workers' : w.call.id # m.id,
         UNCHANGED <<netVars, clientVars>>
  PROVE  RpcInv'
<1> USE DEF RpcInv
<1>1. m.id \in Calls /\ m.proc \in Procs
  BY DEF Slots
<1>2. ran \in [Calls -> Seq(Procs)] /\ owed \subseteq Slots
  BY DEF Typed, TypeOK
<1>3. /\ \A id \in Calls : Elems(ran[id]) \subseteq Elems(ran'[id])
      /\ callOk(m) => m.proc \in Elems(ran'[m.id])
  <2>1. Elems(Append(ran[m.id], m.proc)) = Elems(ran[m.id]) \cup {m.proc}
    BY <1>1, <1>2, RanMore
  <2>2. \A id \in Calls : id # m.id => ran'[id] = ran[id]
    BY Handled
  <2>3. /\ ran'[m.id] = ran[m.id] \/ ran'[m.id] = Append(ran[m.id], m.proc)
        /\ callOk(m) => ran'[m.id] = Append(ran[m.id], m.proc)
    BY Handled
  <2>4. QED BY <2>1, <2>2, <2>3
<1>4. /\ \A id \in Calls : Ran(id) => Ran(id)'
      /\ callOk(m) => Ran(m.id)'
  BY <1>1, <1>3 DEF Ran, SlotOf, clientVars, callVars
<1>5. \A e \in Elems(queue') : e.ev \in {"call", "slot"} => e \in Elems(after)
  BY Handled DEF Results
<1>6. Typed'
  <2>1. \A i \in DOMAIN queue' : queue'[i].ev = "result" => queue'[i].code \in Codes
    BY Handled, EventKinds DEF Results
  <2>2. \A x \in owed' : x \in Slots /\ x.proc \in Async \cup Simplified
    BY <1>2, Handled DEF Typed, TypeOK, Later
  <2>3. pendingRpc' \in [Procs -> SUBSET Calls] /\ ran' \in [Calls -> Seq(Procs)]
    BY Handled
  <2>4. QED BY <2>1, <2>2, <2>3, Handled
            DEF Typed, TypeOK, Slots, netVars, clientVars, callVars, mapVars
<1>7. Waiting'
  <2>1. outcome[m.id] # "none"
    BY DEF SlotOf
  <2>2. QED BY <2>1, <1>1, Handled DEF Waiting, clientVars, callVars
<1>8. Attributed'
  BY <1>5, Handled DEF Attributed, SlotOf, clientVars, callVars
<1>9. Truthful'
  <2>1. ASSUME NEW e \in Elems(queue') PROVE Honest(e)'
    <3>1. CASE e \in Elems(after)
      <4>1. e \in Events /\ e \in Elems(queue)
        BY <3>1, ElemsTyped
      <4>2. QED BY <4>1, <1>4, EventKinds DEF Truthful, Honest, Results
    <3>2. CASE e \in Results /\ e.id = m.id /\ (e.code = "success" => callOk(m))
      BY <3>2, <1>4 DEF Honest
    <3>3. QED BY <3>1, <3>2, Handled
  <2>2. ASSUME NEW p \in Peers, NEW e \in Elems(down[p]) PROVE Honest(e)'
    <3>1. e \in Replies
      BY ElemsTyped DEF Typed
    <3>2. QED BY <3>1, <1>4, ReplyKinds DEF Truthful, Honest, Results
  <2>3. ASSUME NEW x \in owed' PROVE Ran(x.id)'
    <3>1. CASE x \in owed
      BY <3>1, <1>2, <1>4 DEF Truthful, Slots
    <3>2. CASE x = m /\ Later(m)
      BY <3>2, <1>4 DEF Later
    <3>3. QED BY <3>1, <3>2, Handled
  <2>4. \A w \in workers : w.stage # "queued" /\ callOk(w.call) => Ran(w.call.id)'
    BY <1>4 DEF Truthful, Typed, Workers, Slots
  <2>5. QED BY <2>1, <2>2, <2>3, <2>4, <1>4 DEF Truthful, netVars, clientVars, callVars
<1>10. Single'
  <2> SUFFICES ASSUME NEW id \in Calls \ cancelled
               PROVE  /\ OneToken(queue', id)
                      /\ ran'[id] # <<>> => NoToken(queue', id)
                      /\ \A w \in workers' : w.call.id = id =>
                           NoToken(queue', id) /\ (w.stage = "queued" => ran'[id] = <<>>)
                      /\ \A v, w \in workers' : v.call.id = id /\ w.call.id = id => v = w
                      /\ Len(ran'[id]) <= 1
    BY DEF Single, clientVars, callVars
  <2>1. OneToken(queue', id)
    BY Handled
  <2>2. NoToken(queue, id) \/ NoToken(after, id) => NoToken(queue', id)
    BY <1>5 DEF NoToken, IsToken
  <2>3. \A v, w \in workers' : v.call.id = id /\ w.call.id = id => v = w
    BY DEF Single
  <2>4. CASE id = m.id
    <3>1. NoToken(queue', id) /\ \A w \in workers' : w.call.id # id
      BY <2>2, <2>4
    <3>2. Len(ran'[id]) <= 1
      BY <2>4, <1>1, <1>2, Handled, RanMore DEF Single
    <3>3. QED BY <2>1, <2>3, <3>1, <3>2
  <2>5. CASE id # m.id
    <3>1. ran'[id] = ran[id]
      BY <2>5, Handled
    <3>2. QED BY <2>1, <2>2, <2>3, <3>1 DEF Single
  <2>6. QED BY <2>4, <2>5
<1>11. Guarded'
  <2>1. \A w \in workers : w.call.proc \in Procs /\ w.call.proc # m.proc
    BY DEF Typed, TypeOK, Workers, Slots
  <2>2. \A w \in workers : pendingRpc'[w.call.proc] = pendingRpc[w.call.proc]
    BY <2>1, Handled
  <2>3. QED BY <2>2 DEF Guarded
<1>12. PendingIsOwed'
  <2> SUFFICES ASSUME NEW pr \in Procs, NEW id \in pendingRpc'[pr]
               PROVE  Owed(pr, id)'
    BY DEF PendingIsOwed, Owed
  <2>1. CASE Later(m) /\ pr = m.proc /\ id = m.id
    BY <2>1, Handled DEF Owed
  <2>2. CASE id \in pendingRpc[pr]
    <3>1. CASE \E x \in owed : x.proc = pr /\ x.id = id
      BY <3>1, Handled DEF Owed
    <3>2. CASE pr \in Simplified /\ Queued(pr, id)
      <4>1. PICK e \in Elems(queue) : e.ev = "slot" /\ e.proc = pr /\ e.id = id
        BY <3>2, QueuedElem
      <4>2. e \in Elems(queue')
        BY <3>2, <4>1, Handled
      <4>3. QED BY <3>2, <4>1, <4>2, QueuedElemNext DEF Owed
    <3>3. CASE \E w \in workers : w.stage = "remembered" /\ w.call.proc = pr /\ w.call.id = id
      BY <3>3 DEF Owed
    <3>4. QED BY <2>2, <3>1, <3>2, <3>3 DEF PendingIsOwed
  <2>3. QED BY <2>1, <2>2, Handled
<1>13. QED BY <1>6, <1>7, <1>8, <1>9, <1>10, <1>11, <1>12

\* A call event becomes a slot, remembered at once if it is simplified, or an
\* error.
LEMMA DispatchCallInv ==
  ASSUME RpcInv, dispatchCall
  PROVE  RpcInv'
<1> USE DEF RpcInv
<1> DEFINE m == Head(queue)
           rest == Tail(queue)
<1>0. /\ queue # <<>> /\ m.ev = "call" /\ handleRpcs(m)
      /\ UNCHANGED <<workers, owed, ran, netVars, clientVars>>
  BY DEF dispatchCall, First
<1>1. m \in CallEvents /\ m \in Elems(queue) /\ m.id \in Calls /\ m.name \in Names
  BY <1>0, Consumed, EventKinds DEF CallEvents
<1>2. outcome[m.id] # "none" /\ m.name = called[m.id]
  BY <1>0, <1>1 DEF Attributed
<1>3. /\ rest \in Seq(Events) /\ Elems(queue) = Elems(rest) \cup {m}
      /\ \A id \in Calls \ cancelled :
           /\ OneToken(rest, id)
           /\ NoToken(queue, id) => NoToken(rest, id)
           /\ IsToken(m, id) => NoToken(rest, id)
  BY <1>0, Consumed
<1> HIDE DEF m, rest
<1>4. ASSUME NEW e \in Events, queue' = Append(rest, e),
             e.ev = "slot" => SlotOf(e) /\ e.id = m.id, e.ev \notin {"call", "result"},
             pendingRpc' \in [Procs -> SUBSET Calls],
             \A pr \in Procs : \A id \in pendingRpc'[pr] :
               \/ id \in pendingRpc[pr]
               \/ pr \in Simplified /\ e.ev = "slot" /\ e.proc = pr /\ e.id = id,
             \A pr \in Procs \ Simplified : pendingRpc'[pr] = pendingRpc[pr]
      PROVE  RpcInv'
  <2>1. queue' \in Seq(Events) /\ Elems(queue') = Elems(rest) \cup {e}
    BY <1>3, <1>4, Posted
  <2>2. Typed'
    BY <1>0, <1>4, <2>1, EventKinds
    DEF Typed, TypeOK, Results, netVars, clientVars, callVars, mapVars
  <2>3. Waiting' /\ Attributed'
    BY <1>0, <1>3, <1>4, <2>1 DEF Waiting, Attributed, SlotOf, clientVars, callVars
  <2>4. Truthful'
    BY <1>0, <1>3, <1>4, <2>1 DEF Truthful, Honest, Ran, netVars, clientVars, callVars
  <2>5. Single'
    <3> SUFFICES ASSUME NEW id \in Calls \ cancelled
                 PROVE  /\ OneToken(queue', id)
                        /\ NoToken(queue, id) => NoToken(queue', id)
      BY <1>0 DEF Single, clientVars, callVars
    <3>1. IsToken(e, id) => IsToken(m, id)
      BY <1>0, <1>4 DEF IsToken
    <3>2. OneToken(queue', id)
      BY <1>3, <1>4, <3>1, PostedToken
    <3>3. NoToken(queue, id) => NoToken(queue', id)
      BY <1>3, <2>1, <3>1 DEF NoToken
    <3>4. QED BY <3>2, <3>3
  <2>6. Guarded'
    <3>1. \A w \in workers : w.call.proc \in Procs \ Simplified
      BY KindAssumption DEF Typed, TypeOK, Workers, Slots
    <3>2. \A w \in workers : pendingRpc'[w.call.proc] = pendingRpc[w.call.proc]
      BY <1>4, <3>1
    <3>3. QED BY <1>0, <3>2 DEF Guarded
  <2>7. PendingIsOwed'
    <3> SUFFICES ASSUME NEW pr \in Procs, NEW id \in pendingRpc'[pr]
                 PROVE  Owed(pr, id)'
      BY DEF PendingIsOwed, Owed
    <3>1. CASE pr \in Simplified /\ e.ev = "slot" /\ e.proc = pr /\ e.id = id
      BY <3>1, <2>1, QueuedElemNext DEF Owed
    <3>2. CASE id \in pendingRpc[pr]
      <4>1. CASE \E x \in owed : x.proc = pr /\ x.id = id
        BY <4>1, <1>0 DEF Owed
      <4>2. CASE pr \in Simplified /\ Queued(pr, id)
        <5>1. PICK x \in Elems(queue) : x.ev = "slot" /\ x.proc = pr /\ x.id = id
          BY <4>2, QueuedElem
        <5>2. x \in Elems(queue')
          BY <1>0, <1>3, <2>1, <5>1
        <5>3. QED BY <4>2, <5>1, <5>2, QueuedElemNext DEF Owed
      <4>3. CASE \E w \in workers : w.stage = "remembered" /\ w.call.proc = pr /\ w.call.id = id
        BY <4>3, <1>0 DEF Owed
      <4>4. QED BY <3>2, <4>1, <4>2, <4>3 DEF PendingIsOwed
    <3>3. QED BY <1>4, <3>1, <3>2
  <2>8. QED BY <2>2, <2>3, <2>4, <2>5, <2>6, <2>7
<1>5. CASE /\ Found(m.name) = {}
           /\ consume(<<RpcError(m)>>)
           /\ UNCHANGED pendingRpc
  <2> DEFINE e == RpcError(m)
  <2>1. e \in Events /\ e.ev = "error"
    BY <1>1 DEF RpcError, Events, Errors
  <2>2. queue' = Append(rest, e)
    BY <1>3, <1>5, <2>1, AppendIsConcat DEF consume, rest
  <2>3. pendingRpc' \in [Procs -> SUBSET Calls] /\ pendingRpc' = pendingRpc
    BY <1>5 DEF Typed, TypeOK
  <2> HIDE DEF e
  <2>4. QED BY <2>1, <2>2, <2>3, <1>4
<1>6. CASE /\ Found(m.name) # {}
           /\ consume(<<Slot(m, Chosen(m.name))>>)
           /\ remember(m, Chosen(m.name))
  <2> DEFINE e == Slot(m, Chosen(m.name))
  <2>0. Chosen(m.name) \in Procs /\ <<Chosen(m.name), m.name>> \in Matches
    BY <1>1, <1>6, ChosenMatches
  <2>1. e \in Events /\ e.ev = "slot" /\ e.id = m.id /\ e.proc = Chosen(m.name)
    BY <1>1, <2>0 DEF Slot, Slots, Events, CallEvents
  <2>2. SlotOf(e)
    BY <1>2, <2>0, <2>1 DEF SlotOf
  <2>3. queue' = Append(rest, e)
    BY <1>3, <1>6, <2>1, AppendIsConcat DEF consume, rest
  <2>4. /\ pendingRpc' \in [Procs -> SUBSET Calls]
        /\ \A pr \in Procs : \A id \in pendingRpc'[pr] :
             \/ id \in pendingRpc[pr]
             \/ pr \in Simplified /\ Chosen(m.name) = pr /\ m.id = id
        /\ \A pr \in Procs \ Simplified : pendingRpc'[pr] = pendingRpc[pr]
    BY <1>1, <1>6, <2>0 DEF remember, Typed, TypeOK
  <2> HIDE DEF e
  <2>5. QED BY <2>1, <2>2, <2>3, <2>4, <1>4
<1>7. QED BY <1>0, <1>5, <1>6 DEF handleRpcs

\* A slot of a procedure: the call goes to a worker or is handled.
LEMMA DispatchSlotInv ==
  ASSUME RpcInv, dispatchSlot
  PROVE  RpcInv'
<1> USE DEF RpcInv
<1> DEFINE m == Head(queue)
           rest == Tail(queue)
<1>0. /\ queue # <<>> /\ m.ev = "slot" /\ callFunctionPrivate(m)
      /\ UNCHANGED <<netVars, clientVars>>
  BY DEF dispatchSlot, First
<1>1. m \in Slots /\ m \in Elems(queue) /\ m.id \in Calls /\ m.proc \in Procs
  BY <1>0, Consumed, EventKinds DEF Slots
<1>2. SlotOf(m)
  BY <1>0, <1>1 DEF Attributed
<1>3. /\ rest \in Seq(Events) /\ rest \o <<>> = rest /\ Elems(queue) = Elems(rest) \cup {m}
      /\ \A id \in Calls \ cancelled :
           /\ OneToken(rest, id)
           /\ NoToken(queue, id) => NoToken(rest, id)
           /\ IsToken(m, id) => NoToken(rest, id)
  BY <1>0, Consumed
<1>4. m.id \notin cancelled =>
        ran[m.id] = <<>> /\ NoToken(rest, m.id) /\ \A w \in workers : w.call.id # m.id
  <2>1. ~NoToken(queue, m.id) /\ IsToken(m, m.id)
    BY <1>0, <1>1 DEF NoToken, IsToken
  <2>2. QED BY <2>1, <1>1, <1>3 DEF Single
<1>5. CASE m.proc \in Threaded /\ workers' = workers \cup {Worker(m)}
           /\ consume(<<>>) /\ UNCHANGED <<pendingRpc, owed, ran>>
  <2> DEFINE n == Worker(m)
  <2>1. n \in Workers /\ n.call = m /\ n.stage = "queued"
    BY <1>1 DEF Worker, Workers, Stages
  <2>2. queue' = rest /\ workers' = workers \cup {n}
    BY <1>3, <1>5 DEF consume
  <2> HIDE DEF n, m, rest
  <2>3. Typed'
    <3>1. \A i \in DOMAIN queue' : queue'[i].ev = "result" => queue'[i].code \in Codes
      BY <1>3, <2>2, EventKinds DEF Results
    <3>2. \A w \in workers' : w.call.proc \in Threaded /\ w.stage \in Stages
      BY <1>5, <2>1, <2>2 DEF Typed, TypeOK, Stages
    <3>3. QED BY <1>0, <1>3, <1>5, <2>1, <2>2, <3>1, <3>2
              DEF Typed, TypeOK, netVars, clientVars, callVars, mapVars
  <2>4. Waiting' /\ Attributed'
    BY <1>0, <1>2, <1>3, <1>5, <2>1, <2>2 DEF Waiting, Attributed, SlotOf, clientVars, callVars
  <2>5. Truthful'
    BY <1>0, <1>3, <1>5, <2>1, <2>2 DEF Truthful, Honest, Ran, netVars, clientVars, callVars
  <2>6. Single'
    BY <1>0, <1>3, <1>4, <1>5, <2>1, <2>2 DEF Single, clientVars, callVars
  <2>7. Guarded'
    BY <1>5, <2>1, <2>2 DEF Guarded
  <2>8. PendingIsOwed'
    <3>1. m.proc \notin Simplified
      BY <1>5, KindAssumption
    <3>2. QED BY <1>3, <1>5, <2>2, <3>1, QueuedElem, QueuedElemNext DEF PendingIsOwed
  <2>9. QED BY <2>3, <2>4, <2>5, <2>6, <2>7, <2>8
<1>6. CASE m.proc \notin Threaded \cup Simplified /\ rpcHandling(m, rest) /\ UNCHANGED workers
  <2> HIDE DEF m, rest
  <2>1. QED BY <1>0, <1>1, <1>2, <1>3, <1>4, <1>6, HandledInv
<1>7. QED BY <1>0, <1>5, <1>6 DEF callFunctionPrivate

\* A slot of a simplified procedure: the module runs it and owes the answer.
LEMMA CallRPCFunctionInv ==
  ASSUME RpcInv, callRPCFunction
  PROVE  RpcInv'
<1> USE DEF RpcInv
<1> DEFINE rest == Tail(queue)
<1> PICK m : m = Head(queue)
  OBVIOUS
<1>0. /\ queue # <<>> /\ m.ev = "slot" /\ m.proc \in Simplified
      /\ owed' = owed \cup {m}
      /\ ran' = [ran EXCEPT ![m.id] = Append(@, m.proc)]
      /\ queue' = rest \o <<>>
      /\ UNCHANGED <<workers, pendingRpc, netVars, clientVars>>
  BY DEF callRPCFunction, First, consume
<1>1. m \in Slots /\ m \in Elems(queue) /\ m.id \in Calls /\ m.proc \in Procs
  BY <1>0, Consumed, EventKinds DEF Slots
<1>2. SlotOf(m)
  BY <1>0, <1>1 DEF Attributed
<1>3. /\ rest \in Seq(Events) /\ queue' = rest /\ Elems(queue) = Elems(rest) \cup {m}
      /\ \A id \in Calls \ cancelled :
           /\ OneToken(rest, id)
           /\ NoToken(queue, id) => NoToken(rest, id)
           /\ IsToken(m, id) => NoToken(rest, id)
  BY <1>0, Consumed
<1>4. m.id \notin cancelled =>
        ran[m.id] = <<>> /\ NoToken(rest, m.id) /\ \A w \in workers : w.call.id # m.id
  <2>1. ~NoToken(queue, m.id) /\ IsToken(m, m.id)
    BY <1>0, <1>1 DEF NoToken, IsToken
  <2>2. QED BY <2>1, <1>1, <1>3 DEF Single
<1> HIDE DEF rest
<1>5. ran \in [Calls -> Seq(Procs)] /\ owed \subseteq Slots
  BY DEF Typed, TypeOK
<1>6. /\ Append(ran[m.id], m.proc) \in Seq(Procs)
      /\ Elems(Append(ran[m.id], m.proc)) = Elems(ran[m.id]) \cup {m.proc}
      /\ ran[m.id] = <<>> => Len(Append(ran[m.id], m.proc)) = 1
  BY <1>1, <1>5, RanMore
<1>7. /\ ran' \in [Calls -> Seq(Procs)] /\ ran'[m.id] = Append(ran[m.id], m.proc)
      /\ \A id \in Calls : id # m.id => ran'[id] = ran[id]
  BY <1>0, <1>1, <1>5, <1>6
<1>8. (\A id \in Calls : Ran(id) => Ran(id)') /\ Ran(m.id)'
  <2>1. /\ \A id \in Calls : Elems(ran[id]) \subseteq Elems(ran'[id])
        /\ m.proc \in Elems(ran'[m.id])
    BY <1>6, <1>7
  <2>2. called' = called
    BY <1>0 DEF clientVars, callVars
  <2>3. QED BY <1>2, <2>1, <2>2 DEF Ran, SlotOf
<1>9. Typed'
  <2>1. \A i \in DOMAIN queue' : queue'[i].ev = "result" => queue'[i].code \in Codes
    BY <1>3, EventKinds DEF Results
  <2>2. QED BY <1>0, <1>1, <1>3, <1>7, <2>1
            DEF Typed, TypeOK, netVars, clientVars, callVars, mapVars
<1>10. Waiting'
  BY <1>0, <1>2, <1>7 DEF Waiting, SlotOf, clientVars, callVars
<1>11. Attributed'
  BY <1>0, <1>2, <1>3 DEF Attributed, SlotOf, clientVars, callVars
<1>12. Truthful'
  <2>1. \A e \in Elems(queue') : Honest(e)'
    <3>1. \A e \in Elems(queue') : e.ev = "result" => e.id \in Calls
      BY <1>3, ElemsTyped, EventKinds DEF Results
    <3>2. QED BY <1>3, <1>8, <3>1 DEF Truthful, Honest
  <2>2. \A p \in Peers : \A e \in Elems(down[p]) : Honest(e)'
    <3>1. \A p \in Peers : \A e \in Elems(down[p]) : e.ev = "result" => e.id \in Calls
      BY ElemsTyped, ReplyKinds DEF Results, Typed
    <3>2. QED BY <1>8, <3>1 DEF Truthful, Honest
  <2>3. \A x \in owed' : Ran(x.id)'
    <3>1. \A x \in owed : x.id \in Calls /\ Ran(x.id)
      BY <1>5 DEF Truthful, Slots
    <3>2. QED BY <1>0, <1>8, <3>1
  <2>4. \A w \in workers : w.stage # "queued" /\ callOk(w.call) => Ran(w.call.id)'
    BY <1>8 DEF Truthful, Typed, Workers, Slots
  <2>5. QED BY <1>0, <1>8, <2>1, <2>2, <2>3, <2>4 DEF Truthful, netVars, clientVars, callVars
<1>13. Single'
  <2> SUFFICES ASSUME NEW id \in Calls \ cancelled
               PROVE  /\ OneToken(queue', id)
                      /\ ran'[id] # <<>> => NoToken(queue', id)
                      /\ \A w \in workers : w.call.id = id =>
                           NoToken(queue', id) /\ (w.stage = "queued" => ran'[id] = <<>>)
                      /\ \A v, w \in workers : v.call.id = id /\ w.call.id = id => v = w
                      /\ Len(ran'[id]) <= 1
    BY <1>0 DEF Single, clientVars, callVars
  <2>1. CASE id = m.id
    BY <2>1, <1>3, <1>4, <1>6, <1>7 DEF Single
  <2>2. CASE id # m.id
    BY <2>2, <1>3, <1>7 DEF Single
  <2>3. QED BY <2>1, <2>2
<1>14. Guarded'
  BY <1>0 DEF Guarded
<1>15. PendingIsOwed'
  BY <1>0, <1>3, QueuedElem, QueuedElemNext DEF PendingIsOwed
<1>16. QED BY <1>9, <1>10, <1>11, <1>12, <1>13, <1>14, <1>15

\* Events that are about no execution are taken from the queue; what is sent
\* for them is as true as they were.
LEMMA ForwardInv ==
  ASSUME RpcInv, queue # <<>>, Head(queue).ev \notin {"call", "slot"},
         queue' = Tail(queue) \o <<>>, UNCHANGED <<serverVars, clientVars>>,
         subscribed' \subseteq Peers, listed' \in BOOLEAN, gone' = gone,
         NEW m \in Replies, Honest(m),
         NEW to, down' = down \/ deliver(to, m)
  PROVE  RpcInv'
<1> USE DEF RpcInv
<1> DEFINE rest == Tail(queue)
<1>1. /\ rest \in Seq(Events) /\ queue' = rest /\ Elems(queue) = Elems(rest) \cup {Head(queue)}
      /\ \A id \in Calls \ cancelled : OneToken(rest, id) /\ (NoToken(queue, id) => NoToken(rest, id))
  BY Consumed
<1>2. \A p \in Peers : /\ down[p] \in Seq(Replies)
                       /\ Append(down[p], m) \in Seq(Replies)
                       /\ Elems(Append(down[p], m)) = Elems(down[p]) \cup {m}
  BY Posted DEF Typed
<1>3. /\ down' \in [Peers -> Seq(Replies)]
      /\ \A p \in Peers : \A e \in Elems(down'[p]) : e \in Elems(down[p]) \/ e = m
  <2>1. CASE down' = down
    BY <2>1 DEF Typed
  <2>2. CASE deliver(to, m)
    <3>1. down' = [p \in Peers |-> IF p \in to \ gone THEN Append(down[p], m) ELSE down[p]]
      BY <2>2 DEF deliver
    <3>2. QED BY <3>1, <1>2
  <2>3. QED BY <2>1, <2>2
<1> HIDE DEF rest
<1>4. Typed'
  <2>1. \A i \in DOMAIN queue' : queue'[i].ev = "result" => queue'[i].code \in Codes
    BY <1>1, EventKinds DEF Results
  <2>2. QED BY <1>1, <1>3, <2>1 DEF Typed, TypeOK, serverVars, clientVars, callVars, mapVars
<1>5. Waiting' /\ Attributed'
  BY <1>1 DEF Waiting, Attributed, SlotOf, serverVars, clientVars, callVars
<1>6. Truthful'
  BY <1>1, <1>3 DEF Truthful, Honest, Ran, serverVars, clientVars, callVars
<1>7. Single'
  BY <1>1 DEF Single, serverVars, clientVars, callVars
<1>8. Guarded' /\ PendingIsOwed'
  <2>1. ASSUME NEW pr \in Procs, NEW id, Queued(pr, id) PROVE Queued(pr, id)'
    BY <1>1, <2>1, QueuedElem, QueuedElemNext
  <2>2. QED BY <2>1 DEF Guarded, PendingIsOwed, serverVars
<1>9. QED BY <1>4, <1>5, <1>6, <1>7, <1>8

LEMMA DispatchInv ==
  ASSUME RpcInv, Dispatch
  PROVE  RpcInv'
<1> USE DEF RpcInv
<1> PICK m : m = Head(queue)
  OBVIOUS
<1>0. subscribed \subseteq Peers /\ listed \in BOOLEAN
  BY DEF Typed, TypeOK
<1>1. CASE dispatchCall
  BY <1>1, DispatchCallInv
<1>2. CASE dispatchSlot
  BY <1>2, DispatchSlotInv
<1>3. CASE callRPCFunction
  BY <1>3, CallRPCFunctionInv
<1>4. CASE forwardResult \/ forwardError
  <2>1. queue # <<>> /\ m.ev \in {"result", "error"} /\ queue' = Tail(queue) \o <<>>
    BY <1>4 DEF forwardResult, forwardError, First, consume
  <2>2. m \in Events /\ m \in Elems(queue)
    BY <2>1, Consumed
  <2>3. m \in Replies /\ Honest(m)
    BY <2>1, <2>2, EventKinds DEF Replies, Truthful
  <2>4. \E to : deliver(to, m)
    BY <1>4 DEF forwardResult, forwardError
  <2>5. UNCHANGED <<serverVars, clientVars>> /\ UNCHANGED <<subscribed, listed, gone>>
    BY <1>4 DEF forwardResult, forwardError
  <2>6. QED BY <1>0, <2>1, <2>3, <2>4, <2>5, ForwardInv
<1>5. CASE tryAddSubscription
  <2> DEFINE i == [ev |-> "introspection"]
  <2>1. /\ queue # <<>> /\ m.ev = "subscribe" /\ queue' = Tail(queue) \o <<>>
        /\ subscribed' = subscribed \cup {m.peer} /\ listed' = TRUE /\ gone' = gone
        /\ UNCHANGED <<serverVars, clientVars>> /\ deliver({m.peer}, i)
    BY <1>5 DEF tryAddSubscription, First, consume
  <2>2. m.peer \in Peers
    BY <2>1, Consumed, EventKinds DEF PeerEvents
  <2>3. i \in Replies /\ Honest(i)
    BY DEF Replies, Introspections, Honest
  <2> HIDE DEF i
  <2>4. QED BY <1>0, <2>1, <2>2, <2>3, ForwardInv
<1>6. CASE removeSubscription
  <2> DEFINE i == [ev |-> "introspection"]
  <2>1. /\ queue # <<>> /\ m.ev \in {"unsubscribe", "disconnected"} /\ queue' = Tail(queue) \o <<>>
        /\ subscribed' = subscribed \ {m.peer} /\ UNCHANGED <<listed, gone, down>>
        /\ UNCHANGED <<serverVars, clientVars>>
    BY <1>6 DEF removeSubscription, First, consume
  <2>2. i \in Replies /\ Honest(i)
    BY DEF Replies, Introspections, Honest
  <2> HIDE DEF i
  <2>3. QED BY <1>0, <2>1, <2>2, ForwardInv
<1>7. QED BY <1>1, <1>2, <1>3, <1>4, <1>5, <1>6 DEF Dispatch

\* A worker gets the mutex, and its function runs.
LEMMA LockWorkerInv ==
  ASSUME RpcInv, NEW w \in workers, lockWorker(w)
  PROVE  RpcInv'
<1> USE DEF RpcInv
<1>1. PICK n : n = [w EXCEPT !.stage = "invoked", !.hash = pendingRpc[w.call.proc]]
  OBVIOUS
<1>2. PICK m : m = w.call
  OBVIOUS
<1>3. /\ w \in Workers /\ m \in Slots /\ m.id \in Calls /\ m.proc \in Procs
      /\ m.proc \in Threaded /\ SlotOf(m)
  BY <1>2 DEF Typed, TypeOK, Workers, Slots, Attributed
<1>4. /\ pendingRpc[m.proc] \in SUBSET Calls
      /\ ran \in [Calls -> Seq(Procs)]
  BY <1>3 DEF Typed, TypeOK
<1>5. /\ n \in Workers /\ n.call = m /\ n.stage = "invoked" /\ n.hash = pendingRpc[m.proc]
  BY <1>1, <1>2, <1>3, <1>4 DEF Workers, Stages
<1>6. /\ w.stage = "queued" /\ run(m)
      /\ \A x \in workers : x.stage # "queued" => x.call.proc # m.proc
      /\ workers' = (workers \ {w}) \cup {n}
      /\ UNCHANGED <<queue, pendingRpc, owed, netVars, clientVars>>
  BY <1>1, <1>2 DEF lockWorker, invoke, becomes
<1>7. /\ ran' \in [Calls -> Seq(Procs)]
      /\ \A id \in Calls : id # m.id => ran'[id] = ran[id]
      /\ ran'[m.id] = ran[m.id] \/ ran'[m.id] = Append(ran[m.id], m.proc)
      /\ callOk(m) => ran'[m.id] = Append(ran[m.id], m.proc)
  BY <1>3, <1>4, <1>6, RanMore DEF run
<1>8. /\ \A id \in Calls : Ran(id) => Ran(id)'
      /\ callOk(m) => Ran(m.id)'
  <2>1. Elems(Append(ran[m.id], m.proc)) = Elems(ran[m.id]) \cup {m.proc}
    BY <1>3, <1>4, RanMore
  <2>2. /\ \A id \in Calls : Elems(ran[id]) \subseteq Elems(ran'[id])
        /\ callOk(m) => m.proc \in Elems(ran'[m.id])
    BY <1>7, <2>1
  <2>3. called' = called
    BY <1>6 DEF clientVars, callVars
  <2>4. QED BY <1>3, <2>2, <2>3 DEF Ran, SlotOf
<1>9. Typed'
  BY <1>3, <1>5, <1>6, <1>7 DEF Typed, TypeOK, Stages, netVars, clientVars, callVars, mapVars
<1>10. Waiting'
  BY <1>3, <1>6, <1>7 DEF Waiting, SlotOf, clientVars, callVars
<1>11. Attributed'
  BY <1>3, <1>5, <1>6 DEF Attributed, SlotOf, clientVars, callVars
<1>12. Truthful'
  <2>1. \A e \in Elems(queue') : Honest(e)'
    <3>1. \A e \in Elems(queue) : e.ev = "result" => e.id \in Calls
      BY ElemsTyped, EventKinds DEF Results, Typed
    <3>2. QED BY <1>6, <1>8, <3>1 DEF Truthful, Honest
  <2>2. \A p \in Peers : \A e \in Elems(down[p]) : Honest(e)'
    <3>1. \A p \in Peers : \A e \in Elems(down[p]) : e.ev = "result" => e.id \in Calls
      BY ElemsTyped, ReplyKinds DEF Results, Typed
    <3>2. QED BY <1>8, <3>1 DEF Truthful, Honest
  <2>3. \A x \in owed : Ran(x.id)'
    BY <1>8 DEF Truthful, Typed, Slots
  <2>4. \A x \in workers' : x.stage # "queued" /\ callOk(x.call) => Ran(x.call.id)'
    BY <1>5, <1>6, <1>8 DEF Truthful, Typed, Workers, Slots
  <2>5. \A id \in Calls : outcome[id] = "success" => Ran(id)'
    BY <1>8 DEF Truthful
  <2>6. QED BY <1>6, <2>1, <2>2, <2>3, <2>4, <2>5 DEF Truthful, netVars, clientVars, callVars
<1>13. Single'
  <2> SUFFICES ASSUME NEW id \in Calls \ cancelled
               PROVE  /\ OneToken(queue, id)
                      /\ ran'[id] # <<>> => NoToken(queue, id)
                      /\ \A x \in workers' : x.call.id = id =>
                           NoToken(queue, id) /\ (x.stage = "queued" => ran'[id] = <<>>)
                      /\ \A u, v \in workers' : u.call.id = id /\ v.call.id = id => u = v
                      /\ Len(ran'[id]) <= 1
    BY <1>6 DEF Single, clientVars, callVars
  <2>1. CASE id = m.id
    <3>1. ran[id] = <<>> /\ NoToken(queue, id) /\ OneToken(queue, id)
      BY <2>1, <1>2, <1>6 DEF Single
    <3>2. \A x \in workers' : x.call.id = id => x = n
      BY <2>1, <1>2, <1>6 DEF Single
    <3>3. Len(ran'[id]) <= 1
      <4>1. Len(Append(ran[m.id], m.proc)) = 1 /\ Len(ran[m.id]) <= 1
        BY <2>1, <3>1, <1>3, <1>4, RanMore
      <4>2. QED BY <2>1, <4>1, <1>7
    <3>4. QED BY <3>1, <3>2, <3>3, <1>5
  <2>2. CASE id # m.id
    <3>1. ran'[id] = ran[id]
      BY <2>2, <1>7
    <3>2. \A x \in workers' : x.call.id = id => x \in workers
      BY <2>2, <1>5, <1>6
    <3>3. QED BY <3>1, <3>2 DEF Single
  <2>3. QED BY <2>1, <2>2
<1>14. Guarded'
  BY <1>5, <1>6 DEF Guarded
<1>15. PendingIsOwed'
  BY <1>5, <1>6 DEF PendingIsOwed, Queued
<1>16. QED BY <1>9, <1>10, <1>11, <1>12, <1>13, <1>14, <1>15

\* What the worker writes is what the hash holds now and the call: nobody else
\* has changed the hash since the worker read it.
LEMMA RememberWorkerInv ==
  ASSUME RpcInv, NEW w \in workers, rememberWorker(w)
  PROVE  RpcInv'
<1> USE DEF RpcInv
<1>1. PICK n : n = [w EXCEPT !.stage = "remembered", !.hash = {}]
  OBVIOUS
<1>2. PICK m : m = w.call
  OBVIOUS
<1>3. /\ w \in Workers /\ m \in Slots /\ m.id \in Calls /\ m.proc \in Procs
      /\ m.proc \in Threaded /\ SlotOf(m)
  BY <1>2 DEF Typed, TypeOK, Workers, Slots, Attributed
<1>4. n \in Workers /\ n.call = m /\ n.stage = "remembered"
  BY <1>1, <1>2, <1>3 DEF Workers, Stages
<1>5. /\ w.stage = "invoked"
      /\ pendingRpc' = [pendingRpc EXCEPT ![m.proc] = w.hash \cup {m.id}]
      /\ workers' = (workers \ {w}) \cup {n}
      /\ UNCHANGED <<queue, owed, ran, netVars, clientVars>>
  BY <1>1, <1>2 DEF rememberWorker, becomes
<1>6. w.hash = pendingRpc[m.proc]
  BY <1>2, <1>5 DEF Guarded
<1>7. /\ pendingRpc' \in [Procs -> SUBSET Calls]
      /\ pendingRpc'[m.proc] = pendingRpc[m.proc] \cup {m.id}
      /\ \A pr \in Procs : pr # m.proc => pendingRpc'[pr] = pendingRpc[pr]
  BY <1>3, <1>5, <1>6 DEF Typed, TypeOK
<1>8. Typed'
  BY <1>3, <1>4, <1>5, <1>7 DEF Typed, TypeOK, Stages, netVars, clientVars, callVars, mapVars
<1>9. Waiting' /\ Attributed'
  BY <1>3, <1>4, <1>5 DEF Waiting, Attributed, SlotOf, clientVars, callVars
<1>10. Truthful'
  BY <1>2, <1>4, <1>5 DEF Truthful, Honest, Ran, netVars, clientVars, callVars
<1>11. Single'
  BY <1>2, <1>4, <1>5 DEF Single, clientVars, callVars
<1>12. Guarded'
  <2>1. \A u, v \in workers' : u.stage # "queued" /\ v.stage # "queued" /\ u.call.proc = v.call.proc => u = v
    BY <1>2, <1>4, <1>5 DEF Guarded
  <2>2. ASSUME NEW x \in workers', x.stage = "invoked" PROVE x.hash = pendingRpc'[x.call.proc]
    <3>1. x \in workers /\ x # w
      BY <2>2, <1>4, <1>5
    <3>2. x.call.proc # m.proc /\ x.call.proc \in Procs
      BY <2>2, <3>1, <1>2, <1>5 DEF Guarded, Typed, Workers, Slots
    <3>3. QED BY <2>2, <3>1, <3>2, <1>7 DEF Guarded
  <2>3. QED BY <2>1, <2>2 DEF Guarded
<1>13. PendingIsOwed'
  <2> SUFFICES ASSUME NEW pr \in Procs, NEW id \in pendingRpc'[pr]
               PROVE  Owed(pr, id)'
    BY DEF PendingIsOwed, Owed
  <2>1. CASE pr = m.proc /\ id = m.id
    BY <2>1, <1>4, <1>5 DEF Owed
  <2>2. CASE id \in pendingRpc[pr]
    <3>1. Owed(pr, id)
      BY <2>2 DEF PendingIsOwed, Owed
    <3>2. \A x \in workers : x.stage = "remembered" => x \in workers'
      BY <1>5
    <3>3. QED BY <3>1, <3>2, <1>5 DEF Owed, Queued
  <2>3. QED BY <2>1, <2>2, <1>7
<1>14. QED BY <1>8, <1>9, <1>10, <1>11, <1>12, <1>13

\* The answer of a worker is true, as its function ran when it got the mutex.
LEMMA FinishWorkerInv ==
  ASSUME RpcInv, NEW w \in workers, finishWorker(w)
  PROVE  RpcInv'
<1> USE DEF RpcInv
<1>1. PICK m : m = w.call
  OBVIOUS
<1>2. PICK e : e = Result(m.id, resultCode(m))
  OBVIOUS
<1>3. m \in Slots /\ m.id \in Calls /\ m.proc \in Procs
  BY <1>1 DEF Typed, Workers, Slots
<1>4. /\ w.stage = "remembered"
      /\ pendingRpc' = [pendingRpc EXCEPT ![m.proc] = @ \ {m.id}]
      /\ queue' = queue \/ queue' = Append(queue, e)
      /\ workers' = workers \ {w}
      /\ UNCHANGED <<owed, ran, netVars, clientVars>>
  BY <1>1, <1>2 DEF finishWorker
<1>5. e \in Events /\ e.ev = "result" /\ e.id = m.id /\ (e.code = "success" => callOk(m))
  BY <1>2, <1>3 DEF Result, resultCode, Results, Events, Codes
<1>6. Honest(e)
  BY <1>1, <1>4, <1>5 DEF Honest, Truthful
<1>7. /\ Append(queue, e) \in Seq(Events) /\ Elems(Append(queue, e)) = Elems(queue) \cup {e}
      /\ \A id \in Calls : OneToken(queue, id) => OneToken(Append(queue, e), id)
  BY <1>5, Posted, PostedToken DEF Typed, IsToken
<1>8. /\ queue' \in Seq(Events) /\ Elems(queue) \subseteq Elems(queue')
      /\ Elems(queue') \subseteq Elems(queue) \cup {e}
      /\ \A id \in Calls : OneToken(queue, id) => OneToken(queue', id)
  BY <1>4, <1>7 DEF Typed
<1>9. \A id \in Calls : NoToken(queue, id) => NoToken(queue', id)
  BY <1>5, <1>8 DEF NoToken, IsToken
<1>10. /\ pendingRpc' \in [Procs -> SUBSET Calls]
       /\ pendingRpc'[m.proc] = pendingRpc[m.proc] \ {m.id}
       /\ \A pr \in Procs : pr # m.proc => pendingRpc'[pr] = pendingRpc[pr]
  BY <1>3, <1>4 DEF Typed, TypeOK
<1>11. Typed'
  <2>1. \A i \in DOMAIN queue' : queue'[i].ev = "result" => queue'[i].code \in Codes
    BY <1>8, EventKinds DEF Results
  <2>2. QED BY <1>4, <1>8, <1>10, <2>1 DEF Typed, TypeOK, netVars, clientVars, callVars, mapVars
<1>12. Waiting' /\ Attributed'
  BY <1>4, <1>5, <1>8 DEF Waiting, Attributed, SlotOf, clientVars, callVars
<1>13. Truthful'
  BY <1>4, <1>6, <1>8 DEF Truthful, Honest, Ran, netVars, clientVars, callVars
<1>14. Single'
  BY <1>4, <1>8, <1>9 DEF Single, clientVars, callVars
<1>15. Guarded'
  <2>1. ASSUME NEW x \in workers', x.stage = "invoked" PROVE x.hash = pendingRpc'[x.call.proc]
    <3>1. x \in workers /\ x # w
      BY <1>4
    <3>2. x.call.proc # m.proc /\ x.call.proc \in Procs
      BY <2>1, <3>1, <1>1, <1>4 DEF Guarded, Typed, Workers, Slots
    <3>3. QED BY <2>1, <3>1, <3>2, <1>10 DEF Guarded
  <2>2. QED BY <2>1, <1>4 DEF Guarded
<1>16. PendingIsOwed'
  <2> SUFFICES ASSUME NEW pr \in Procs, NEW id \in pendingRpc'[pr]
               PROVE  Owed(pr, id)'
    BY DEF PendingIsOwed, Owed
  <2>1. id \in pendingRpc[pr] /\ ~(pr = m.proc /\ id = m.id)
    BY <1>10
  <2>2. Owed(pr, id)
    BY <2>1 DEF PendingIsOwed, Owed
  <2>3. CASE pr \in Simplified /\ Queued(pr, id)
    BY <2>3, <1>8, QueuedElem, QueuedElemNext DEF Owed
  <2>4. CASE \E x \in workers : x.stage = "remembered" /\ x.call.proc = pr /\ x.call.id = id
    BY <2>1, <2>4, <1>1, <1>4 DEF Owed
  <2>5. CASE \E x \in owed : x.proc = pr /\ x.id = id
    BY <2>5, <1>4 DEF Owed
  <2>6. QED BY <2>2, <2>3, <2>4, <2>5 DEF Owed
<1>17. QED BY <1>11, <1>12, <1>13, <1>14, <1>15, <1>16

\* The answer to a call that is owed.
LEMMA AnswerInv ==
  ASSUME RpcInv, NEW m \in owed, NEW code \in Codes, sendRpcResult(m, code)
  PROVE  RpcInv'
<1> USE DEF RpcInv
<1>1. PICK e : e = Result(m.id, code)
  OBVIOUS
<1>2. m \in Slots /\ m.id \in Calls /\ m.proc \in Procs /\ Ran(m.id)
  BY DEF Typed, Slots, Truthful
<1>3. e \in Events /\ e.ev = "result" /\ e.id = m.id
  BY <1>1, <1>2 DEF Result, Results, Events
<1>4. /\ owed' = owed \ {m}
      /\ pendingRpc' = [pendingRpc EXCEPT ![m.proc] = @ \ {m.id}]
      /\ queue' = queue \/ queue' = Append(queue, e)
      /\ UNCHANGED <<workers, ran, netVars, clientVars>>
  BY <1>1 DEF sendRpcResult
<1>5. /\ Append(queue, e) \in Seq(Events) /\ Elems(Append(queue, e)) = Elems(queue) \cup {e}
      /\ \A id \in Calls : OneToken(queue, id) => OneToken(Append(queue, e), id)
  BY <1>3, Posted, PostedToken DEF Typed, IsToken
<1>6. /\ queue' \in Seq(Events) /\ Elems(queue) \subseteq Elems(queue')
      /\ Elems(queue') \subseteq Elems(queue) \cup {e}
      /\ \A id \in Calls : OneToken(queue, id) => OneToken(queue', id)
  BY <1>4, <1>5 DEF Typed
<1>7. \A id \in Calls : NoToken(queue, id) => NoToken(queue', id)
  BY <1>3, <1>6 DEF NoToken, IsToken
<1>8. /\ pendingRpc' \in [Procs -> SUBSET Calls]
      /\ \A pr \in Procs : pendingRpc'[pr] \subseteq pendingRpc[pr]
      /\ m.id \notin pendingRpc'[m.proc]
  BY <1>2, <1>4 DEF Typed, TypeOK
<1>9. Typed'
  <2>1. \A i \in DOMAIN queue' : queue'[i].ev = "result" => queue'[i].code \in Codes
    BY <1>6, EventKinds DEF Results
  <2>2. QED BY <1>4, <1>6, <1>8, <2>1 DEF Typed, TypeOK, netVars, clientVars, callVars, mapVars
<1>10. Waiting' /\ Attributed'
  BY <1>3, <1>4, <1>6 DEF Waiting, Attributed, SlotOf, clientVars, callVars
<1>11. Truthful'
  BY <1>2, <1>3, <1>4, <1>6 DEF Truthful, Honest, Ran, netVars, clientVars, callVars
<1>12. Single'
  BY <1>4, <1>6, <1>7 DEF Single, clientVars, callVars
<1>13. Guarded'
  <2>1. m.proc \notin Threaded
    BY KindAssumption DEF Typed, TypeOK
  <2>2. \A w \in workers : w.call.proc \in Procs /\ w.call.proc # m.proc
    BY <2>1 DEF Typed, TypeOK, Workers, Slots
  <2>3. \A w \in workers : pendingRpc'[w.call.proc] = pendingRpc[w.call.proc]
    BY <2>2, <1>4 DEF Typed, TypeOK
  <2>4. QED BY <2>3, <1>4 DEF Guarded
<1>14. PendingIsOwed'
  <2> SUFFICES ASSUME NEW pr \in Procs, NEW id \in pendingRpc'[pr]
               PROVE  Owed(pr, id)'
    BY DEF PendingIsOwed, Owed
  <2>1. id \in pendingRpc[pr] /\ ~(pr = m.proc /\ id = m.id)
    BY <1>8
  <2>2. CASE \E x \in owed : x.proc = pr /\ x.id = id
    BY <2>1, <2>2, <1>4 DEF Owed
  <2>3. CASE pr \in Simplified /\ Queued(pr, id)
    BY <2>3, <1>6, QueuedElem, QueuedElemNext DEF Owed
  <2>4. CASE \E w \in workers : w.stage = "remembered" /\ w.call.proc = pr /\ w.call.id = id
    BY <2>4, <1>4 DEF Owed
  <2>5. QED BY <2>1, <2>2, <2>3, <2>4 DEF PendingIsOwed
<1>15. QED BY <1>9, <1>10, <1>11, <1>12, <1>13, <1>14

-----------------------------------------------------------------------------
(* Theorems                                                                *)

LEMMA NextInv == RpcInv /\ [Next]_vars => RpcInv'
<1> SUFFICES ASSUME RpcInv, [Next]_vars PROVE RpcInv'
  OBVIOUS
<1>1. ASSUME NEW id \in Calls, NEW name \in Names,
             startTask(id, name) \/ \E params \in BOOLEAN : invokeRPC(id, name, params)
      PROVE  RpcInv'
  BY <1>1, GenerateInv DEF startTask, invokeRPC
<1>2. ASSUME NEW id \in Calls, cancelRPCInvokation(id) \/ timeout(id) PROVE RpcInv'
  BY <1>2, CancelInv, TimeoutInv
<1>3. ASSUME NEW p \in Peers, subscribe(p) \/ unsubscribe(p) \/ disconnect(p) PROVE RpcInv'
  BY <1>3, SubscribeInv, UnsubscribeInv, DisconnectInv
<1>4. CASE ClientStep
  BY <1>1, <1>2, <1>3, <1>4 DEF ClientStep
<1>5. CASE \E p \in Peers : clientReceive(p)
  BY <1>5, ReceiveInv
<1>6. CASE Dispatch
  BY <1>6, DispatchInv
<1>7. CASE Work
  BY <1>7, LockWorkerInv, RememberWorkerInv, FinishWorkerInv DEF Work
<1>8. CASE Answer
  BY <1>8, AnswerInv DEF Answer, Codes
<1>9. CASE UNCHANGED vars
  <2> USE <1>9 DEF RpcInv, vars, serverVars, netVars, clientVars, callVars, mapVars
  <2>1. Typed' /\ Waiting' /\ Attributed'
    BY DEF Typed, TypeOK, Waiting, Attributed, SlotOf
  <2>2. Truthful' /\ Single'
    BY DEF Truthful, Honest, Ran, Single, NoToken
  <2>3. Guarded' /\ PendingIsOwed'
    BY DEF Guarded, PendingIsOwed, Queued
  <2>4. QED BY <2>1, <2>2, <2>3
<1>10. QED BY <1>4, <1>5, <1>6, <1>7, <1>8, <1>9 DEF Next

LEMMA RpcInvariant == Spec => []RpcInv
  BY InitInv, NextInv, PTL DEF Spec

\* The state of clients, network and server has its types, and every answer
\* that cVeinModuleRpc posts carries a result code.
THEOREM RpcTypes == Spec => []TypeOK
<1>1. RpcInv => TypeOK
  BY DEF RpcInv, Typed
<1>2. QED BY <1>1, RpcInvariant, PTL

\* RPC_SUCCESS reaches a caller only if a procedure that its name selects ran
\* for this call, be it called directly, by a worker or by the module.
THEOREM SuccessIsTrue == Spec => []SuccessMeansRan
<1>1. RpcInv => SuccessMeansRan
  BY DEF RpcInv, Truthful, SuccessMeansRan, Ran, Elems
<1>2. QED BY <1>1, RpcInvariant, PTL

\* A call that was not cancelled is never executed twice, whichever way it takes
\* through event queue, slots and thread pool.
THEOREM CallRunsOnce == Spec => []RunsOnce
<1>1. RpcInv => RunsOnce
  BY DEF RpcInv, Single, RunsOnce
<1>2. QED BY <1>1, RpcInvariant, PTL

\* m_pendingRpcHash and m_callIdPeerIdHash only hold calls that will be answered,
\* although the workers of a procedure insert and erase concurrently: m_mutex
\* keeps the steps of one from coming between those of another.
THEOREM PendingCallsOwed == Spec => []PendingIsOwed
<1>1. RpcInv => PendingIsOwed
  BY DEF RpcInv
<1>2. QED BY <1>1, RpcInvariant, PTL

\* A call ends once: late answers, time-outs and the answers to cancellations
\* change nothing.
THEOREM CallFinishesOnce == Spec => FinishedOnce
<1> DEFINE Once == \A id \in Calls : outcome[id] \notin Pending => outcome'[id] = outcome[id]
<1>1. ASSUME RpcInv, [Next]_vars PROVE [Once]_vars
  <2> USE <1>1
  <2> SUFFICES ASSUME NEW x \in Calls, outcome[x] \notin Pending PROVE outcome'[x] = outcome[x]
    OBVIOUS
  <2>1. outcome \in [Calls -> Outcomes] /\ x \notin calling /\ outcome[x] # "none"
    BY DEF RpcInv, Typed, TypeOK, Waiting, Pending
  <2>2. ASSUME NEW id \in Calls, NEW name \in Names,
               startTask(id, name) \/ \E params \in BOOLEAN : invokeRPC(id, name, params)
        PROVE  outcome'[x] = outcome[x]
    BY <2>1, <2>2 DEF startTask, invokeRPC, generateEvent
  <2>3. ASSUME NEW id \in Calls, cancelRPCInvokation(id) \/ timeout(id)
        PROVE  outcome'[x] = outcome[x]
    BY <2>1, <2>3 DEF cancelRPCInvokation, timeout
  <2>4. ASSUME NEW p \in Peers, subscribe(p) \/ unsubscribe(p) \/ disconnect(p)
        PROVE  outcome'[x] = outcome[x]
    BY <2>1, <2>4 DEF subscribe, unsubscribe, disconnect, clientVars, callVars
  <2>5. ASSUME NEW p \in Peers, clientReceive(p) PROVE outcome'[x] = outcome[x]
    BY <2>1, <2>5, Received DEF Pending
  <2>6. ASSUME Dispatch \/ Work \/ Answer \/ UNCHANGED vars PROVE outcome' = outcome
    BY <2>6 DEF Dispatch, Work, Answer, dispatchCall, dispatchSlot, callRPCFunction, forwardResult,
      forwardError, tryAddSubscription, removeSubscription, lockWorker, invoke, rememberWorker,
      finishWorker, sendRpcResult, vars, clientVars, callVars
  <2>7. QED BY <2>2, <2>3, <2>4, <2>5, <2>6 DEF Next, ClientStep
<1>2. QED BY <1>1, RpcInvariant, PTL DEF Spec, FinishedOnce
=============================================================================
