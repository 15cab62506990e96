------------------------------ MODULE VeinRpc -------------------------------
(***************************************************************************)
(* Remote procedure calls of one module: the clients that call             *)
(* (VfRPCInvoker in a task with a time-out, EntityComponentMap in a QML    *)
(* client), the server's event loop, cVeinModuleRpc with its worker        *)
(* threads and VfCppRpcSimplified.                                         *)
(*                                                                         *)
(* A call is found by name when its event is dispatched, handled when the  *)
(* queued slot runs, answered then, by a worker or by the module at a      *)
(* later time, and forwarded when the event of the answer is dispatched.   *)
(* The events NetworkSystem and TcpSystem exchange to read and to send a   *)
(* message (VeinNet) are one event here.                                   *)
(***************************************************************************)
EXTENDS Naturals, Sequences

CONSTANTS
  Peers,       \* clients
  QmlPeers,    \* those that are QML clients; the others use tasks
  Calls,       \* call ids, unique (QUuid::createUuid)
  Caller,      \* the client of each call
  ProcOrder,   \* signatures of the procedures in the order of their lookup
  Names,       \* signatures and other names clients may call
  Uses,        \* the names each client calls
  Matches,     \* <<procedure, name>>: the name selects the procedure
  Threaded,    \* procedures that run in the thread pool
  Async,       \* procedures whose function does not block (pFunctionBlocks)
  Simplified,  \* procedures based on VfCppRpcSimplified
  NoParams,    \* procedures without parameters
  Missing,     \* procedures whose function cannot be invoked
  MaxChanges   \* bound: subscriptions and unsubscriptions

Procs == {ProcOrder[i] : i \in DOMAIN ProcOrder}

ASSUME ProcAssumption ==
  /\ ProcOrder \in Seq(Names) /\ Matches \subseteq Procs \X Names
  /\ \A pr \in Procs : <<pr, pr>> \in Matches
\* "Do not use unblocking functions with threading": qFatal otherwise.
ASSUME KindAssumption ==
  Threaded \cap Async = {} /\ Simplified \cap (Threaded \cup Async) = {}
\* createRpc makes blocking procedures only; a module looks up the others
\* itself, by their exact signature.
ASSUME LookupAssumption ==
  \A pr \in Async \cup Simplified, n \in Names : <<pr, n>> \in Matches => n = pr
ASSUME CallerAssumption ==
  QmlPeers \subseteq Peers /\ Caller \in [Calls -> Peers]
ASSUME InstanceAssumption ==
  Uses \in [Peers -> SUBSET Names] /\ MaxChanges \in Nat

VARIABLES
  queue,       \* events and queued slots of the server's event loop
  workers,     \* calls handed to the thread pool; all but "queued" have the mutex
  pendingRpc,  \* m_pendingRpcHash, m_callIdPeerIdHash per procedure
  owed,        \* invocations the module has still to answer
  subscribed,  \* subscribers of the entity
  listed,      \* the entity has a list in m_subscriptions
  gone,        \* clients that have disconnected
  down,        \* messages on their way to a client
  wants,       \* clients that asked for the entity
  mapped,      \* QML clients that have the EntityComponentMap of the entity
  changes,     \* subscriptions and unsubscriptions so far
  calling,     \* calls clients wait for: m_pendingRPCs, m_pendingRPCCallbacks
  called,      \* the name each call was made with
  outcome,     \* history: what sigRPCFinished or the time-out reported
  cancelled,   \* history: calls their client has cancelled
  ran          \* history: the procedures that ran for each call

serverVars == <<workers, pendingRpc, owed, ran>>
netVars == <<subscribed, listed, gone, down>>
mapVars == <<wants, mapped, changes>>
callVars == <<calling, called, outcome, cancelled>>
clientVars == <<mapVars, callVars>>
vars == <<queue, serverVars, netVars, clientVars>>

Codes == {"success", "einval"}
Pending == {"none", "waiting"}
Stages == {"queued", "invoked", "remembered"}
Outcomes == Pending \cup Codes \cup {"error", "timeout", "dropped"}

\* RemoteProcedureData: a CALL with its parameters or without, a RESULT.
Call(id, name, params, again) ==
  [ev |-> "call", id |-> id, name |-> name, params |-> params, again |-> again]
Result(id, code) == [ev |-> "result", id |-> id, code |-> code]
\* ErrorData about the CALL m, which it contains.
RpcError(m) == [ev |-> "error", id |-> m.id]
\* The queued connection to callFunctionPrivate or callRPCFunction.
Slot(m, pr) == [ev |-> "slot", id |-> m.id, proc |-> pr, params |-> m.params, again |-> m.again]

Init ==
  /\ queue = <<>> /\ workers = {} /\ owed = {}
  /\ pendingRpc = [pr \in Procs |-> {}]
  /\ subscribed = QmlPeers /\ listed = (QmlPeers # {}) /\ gone = {}
  /\ down = [p \in Peers |-> <<>>]
  /\ wants = QmlPeers /\ mapped = QmlPeers /\ changes = 0
  /\ calling = {} /\ cancelled = {}
  /\ called = [id \in Calls |-> "none"]
  /\ outcome = [id \in Calls |-> "none"]
  /\ ran = [id \in Calls |-> <<>>]

-----------------------------------------------------------------------------
(* Clients                                                                 *)

post(ev) == queue' = Append(queue, ev)
Online(p) == p \notin gone

\* A CALL leaves a client, which waits for its id from now on.
generateEvent(id, name, params) ==
  /\ outcome[id] = "none" /\ Online(Caller[id]) /\ name \in Uses[Caller[id]]
  /\ calling' = calling \cup {id}
  /\ called' = [called EXCEPT ![id] = name]
  /\ outcome' = [outcome EXCEPT ![id] = "waiting"]
  /\ post(Call(id, name, params, FALSE))
  /\ UNCHANGED <<serverVars, netVars, mapVars, cancelled>>

\* A task makes the signature from the parameters it has.
startTask(id, name) == Caller[id] \notin QmlPeers /\ generateEvent(id, name, TRUE)

\* A QML client calls by a signature that introspection gave it, with any
\* parameters.
invokeRPC(id, name, params) ==
  /\ Caller[id] \in QmlPeers /\ Caller[id] \in mapped /\ name \in Procs
  /\ generateEvent(id, name, params)

\* The cancellation of a QML client is another CALL, without parameters.
\* Bound: once per call.
cancelRPCInvokation(id) ==
  /\ id \in calling \ cancelled /\ Caller[id] \in QmlPeers /\ Online(Caller[id])
  /\ cancelled' = cancelled \cup {id}
  /\ post(Call(id, called[id], FALSE, TRUE))
  /\ UNCHANGED <<serverVars, netVars, mapVars, calling, called, outcome>>

\* TaskDecoratorTimeout ends a task and with it its VfRPCInvoker.
timeout(id) ==
  /\ id \in calling /\ Caller[id] \notin QmlPeers
  /\ calling' = calling \ {id}
  /\ outcome' = [outcome EXCEPT ![id] = "timeout"]
  /\ UNCHANGED <<queue, serverVars, netVars, mapVars, called, cancelled>>

\* A QML client that still has the map sends nothing.
subscribe(p) ==
  /\ Online(p) /\ p \notin wants /\ changes < MaxChanges
  /\ wants' = wants \cup {p} /\ changes' = changes + 1
  /\ IF p \in mapped THEN UNCHANGED queue ELSE post([ev |-> "subscribe", peer |-> p])
  /\ UNCHANGED <<serverVars, netVars, mapped, callVars>>

\* A QML client drops the map and the calls in it.
unsubscribe(p) ==
  /\ Online(p) /\ p \in wants /\ (p \in QmlPeers => p \in mapped) /\ changes < MaxChanges
  /\ wants' = wants \ {p} /\ mapped' = mapped \ {p} /\ changes' = changes + 1
  /\ post([ev |-> "unsubscribe", peer |-> p])
  /\ LET dropped == {id \in calling : Caller[id] = p /\ p \in QmlPeers} IN
     /\ calling' = calling \ dropped
     /\ outcome' = [id \in Calls |-> IF id \in dropped THEN "dropped" ELSE outcome[id]]
  /\ UNCHANGED <<serverVars, netVars, called, cancelled>>

disconnect(p) ==
  /\ Online(p)
  /\ gone' = gone \cup {p}
  /\ down' = [down EXCEPT ![p] = <<>>]
  /\ post([ev |-> "disconnected", peer |-> p])
  /\ UNCHANGED <<serverVars, subscribed, listed, clientVars>>

finish(id, how) ==
  /\ calling' = calling \ {id}
  /\ outcome' = [outcome EXCEPT ![id] = IF id \in calling THEN how ELSE @]

\* An error quotes the call; other clients do not know its id.
processErrorData(p, id) ==
  \/ Caller[id] = p /\ p \notin QmlPeers /\ finish(id, "error")
  \/ (Caller[id] # p \/ p \in QmlPeers) /\ UNCHANGED <<calling, outcome>> \* QML: a warning

\* Fault: the call is not taken off the pending ones.
processRpcResultKeeps(id, code) ==
  /\ outcome' = [outcome EXCEPT ![id] = IF id \in calling THEN code ELSE @]
  /\ UNCHANGED calling

\* A result finishes the call with its id if that is still waited for.
processRpcResult(id, code) == finish(id, code)

clientReceive(p) ==
  /\ down[p] # <<>>
  /\ down' = [down EXCEPT ![p] = Tail(@)]
  /\ LET m == Head(down[p]) IN
     \/ m.ev = "result" /\ processRpcResult(m.id, m.code) /\ UNCHANGED mapped
     \/ m.ev = "error" /\ processErrorData(p, m.id) /\ UNCHANGED mapped
     \/ m.ev = "introspection" /\ mapped' = mapped \cup ({p} \cap QmlPeers) /\ UNCHANGED <<calling, outcome>>
  /\ UNCHANGED <<queue, serverVars, subscribed, listed, gone, wants, changes, called, cancelled>>

-----------------------------------------------------------------------------
(* The server                                                              *)

First(ev) == queue # <<>> /\ Head(queue).ev = ev
consume(events) == queue' = Tail(queue) \o events

\* VfCppEntity takes the first signature that contains the name.
Found(name) == {pr \in Procs : <<pr, name>> \in Matches}
Chosen(name) ==
  ProcOrder[CHOOSE i \in DOMAIN ProcOrder :
    /\ ProcOrder[i] \in Found(name)
    /\ \A j \in DOMAIN ProcOrder : ProcOrder[j] \in Found(name) => i <= j]

\* VfCppRpcSimplified::callFunction remembers the call at once.
remember(m, pr) == pendingRpc' = [pendingRpc EXCEPT ![pr] = IF pr \in Simplified THEN @ \cup {m.id} ELSE @]

handleRpcs(m) ==
  \/ /\ Found(m.name) = {}
     /\ consume(<<RpcError(m)>>)
     /\ UNCHANGED pendingRpc
  \/ /\ Found(m.name) # {}
     /\ consume(<<Slot(m, Chosen(m.name))>>)
     /\ remember(m, Chosen(m.name))

dispatchCall ==
  /\ First("call")
  /\ handleRpcs(Head(queue))
  /\ UNCHANGED <<workers, owed, ran, netVars, clientVars>>

\* The parameters are there and the function could be invoked.
callOk(m) == (m.params \/ m.proc \in NoParams) /\ m.proc \notin Missing
\* A function that does not block answers later.
Later(m) == callOk(m) /\ m.proc \in Async
run(m) == ran' = [ran EXCEPT ![m.id] = IF callOk(m) THEN Append(@, m.proc) ELSE @]
owe(m) == owed' = IF Later(m) THEN owed \cup {m} ELSE owed

resultCode(m) == IF callOk(m) THEN "success" ELSE "einval"

\* m_pendingRpcHash gets the call, and loses it again if it is answered now.
answer(m, code, after) ==
  /\ pendingRpc' = [pendingRpc EXCEPT ![m.proc] = IF Later(m) THEN @ \cup {m.id} ELSE @ \ {m.id}]
  /\ queue' = IF Later(m) THEN after ELSE Append(after, Result(m.id, code))

\* Fault: the result code is set on success only.
rpcHandlingNoCode(m, after) ==
  run(m) /\ owe(m) /\ answer(m, IF callOk(m) THEN "success" ELSE "none", after)

\* Fault: the result code starts as success.
rpcHandlingOptimistic(m, after) ==
  run(m) /\ owe(m) /\ answer(m, "success", after)

\* The function is invoked, the call remembered, and answered at once if the
\* function blocks or could not be invoked.
rpcHandling(m, after) ==
  run(m) /\ owe(m) /\ answer(m, resultCode(m), after)

\* QtConcurrent::run: rpcHandling as a job of the thread pool.
Worker(m) == [call |-> m, stage |-> "queued", hash |-> {}]

\* Fault: a threaded function is called directly as well.
callFunctionPrivateNoElse(m) ==
  \/ /\ m.proc \in Threaded
     /\ workers' = workers \cup {Worker(m)}
     /\ rpcHandling(m, Tail(queue))
  \/ /\ m.proc \notin Threaded \cup Simplified
     /\ rpcHandling(m, Tail(queue))
     /\ UNCHANGED workers

callFunctionPrivate(m) ==
  \/ /\ m.proc \in Threaded
     /\ workers' = workers \cup {Worker(m)}
     /\ consume(<<>>)
     /\ UNCHANGED <<pendingRpc, owed, ran>>
  \/ /\ m.proc \notin Threaded \cup Simplified
     /\ rpcHandling(m, Tail(queue))
     /\ UNCHANGED workers

dispatchSlot ==
  /\ First("slot")
  /\ callFunctionPrivate(Head(queue))
  /\ UNCHANGED <<netVars, clientVars>>

\* callRPCFunction of the module: it checks its parameters itself.
callRPCFunction ==
  /\ First("slot") /\ Head(queue).proc \in Simplified
  /\ LET m == Head(queue) IN
     /\ owed' = owed \cup {m}
     /\ ran' = [ran EXCEPT ![m.id] = Append(@, m.proc)]
  /\ consume(<<>>)
  /\ UNCHANGED <<workers, pendingRpc, netVars, clientVars>>

\* rpcHandling in a worker. The insertion into m_pendingRpcHash reads the hash
\* and writes it: a step each, for other threads to come between.
becomes(w, x) == workers' = (workers \ {w}) \cup {x}
invoke(w) ==
  /\ w.stage = "queued"
  /\ run(w.call)
  /\ becomes(w, [w EXCEPT !.stage = "invoked", !.hash = pendingRpc[w.call.proc]])
  /\ UNCHANGED <<queue, pendingRpc, owed, netVars, clientVars>>

\* Fault: no mutex.
lockWorkerFree(w) == invoke(w)

\* A worker gets m_mutex of its procedure and invokes the function, ...
lockWorker(w) ==
  /\ \A x \in workers : x.stage # "queued" => x.call.proc # w.call.proc
  /\ invoke(w)

\* ... remembers the call ...
rememberWorker(w) ==
  /\ w.stage = "invoked"
  /\ pendingRpc' = [pendingRpc EXCEPT ![w.call.proc] = w.hash \cup {w.call.id}]
  /\ becomes(w, [w EXCEPT !.stage = "remembered", !.hash = {}])
  /\ UNCHANGED <<queue, owed, ran, netVars, clientVars>>

\* ... and keeps the mutex until the answer is posted: threaded functions block.
finishWorker(w) ==
  LET m == w.call IN
  /\ w.stage = "remembered"
  /\ pendingRpc' = [pendingRpc EXCEPT ![m.proc] = @ \ {m.id}]
  /\ queue' = IF m.id \in pendingRpc[m.proc] THEN Append(queue, Result(m.id, resultCode(m))) ELSE queue
  /\ workers' = workers \ {w}
  /\ UNCHANGED <<owed, ran, netVars, clientVars>>

\* Fault: the call is forgotten before it is looked up.
sendRpcResultForgets(m, code) ==
  /\ owed' = owed \ {m}
  /\ pendingRpc' = [pendingRpc EXCEPT ![m.proc] = @ \ {m.id}]
  /\ UNCHANGED <<queue, workers, ran, netVars, clientVars>>

\* The module answers a call: sendRpcResult, or sendRpcError with EINVAL.
sendRpcResult(m, code) ==
  /\ owed' = owed \ {m}
  /\ pendingRpc' = [pendingRpc EXCEPT ![m.proc] = @ \ {m.id}]
  /\ queue' = IF m.id \in pendingRpc[m.proc] THEN Append(queue, Result(m.id, code)) ELSE queue
  /\ UNCHANGED <<workers, ran, netVars, clientVars>>

deliver(to, m) ==
  down' = [p \in Peers |-> IF p \in to \ gone THEN Append(down[p], m) ELSE down[p]]

\* Results go to the caller, provided the entity has or had subscribers.
forwardResult ==
  /\ First("result")
  /\ deliver(IF listed THEN {Caller[Head(queue).id]} ELSE {}, Head(queue))
  /\ consume(<<>>)
  /\ UNCHANGED <<serverVars, subscribed, listed, gone, clientVars>>

\* Errors go to all subscribers.
forwardError ==
  /\ First("error")
  /\ deliver(subscribed, Head(queue))
  /\ consume(<<>>)
  /\ UNCHANGED <<serverVars, subscribed, listed, gone, clientVars>>

\* The subscription is entered and IntrospectionSystem answers the subscriber.
\* Its answer is an event of its own in VeinNet; RPCs cannot tell the difference.
tryAddSubscription ==
  /\ First("subscribe")
  /\ subscribed' = subscribed \cup {Head(queue).peer} /\ listed' = TRUE
  /\ deliver({Head(queue).peer}, [ev |-> "introspection"])
  /\ consume(<<>>)
  /\ UNCHANGED <<serverVars, gone, clientVars>>

removeSubscription ==
  /\ First("unsubscribe") \/ First("disconnected")
  /\ subscribed' = subscribed \ {Head(queue).peer}
  /\ consume(<<>>)
  /\ UNCHANGED <<serverVars, listed, gone, down, clientVars>>

Dispatch ==
  \/ dispatchCall
  \/ dispatchSlot
  \/ callRPCFunction
  \/ forwardResult
  \/ forwardError
  \/ tryAddSubscription
  \/ removeSubscription

Work == \E w \in workers : lockWorker(w) \/ rememberWorker(w) \/ finishWorker(w)
Answer ==
  \E m \in owed : \/ sendRpcResult(m, "success")
                  \/ m.proc \in Simplified /\ sendRpcResult(m, "einval")

ClientStep ==
  \/ \E id \in Calls, name \in Names :
       startTask(id, name) \/ \E params \in BOOLEAN : invokeRPC(id, name, params)
  \/ \E id \in Calls : cancelRPCInvokation(id) \/ timeout(id)
  \/ \E p \in Peers : subscribe(p) \/ unsubscribe(p) \/ disconnect(p)

Next ==
  \/ ClientStep
  \/ \E p \in Peers : clientReceive(p)
  \/ Dispatch
  \/ Work
  \/ Answer

Spec == Init /\ [][Next]_vars

\* The event loops run, the thread pool gives every worker its turn, and the
\* module answers what it was called for (external).
FairSpec ==
  /\ Spec
  /\ WF_vars(Dispatch) /\ WF_vars(Work) /\ WF_vars(Answer)
  /\ \A p \in Peers : WF_vars(clientReceive(p))

-----------------------------------------------------------------------------
(* Properties                                                              *)

\* The types of the state of clients, network and server; an answer in the
\* event queue always carries a result code.
TypeOK ==
  /\ \A i \in DOMAIN queue : queue[i].ev = "result" => queue[i].code \in Codes
  /\ \A w \in workers : w.call.proc \in Threaded /\ w.stage \in Stages
  /\ pendingRpc \in [Procs -> SUBSET Calls]
  /\ \A m \in owed : m.id \in Calls /\ m.proc \in Async \cup Simplified
  /\ subscribed \subseteq Peers /\ listed \in BOOLEAN /\ gone \subseteq Peers
  /\ wants \subseteq Peers /\ mapped \subseteq QmlPeers /\ changes \in 0..MaxChanges
  /\ calling \subseteq Calls /\ cancelled \subseteq Calls
  /\ called \in [Calls -> Names \cup {"none"}]
  /\ outcome \in [Calls -> Outcomes]
  /\ ran \in [Calls -> Seq(Procs)]

\* sigRPCFinished, the time-out or the loss of the map ends a call: whatever
\* arrives later (a late answer, the answer to its cancellation) changes nothing.
FinishedOnce ==
  [][\A id \in Calls : outcome[id] \notin Pending => outcome'[id] = outcome[id]]_vars

\* RPC_SUCCESS means that a procedure the caller's name selects did run for this
\* very call.
SuccessMeansRan ==
  \A id \in Calls : outcome[id] = "success" =>
    \E i \in DOMAIN ran[id] : <<ran[id][i], called[id]>> \in Matches

\* A call that was not cancelled runs at most one procedure, once.
RunsOnce == \A id \in Calls \ cancelled : Len(ran[id]) <= 1

\* A call that m_pendingRpcHash or m_callIdPeerIdHash holds is one that the module
\* or a worker will still answer, so the hashes do not grow with every call: no
\* worker writes back an entry that another has erased meanwhile.
Queued(pr, id) ==
  \E i \in DOMAIN queue : queue[i].ev = "slot" /\ queue[i].proc = pr /\ queue[i].id = id
PendingIsOwed ==
  \A pr \in Procs : \A id \in pendingRpc[pr] :
    \/ \E m \in owed : m.proc = pr /\ m.id = id
    \/ pr \in Simplified /\ Queued(pr, id)
    \/ \E w \in workers : w.stage = "remembered" /\ w.call.proc = pr /\ w.call.id = id

\* A call of a QML client, which has no time-out, ends unless the client leaves.
CallAnswered ==
  \A id \in Calls : Caller[id] \in QmlPeers =>
    (id \in calling ~> (id \notin calling \/ Caller[id] \in gone))
=============================================================================
