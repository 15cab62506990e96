------------------------------ MODULE VeinTasks ------------------------------
(***************************************************************************)
(* Client tasks (TaskSimpleVeinGetter, TaskSimpleVeinEntityGetter,         *)
(* TaskSimpleVeinSetter) and the core stack client on one connection of    *)
(* VeinNet.  A task subscribes, fetches and possibly sets; its actors do   *)
(* not know their own answers: any introspection, FETCH, SET or error about *)
(* their entity and component ends them.  So tasks of one client end each  *)
(* other's steps, and other clients and modules do too.                    *)
(***************************************************************************)
EXTENDS VeinNet, SequencesExt

CONSTANTS
  TaskPeer,    \* the connection of the client
  Tasks,       \* task objects, each started once
  Kind,        \* per task: "getter", "entityGetter" or "setter"
  TaskKey,     \* per task: entity and component it is about
  TaskValue,   \* per setter: the new value
  Unparsable   \* pairs of old and new value: the old one is JSON, the new one is not

ASSUME TaskAssumption ==
  /\ TaskPeer \in Peers
  /\ IsFiniteSet(Tasks)
  /\ Kind \in [Tasks -> {"getter", "entityGetter", "setter"}]
  /\ TaskKey \in [Tasks -> Keys] /\ TaskValue \in [Tasks -> Val]

VARIABLES
  stage,     \* per task: the sub-task it is at
  waiting,   \* per task: components whose fetcher has not finished
  fetched,   \* per task: value of each component fetched
  ok,        \* per task: result so far; final at "done"
  subItems,  \* VfCoreStackClient::m_pendingCommandEventItems, subscribers per entity
  unsubItems, \* and unsubscribers per entity
  calm,      \* history: no module and no other client has done anything yet
  applied    \* history: the module had the new value since the task started

taskVars == <<stage, waiting, fetched, ok>>
itemVars == <<subItems, unsubItems>>
historyVars == <<calm, applied>>
allVars == <<vars, taskVars, itemVars, historyVars>>

Entity(t) == TaskKey[t][1]

TaskInit ==
  /\ Init
  /\ stage = [t \in Tasks |-> "idle"]
  /\ waiting = [t \in Tasks |-> {}]
  /\ fetched = [t \in Tasks |-> [c \in Components |-> Absent]]
  /\ ok = [t \in Tasks |-> TRUE]
  /\ subItems = [e \in Entities |-> 0] /\ unsubItems = [e \in Entities |-> 0]
  /\ calm = TRUE /\ applied = [t \in Tasks |-> FALSE]

-----------------------------------------------------------------------------
\* Both histories after a step; alone says whether the client's own requests
\* and the server's reactions are all it consists of.
remember(alone) ==
  /\ calm' = (calm /\ alone)
  /\ applied' = [t \in Tasks |->
       applied[t] \/ (stage'[t] # "idle" /\ module'[TaskKey[t]] = TaskValue[t])]

-----------------------------------------------------------------------------
(* Calls                                                                    *)

Request(d) == Envelope(Cmd(TRUE, TRUE, d, NoPeer))

\* A request sent before the connection is up is lost.
sendEvent(d) ==
  /\ up' = [up EXCEPT ![TaskPeer] =
       IF TaskPeer \in online THEN Append(@, Request(d)) ELSE @]
  /\ UNCHANGED <<dbVars, queue, modVars, subVars, peerState, down, clientVars>>

\* Every task starts with a subscription, whether the client has one or not.
start(t) ==
  /\ stage[t] = "idle"
  /\ Call
  /\ sendEvent(EntityData("SUBSCRIBE", Entity(t)))
  /\ stage' = [stage EXCEPT ![t] = "subscribing"]
  /\ UNCHANGED <<waiting, fetched, ok, itemVars>>
  /\ remember(TRUE)

subscribeEntity(e) ==
  /\ Call
  /\ sendEvent(EntityData("SUBSCRIBE", e))
  /\ subItems' = [subItems EXCEPT ![e] = @ + 1]
  /\ UNCHANGED <<taskVars, unsubItems>>
  /\ remember(TRUE)

unsubscribeEntity(e) ==
  /\ Call
  /\ sendEvent(EntityData("UNSUBSCRIBE", e))
  /\ unsubItems' = [unsubItems EXCEPT ![e] = @ + 1]
  /\ UNCHANGED <<taskVars, subItems>>
  /\ remember(TRUE)

-----------------------------------------------------------------------------
(* Reactions of a task to message m: its state afterwards and what it sends. *)

Task(t) == [stage |-> stage[t], waiting |-> waiting[t], fetched |-> fetched[t], ok |-> ok[t]]
Finished(r, good) == [r EXCEPT !.stage = "done", !.ok = good, !.waiting = {}]

\* VfClientEntitySubscriber: introspection of the entity, whoever asked for it,
\* starts the fetcher, or one fetcher per component the entity has.
onIntrospected(t, m) ==
  [Task(t) EXCEPT
     !.stage = "fetching",
     !.waiting = IF Kind[t] = "entityGetter" THEN {c \in Components : m.val[c] # Absent}
                 ELSE {TaskKey[t][2]}]

\* VfClientComponentSetter::startSetComponent, after TaskSimpleVeinSetter has
\* converted the new value to JSON if the old one is.  Without a SET to wait
\* for the result is emitted by the event loop.
startSetComponentTask(t, r) ==
  LET old == r.fetched[TaskKey[t][2]]
      new == TaskValue[t]
  IN CASE <<old, new>> \in Unparsable -> Finished(r, FALSE)
       [] <<old, new>> \notin Unparsable /\ new = Invalid -> [r EXCEPT !.stage = "finishing", !.ok = FALSE]
       [] <<old, new>> \notin Unparsable /\ new # Invalid /\ old = new -> [r EXCEPT !.stage = "finishing"]
       [] OTHER -> [r EXCEPT !.stage = "setting"]

\* A fetcher is done.  The last one ends a getter; a setter goes on if it
\* has the old value.
fetcherDone(t, c, v, good) ==
  LET r == [Task(t) EXCEPT !.waiting = @ \ {c}, !.fetched[c] = v, !.ok = @ /\ good] IN
  IF r.waiting # {} THEN r
  ELSE IF Kind[t] = "setter" /\ good THEN startSetComponentTask(t, r)
  ELSE Finished(r, r.ok)

\* The command the task waits for at its stage.
Awaited(t) ==
  CASE stage[t] = "subscribing" -> "SUBSCRIBE"
    [] stage[t] = "fetching" -> "C_FETCH"
    [] stage[t] = "setting" -> "C_SET"
    [] OTHER -> "NOTHING"

\* VfCmdEventHandler and VfEntityComponentEventItem hand m to the waiting item:
\* by entity, and by component if it waits for a component.
Concerns(t, m) ==
  /\ m.ent = Entity(t)
  /\ stage[t] = "fetching" => m.comp \in waiting[t]
  /\ stage[t] = "setting" => m.comp = TaskKey[t][2]

\* Fault: a setter takes any data of its component for its answer.
AnswersAny(t, m) ==
  IF stage[t] = "setting" THEN m.data \in {"C_SET", "C_FETCH"}
  ELSE m.data = IF stage[t] = "subscribing" THEN "INTRO" ELSE Awaited(t)

\* A SUBSCRIBE is answered by introspection, all else by the same command.
Answers(t, m) == m.data = IF stage[t] = "subscribing" THEN "INTRO" ELSE Awaited(t)

\* Fault: errors are taken to be for somebody else.
FailsNever(t, m) == FALSE

\* Error data quotes the command that failed.
Fails(t, m) == m.data = "ERROR" /\ m.val = Awaited(t)

react(t, m) ==
  CASE ~Concerns(t, m) \/ ~(Answers(t, m) \/ Fails(t, m)) -> Task(t)
    [] stage[t] = "subscribing" /\ Concerns(t, m) /\ Answers(t, m) -> onIntrospected(t, m)
    [] stage[t] = "subscribing" /\ Concerns(t, m) /\ Fails(t, m) -> Finished(Task(t), FALSE)
    [] stage[t] = "fetching" /\ Concerns(t, m) /\ (Answers(t, m) \/ Fails(t, m)) ->
         fetcherDone(t, m.comp, IF Answers(t, m) THEN m.val ELSE Invalid, Answers(t, m))
    [] OTHER -> [Task(t) EXCEPT !.stage = "finishing", !.ok = Answers(t, m)]

\* The components of S in the order of the entity's component list.
InKeyOrder(S) ==
  LET listed[i \in 0..Len(ComponentOrder)] ==
        IF i = 0 THEN <<>>
        ELSE IF ComponentOrder[i] \in S THEN Append(listed[i - 1], ComponentOrder[i])
        ELSE listed[i - 1]
  IN listed[Len(ComponentOrder)]

\* What task t sends on its way to state r; a getter of an entity starts all
\* its fetchers.
RequestsOf(t, r) ==
  LET fetching == InKeyOrder(r.waiting) IN
  CASE stage[t] = "subscribing" /\ r.stage = "fetching" ->
         [i \in DOMAIN fetching |-> Request(ComponentData("C_FETCH", Entity(t), fetching[i], Invalid))]
    [] stage[t] = "fetching" /\ r.stage = "setting" ->
         <<Request(ComponentData("C_SET", Entity(t), TaskKey[t][2], TaskValue[t]))>>
    [] OTHER -> <<>>

TaskOrders == SetToSeqs(Tasks)

\* VfCoreStackClient::onSubscribed: m ends the subscribers of entity e.
endsSubscribers(e, m) ==
  m.ent = e /\ (m.data = "INTRO" \/ (m.data = "ERROR" /\ m.val = "SUBSCRIBE"))

\* VfClientEntityUnsubscriber compares the type of the event with the type of
\* entity data, which no event has, and nobody answers with an error: its items
\* stay in the table.
endsUnsubscribers(e, m) == m.ent = e /\ m.data = "ERROR" /\ m.val = "UNSUBSCRIBE"

\* The client handles the next message of the server: the core stack client's
\* items end, every task reacts, and what they send leaves in the order the
\* items happen to have.
processCommandEvent ==
  LET m == Head(down[TaskPeer])
      next == [t \in Tasks |-> react(t, m)]
  IN /\ down[TaskPeer] # <<>>
     /\ \E order \in TaskOrders :
          receive(TaskPeer, FlattenSeq([i \in DOMAIN order |-> RequestsOf(order[i], next[order[i]])]))
     /\ stage' = [t \in Tasks |-> next[t].stage]
     /\ waiting' = [t \in Tasks |-> next[t].waiting]
     /\ fetched' = [t \in Tasks |-> next[t].fetched]
     /\ ok' = [t \in Tasks |-> next[t].ok]
     /\ subItems' = [e \in Entities |-> IF endsSubscribers(e, m) THEN 0 ELSE subItems[e]]
     /\ unsubItems' = [e \in Entities |-> IF endsUnsubscribers(e, m) THEN 0 ELSE unsubItems[e]]
     /\ remember(TRUE)

\* The queued sigSetFinish of a setter.
emitSigSetFinish(t) ==
  /\ stage[t] = "finishing"
  /\ stage' = [stage EXCEPT ![t] = "done"]
  /\ UNCHANGED <<vars, waiting, fetched, ok, itemVars>>
  /\ remember(TRUE)

\* Fault: the fetchers stay in the handler.
timeoutKeepsFetchers(t) ==
  /\ stage[t] \in {"subscribing", "fetching", "setting", "finishing"}
  /\ stage' = [stage EXCEPT ![t] = "done"]
  /\ ok' = [ok EXCEPT ![t] = FALSE]
  /\ UNCHANGED <<vars, waiting, fetched, itemVars>>
  /\ remember(TRUE)

\* TaskDecoratorTimeout gives up on the sub-task; its item is removed.
timeout(t) ==
  /\ stage[t] \in {"subscribing", "fetching", "setting", "finishing"}
  /\ stage' = [stage EXCEPT ![t] = "done"]
  /\ ok' = [ok EXCEPT ![t] = FALSE]
  /\ waiting' = [waiting EXCEPT ![t] = {}]
  /\ UNCHANGED <<vars, fetched, itemVars>>
  /\ remember(TRUE)

-----------------------------------------------------------------------------
\* Modules and other clients may touch components.
Others ==
  /\ ModuleCall \/ \E p \in Peers \ {TaskPeer} : ClientCall(p) \/ clientReceive(p)
  /\ UNCHANGED <<taskVars, itemVars>>
  /\ remember(FALSE)

\* The server and the connection.
ServerAndLink ==
  /\ \/ Dispatch
     \/ \E p \in Peers : onMessageReceived(p)
     \/ connectToServer(TaskPeer)
     \/ onClientDisconnected(TaskPeer)
  /\ UNCHANGED <<taskVars, itemVars>>
  /\ remember(TRUE)

TaskNext ==
  \/ Others
  \/ ServerAndLink
  \/ \E t \in Tasks : start(t)
  \/ \E t \in Tasks : emitSigSetFinish(t)
  \/ \E t \in Tasks : timeout(t)
  \/ \E e \in Entities : subscribeEntity(e)
  \/ \E e \in Entities : unsubscribeEntity(e)
  \/ processCommandEvent

TaskSpec == TaskInit /\ [][TaskNext]_allVars

\* The event loops of server and client run; no time-out has to come.
TaskFairSpec ==
  /\ TaskSpec
  /\ WF_allVars(Dispatch /\ ServerAndLink)
  /\ \A p \in Peers : WF_allVars(onMessageReceived(p) /\ ServerAndLink)
  /\ WF_allVars(processCommandEvent)
  /\ \A t \in Tasks : WF_allVars(emitSigSetFinish(t))

-----------------------------------------------------------------------------
(* Properties                                                              *)

\* Types of the client.
TaskTypeOK ==
  /\ TypeOK
  /\ stage \in [Tasks -> {"idle", "subscribing", "fetching", "setting", "finishing", "done"}]
  /\ \A t \in Tasks : waiting[t] # {} <=> stage[t] = "fetching"
  /\ waiting \in [Tasks -> SUBSET Components]
  /\ fetched \in [Tasks -> [Components -> MaybeVal]]
  /\ ok \in [Tasks -> BOOLEAN]
  /\ subItems \in [Entities -> 0..MaxOps] /\ unsubItems \in [Entities -> 0..MaxOps]

\* A fetch is answered without a time-out, by a value or by an error, whatever
\* happens to the component meanwhile, as long as nobody on the connection
\* unsubscribes the entity and the entity stays.
FetchAnswered ==
  \A t \in Tasks :
    stage[t] = "fetching" ~> \/ stage[t] # "fetching"
                             \/ TaskPeer \notin subscribed[Entity(t)] \/ peerState[TaskPeer] = "gone"

\* While modules and other clients are silent, a setter that reports success
\* has set its component, if it is the only setter of that component: what
\* getters and other setters ask for and are told is not taken for its answer,
\* and what a read-only component says is not taken for success.
SetterTruthful ==
  \A t \in Tasks :
    /\ Kind[t] = "setter" /\ stage[t] = "done" /\ ok[t] /\ calm
    /\ \A u \in Tasks \ {t} : Kind[u] = "setter" /\ TaskKey[u] = TaskKey[t] => stage[u] = "idle"
    => applied[t]
=============================================================================
