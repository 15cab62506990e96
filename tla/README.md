# A TLA+ model of the vein framework

vein distributes the state of a measuring device. A server keeps *entities* with named *components* (a value each) and
remote procedures (RPCs); modules in the server own entities; clients subscribe to entities over TCP, keep a replica of
them and ask for changes. Everything travels as *command events* through event systems that share one event loop.

This directory models the parts of that system that carry its logic, checks them with TLC on small instances and proves
the central invariants with TLAPS for instances of any size. `PROJECT.json` lists the components, the runs, the mutants
that show that every property can fail, the source lines behind every definition, the findings, the hazards of the code
and the theorems.

## 1. Inventory

| Component | Source (below `src/`) | State | Operations | Module |
|---|---|---|---|---|
| Server storage | `framework/vf-storage/lib` | two maps entity -> component -> object (stored, future), RPC names | entity add/remove; component add/remove/set/fetch; RPC registration; direct access to (future) components | `VeinStorage`, abstract: `VeinDatabase` |
| Event handler, event systems | `framework/vf-event`, `server-libs/modman-base/lib/moduleeventhandler.cpp` | ordered list of systems, Qt's queue | post; dispatch until accepted; attach/detach | queue and order in `VeinNet` |
| Command event data | `framework/vf-component/lib` | command, entity, component, old and new value, origin, target | (de)serialize, `setNewValue` | `VeinNet` (`Cmd`, `Envelope`), `VeinStorage` (`rewrite`) |
| Network system | `network/vf-net2/lib/vn_networksystem.cpp` | subscriptions: entity -> peers | forward, subscribe, unsubscribe, peer gone, deserialize | `VeinNet` |
| TCP system | `network/vf-net2/lib/vn_tcpsystem.cpp` | peers, peers waiting for their first message | connect, receive, send, disconnect | `VeinNet` |
| Introspection system | `network/vf-net2/lib/vn_introspectionsystem.cpp` | none | answer SUBSCRIBE with a snapshot and one FETCH per component | `VeinNet` |
| Modules of the server | `server-libs/vf-cpp/lib` | own copy of each component's value, RPC objects | create/remove component and entity, set value, take a client's SET, find and run RPCs | `VeinNet`, RPCs in `VeinRpc` |
| Client storage | `framework/vf-storage/lib/vs_clientstorageeventsystem.cpp` | replica of subscribed entities | apply server messages | `VeinNet` |
| QML client | `client-libs/vf-qml/lib` | reference counts, resolved ids, dictionary of maps, VQ_IDLE/VQ_LOADED | subscribe, unsubscribe, write a property, apply server messages, call RPCs | `VeinQml`, RPC calls in `VeinRpc` |
| System module | `server-libs/modman-base/lib/systemmoduleeventsystem.cpp`, `xsession-change/lib` | session, ready flag, pause flag, `lxdm.conf` | validate requests; change session, XSession, pause state, developer mode | `VeinSession` |
| Command event items | `convenient-code/lib` (`container_safe_delete_while_loop.h`, `command-event-handler`) | set of items, iterator, deletions put off | add, remove, deliver an event | `SafeDeleteLoop` |
| Client actors and tasks | `convenient-code/lib` | pending request, time-out, items of the core stack client | subscribe, unsubscribe, fetch, set, call, time out | `VeinTasks`, RPC calls in `VeinRpc` |
| RPC execution | `server-libs/vf-cpp/lib/vf-cpp-rpc*.cpp` | calls in progress, worker threads | invoke, answer at once or later, cancel | `VeinRpc` |
| License system | `server-libs/modman-base/lib/licensesystem.cpp` | table of verified licenses, universal flag, granted systems, serial | read the files, ask for a system, take the serial | `VeinLicense` |
| Recorder | `framework/vf-storage/lib/recorder` | records, held component objects, trigger; averages and count of the interpolation | start, stop, record, average | `VeinRecorder` |
| TCP framing | `network/vf-tcp/lib` | sockets, unread bytes, peers of the server | connect, accept, send and read length-prefixed blocks, close, destroy | `VeinTcp`, abstract: `VeinChannel` |
| Mock network | `network/vf-tcp/mocknetworklib` | connected pairs of peers, messages under way | connect, send, deliver, close | `VeinChannel` |
| Validators, meta information, cryptography, test support | several | none, or OpenSSL's | value checks, JSON output, signatures | not modelled: stateless, or library calls |

How they interact: a module or a client posts a command event. The server's event loop takes the first event of the
FIFO queue and hands it to the systems in order (modules, system module, introspection, storage, network, TCP) until
one accepts it; what they send goes to the end of the queue. A *transaction* of a client becomes a *notification* once
it is validated (by the system module, or by the module that owns the component). Notifications with target `ET_ALL`
are sent to the subscribers of their entity. Clients work the same way with fewer systems.

What is hard: all order in the system is the order of the server's queue and of each connection, and snapshots,
requests, disconnects and session changes overtake each other there. The actors of a client do not know their own
answers and take whatever fits their entity and component. TCP cuts messages anywhere. Component objects are shared
pointers that outlive and predate the vein components they stand for. Containers are changed by the callbacks they call.
Everything in `PROJECT.json` under "hazards" is of one of these kinds.

## 2. Modules

**`VeinDatabase`** is what the storage promises: a table of entities, a value per stored and per future component and
RPC names. A command takes effect or is rejected; what it does to table and answer is stated exactly in both cases, and
a rejected command changes no entity and no component. Two things a reader may not expect are part of it because the
code does them: ADD and REMOVE of an entity by its owner (a local origin) forget the RPC names even when they are
rejected, and a FETCH of a component without a valid value answers with the value of the request (section 5). `VeinNet`
uses its actions as the server's storage, so the network model stands on what is proved of the storage.

**`VeinStorage`** models `StorageEventSystem`, `DatabaseHash` and `StorageComponent`. Component objects are numbers, so
that identity is visible: `db` and `future` are the two maps, `value` the content of the objects, `held` and `seen`
the pointer and the mirrored value of each consumer. One action per command, plus `hold` (a consumer asks for a
component or a future one) and `DirectWrite` (`AbstractComponent::setValue`). `MaxObjects` bounds object creation.
Not modelled: the value customizer.

**`VeinNet`** composes modules, system module (validation), introspection, storage, network and TCP system of a server
with any number of clients. `queue` is the server's event queue; `up` and `down` are the bytes of each connection.
Each `dispatch...` action is a whole pass of one event through all systems. A client's own queue is not interleaved:
between two messages from the server its events have no effect anybody else sees. `MaxOps` bounds the calls from outside.
A peer connects once; a reconnecting client is another peer, as `QUuid::createUuid` makes it in the code. Outside faults
are broken connections with the loss of unread bytes; TCP does not reorder. `ComponentLists` are the orders in which
`getComponentList`, a hash's list of keys, may name the components of an entity. `refused` is history: the components
whose ADD a client rejected because it had them already, until the value it kept is replaced (see section 5).

**`VeinQml`** extends `VeinNet` by the QML client on one of the connections: the same server, the same messages, with
the client's tables next to the replica. The `Q_ASSERT`s of `entityUnsubscribeById` are preconditions.

**`VeinSession`** models the system module: session changes with the module manager that builds a session
(external: it is only known through `sigChangeSession` and `initializeEntity`), XSession changes with a failing write,
commit or restart, pause state and developer mode. Requests and notifications share `queue`. The displayed names of
sessions, read from a JSON file, are the constant `JsonName`. External assumptions: clients are served once the first
session is there, and the module manager works asynchronously. The second one matters: `handleVeinSessionSet` clears
`m_sessionReady` *after* it emitted the signal, so a module manager that called `initializeEntity` within the signal
would leave the flag cleared for good (mutant `handleVeinSessionSetSynchronous`).

**`SafeDeleteLoop`** models the container that hands an event to items which add and remove each other, and themselves,
while it iterates. `ahead` is what the iterator has still to visit. An insertion lands on either side of the iterator,
and reorders the rest when the hash table grows (`RehashAt`: sizes at which it does). That is what libstdc++ does, whose
iterators point at nodes; by the C++ standard a rehash invalidates the iterators. `wanted` and `due` are history:
what the users asked for, and who was registered when the loop began.

**`VeinRpc`** models remote procedure calls of one module from the client to the answer. `queue` is the server's event
loop with the events of `VeinNet` (the several events that forward one message are one here) and the queued slots that
run a call; `workers` are the calls in the thread pool; `pendingRpc` are the hashes of calls in progress, `owed` what
the module (external) has still to answer. A worker takes three steps: it gets the mutex, invokes the function and reads
the hash (`lockWorker`); it writes the hash back with the call in it (`rememberWorker`); it looks the call up, answers and
erases it (`finishWorker`). Without the mutex other workers of the procedure come in between and updates of the hash are
lost (mutant `lockWorkerFree`). The kinds of procedures (threaded, asynchronous, simplified, without
parameters, not implemented) are constants. `VfCppEntity` can only hold blocking procedures and selects them by a name
their signature *contains* (`Matches`); a module looks up the other kinds itself, by equality, as
`vfentitywithrpcsimplified.cpp` does. A client is a task with a time-out (`startTask`) or a QML client (`invokeRPC`),
whose cancellation is a second CALL. `called`, `outcome`, `cancelled` and `ran` record what happened to a call; the code
needs only the first. `MaxChanges` bounds subscriptions, and a call is cancelled once at most. Not modelled: a function
that answers from inside its call, procedures that are destroyed while they run.

**`VeinChannel`** is the network the tests run on (`mocknetworklib`): whole messages, in order, at most once; an end that
is destroyed loses what was under way, and the other end hears of it after the last message. Its event queue is one queue
per direction. **`VeinTcp`** models `TcpPeerWorker` and `TcpServerWorker` over a byte stream that may be delivered in
pieces of any size, with connections that are refused or wait to be accepted, peers that are destroyed and a server that
goes away and comes back. A length has `HeaderLen` digits of base `Base` (4 and 256 in `QDataStream`), so that instances
of a few bytes split headers as well as blocks. The reader is the loop of `onReadyRead` around `readArray`, with its
transaction and the null array that ends it. Lengths, digits and the reader are recursive functions, so that they can be
reasoned about. `VeinTcp` implements `VeinChannel` (`ImplementsChannel`): a message is under way (`UnderWay`) as soon as
the bytes written so far contain its block. So `VeinNet` and `VeinRpc`, whose connections are queues of
messages, rest on a channel that the sockets provide. External: sockets and `QDataStream`.

**`VeinTasks`** extends `VeinNet` by the tasks of a client (`TaskSimpleVeinGetter`, `TaskSimpleVeinEntityGetter`,
`TaskSimpleVeinSetter`) and its core stack client on one connection. `stage` is the sub-task a task is at, `waiting` its
unfinished fetchers, which start in the order of the component list (`InKeyOrder`). One message of the server reaches the items of all tasks (`react`); what they send leaves in any
order of the tasks, because the items are in an unordered set. A setter converts the new value to JSON if the old one is
JSON, which may fail (`Unparsable`), and has nothing to do if the value is set already. A time-out may end any step. `calm`
and `applied` are history. External: the task containers and `TaskDecoratorTimeout` of another library.

**`VeinLicense`** models `LicenseSystem`: the files read at the start, of which one per system stays, in the order of a
hash; the universal license; answers that are cached; the serial, which arrives later and may change; months that pass;
restarts with other files. Whether a file has a good signature and is JSON is an attribute of the file. `granted` and
`earned` are history.

**`VeinRecorder`** extends `VeinStorage` by `StorageRecorder` and `StorageRecorderInterpolation`. The recorder is
constructed at any time: its constructor (`setupVeinLoggedComponents`, one step per component, with nothing in between)
gets the stored objects of components that vein knows by then, and future ones of the others. `Writers` are other holders
of objects, which take, release and write them directly as `VeinStorage` has it. A change of the trigger object, by a
command or by a direct write, records what the others hold, within the step of the storage that caused it. An average is represented by the window of records it is
taken over and the average time, which the code divides by the factor. `removed` (since the construction) is history; `MaxRecords` and `MaxTime`
bound the recording.

The `MC...` modules define the constants of the instances.

## 3. Runs

Runs in which calls from outside are bounded are made with `CHECK_DEADLOCK FALSE`: a system that nobody calls any more is
idle by design. In `recorder` the bound on objects may end a behaviour in the middle of the constructor. `license` has no
such bound and checks for deadlock.

| Run | Instance | Shows |
|---|---|---|
| `storage` | one entity, two components, two holders, one valid and one invalid value, four objects | component objects are never shared or doubled (`ObjectsApart`), a component is stored or future and the table of futures exact (`FuturesKept`), futures are promoted without cutting pointers, mirrors are up to date, and `VeinDatabase` is implemented |
| `net` | one entity with one component, a QML client and a second client, two values, four calls | replicas converge to the storage, the storage to the modules; no subscription survives its entity; the tables of the QML client agree, and what the server notifies has a map to be shown in |
| `tasks` | a getter of an entity with two components and a setter of one of them on one connection that may break, three values (one JSON), three calls of tasks, modules and core stack client | with running event loops subscriptions and fetches are answered without a time-out, by a value or an error, also when the component goes meanwhile; a lone setter that reports success has set its component while nobody else touches it (two setters and read-only components are left to the theorem `SettersTruthful`) |
| `session` | two sessions, one with a displayed name, an unknown name, three XSession names (one without a file), three requests, all failures | the storage settles on the running session; clients see the empty session in between; one session is built at a time, and is announced in the end |
| `rpc` | a task and a QML client with a call each, four procedures of different kinds, a name that two signatures contain, an unknown name, one subscription change | success means that a procedure of that name ran for this very call, and ran once; a call ends once, late answers change nothing; nothing stays pending that nobody will answer, also when two workers of a procedure share its hash; calls of QML clients end |
| `safe_delete_loop` | four items, growth at the fourth | each registered item is called exactly once; removed ones are not called; content is what was asked for |
| `tcp` | two clients, one with messages both ways (two and one, of length 0 and 2), two-digit headers in base 2 | messages arrive whole, in order, once and before the end of the connection (`VeinChannel` is implemented); they arrive without a further send; peers of clients that are gone are freed |
| `license` | every subset of six files for two systems, two devices and three months, restarts | nobody is granted what no license covered; nobody is refused what was granted, or is covered unless a second license hides it |
| `recorder` | a trigger and a recorded component of one entity, which exist before the recorder or not, another holder of the trigger, values 0 and 1, two objects, four records, factor 2 | while it logs, every change of the trigger component to the trigger value, by command or direct write, is recorded with the values of the components, and nothing else is, as long as the components were not removed; averages split the records without gap or overlap, also after a restart and for an interpolation that joins late |
| `subscriber_has_entity`, `qml_up_to_date`, `xsession_shown` | as above, fewer calls | disagreements between code and comments or tests, see section 5 |

Why the bounds suffice: the storage treats keys, values and holders alike, and no handler relates more than two
components or two objects at a time; four objects allow future, promotion, removal and re-creation of one component next
to another one. In `VeinNet` every interesting interleaving found so far needs at most four calls (subscribe, remove,
re-create, set); each call causes up to a dozen further steps, so behaviours are far longer than the bound. `tasks`
has both tasks on the new connection, or one of them and one further call, which is a module's change, a removal or an
unsubscription at any point; with the connection given and three calls left the run would take far more than five minutes. `session`
needs two session requests and one other to have a request arrive while a session is built. In `rpc` two calls are
enough for every pair of steps that share a procedure, and a cancelled call is two calls with one id. In `tcp`
two messages in one direction are enough to have a block split, two joined, and a header cut in the middle; the message
of length 0 ends with its header. `recorder` has two full windows, and an interpolation that joins after three records; two objects are enough for a
component that is stored and one that is future, and for the removal of either. A component that is created again after a
removal needs a third object; with three objects and three records (5.3 million states) the properties hold too, and the
theorem has no bound.
In `license` two files for one system are enough to hide each other.

Fairness: weak fairness of the server's dispatch and of reading each connection, that is, event loops run and TCP
delivers (`VeinTasks`, `VeinTcp`, where also accepting a connection and `deleteLater` are tasks of the event loop); no
time-out has to come and nobody has to send; in `VeinSession` also of `initializeEntity`, the module manager finishing
what it started, and in `VeinRpc` of the thread pool and of the module that owes an answer (QML calls have no time-out,
so nothing else could end them). No fairness is assumed of modules, clients or connections.

## 4. Proofs

| Module | Theorems | Inductive invariant |
|---|---|---|
| `VeinStorageProofs` | `StorageTypes`, `ObjectsStayApart`, `FuturesStay`, `ConsumersUpToDate`, `PointersCutOnlyByRemove`, `StorageImplementsDatabase`; `RecordsWhatVeinShows`, `AveragesSplit` | `StorageInv`: types, stored-or-future, no shared objects, components below entities, exact future map, holders own their key, mirrors up to date. Each part needs others: a write updates one key only because objects are not shared. With it every step maps to a command of `VeinDatabase` or a stutter. `RecorderInv`: `StorageInv`, and once the recorder is constructed its objects are the stored components or the future ones until they are removed, windows end at multiples of the factor of which none was missed, records are in the order of their times and an average over a full window has a time within it |
| `VeinNetProofs` | `NetTypes`, `SubscriptionsEndWithEntity`, `StorageFollowsItsModules`, `ReplicasConverge` | `NetInv`, see below |
| `VeinClientProofs` | `QmlTypes`, `ResolvedEntitiesHeld`, `SubscribersHaveMaps`, `QmlSystemConverges`; `TaskTypes`, `SettersTruthful`, `TaskSystemConverges` | `QmlInv`: `NetInv`, the types of the tables, and for every subscription that the client has not given up: it has a map, or an introspection is under way to it, and no removal follows. `TaskInv`: `NetInv`, the types of the tasks, introspections that have a component, and `UntouchedStill`, see below |
| `VeinRpcProofs` | `RpcTypes`, `SuccessIsTrue`, `CallRunsOnce`, `PendingCallsOwed`, `CallFinishesOnce` | `RpcInv`: whose call each event, slot, worker and answer is; a success under way is about a call that ran; a call that was not cancelled is in one place at most (event, slot, worker, or run); one worker of a procedure at a time has the mutex, and what it has read of the hash is true until it writes |
| `VeinTcpProofs` | `TcpInvariant`, `TcpTypes`, `TcpImplementsChannel` | `TcpInv`: the types, which stages of the two ends of a connection go together, and for each direction that a reader is left of: what the reader has buffered is the beginning of a block, with what is on the wire it is whole blocks and at most the beginning of one more, and it ends with a whole block while the writer is connected |
| `SafeDeleteLoopProofs` | `LoopTypes`, `DeliveredOnce`, `ContentIsWanted`, `RemovedStaysSilent` | `LoopInv`: what the iterator has passed was called once, what lies ahead or is not stored was not |
| `VeinSessionProofs` | `SessionTypes`, `StorageSettles`, `EmptySessionBetween`, `BuiltOneByOne` | `SessionInv`: the stored session and the queued session notifications form a chain that ends in the running session and whose neighbours are equal or one of them empty |
| `VeinLicenseProofs` | `OnlyEarnedGrants`, `RefusalsAreRight` | `LicenseInv`: the table holds licenses under their names, the cache only what was covered once, and without a universal license exactly what was granted. A refusal is then right because the cache answers first |

The argument for `VeinNet`. What its properties say of a system at rest is true because of what is under way while it
is not, so `NetInv` describes the queue and the connections. It has these parts, each checked with TLC before it was proved:

* `SubscriptionInv`: stored components lie below known entities, because introspection looks for components and not for
  the entity before the network system subscribes.
* `StorageFollows`: for each component the stored value, followed by what the queued notifications write, ends in the
  value of the module; an ADD meets a component that is absent by then, or it would be rejected and its value lost.
* `SnapshotsFetched`: behind each queued snapshot there is a FETCH for every component in it.
* `PeersArrive`: nothing in the server is about a peer before its first message, so a connection that becomes a peer has
  heard nothing it could have missed; a client has values only of entities it has.
* `ReplicaFresh`: for each subscriber and each stored component, a FETCH is queued that the storage will rewrite, or the
  last message that counts, in the queue or on the connection, has the stored value, or nothing stale is under way and
  the replica has it. A snapshot counts as stale even if it is not, since a client that has the entity does not take it.

`QmlInv` uses the same two-queue argument for introspections against removals. `QmlIsNet` shows that every step of the
QML client is one of `VeinNet` or sends nothing, so all of `NetInv` holds with such a client too.

`TaskInv` has the argument for `SetterTruthful`. A setter is *untouched* while no module and no other client has acted, no
other setter of its component has started and its module has never had the new value. For such a setter storage and
module still have the initial value of the component; the only SET that any request, connection or event holds is its own;
and no client is told of a SET, or of another value (`Still`). So the setter has not skipped its SET, no answer to other
tasks can have ended it well, and if it is over it has failed. Every dispatch keeps this (`DispatchPosts` says what the
server posts for each event, `DispatchSets` when it changes a module) until the setter's own request reaches the module,
which is when `applied` becomes true. The types need `IntrosFull`: an introspection has a component, so that a getter of
a whole entity has a fetcher to wait for. `AllSent` types what all tasks send in whatever order.

The argument for `VeinTcp`. `Streams` are the byte sequences that are blocks of messages, the last one possibly incomplete:
the least set that has the incomplete blocks and is closed under putting a block in front. What is unread of a direction is
such a stream whether or not it is cut (`Carries`), and the reader gives the same messages when it reads a stream at once
or in two pieces at any cut. A refinement step then is: writing a block appends one message to those under way, delivering
bytes changes nothing, a read takes the first ones away, the end of a writer leaves those that are complete.

Inductions over data (the length of a header, the blocks of a stream, the sum of a window, the list of requests) are made
over sets of numbers: the library's induction theorems take an operator, which the provers cannot instantiate, but
`WFMin` gives the least number outside a set, and `Induction`, `StrongInduction` and `Recursion` (a function defined by
recursion over a decreasing size exists) follow from it once and are cited by name.

Assumptions are those the modules name: the special values differ from ordinary ones, bounds are numbers, constants have
their types. The bounds on calls, objects and records are arbitrary
numbers in the theorems.

Only model-checked:

* Liveness (`SubscriptionAnswered`, `FetchAnswered`, `SessionShown`, `CallAnswered`, `MessageArrives`, `PeerFreed`): the
  prover knows neither fairness nor ENABLED.

Every invariant, action property and refinement of the passing runs is proved. No module uses `RECURSIVE` operators.

## 5. Where code and documentation disagree

Each has a run whose counterexample shows it.

* `SubscriberHasEntity`: the UNSUBSCRIBE of one client makes the others drop the entity they are still subscribed to.
* `QmlUpToDate`: the QML client ignores the FETCHes that are to bring its map up to date.
* `XSessionShown`: the answer to a FETCH of the XSession undoes a SET that was handled in between.

Noticed while modelling or proving, without a run of their own:

* A client may keep a stale value while it is subscribed. An introspection that was under way when the client
  unsubscribed, or when the entity was removed, makes the client storage keep the entity; if it subscribes again when
  the entity has come back with fewer components, it does not take the new snapshot, and when the module adds the missing
  component, the ADD is refused ("Cannot add existing component", `vs_clientstorageeventsystem.cpp:147`). The old value
  stays until the next SET or FETCH. This needs seven calls and two components, more than `net` has: it appeared as the
  case in which `ReplicaFresh` could not be proved. `ReplicaConverges` leaves it out by `refused`.

* ADD and REMOVE of an entity clear its RPC names before the entity is looked up (`vs_storageeventsystem.cpp:80`, `:89`):
  a second ADD of an entity by its owner is rejected and still makes the storage forget its procedures. A FETCH of a
  component that has no valid value is answered with the value of the request.
* A direct write of a future component and the ADD that promotes it with the same value are one change: the ADD emits no
  signal (`vs_storagecomponent.cpp:29`). The recorder then records at the direct write, before vein shows the component,
  or, if logging started in between, not at all. `RecordsVein` therefore speaks of changes of the component, stored or
  future, and not of commands.
* `vcmp_componentdata.h:18` says that removing a component never fails, but `StorageEventSystem` answers with an error when
  it does not exist.
* `vn_networksystem.h:24` says of VNOM_SUBSCRIPTION that events are only passed to subscribers; an introspection goes to the
  client that asked for it even if its UNSUBSCRIBE was handled meanwhile (`vn_networksystem.cpp:134`).
* `veinqml.h:23` says that VQ_LOADED means that all required entities are there; a loaded client that subscribes one more
  (`entitySubscribeById`) stays VQ_LOADED while its introspection is missing.
* `VfClientEntityUnsubscriber` compares the event's type with a data type (`vf_client_entity_unsubscriber.cpp:34`), so its
  success signal is never emitted and the core stack client keeps its item.
* A setter takes any SET notification of its component for its answer (`vf_client_component_setter.cpp:61`): it reports
  success for a component its module does not let clients write, if the module changes the value just then, and after a
  concurrent SET of another client. `SetterTruthful` is limited to what holds.
* `EntityComponentMap::cancelRPCInvokation` sends RPCMD_CALL (its own comment doubts it), so a cancelled procedure without
  parameters runs a second time.
* `LxdmConfigFile::writeConfig` ignores the result of `QSaveFile::commit`, so a change may be reported that is not in the
  file.
* A universal license that is bound to a device is compared with the serial when the files are read, before it can be
  known (`licensesystem.cpp:55`), so it never counts.
* An interpolation that joins a recording late averages a longer first window, whose summed time is still divided by the
  factor; the sum is an `int`, which a factor of 60 overflows after about ten hours of recording
  (`storagerecorderinterpolation.cpp:53`). One interpolation on top of another would not be told of a reset.

## 6. Not modelled

* Validators and meta information: stateless checks of single values and JSON output.
* Cryptography bridge: calls of OpenSSL; `VeinLicense` takes their result as an attribute of a file.
* Test libraries: spies and JSON dumps, with the exception of the mock network.
* Attaching and detaching event systems at run time: the order of the systems is the one the set-up code establishes.
* Entity names of the QML client, RPC names in the client storage, the byte layout of event data.
* Socket errors: the code only logs them. `VNOM_PASS_THROUGH` on the server: no server of the repository uses it.

## 7. Plan

Done, in this order: storage and its abstraction, network with clients, QML client, command event items, system module,
remote procedure calls, TCP framing and its abstraction, client tasks, licenses, recorder; proofs for all of them.
Next:

1. In `VeinRpc`, answers from within the call and procedures that are destroyed while workers use them.
2. Entity names of the QML client.
