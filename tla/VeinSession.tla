---------------------------- MODULE VeinSession -----------------------------
(***************************************************************************)
(* SystemModuleEventSystem: the system entity (id 0) through which clients *)
(* change the session, the XSession (LxdmConfigFile), the pause state and  *)
(* the developer mode of a server.                                         *)
(*                                                                         *)
(* Requests of clients and the system module's own notifications share the *)
(* server's FIFO queue.  A request that is validated is rewritten to a     *)
(* notification and reaches the storage within the same dispatch, while    *)
(* notifications the system module sends itself go to the end of the       *)
(* queue.  The module manager, which destroys and builds modules after     *)
(* sigChangeSession and then calls initializeEntity, is external.          *)
(***************************************************************************)
EXTENDS Naturals, Sequences

CONSTANTS
  Sessions,    \* m_availableSessions
  Names,       \* what clients may ask for: file names and displayed names
  JsonName,    \* the session of each name, NoSession if there is none
  NoSession,   \* the empty string
  XSessions,   \* XSessions with a session file
  XNames,      \* XSession names clients know of, existing or not
  InitX,       \* the XSession lxdm.conf has at the start
  Invalid,     \* the invalid QVariant()
  DevMode,     \* m_devMode, fixed by the command line
  Failures,    \* what may fail: "write", "commit", "restart"
  MaxRequests  \* bound: requests of clients in one run

ASSUME SessionAssumption ==
  /\ NoSession \notin Sessions
  /\ JsonName \in [Names -> Sessions \cup {NoSession}]
ASSUME XSessionAssumption == XSessions \subseteq XNames /\ InitX \in XSessions
ASSUME InvalidAssumption == Invalid \notin XNames \cup Sessions \cup {NoSession}
ASSUME FailureAssumption == Failures \subseteq {"write", "commit", "restart"}
ASSUME RequestBound == MaxRequests \in Nat /\ DevMode \in BOOLEAN

VARIABLES
  queue,          \* events for the system entity
  stored,         \* its components in the storage
  currentSession, \* m_currentSession
  sessionReady,   \* m_sessionReady
  loading,        \* session the module manager is building, else NoSession
  modulesPaused,  \* m_modulesPaused
  conf,           \* last_session of lxdm.conf, on disk
  requests        \* requests made so far

vars == <<queue, stored, currentSession, sessionReady, loading, modulesPaused, conf, requests>>

Components == {"Session", "XSession", "ModulesPaused", "DevMode"}

\* VfServerComponentSetter::generateEvent
Notify(comp, v) == [trans |-> FALSE, cmd |-> "SET", comp |-> comp, old |-> Invalid, val |-> v]

\* VfClientComponentSetter::generateEvent: the old value is what the client
\* believes, nobody checks it.
ClientSet(comp, old, v) == [trans |-> TRUE, cmd |-> "SET", comp |-> comp, old |-> old, val |-> v]
ClientFetch(comp) == [trans |-> TRUE, cmd |-> "FETCH", comp |-> comp, old |-> Invalid, val |-> Invalid]

\* Requests that differ in the way they are handled.
Requests ==
  {ClientSet("Session", Invalid, n) : n \in Names}
    \cup {ClientSet("XSession", o, x) : o \in XNames \cup {Invalid}, x \in XNames}
    \cup {ClientSet("ModulesPaused", Invalid, b) : b \in BOOLEAN}
    \cup {ClientSet("DevMode", Invalid, b) : b \in BOOLEAN}
    \cup {ClientFetch(c) : c \in Components}

\* initOnce has added the components; the module manager builds the first
\* session.
Init ==
  /\ queue = <<>>
  /\ stored = [Session |-> NoSession, XSession |-> InitX, ModulesPaused |-> FALSE, DevMode |-> FALSE]
  /\ currentSession = NoSession
  /\ sessionReady = FALSE
  /\ loading \in Sessions
  /\ modulesPaused = FALSE
  /\ conf = InitX
  /\ requests = 0

-----------------------------------------------------------------------------
(* Outside the event loop                                                  *)

\* The network accepts clients once the first session is there.
ClientRequest(r) ==
  /\ currentSession # NoSession
  /\ requests < MaxRequests
  /\ requests' = requests + 1
  /\ queue' = Append(queue, r)
  /\ UNCHANGED <<stored, currentSession, sessionReady, loading, modulesPaused, conf>>

\* Fault: the session is announced but not remembered.
initializeEntityForgets ==
  /\ loading # NoSession
  /\ sessionReady' = TRUE
  /\ loading' = NoSession
  /\ queue' = queue \o <<Notify("Session", loading), Notify("XSession", conf),
                         Notify("DevMode", DevMode)>>
  /\ UNCHANGED <<stored, currentSession, modulesPaused, conf, requests>>

\* Fault: paused modules never report that they are there.
initializeEntityUnlessPaused ==
  /\ loading # NoSession /\ ~modulesPaused
  /\ sessionReady' = TRUE
  /\ currentSession' = loading
  /\ loading' = NoSession
  /\ queue' = queue \o <<Notify("Session", loading), Notify("XSession", conf),
                         Notify("DevMode", DevMode)>>
  /\ UNCHANGED <<stored, modulesPaused, conf, requests>>

\* All modules of the session are there.
initializeEntity ==
  /\ loading # NoSession
  /\ sessionReady' = TRUE
  /\ currentSession' = loading
  /\ loading' = NoSession
  /\ queue' = queue \o <<Notify("Session", loading), Notify("XSession", conf),
                         Notify("DevMode", DevMode)>>
  /\ UNCHANGED <<stored, modulesPaused, conf, requests>>

-----------------------------------------------------------------------------
(* Dispatch of the first event                                             *)

First(cmd, comp) == queue # <<>> /\ Head(queue).cmd = cmd /\ Head(queue).comp = comp
Transaction == queue # <<>> /\ Head(queue).trans

consume(events) == queue' = Tail(queue) \o events

\* The storage drops a SET with an invalid value.
store(comp, v) == stored' = IF v = Invalid THEN stored ELSE [stored EXCEPT ![comp] = v]

dispatchNotification ==
  /\ queue # <<>> /\ ~Head(queue).trans
  /\ store(Head(queue).comp, Head(queue).val)
  /\ consume(<<>>)
  /\ UNCHANGED <<currentSession, sessionReady, loading, modulesPaused, conf, requests>>

\* Fault: a request is served although a session is being built.
handleVeinSessionSetAlways ==
  /\ Transaction /\ First("SET", "Session")
  /\ LET s == JsonName[Head(queue).val] IN
     IF s \in Sessions /\ s # currentSession
       THEN /\ currentSession' = s
            /\ consume(<<Notify("Session", NoSession)>>)
            /\ loading' = s
            /\ sessionReady' = FALSE
       ELSE consume(<<>>) /\ UNCHANGED <<currentSession, loading, sessionReady>>
  /\ UNCHANGED <<stored, modulesPaused, conf, requests>>

\* Fault: the session is built within sigChangeSession, and the flag that
\* initializeEntity has set is cleared afterwards.
handleVeinSessionSetSynchronous ==
  /\ Transaction /\ First("SET", "Session")
  /\ LET s == JsonName[Head(queue).val] IN
     IF s \in Sessions /\ s # currentSession /\ sessionReady
       THEN /\ currentSession' = s
            /\ consume(<<Notify("Session", NoSession), Notify("Session", s),
                         Notify("XSession", conf), Notify("DevMode", DevMode)>>)
            /\ sessionReady' = FALSE
       ELSE consume(<<>>) /\ UNCHANGED <<currentSession, sessionReady>>
  /\ UNCHANGED <<stored, loading, modulesPaused, conf, requests>>

\* Fault: the request is validated and reaches the storage itself, like the
\* ones for the other components.
handleVeinSessionSetPassesOn ==
  /\ Transaction /\ First("SET", "Session")
  /\ LET s == JsonName[Head(queue).val] IN
     IF s \in Sessions /\ s # currentSession /\ sessionReady
       THEN /\ currentSession' = s
            /\ store("Session", s)
            /\ consume(<<Notify("Session", NoSession)>>)
            /\ loading' = s
            /\ sessionReady' = FALSE
       ELSE consume(<<>>) /\ UNCHANGED <<stored, currentSession, loading, sessionReady>>
  /\ UNCHANGED <<modulesPaused, conf, requests>>

\* Unknown and current sessions are ignored, and so is every request while a
\* session is being built; none of them is answered.
handleVeinSessionSet ==
  /\ Transaction /\ First("SET", "Session")
  /\ LET s == JsonName[Head(queue).val] IN
     IF s \in Sessions /\ s # currentSession /\ sessionReady
       THEN /\ currentSession' = s
            /\ consume(<<Notify("Session", NoSession)>>)
            /\ loading' = s
            /\ sessionReady' = FALSE
       ELSE consume(<<>>) /\ UNCHANGED <<currentSession, loading, sessionReady>>
  /\ UNCHANGED <<stored, modulesPaused, conf, requests>>

\* LxdmConfigFile::setCurrentXSession; the result of QSaveFile::commit is not
\* looked at, so the file may be left as it was.
setCurrentXSession(x) ==
  /\ x \in XSessions
  /\ conf' \in {x} \cup (IF "commit" \in Failures THEN {conf} ELSE {})

\* The request passes on to the storage.
acceptXSession == store("XSession", Head(queue).val) /\ consume(<<>>)

\* The client is sent its own old value back.
refuseXSession == consume(<<Notify("XSession", Head(queue).old)>>) /\ UNCHANGED stored

handleXSessionSet ==
  /\ Transaction /\ First("SET", "XSession")
  /\ LET x == Head(queue).val IN
     \/ conf = x /\ acceptXSession /\ UNCHANGED conf
     \/ conf # x /\ setCurrentXSession(x) /\ acceptXSession
     \/ conf # x /\ "restart" \in Failures /\ setCurrentXSession(x) /\ refuseXSession
     \/ /\ conf # x /\ (x \notin XSessions \/ "write" \in Failures)
        /\ refuseXSession /\ UNCHANGED conf
  /\ UNCHANGED <<currentSession, sessionReady, loading, modulesPaused, requests>>

setModulesPaused ==
  /\ Transaction /\ First("SET", "ModulesPaused")
  /\ modulesPaused' = Head(queue).val
  /\ store("ModulesPaused", Head(queue).val)
  /\ consume(<<>>)
  /\ UNCHANGED <<currentSession, sessionReady, loading, conf, requests>>

\* The developer mode is only stored, until the next session resets it.
setDevMode ==
  /\ Transaction /\ First("SET", "DevMode")
  /\ store("DevMode", Head(queue).val)
  /\ consume(<<>>)
  /\ UNCHANGED <<currentSession, sessionReady, loading, modulesPaused, conf, requests>>

\* A fetch of the XSession refreshes it for everybody; the extra notification
\* for a fetched session carries no command and has no effect.
sendNotificationForScpiModule ==
  /\ Transaction /\ Head(queue).cmd = "FETCH"
  /\ consume(IF Head(queue).comp = "XSession" THEN <<Notify("XSession", conf)>> ELSE <<>>)
  /\ UNCHANGED <<stored, currentSession, sessionReady, loading, modulesPaused, conf, requests>>

Dispatch ==
  \/ dispatchNotification
  \/ handleVeinSessionSet
  \/ handleXSessionSet
  \/ setModulesPaused
  \/ setDevMode
  \/ sendNotificationForScpiModule

Next ==
  \/ \E r \in Requests : ClientRequest(r)
  \/ initializeEntity
  \/ Dispatch

Spec == Init /\ [][Next]_vars

\* The event loop runs, and the module manager finishes what it started.
FairSpec == Spec /\ WF_vars(Dispatch) /\ WF_vars(initializeEntity)

-----------------------------------------------------------------------------
(* Properties                                                              *)

StoredValues ==
  [Session : Sessions \cup {NoSession}, XSession : XNames,
   ModulesPaused : BOOLEAN, DevMode : BOOLEAN]

Notifications ==
  {Notify("Session", s) : s \in Sessions \cup {NoSession}}
    \cup {Notify("XSession", x) : x \in XNames \cup {Invalid}}
    \cup {Notify("DevMode", DevMode)}

\* Types; the flag m_sessionReady says exactly that no session is being built.
TypeOK ==
  /\ queue \in Seq(Requests \cup Notifications)
  /\ stored \in StoredValues
  /\ currentSession \in Sessions \cup {NoSession}
  /\ loading \in Sessions \cup {NoSession}
  /\ sessionReady <=> loading = NoSession
  /\ modulesPaused \in BOOLEAN
  /\ conf \in XSessions
  /\ requests \in 0..MaxRequests

\* When all events are handled the storage shows the session the server runs,
\* and none while one is being built, whatever was requested meanwhile.
SessionSettles ==
  queue = <<>> => stored.Session = IF loading = NoSession THEN currentSession ELSE NoSession

\* Clients leave a session before they see the next one: the storage never
\* goes from one session to another without the empty one in between, which
\* is how VeinQml notices a session change (checkSessionLeave).
SessionLeftFirst ==
  [][stored'.Session # stored.Session => NoSession \in {stored.Session, stored'.Session}]_vars

\* The module manager is never told to build a session while it builds one.
OneSessionAtATime == [][loading # NoSession => loading' \in {loading, NoSession}]_vars

\* A session that is built is announced in the end.
SessionShown == \A s \in Sessions : loading = s ~> stored.Session = s

\* The storage shows the XSession that lxdm.conf has: a change that passes is
\* shown, one that fails leaves the old one.
XSessionShown == queue = <<>> => stored.XSession = conf
=============================================================================
