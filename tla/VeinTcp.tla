------------------------------- MODULE VeinTcp -------------------------------
(* vf-tcp: messages as length-prefixed blocks on a byte stream, the reader   *)
(* that takes them out of whatever the socket delivers, and the life of the  *)
(* peers of both sides, with refused connections, destroyed peers and a      *)
(* server that goes away.                                                    *)
(* Bytes are the digits 0..Base-1 and a length has HeaderLen of them (256    *)
(* and 4 in QDataStream), so that small instances split and join headers and *)
(* blocks in every way.                                                      *)
EXTENDS Integers, Sequences

CONSTANTS
  Clients,     \* client peers; each connects once
  Base,        \* number of byte values
  HeaderLen,   \* bytes of a length
  Messages,    \* byte arrays applications send
  NullArray,   \* the null QByteArray: nothing to read (every envelope is a non-null array)
  MaxSent      \* bound: messages a peer sends

\* How many numbers k bytes can write; the last one of a header marks a null array.
Limit[k \in Nat] == IF k = 0 THEN 1 ELSE Base * Limit[k - 1]
Mark == Limit[HeaderLen] - 1

\* A length and the mark of the null array fit the header.
ASSUME HeaderAssumption ==
  /\ Base \in Nat /\ Base > 1 /\ HeaderLen \in Nat \ {0}
  /\ \A m \in Messages : m \in Seq(0..(Base - 1)) /\ Len(m) < Mark
  /\ NullArray \notin Messages

Peers == Clients \X {"client", "server"}
Other(p) == <<p[1], IF p[2] = "client" THEN "server" ELSE "client">>
Client(c) == <<c, "client">>
Server(c) == <<c, "server">>

VARIABLES
  listening,   \* the server accepts connections
  sock,        \* per peer: state of its socket
  backlog,     \* clients the kernel has connected and the server not yet accepted
  clients,     \* TcpServerWorker::m_clients
  wire,        \* per peer: bytes it wrote that the other end has not read
  buf,         \* per peer: bytes read from the network and not yet taken
  sent,        \* per peer: messages it sent
  received     \* per peer: messages signalled by sigMessageReceived

vars == <<listening, sock, backlog, clients, wire, buf, sent, received>>

Init ==
  /\ listening = FALSE
  /\ sock = [p \in Peers |-> "idle"]
  /\ backlog = {} /\ clients = {}
  /\ wire = [p \in Peers |-> <<>>] /\ buf = [p \in Peers |-> <<>>]
  /\ sent = [p \in Peers |-> <<>>] /\ received = [p \in Peers |-> <<>>]

-----------------------------------------------------------------------------
(* Blocks: QDataStream << QByteArray and back.                              *)

\* n in k bytes, the highest first.
Digits[k \in Nat] ==
  [n \in Nat |-> IF k = 0 THEN <<>> ELSE Append(Digits[k - 1][n \div Base], n % Base)]
Header(n) == Digits[HeaderLen][n]
Block(m) == Header(Len(m)) \o m

\* The length at the head of the bytes b.
Length[b \in Seq(0..(Base - 1))] ==
  IF b = <<>> THEN 0
  ELSE Base * Length[SubSeq(b, 1, Len(b) - 1)] + b[Len(b)]
LengthOf(b) == Length[SubSeq(b, 1, HeaderLen)]

\* A transaction on b commits when a whole block is there.
Complete(b) ==
  /\ Len(b) >= HeaderLen
  /\ LengthOf(b) = Mark \/ Len(b) >= HeaderLen + LengthOf(b)

\* Fault: without a transaction the length of an incomplete block is consumed.
readArrayConsumes(b) ==
  IF ~Complete(b) THEN [array |-> NullArray, rest |-> <<>>]
  ELSE LET n == HeaderLen + LengthOf(b) IN
       [array |-> SubSeq(b, HeaderLen + 1, n), rest |-> SubSeq(b, n + 1, Len(b))]

\* readArray: the next array and what is left of b; nothing is taken when the
\* block is incomplete, and the caller gets a null array as it does for Mark.
readArray(b) ==
  IF ~Complete(b) THEN [array |-> NullArray, rest |-> b]
  ELSE IF LengthOf(b) = Mark
  THEN [array |-> NullArray, rest |-> SubSeq(b, HeaderLen + 1, Len(b))]
  ELSE LET n == HeaderLen + LengthOf(b) IN
       [array |-> SubSeq(b, HeaderLen + 1, n), rest |-> SubSeq(b, n + 1, Len(b))]

\* The loop of onReadyRead: arrays are signalled until a null one is read.
readLoop[b \in Seq(0..(Base - 1))] ==
  LET r == readArray(b) IN
  IF r.array = NullArray THEN [arrays |-> <<>>, rest |-> r.rest]
  ELSE LET more == readLoop[r.rest] IN
       [arrays |-> <<r.array>> \o more.arrays, rest |-> more.rest]

-----------------------------------------------------------------------------
(* Connections                                                              *)

\* startServer with a socket of its own or one of systemd; a port in use
\* leaves the server as it is.
startServer ==
  /\ ~listening /\ listening' = TRUE
  /\ UNCHANGED <<sock, backlog, clients, wire, buf, sent, received>>

startConnection(c) ==
  /\ sock[Client(c)] = "idle"
  /\ sock' = [sock EXCEPT ![Client(c)] = "connecting"]
  /\ UNCHANGED <<listening, backlog, clients, wire, buf, sent, received>>

\* Nobody listens: the peer reports an error and may try again.
connectionRefused(c) ==
  /\ sock[Client(c)] = "connecting" /\ ~listening
  /\ sock' = [sock EXCEPT ![Client(c)] = "idle"]
  /\ UNCHANGED <<listening, backlog, clients, wire, buf, sent, received>>

\* The kernels connect; the client may send before the server has accepted.
connectionEstablished(c) ==
  /\ sock[Client(c)] = "connecting" /\ listening
  /\ sock' = [sock EXCEPT ![Client(c)] = "connected"]
  /\ backlog' = backlog \cup {c}
  /\ UNCHANGED <<listening, clients, wire, buf, sent, received>>

\* Fault: a connection waits until the server has no client.
incomingConnectionAlone(c) ==
  /\ listening /\ c \in backlog /\ clients = {}
  /\ backlog' = backlog \ {c}
  /\ sock' = [sock EXCEPT ![Server(c)] = "connected"]
  /\ clients' = clients \cup {c}
  /\ UNCHANGED <<listening, wire, buf, sent, received>>

\* The server makes a peer for the socket and keeps it in m_clients.
incomingConnection(c) ==
  /\ listening /\ c \in backlog
  /\ backlog' = backlog \ {c}
  /\ sock' = [sock EXCEPT ![Server(c)] = "connected"]
  /\ clients' = clients \cup {c}
  /\ UNCHANGED <<listening, wire, buf, sent, received>>

\* A message is written as one block, or dropped when there is no connection.
sendArray(p, m) ==
  /\ sock[p] = "connected"
  /\ Len(sent[p]) < MaxSent[p]
  /\ sent' = [sent EXCEPT ![p] = Append(@, m)]
  /\ wire' = [wire EXCEPT ![p] = @ \o Block(m)]
  /\ UNCHANGED <<listening, sock, backlog, clients, buf, received>>

\* Some bytes arrive and all arrays they complete are signalled.
onReadyRead(q) ==
  LET p == Other(q) IN
  /\ sock[q] = "connected"
  /\ \E n \in 1..Len(wire[p]) :
       LET r == readLoop[buf[q] \o SubSeq(wire[p], 1, n)] IN
       /\ wire' = [wire EXCEPT ![p] = SubSeq(@, n + 1, Len(@))]
       /\ buf' = [buf EXCEPT ![q] = r.rest]
       /\ received' = [received EXCEPT ![q] = @ \o r.arrays]
  /\ UNCHANGED <<listening, sock, backlog, clients, sent>>

\* Fault: m_clients keeps the peer.
clientDisconnectedSRVKeeps(q) == clients' = clients

\* Slots of the server for sigConnectionClosed: the peer leaves m_clients and
\* is deleted later, when the other receivers of the signal have seen it.
clientDisconnectedSRV(q) == clients' = IF q[2] = "server" THEN clients \ {q[1]} ELSE clients

\* The other end is gone and its bytes are read: sigConnectionClosed, then the
\* socket is closed and forgets what it has buffered.
onDisconnected(q) ==
  /\ sock[q] = "connected" /\ sock[Other(q)] \in {"closed", "deleted"}
  /\ wire[Other(q)] = <<>>
  /\ sock' = [sock EXCEPT ![q] = "closed"]
  /\ buf' = [buf EXCEPT ![q] = <<>>]
  /\ clientDisconnectedSRV(q)
  /\ UNCHANGED <<listening, backlog, wire, sent, received>>

\* Fault: only peers that are still in m_clients are deleted.
deferredDeleteListed(c) ==
  /\ sock[Server(c)] = "closed" /\ c \in clients
  /\ sock' = [sock EXCEPT ![Server(c)] = "deleted"]
  /\ UNCHANGED <<listening, backlog, clients, wire, buf, sent, received>>

\* deleteLater of the server's peer takes effect.
deferredDelete(c) ==
  /\ sock[Server(c)] = "closed"
  /\ sock' = [sock EXCEPT ![Server(c)] = "deleted"]
  /\ UNCHANGED <<listening, backlog, clients, wire, buf, sent, received>>

Prefixes(s) == {SubSeq(s, 1, n) : n \in 0..Len(s)}

\* Peers are destroyed with their sockets: bytes not yet on their way are lost.
destroyed(P) ==
  /\ sock' = [p \in Peers |-> IF p \in P THEN "deleted" ELSE sock[p]]
  /\ \E left \in [P -> UNION {Prefixes(wire[p]) : p \in P}] :
       /\ \A p \in P : left[p] \in Prefixes(wire[p])
       /\ wire' = [p \in Peers |-> IF p \in P THEN left[p] ELSE wire[p]]
  /\ buf' = [p \in Peers |-> IF p \in P THEN <<>> ELSE buf[p]]

\* The client's application deletes its peer.
destroyClientPeer(c) ==
  /\ sock[Client(c)] # "deleted"
  /\ destroyed({Client(c)})
  /\ UNCHANGED <<listening, backlog, clients, sent, received>>

\* The server goes away with its peers; the kernel ends the connections that
\* wait to be accepted.
destroyServer ==
  /\ listening /\ listening' = FALSE
  /\ destroyed({Server(c) : c \in clients \cup backlog})
  /\ clients' = {} /\ backlog' = {}
  /\ UNCHANGED <<sent, received>>

-----------------------------------------------------------------------------
Next ==
  \/ startServer
  \/ destroyServer
  \/ \E c \in Clients : startConnection(c)
  \/ \E c \in Clients : connectionRefused(c)
  \/ \E c \in Clients : connectionEstablished(c)
  \/ \E c \in Clients : incomingConnection(c)
  \/ \E c \in Clients : deferredDelete(c)
  \/ \E c \in Clients : destroyClientPeer(c)
  \/ \E p \in Peers, m \in Messages : sendArray(p, m)
  \/ \E p \in Peers : onReadyRead(p)
  \/ \E p \in Peers : onDisconnected(p)

Spec == Init /\ [][Next]_vars

\* The event loops of both sides run and the network delivers; nobody has to
\* connect, send or go away.
Fairness ==
  /\ \A c \in Clients : WF_vars(incomingConnection(c)) /\ WF_vars(deferredDelete(c))
  /\ \A p \in Peers : WF_vars(onReadyRead(p)) /\ WF_vars(onDisconnected(p))

FairSpec == Spec /\ Fairness

-----------------------------------------------------------------------------
(* Properties                                                              *)

Bytes == Seq(0..(Base - 1))
States == {"idle", "connecting", "connected", "closed", "deleted"}

\* Types; m_clients holds exactly the peers that are connected.
TypeOK ==
  /\ listening \in BOOLEAN
  /\ sock \in [Peers -> States]
  /\ backlog \subseteq Clients
  /\ clients = {c \in Clients : sock[Server(c)] = "connected"}
  /\ wire \in [Peers -> Bytes] /\ buf \in [Peers -> Bytes]
  /\ sent \in [Peers -> Seq(Messages)]
  /\ received \in [Peers -> Seq(Messages)]

\* Every message arrives, however the stream is cut into pieces, unless an end
\* goes away: no block is left in the buffer until somebody sends again.
MessageArrives ==
  \A p \in Peers : \A n \in 1..MaxSent[p] :
    Len(sent[p]) >= n
      ~> \/ Len(received[Other(p)]) >= n
         \/ sock[p] # "connected" \/ sock[Other(p)] \in {"closed", "deleted"}

\* The peer the server made for a client is freed once the client is gone.
PeerFreed ==
  \A c \in Clients :
    sock[Client(c)] = "deleted" /\ c \in clients ~> sock[Server(c)] = "deleted"

-----------------------------------------------------------------------------
(* The stream implements the channel of whole messages.                     *)

\* What the channel shows of a socket.
EndOf(state) ==
  CASE state \in {"idle", "connecting"} -> "new"
    [] state = "connected" -> "open"
    [] OTHER -> state

\* The messages in the bytes that the reader of the other end has yet to take.
UnderWay(p) ==
  IF sock[Other(p)] \in {"closed", "deleted"} THEN <<>>
  ELSE readLoop[buf[Other(p)] \o wire[p]].arrays

Channel == INSTANCE VeinChannel WITH
  end <- [p \in Peers |-> EndOf(sock[p])],
  chan <- [p \in Peers |-> UnderWay(p)],
  got <- received

\* The socket workers implement the network the tests run on: messages arrive
\* whole, in order and at most once, and before the end of the connection.
ImplementsChannel == Channel!Spec
=============================================================================
