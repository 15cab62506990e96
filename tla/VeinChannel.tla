----------------------------- MODULE VeinChannel -----------------------------
(* What the network promises the vein stack: connections that carry whole    *)
(* messages in order, lose only what was still under way when an end was     *)
(* destroyed, and report the end of a connection after its last message.     *)
(* This is the network the tests run on (mocknetworklib), its event queue    *)
(* reduced to one queue per direction; VeinTcp is shown to implement it.     *)
EXTENDS Naturals, Sequences

CONSTANTS
  Clients,   \* client peers; each has one connection and one peer at the server
  Messages   \* messages an application sends

Peers == Clients \X {"client", "server"}
Other(p) == <<p[1], IF p[2] = "client" THEN "server" ELSE "client">>

VARIABLES
  end,       \* per peer: not connected yet, connected, told of the end, destroyed
  chan,      \* per peer: messages it sent that are under way
  got        \* per peer: messages it received

vars == <<end, chan, got>>

Prefixes(s) == {SubSeq(s, 1, n) : n \in 0..Len(s)}

Init ==
  /\ end = [p \in Peers |-> "new"]
  /\ chan = [p \in Peers |-> <<>>]
  /\ got = [p \in Peers |-> <<>>]

\* The peer of the client learns that it is connected.
emitSigConnectionEstablished(c) ==
  /\ end[<<c, "client">>] = "new"
  /\ end' = [end EXCEPT ![<<c, "client">>] = "open"]
  /\ UNCHANGED <<chan, got>>

\* The server gets a peer for the client.
emitSigClientConnected(c) ==
  /\ end[<<c, "server">>] = "new"
  /\ end' = [end EXCEPT ![<<c, "server">>] = "open"]
  /\ UNCHANGED <<chan, got>>

\* A message is put under way; a peer that is not connected sends nothing.
sendArray(p, m) ==
  /\ end[p] = "open"
  /\ chan' = [chan EXCEPT ![p] = Append(@, m)]
  /\ UNCHANGED <<end, got>>

\* The next n messages reach the other end, whole and in order.
emitMessageReceived(p, n) ==
  LET q == Other(p) IN
  /\ end[q] = "open"
  /\ got' = [got EXCEPT ![q] = @ \o SubSeq(chan[p], 1, n)]
  /\ chan' = [chan EXCEPT ![p] = SubSeq(@, n + 1, Len(@))]
  /\ UNCHANGED end

\* A peer learns that the connection is over: all that was not lost is there.
onPeerClosed(q) ==
  /\ end[q] = "open" /\ end[Other(q)] \in {"closed", "deleted"}
  /\ chan[Other(q)] = <<>>
  /\ end' = [end EXCEPT ![q] = "closed"]
  /\ chan' = [chan EXCEPT ![q] = <<>>]
  /\ UNCHANGED got

\* Peers are destroyed: what they sent may be lost from some message on, what
\* was sent to them is lost.
destroy(P) ==
  /\ P # {} /\ \A p \in P : end[p] # "deleted"
  /\ end' = [p \in Peers |-> IF p \in P THEN "deleted" ELSE end[p]]
  /\ chan' \in [Peers -> UNION {Prefixes(chan[p]) : p \in Peers}]
  /\ \A p \in Peers :
       CASE end'[Other(p)] \in {"closed", "deleted"} -> chan'[p] = <<>>
         [] end'[Other(p)] \in {"new", "open"} /\ p \in P -> chan'[p] \in Prefixes(chan[p])
         [] OTHER -> chan'[p] = chan[p]
  /\ UNCHANGED got

Next ==
  \/ \E c \in Clients : emitSigConnectionEstablished(c) \/ emitSigClientConnected(c)
  \/ \E p \in Peers, m \in Messages : sendArray(p, m)
  \/ \E p \in Peers : \E n \in 1..Len(chan[p]) : emitMessageReceived(p, n)
  \/ \E q \in Peers : onPeerClosed(q)
  \/ \E P \in SUBSET Peers : destroy(P)

Spec == Init /\ [][Next]_vars
=============================================================================
