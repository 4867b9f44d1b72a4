----------------------------- MODULE Connection -----------------------------
(***************************************************************************)
(* ENet connections as the mod uses them: guests that connect to one host, *)
(* leave, give up or lose it, and a host that stops and starts again, over *)
(* a network that loses, duplicates and reorders datagrams.                *)
(*                                                                         *)
(* An end is a peer slot of the host's ENetHost or the one peer of a       *)
(* guest's; the handlers are the same for both.  Each datagram has one     *)
(* command; an acknowledgement is in flight as soon as it is queued.       *)
(***************************************************************************)
EXTENDS Naturals, FiniteSets

CONSTANTS
    Slots,      \* peers of the host's ENetHost: 0 .. maxPlayers - 1
    Guests,     \* processes that may join
    Ports,      \* ports that the guests' sockets may get
    Sessions,   \* session IDs
    None,       \* ENET_PROTOCOL_MAXIMUM_PEER_ID, or no port
    HostPort,   \* where the host listens
    Late,       \* whether datagrams survive a restart of the host
    MaxID,      \* bound: attempts to connect
    MaxShakes,  \* bound: times one attempt gets a slot
    MaxStops,   \* bound: times the host stops
    NetCap      \* bound: datagrams in flight

ASSUME ConnectionAssumption ==
    /\ Slots \subseteq Nat /\ Slots # {} /\ Slots \cap Guests = {}
    /\ None \notin Nat \cup Ports
    /\ HostPort \notin Ports \cup {None}
    /\ {Sessions, MaxID, MaxShakes, NetCap} \subseteq Nat \ {0}
    /\ MaxStops \in Nat /\ Late \in BOOLEAN

VARIABLES
    hosting,    \* the host's m_host is not null
    stops,      \* times it has stopped
    peer,       \* the ENetPeer of each end
    bound,      \* ports of sockets that have not been closed
    attempts,   \* connectIDs given out
    shakes,     \* times each connectID has been given a slot by this host
    reported,   \* events for each connectID that this host's poll has seen
    net         \* datagrams in flight

vars == <<hosting, stops, peer, bound, attempts, shakes, reported, net>>

Ends == Slots \cup Guests
IDs == 1 .. MaxID
Unset == 255
SessionID == 0 .. Sessions - 1

\* The states of an ENetPeer, as far as this program takes it through them;
\* a ZOMBIE is reported and reset in the same call of enet_host_service.
States == {"DISCONNECTED", "CONNECTING", "ACKNOWLEDGING_CONNECT", "CONNECTED",
           "DISCONNECTING", "ACKNOWLEDGING_DISCONNECT"}

\* Pings are told apart by numbers in the code, and are alike here.
Commands == {"CONNECT", "VERIFY_CONNECT", "PING", "DISCONNECT"}

Peer == [state : States, connectID : IDs \cup {0},
         port : Ports \cup {None},              \* the guest's, at either end
         outgoingPeerID : Nat \cup {None},      \* the peer at the other end
         in : SessionID \cup {Unset}, out : SessionID \cup {Unset},
         sent : SUBSET Commands,                \* not acknowledged
         shake : 0 .. MaxShakes]                \* which slot its connectID got

\* What CONNECT and VERIFY_CONNECT say.
Greeting == [connectID : IDs, peerID : Nat,
             in : SessionID \cup {Unset}, out : SessionID \cup {Unset},
             shake : 0 .. MaxShakes]

Datagram ==
    [from : Ports \cup {HostPort}, to : Ports \cup {HostPort},
     peerID : Nat \cup {None}, session : SessionID,
     command : Commands \cup {"ACKNOWLEDGE"},
     of : Commands,                             \* what is acknowledged
     greeting : Greeting \cup {None}]

TypeOK ==
    /\ hosting \in BOOLEAN /\ stops \in 0 .. MaxStops
    /\ peer \in [Ends -> Peer]
    /\ bound \subseteq Ports
    /\ attempts \in 0 .. MaxID
    /\ shakes \in [IDs -> 0 .. MaxShakes]
    /\ reported \in [IDs -> 0 .. 2 * MaxShakes]
    /\ net \subseteq Datagram /\ Cardinality(net) <= NetCap

NewPeer == [state |-> "DISCONNECTED", connectID |-> 0, port |-> None,
            outgoingPeerID |-> None, in |-> Unset, out |-> Unset, sent |-> {}, shake |-> 0]

\* Mutant: the session IDs start again with every connection.
enet_peer_reset_Sessions(p) == NewPeer

\* enet_peer_reset keeps the session IDs.
enet_peer_reset(p) == [NewPeer EXCEPT !.in = p.in, !.out = p.out]

Init ==
    /\ hosting = FALSE /\ stops = 0
    /\ peer = [e \in Ends |-> NewPeer]
    /\ bound = {} /\ attempts = 0
    /\ shakes = [i \in IDs |-> 0] /\ reported = [i \in IDs |-> 0]
    /\ net = {}

-----------------------------------------------------------------------------
(* Datagrams                                                               *)

\* A guest has one peer, 0.
incomingPeerID(e) == IF e \in Slots THEN e ELSE 0

\* What end e sends in state p.
Outgoing(e, p, command, of) ==
    [from     |-> IF e \in Slots THEN HostPort ELSE p.port,
     to       |-> IF e \in Slots THEN p.port ELSE HostPort,
     peerID   |-> p.outgoingPeerID,
     session  |-> IF p.outgoingPeerID = None THEN 0 ELSE p.out,
     command  |-> command,
     of       |-> of,
     greeting |-> IF command \notin {"CONNECT", "VERIFY_CONNECT"} THEN None
                  ELSE [connectID |-> p.connectID, peerID |-> incomingPeerID(e),
                        in |-> p.in, out |-> p.out, shake |-> p.shake]]

\* Datagrams go into flight where there is room, or are lost.
Send(base, ds) ==
    net' = IF Cardinality(base \cup ds) <= NetCap THEN base \cup ds ELSE base

\* A datagram that arrives may arrive again; pings are alike, so that a second
\* copy of one is no more than the next one.
Arrives(d, ds) ==
    /\ d \in net
    /\ \/ Send(net \ {d}, ds)
       \/ d.of # "PING" /\ Send(net, ds)

Addressed(e, d) ==
    IF e \in Slots THEN d.to = HostPort /\ d.peerID = e ELSE d.to = peer[e].port

\* Mutant: a datagram of any session is taken.
Accepts_AnySession(e, d) ==
    /\ peer[e].state # "DISCONNECTED" /\ Addressed(e, d)
    /\ e \in Slots => d.from = peer[e].port

\* Mutant: a datagram of any sender is taken.
Accepts_AnyAddress(e, d) ==
    /\ peer[e].state # "DISCONNECTED" /\ Addressed(e, d)
    /\ peer[e].outgoingPeerID # None => d.session = peer[e].in

\* enet_protocol_handle_incoming_commands: which datagrams a peer takes.  The
\* ones nobody takes are as good as lost.
Accepts(e, d) ==
    /\ peer[e].state # "DISCONNECTED" /\ Addressed(e, d)
    /\ e \in Slots => d.from = peer[e].port
    /\ peer[e].outgoingPeerID # None => d.session = peer[e].in

\* An event of enet_host_service: poll on the host sees those of its slots.
Report(e) ==
    reported' = IF e \in Slots THEN [reported EXCEPT ![peer[e].connectID] = @ + 1]
                ELSE reported

\* A guest whose attempt has failed destroys its ENetHost; otherwise the
\* socket stays open.
Close(e) ==
    bound' = IF peer[e].state = "CONNECTING" THEN bound \ {peer[e].port} ELSE bound

-----------------------------------------------------------------------------
(* Connecting                                                              *)

\* NetworkManager::connect, up to the wait for the event.
connect(g) ==
    /\ peer[g].state = "DISCONNECTED" /\ attempts < MaxID
    /\ \E port \in Ports \ bound :
          /\ bound' = bound \cup {port}
          /\ peer' = [peer EXCEPT ![g] =
                [NewPeer EXCEPT !.state = "CONNECTING", !.connectID = attempts + 1,
                                !.port = port, !.sent = {"CONNECT"}]]
    /\ attempts' = attempts + 1
    /\ UNCHANGED <<hosting, stops, shakes, reported, net>>

\* The next session ID after the one the other end offers, or the slot's last.
NextSession(offered, last) ==
    LET n == ((IF offered = Unset THEN last ELSE offered) + 1) % Sessions
    IN IF n = last THEN (n + 1) % Sessions ELSE n

Known(d) == \E s \in Slots : /\ peer[s].state # "DISCONNECTED" /\ peer[s].port = d.from
                             /\ peer[s].connectID = d.greeting.connectID

\* enet_protocol_handle_connect: the first free slot, unless the attempt has
\* one already.
handle_connect(d) ==
    /\ hosting /\ d.command = "CONNECT" /\ ~Known(d)
    /\ LET c == d.greeting
           free == {s \in Slots : peer[s].state = "DISCONNECTED"}
           s == CHOOSE f \in free : \A x \in free : f <= x
           p == [state |-> "ACKNOWLEDGING_CONNECT", connectID |-> c.connectID,
                 port |-> d.from, outgoingPeerID |-> c.peerID,
                 out |-> NextSession(c.in, peer[s].out),
                 in |-> NextSession(c.out, peer[s].in),
                 sent |-> {"VERIFY_CONNECT"}, shake |-> shakes[c.connectID] + 1]
       IN /\ free # {} /\ shakes[c.connectID] < MaxShakes
          /\ peer' = [peer EXCEPT ![s] = p]
          /\ shakes' = [shakes EXCEPT ![c.connectID] = @ + 1]
          /\ Arrives(d, {Outgoing(s, p, "VERIFY_CONNECT", "VERIFY_CONNECT")})
    /\ UNCHANGED <<hosting, stops, bound, attempts, reported>>

\* enet_protocol_handle_verify_connect, while connect waits.
handle_verify_connect(e, d) ==
    /\ Accepts(e, d) /\ d.command = "VERIFY_CONNECT"
    /\ LET p == peer[e]
           c == d.greeting
           verified == [p EXCEPT !.state = "CONNECTED", !.sent = {}, !.shake = c.shake,
                                 !.outgoingPeerID = c.peerID, !.in = c.out, !.out = c.in]
       IN \/ /\ p.state = "CONNECTING" /\ c.connectID = p.connectID
             /\ peer' = [peer EXCEPT ![e] = verified]
             /\ Arrives(d, {Outgoing(e, verified, "ACKNOWLEDGE", "VERIFY_CONNECT")})
             /\ UNCHANGED bound
          \* of another attempt: a ZOMBIE, and connect fails
          \/ /\ p.state = "CONNECTING" /\ c.connectID # p.connectID
             /\ peer' = [peer EXCEPT ![e] = enet_peer_reset(p)]
             /\ Arrives(d, {}) /\ Close(e)
          \* again
          \/ /\ p.state = "CONNECTED"
             /\ Arrives(d, {Outgoing(e, p, "ACKNOWLEDGE", "VERIFY_CONNECT")})
             /\ UNCHANGED <<peer, bound>>
    /\ UNCHANGED <<hosting, stops, attempts, shakes, reported>>

-----------------------------------------------------------------------------
(* Connected                                                               *)

\* enet_protocol_handle_acknowledge
handle_acknowledge(e, d) ==
    /\ Accepts(e, d) /\ d.command = "ACKNOWLEDGE" /\ d.of \in peer[e].sent
    /\ LET p == [peer[e] EXCEPT !.sent = @ \ {d.of}] IN
       \/ /\ p.state = "ACKNOWLEDGING_CONNECT"
          /\ peer' = [peer EXCEPT ![e] = [p EXCEPT !.state = "CONNECTED"]]
          /\ Report(e)
       \/ /\ p.state = "DISCONNECTING"
          /\ peer' = [peer EXCEPT ![e] = enet_peer_reset(p)]
          /\ Report(e)
       \/ /\ p.state = "CONNECTED"
          /\ peer' = [peer EXCEPT ![e] = p]
          /\ UNCHANGED reported
    /\ Arrives(d, {})
    /\ UNCHANGED <<hosting, stops, bound, attempts, shakes>>

\* Mutant: pings are not sent.
enet_peer_ping_Never(e) == FALSE /\ UNCHANGED vars

\* enet_peer_ping, when everything has been acknowledged for a while.
enet_peer_ping(e) ==
    /\ peer[e].state = "CONNECTED" /\ peer[e].sent = {}
    /\ peer' = [peer EXCEPT ![e].sent = {"PING"}]
    /\ Send(net, {Outgoing(e, peer[e], "PING", "PING")})
    /\ UNCHANGED <<hosting, stops, bound, attempts, shakes, reported>>

\* enet_protocol_handle_ping
handle_ping(e, d) ==
    /\ Accepts(e, d) /\ d.command = "PING" /\ peer[e].state = "CONNECTED"
    /\ Arrives(d, {Outgoing(e, peer[e], "ACKNOWLEDGE", "PING")})
    /\ UNCHANGED <<hosting, stops, peer, bound, attempts, shakes, reported>>

\* A command is sent, for the first time or again.
Transmit(e) ==
    /\ \E c \in peer[e].sent : Send(net, {Outgoing(e, peer[e], c, c)})
    /\ UNCHANGED <<hosting, stops, peer, bound, attempts, shakes, reported>>

\* enet_protocol_notify_disconnect: before CONNECT has been reported there is
\* no event.
notify_disconnect(e) ==
    /\ IF peer[e].state = "ACKNOWLEDGING_CONNECT" THEN UNCHANGED reported ELSE Report(e)
    /\ peer' = [peer EXCEPT ![e] = enet_peer_reset(@)]

\* A command has not been acknowledged for too long, or the five seconds of
\* connect or the three of disconnect are over.
TimeOut(e) ==
    /\ peer[e].sent # {}
    /\ notify_disconnect(e)
    /\ Close(e)
    /\ UNCHANGED <<hosting, stops, attempts, shakes, net>>

-----------------------------------------------------------------------------
(* Leaving                                                                 *)

\* NetworkManager::disconnect and enet_peer_disconnect
disconnect(g) ==
    /\ peer[g].state = "CONNECTED"
    /\ peer' = [peer EXCEPT ![g].state = "DISCONNECTING", ![g].sent = {"DISCONNECT"}]
    /\ UNCHANGED <<hosting, stops, bound, attempts, shakes, reported, net>>

\* enet_protocol_handle_disconnect: the slot stays until it acknowledges,
\* unless its CONNECT has not been reported.
handle_disconnect(s, d) ==
    /\ Accepts(s, d) /\ d.command = "DISCONNECT"
    /\ \/ /\ peer[s].state = "CONNECTED"
          /\ peer' = [peer EXCEPT ![s].state = "ACKNOWLEDGING_DISCONNECT", ![s].sent = {}]
       \/ /\ peer[s].state = "ACKNOWLEDGING_CONNECT"
          /\ peer' = [peer EXCEPT ![s] = enet_peer_reset(@)]
    /\ Arrives(d, {})
    /\ UNCHANGED <<hosting, stops, bound, attempts, shakes, reported>>

\* enet_protocol_send_acknowledgements: then the slot is a ZOMBIE, which
\* enet_protocol_dispatch_incoming_commands reports and resets.
send_acknowledgements(s) ==
    /\ peer[s].state = "ACKNOWLEDGING_DISCONNECT"
    /\ Send(net, {Outgoing(s, peer[s], "ACKNOWLEDGE", "DISCONNECT")})
    /\ Report(s)
    /\ peer' = [peer EXCEPT ![s] = enet_peer_reset(@)]
    /\ UNCHANGED <<hosting, stops, bound, attempts, shakes>>

-----------------------------------------------------------------------------
(* The host                                                                *)

\* NetworkManager::host and enet_host_create: every slot is new.
host ==
    /\ ~hosting /\ hosting' = TRUE
    /\ UNCHANGED <<stops, peer, bound, attempts, shakes, reported, net>>

\* NetworkManager::stopHosting and enet_host_destroy: nobody is told.
stopHosting ==
    /\ hosting /\ stops < MaxStops
    /\ hosting' = FALSE /\ stops' = stops + 1
    /\ peer' = [e \in Ends |-> IF e \in Slots THEN NewPeer ELSE peer[e]]
    /\ shakes' = [i \in IDs |-> 0] /\ reported' = [i \in IDs |-> 0]
    /\ net' = IF Late THEN net ELSE {}
    /\ UNCHANGED <<bound, attempts>>

Lose == /\ \E d \in net : net' = net \ {d}
        /\ UNCHANGED <<hosting, stops, peer, bound, attempts, shakes, reported>>

Next ==
    \/ host \/ stopHosting \/ Lose
    \/ \E g \in Guests : connect(g) \/ disconnect(g)
    \/ \E s \in Slots : send_acknowledgements(s)
    \/ \E e \in Ends : enet_peer_ping(e) \/ Transmit(e) \/ TimeOut(e)
    \/ \E d \in net :
          \/ handle_connect(d)
          \/ \E g \in Guests : handle_verify_connect(g, d)
          \/ \E s \in Slots : handle_disconnect(s, d)
          \/ \E e \in Ends : handle_acknowledge(e, d) \/ handle_ping(e, d)

Spec == Init /\ [][Next]_vars

\* Everybody polls: pings are sent and what is not acknowledged times out.  The
\* steps of Finish happen only finitely often, so that fairness of them together
\* is enough.
Finish == \/ \E s \in Slots : send_acknowledgements(s)
          \/ \E e \in Ends : TimeOut(e)

FairSpec == Spec /\ WF_vars(Finish) /\ \A e \in Ends : WF_vars(enet_peer_ping(e))

-----------------------------------------------------------------------------
(* Properties                                                              *)

Connected(e, i) == peer[e].state = "CONNECTED" /\ peer[e].connectID = i

\* Two ends that are connected under one connectID are each other's, from one
\* handshake: they agree on slot, address and session IDs, and both count
\* their commands from the same start.
SameHandshake ==
    \A i \in IDs, s \in Slots, g \in Guests :
        Connected(s, i) /\ Connected(g, i) =>
            LET a == peer[s] b == peer[g]
            IN /\ b.outgoingPeerID = s /\ a.port = b.port
               /\ a.in = b.out /\ a.out = b.in /\ a.shake = b.shake

\* The host's poll sees at most one CONNECT and then one DISCONNECT for each
\* connectID, and holds a slot for it exactly in between.
EventsPaired ==
    \A i \in IDs :
        /\ reported[i] <= 2
        /\ reported[i] = 1 <=>
              \E s \in Slots : /\ peer[s].connectID = i
                               /\ peer[s].state \in {"CONNECTED", "ACKNOWLEDGING_DISCONNECT"}

\* Every variable keeps its type, the session IDs their two bits, and nobody
\* is put out by another's DISCONNECT, or by one of an earlier stay.
NobodyKicked ==
    TypeOK /\ \A s \in Slots, g \in Guests :
        peer[s].state = "ACKNOWLEDGING_DISCONNECT" => ~Connected(g, peer[s].connectID)

\* A connection that only one end has left does not last: the slot of a guest
\* that has gone is freed, and a guest whose host has gone learns it.
GuestHas(i) == \E g \in Guests : peer[g].connectID = i
HostHas(i) == \E s \in Slots : peer[s].connectID = i
EndsMeet == []<>(\A i \in IDs : GuestHas(i) <=> HostHas(i))
=============================================================================
