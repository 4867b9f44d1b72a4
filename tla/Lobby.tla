------------------------------- MODULE Lobby --------------------------------
(***************************************************************************)
(* Who is in the session: NetworkManager's m_peersInLobby at every member, *)
(* the host's m_connectedPeers, the ENet peers they point to, and the      *)
(* HANDSHAKE, LOBBY_SYNC, PEER_JOINED and PEER_LEFT packets.               *)
(*                                                                         *)
(* The host's ENet host has an array of peers.  A connection takes the     *)
(* first free one and gets a new connectID, which is the user's ID on both *)
(* sides; when it ends the peer is reset and free for another guest.  The  *)
(* queues between host and guest belong to the connection, so to the peer. *)
(***************************************************************************)
EXTENDS Naturals, FiniteSets, FiniteSetsExt, Sequences, Functions

CONSTANTS
    Host, Guests, Nobody,
    MaxPeers,     \* peers of the host's ENet host (maxPlayers)
    SyncCap,      \* members that sendLobbyState writes, 32 in the code
    Junk,         \* IDs the members it does not write may seem to have
    MaxConns,     \* bound: connections made
    MaxSessions   \* bound: times the host starts hosting

ASSUME LobbyAssumption ==
    /\ Host \notin Guests /\ Nobody \notin Guests
    /\ MaxPeers \in Nat \ {0} /\ SyncCap \in Nat /\ Junk \subseteq Nat
    /\ MaxConns \in Nat /\ MaxSessions \in Nat

VARIABLES
    hosting,        \* the host has an ENet host
    sessions,       \* times it has started hosting
    conns,          \* connections made so far
    peer,           \* the host's ENet peers
    connectedPeers, \* the host's m_connectedPeers: connectID -> ENet peer
    m_peer,         \* per guest: connectID of its m_peer; 0: no m_peer
    lobby,          \* per member: the IDs in m_peersInLobby
    up, down        \* per ENet peer: what its guest, and the host, has sent

vars == <<hosting, sessions, conns, peer, connectedPeers, m_peer, lobby, up, down>>

Peers == 1 .. MaxPeers
Members == {Host} \cup Guests
ConnectID == 2 .. (MaxConns + 1)
UserID == {0, 1} \cup ConnectID \cup Junk
HostID == 1

Free == [connectID |-> 0, guest |-> Nobody, connected |-> FALSE]

ToHost == [type : {"CONNECT", "HANDSHAKE", "DISCONNECT"}]
ToGuest == [type : {"LOBBY_SYNC"}, ids : SUBSET UserID]
           \cup [type : {"PEER_JOINED", "PEER_LEFT"}, peerID : UserID]

TypeOK ==
    /\ hosting \in BOOLEAN /\ sessions \in 0 .. MaxSessions /\ conns \in 0 .. MaxConns
    /\ peer \in [Peers -> [connectID : ConnectID \cup {0}, guest : Guests \cup {Nobody},
                           connected : BOOLEAN]]
    /\ DOMAIN connectedPeers \subseteq ConnectID /\ Range(connectedPeers) \subseteq Peers
    /\ m_peer \in [Guests -> ConnectID \cup {0}]
    /\ lobby \in [Members -> SUBSET UserID]
    /\ up \in [Peers -> Seq(ToHost)]
    /\ down \in [Peers -> Seq(ToGuest)]

-----------------------------------------------------------------------------
(* ENet and NetworkManager's sends                                         *)

FreePeers == {s \in Peers : peer[s] = Free}

\* enet_peer_send: only to a peer in the CONNECTED state.
enet_peer_send(queues, s, packet) ==
    IF peer[s].connected THEN [queues EXCEPT ![s] = Append(@, packet)] ELSE queues

enet_host_broadcast(queues, packet) ==
    [s \in Peers |-> IF peer[s].connected THEN Append(queues[s], packet) ELSE queues[s]]

\* The IDs a guest reads in the LOBBY_SYNC of the members in ids: memberCount
\* counts all of them, and what was not written is what the stack held.
SyncedIds(ids) ==
    IF Cardinality(ids) <= SyncCap THEN {ids}
    ELSE {written \cup junk : written \in kSubset(SyncCap, ids),
                              junk \in (SUBSET Junk) \ {{}}}

\* The ENet peers that sendLobbyState(id) sends to.
lobbyStateTo(id) == {connectedPeers[i] : i \in DOMAIN connectedPeers \cap {id}}

-----------------------------------------------------------------------------
(* The session at the host                                                 *)

Init ==
    /\ hosting = FALSE /\ sessions = 0 /\ conns = 0
    /\ peer = [s \in Peers |-> Free]
    /\ connectedPeers = <<>>
    /\ m_peer = [g \in Guests |-> 0]
    /\ lobby = [m \in Members |-> {}]
    /\ up = [s \in Peers |-> <<>>] /\ down = [s \in Peers |-> <<>>]

\* NetworkManager::host.
host ==
    /\ ~hosting /\ sessions < MaxSessions
    /\ hosting' = TRUE /\ sessions' = sessions + 1
    /\ lobby' = [lobby EXCEPT ![Host] = @ \cup {HostID}]
    /\ UNCHANGED <<conns, peer, connectedPeers, m_peer, up, down>>

\* NetworkManager::stopHosting: the peers are gone, no guest is told, and
\* the two maps stay as they are.
stopHosting ==
    /\ hosting
    /\ hosting' = FALSE
    /\ peer' = [s \in Peers |-> Free]
    /\ up' = [s \in Peers |-> <<>>] /\ down' = [s \in Peers |-> <<>>]
    /\ UNCHANGED <<sessions, conns, connectedPeers, m_peer, lobby>>

\* m_connectedPeers[id] = s
entered(id, s) ==
    [i \in DOMAIN connectedPeers \cup {id} |-> IF i = id THEN s ELSE connectedPeers[i]]

\* Mutant: m_connectedPeers gets the host's own ID.
PollConnect_OwnID(s) ==
    /\ up[s] # <<>> /\ Head(up[s]).type = "CONNECT"
    /\ peer' = [peer EXCEPT ![s].connected = TRUE]
    /\ connectedPeers' = entered(HostID, s)
    /\ up' = [up EXCEPT ![s] = Tail(@)]
    /\ UNCHANGED <<hosting, sessions, conns, m_peer, lobby, down>>

\* NetworkManager::poll, the CONNECT event.
PollConnect(s) ==
    /\ up[s] # <<>> /\ Head(up[s]).type = "CONNECT"
    /\ peer' = [peer EXCEPT ![s].connected = TRUE]
    /\ connectedPeers' = entered(peer[s].connectID, s)
    /\ up' = [up EXCEPT ![s] = Tail(@)]
    /\ UNCHANGED <<hosting, sessions, conns, m_peer, lobby, down>>

\* Mutant: the HANDSHAKE is taken note of and not answered.
PollHandshake_Unanswered(s) ==
    /\ up[s] # <<>> /\ Head(up[s]).type = "HANDSHAKE"
    /\ lobby' = [lobby EXCEPT ![Host] = @ \cup {peer[s].connectID}]
    /\ up' = [up EXCEPT ![s] = Tail(@)]
    /\ UNCHANGED <<hosting, sessions, conns, peer, connectedPeers, m_peer, down>>

\* The HANDSHAKE handler: addPeer, sendLobbyState, broadcastPeerJoined.
PollHandshake(s) ==
    LET id == peer[s].connectID
        listed == lobby[Host] \cup {id}
    IN
    /\ up[s] # <<>> /\ Head(up[s]).type = "HANDSHAKE"
    /\ lobby' = [lobby EXCEPT ![Host] = listed]
    /\ \E ids \in SyncedIds(listed) :
          LET told == [t \in Peers |->
                         IF t \in lobbyStateTo(id)
                         THEN enet_peer_send(down, t, [type |-> "LOBBY_SYNC", ids |-> ids])[t]
                         ELSE down[t]]
          IN down' = enet_host_broadcast(told, [type |-> "PEER_JOINED", peerID |-> id])
    /\ up' = [up EXCEPT ![s] = Tail(@)]
    /\ UNCHANGED <<hosting, sessions, conns, peer, connectedPeers, m_peer>>

\* Mutant: the ID of the newest connection.
disconnectedPeerID_Newest(s) == conns + 1

\* The connectID that poll reads in a DISCONNECT event: ENet resets the peer
\* before it returns the event.
disconnectedPeerID(s) == 0

\* NetworkManager::poll, the DISCONNECT event: removePeer, erase,
\* broadcastPeerLeft.
PollDisconnect(s) ==
    LET id == disconnectedPeerID(s) IN
    /\ up[s] # <<>> /\ Head(up[s]).type = "DISCONNECT"
    /\ peer' = [peer EXCEPT ![s] = Free]
    /\ lobby' = [lobby EXCEPT ![Host] = @ \ {id}]
    /\ connectedPeers' = [i \in DOMAIN connectedPeers \ {id} |-> connectedPeers[i]]
    /\ down' = [t \in Peers |->
                  IF t = s THEN <<>>
                  ELSE enet_peer_send(down, t, [type |-> "PEER_LEFT", peerID |-> id])[t]]
    /\ up' = [up EXCEPT ![s] = <<>>]
    /\ UNCHANGED <<hosting, sessions, conns, m_peer>>

poll(s) == PollConnect(s) \/ PollHandshake(s) \/ PollDisconnect(s)

\* The host hears no more of a peer and times it out.
HostTimesOut(s) ==
    /\ peer[s] # Free /\ ~\E i \in DOMAIN up[s] : up[s][i].type = "DISCONNECT"
    /\ \E n \in 0 .. Len(up[s]) :
          up' = [up EXCEPT ![s] = Append(SubSeq(@, 1, n), [type |-> "DISCONNECT"])]
    /\ UNCHANGED <<hosting, sessions, conns, peer, connectedPeers, m_peer, lobby, down>>

-----------------------------------------------------------------------------
(* The session at a guest                                                  *)

\* NetworkManager::connect, as the host's ENet sees it: the first free peer.
connect(g) ==
    /\ hosting /\ m_peer[g] = 0 /\ conns < MaxConns
    /\ FreePeers # {}
    /\ LET s == Min(FreePeers)
           id == conns + 2
       IN /\ peer' = [peer EXCEPT ![s] = [connectID |-> id, guest |-> g, connected |-> FALSE]]
          /\ m_peer' = [m_peer EXCEPT ![g] = id]
          /\ up' = [up EXCEPT ![s] = <<[type |-> "CONNECT"], [type |-> "HANDSHAKE"]>>]
          /\ down' = [down EXCEPT ![s] = <<>>]
    /\ conns' = conns + 1
    /\ UNCHANGED <<hosting, sessions, connectedPeers, lobby>>

\* The ENet peers, one or none, that are the host's end of g's connection.
hostEnd(g) == {s \in Peers : peer[s].connectID = m_peer[g] /\ m_peer[g] # 0}

\* NetworkManager::disconnect.
disconnect(g) ==
    /\ m_peer[g] # 0
    /\ m_peer' = [m_peer EXCEPT ![g] = 0]
    /\ \E n \in 0 .. 2 :
          up' = [s \in Peers |->
                   IF s \notin hostEnd(g) \/ \E i \in DOMAIN up[s] : up[s][i].type = "DISCONNECT"
                   THEN up[s]
                   ELSE Append(SubSeq(up[s], 1, Min({n, Len(up[s])})), [type |-> "DISCONNECT"])]
    /\ UNCHANGED <<hosting, sessions, conns, peer, connectedPeers, lobby, down>>

\* poll at a guest whose connection has no other end any more.
GuestTimesOut(g) ==
    /\ m_peer[g] # 0 /\ hostEnd(g) = {}
    /\ m_peer' = [m_peer EXCEPT ![g] = 0]
    /\ UNCHANGED <<hosting, sessions, conns, peer, connectedPeers, lobby, up, down>>

\* Mutant: a guest does not handle PEER_JOINED.
handleLobby_NoJoin(ids, packet) ==
    CASE packet.type = "LOBBY_SYNC"  -> packet.ids
      [] packet.type = "PEER_JOINED" -> ids
      [] packet.type = "PEER_LEFT"   -> ids \ {packet.peerID}

\* handlePacket at a guest: m_peersInLobby after the packet.
handleLobby(ids, packet) ==
    CASE packet.type = "LOBBY_SYNC"  -> packet.ids
      [] packet.type = "PEER_JOINED" -> ids \cup {packet.peerID}
      [] packet.type = "PEER_LEFT"   -> ids \ {packet.peerID}

GuestReceives(g) ==
    \E s \in hostEnd(g) :
        /\ down[s] # <<>>
        /\ lobby' = [lobby EXCEPT ![g] = handleLobby(@, Head(down[s]))]
        /\ down' = [down EXCEPT ![s] = Tail(@)]
        /\ UNCHANGED <<hosting, sessions, conns, peer, connectedPeers, m_peer, up>>

Next ==
    \/ host \/ stopHosting
    \/ \E s \in Peers : poll(s) \/ HostTimesOut(s)
    \/ \E g \in Guests : connect(g) \/ disconnect(g) \/ GuestTimesOut(g) \/ GuestReceives(g)

Spec == Init /\ [][Next]_vars

\* Host and guests poll in every frame, and an ENet connection without its
\* other end times out; nobody has to connect, leave or host.
FairSpec ==
    /\ Spec
    /\ \A s \in Peers : WF_vars(poll(s))
    /\ \A g \in Guests : WF_vars(GuestReceives(g)) /\ WF_vars(GuestTimesOut(g))

-----------------------------------------------------------------------------
(* Properties                                                              *)

\* A member that is connected at both ends and has nothing to hear.
Settled(g) == \E s \in hostEnd(g) : peer[s].connected /\ up[s] = <<>> /\ down[s] = <<>>

\* Every variable keeps its type, and m_connectedPeers leads to the peer of
\* the connection, for every connection there is, whatever connections the
\* peer had before: what the host sends to one user reaches no other.
TargetsRight ==
    TypeOK /\ \A s \in Peers : peer[s].connected =>
        /\ peer[s].connectID \in DOMAIN connectedPeers
        /\ connectedPeers[peer[s].connectID] = s

\* The members of a lobby that have heard all there is to hear see the host's
\* list of it, and none of them is missing from that list.
LobbyAgrees ==
    \A g \in Guests : Settled(g) =>
        /\ lobby[g] = lobby[Host]
        /\ {HostID} \cup {m_peer[h] : h \in {h \in Guests : Settled(h)}} \subseteq lobby[g]

\* A guest that stays connected finds itself in its lobby.
GuestIsListed ==
    \A g \in Guests : m_peer[g] # 0 ~> (m_peer[g] \in lobby[g] \/ m_peer[g] = 0)

\* "peer {} disconnected": the host's lobby has only users that are there.
NoGhosts ==
    (hosting /\ \A s \in Peers : up[s] = <<>>) =>
        lobby[Host] \subseteq {HostID} \cup {peer[s].connectID : s \in Peers}
=============================================================================
