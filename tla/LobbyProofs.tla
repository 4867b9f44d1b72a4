---------------------------- MODULE LobbyProofs ----------------------------
(***************************************************************************)
(* Proofs about Lobby, for any number of guests, peers, connections and    *)
(* sessions: what the host sends to one user reaches no other, and, as     *)
(* long as all members fit a LOBBY_SYNC, who has heard all there is to     *)
(* hear has the host's list.                                               *)
(*                                                                         *)
(* Nothing is said of what a guest will have after all the packets under   *)
(* way: Told says of one ID at a time which packet will put it into the    *)
(* lobby and that no later one takes it out, and that no packet brings an  *)
(* ID that the host has not.                                               *)
(***************************************************************************)
EXTENDS Lobby, FiniteSetTheorems, TLAPS

\* A connectID belongs to one peer, and a peer without one is free.
Ids ==
    /\ \A s \in Peers : /\ peer[s].connectID <= conns + 1
                        /\ up[s] # <<>> => peer[s].connectID # 0
                        /\ peer[s].connectID = 0 => peer[s] = Free
    /\ \A s, t \in Peers :
          peer[s].connectID = peer[t].connectID /\ peer[s].connectID # 0 => s = t

IInv == TargetsRight /\ Ids

Users ==
    /\ \A g \in Guests : m_peer[g] <= conns + 1
    /\ \A g, h \in Guests : m_peer[g] = m_peer[h] /\ m_peer[g] # 0 => g = h

\* A CONNECT is the first of a connection, and something follows it; a
\* HANDSHAKE is handled after the CONNECT.
Shape ==
    \A s \in Peers :
        /\ \A i \in DOMAIN up[s] : up[s][i].type = "CONNECT" => i = 1 /\ Len(up[s]) > 1
        /\ up[s] # <<>> /\ Head(up[s]).type = "HANDSHAKE" => peer[s].connected

\* The host lists itself and those it has given a connectID.
HostLists ==
    /\ lobby[Host] \subseteq 1 .. (MaxConns + 1)
    /\ hosting => HostID \in lobby[Host]
    /\ ~hosting => \A s \in Peers : peer[s] = Free /\ up[s] = <<>> /\ down[s] = <<>>

\* What packet p says is so when the host lists the IDs in all; the only ID
\* that is ever said to have left is 0, which is never listed.
Holds(p, all) ==
    /\ p.type = "LOBBY_SYNC" => p.ids \subseteq all
    /\ p.type = "PEER_JOINED" => p.peerID \in all
    /\ p.type = "PEER_LEFT" => p.peerID = 0

AllTrue == \A s \in Peers : \A i \in DOMAIN down[s] : Holds(down[s][i], lobby[Host])

Brings(p, x) ==
    \/ p.type = "LOBBY_SYNC" /\ x \in p.ids
    \/ p.type = "PEER_JOINED" /\ p.peerID = x

\* No LOBBY_SYNC in q after place i is without x.
Stays(q, i, x) == \A j \in DOMAIN q : j > i /\ q[j].type = "LOBBY_SYNC" => x \in q[j].ids

\* Who has ids and is to hear q will have all.
Told(ids, q, all) ==
    /\ (\A i \in DOMAIN q : q[i].type # "LOBBY_SYNC") => ids \subseteq all
    /\ \A x \in all : \/ x \in ids /\ Stays(q, 0, x)
                      \/ \E i \in DOMAIN q : Brings(q[i], x) /\ Stays(q, i, x)

\* The host has handled the HANDSHAKE and has nothing else to handle.
Greeted(s) ==
    /\ peer[s].connected
    /\ \A i \in DOMAIN up[s] : up[s][i].type \notin {"HANDSHAKE", "DISCONNECT"}

GreetedAreTold ==
    \A g \in Guests : \A s \in hostEnd(g) : Greeted(s) =>
        /\ peer[s].connectID \in lobby[Host]
        /\ Told(lobby[g], down[s], lobby[Host])

LInv == IInv /\ Users /\ Shape /\ HostLists /\ AllTrue /\ GreetedAreTold

-----------------------------------------------------------------------------
(* What the operations need of numbers and sequences                       *)

\* A set of numbers has a least one.
LEMMA NatMin ==
    ASSUME NEW S \in SUBSET Nat, S # {}
    PROVE  \E x \in S : \A y \in S : x <= y
<1> DEFINE R == {ss \in Nat \X Nat : ss[1] < ss[2]}
<1>1. IsWellFoundedOn(R, Nat)
  BY NatLessThanWellFounded DEF OpToRel
<1>2. \A x, y \in Nat : y < x => <<y, x>> \in R
  OBVIOUS
<1> HIDE DEF R
<1>3. PICK x \in S : \A y \in S : ~(<<y, x>> \in R)
  BY WFMin, <1>1
<1>4. ASSUME NEW y \in S PROVE x <= y
  <2>1. x \in Nat /\ y \in Nat
    OBVIOUS
  <2>2. ~(y < x)
    BY <1>2, <1>3, <2>1
  <2> QED BY <2>1, <2>2
<1> QED BY <1>4

\* The first free peer is one.
LEMMA FirstFree ==
    ASSUME FreePeers # {}
    PROVE  Min(FreePeers) \in FreePeers
<1>1. FreePeers \in SUBSET Nat
  BY LobbyAssumption DEF FreePeers, Peers
<1>2. \E x \in FreePeers : \A y \in FreePeers : x <= y
  BY <1>1, NatMin
<1> QED BY <1>2 DEF Min

\* A queue that is cut and ended: what is in it was in it, at the same place.
LEMMA CutProperties ==
    ASSUME NEW S, NEW q \in Seq(S), NEW n \in 0 .. Len(q), NEW p \in S
    PROVE  LET r == Append(SubSeq(q, 1, n), p)
           IN  /\ r \in Seq(S) /\ Len(r) = n + 1 /\ r # <<>>
               /\ \A i \in 1 .. n : r[i] = q[i]
               /\ r[n + 1] = p
OBVIOUS

-----------------------------------------------------------------------------
(* The targets of packets                                                  *)

\* The queues of a host without connections.
LEMMA NoQueues == ASSUME NEW S PROVE [s \in Peers |-> <<>>] \in [Peers -> Seq(S)]
OBVIOUS

\* Nobody is there at first.
LEMMA InitIInv == Init => IInv
<1> USE LobbyAssumption
<1> SUFFICES ASSUME Init PROVE IInv
  OBVIOUS
<1>1. DOMAIN connectedPeers = {} /\ Range(connectedPeers) = {}
  <2>1. connectedPeers = <<>>
    BY DEF Init
  <2>2. DOMAIN connectedPeers = {}
    BY <2>1
  <2> QED BY <2>2 DEF Range
<1>2. Free \in [connectID : ConnectID \cup {0}, guest : Guests \cup {Nobody},
                connected : BOOLEAN]
  BY DEF Free
<1>3. peer \in [Peers -> [connectID : ConnectID \cup {0}, guest : Guests \cup {Nobody},
                          connected : BOOLEAN]]
  BY <1>2 DEF Init
<1>4. TypeOK
  <2>1. up \in [Peers -> Seq(ToHost)] /\ down \in [Peers -> Seq(ToGuest)]
    BY NoQueues, Zenon DEF Init
  <2>2. hosting \in BOOLEAN /\ sessions \in 0 .. MaxSessions /\ conns \in 0 .. MaxConns
    <3>1. sessions \in 0 .. MaxSessions /\ conns \in 0 .. MaxConns
      BY DEF Init
    <3> QED BY <3>1 DEF Init
  <2>3. m_peer \in [Guests -> ConnectID \cup {0}] /\ lobby \in [Members -> SUBSET UserID]
    BY DEF Init
  <2> QED BY <1>1, <1>3, <2>1, <2>2, <2>3 DEF TypeOK
<1>5. Ids /\ \A s \in Peers : ~peer[s].connected
  BY DEF Init, Ids, Free
<1> QED BY <1>4, <1>5 DEF IInv, TargetsRight

\* The maps stay as they are when the host starts.
LEMMA HostKeeps == ASSUME IInv, host PROVE IInv'
<1> USE LobbyAssumption
<1>1. TypeOK'
  BY DEF IInv, TargetsRight, TypeOK, host, Members, UserID, HostID
<1> QED BY <1>1 DEF IInv, TargetsRight, Ids, host

\* Without a server there are no peers.
LEMMA StopHostingKeeps == ASSUME IInv, stopHosting PROVE IInv'
<1> USE LobbyAssumption
<1>1. Free \in [connectID : ConnectID \cup {0}, guest : Guests \cup {Nobody},
                connected : BOOLEAN]
  BY DEF Free
<1>2. peer' \in [Peers -> [connectID : ConnectID \cup {0}, guest : Guests \cup {Nobody},
                           connected : BOOLEAN]]
  BY <1>1 DEF stopHosting
<1>3. TypeOK'
  <2>1. up' \in [Peers -> Seq(ToHost)] /\ down' \in [Peers -> Seq(ToGuest)]
    BY NoQueues, Zenon DEF stopHosting
  <2> QED BY <1>2, <2>1 DEF IInv, TargetsRight, TypeOK, stopHosting
<1>4. Ids' /\ \A s \in Peers : ~peer'[s].connected
  BY DEF IInv, TargetsRight, TypeOK, stopHosting, Free, Ids
<1> QED BY <1>3, <1>4 DEF IInv, TargetsRight

\* A peer that becomes connected keeps its connectID.
LEMMA PollConnectPeer ==
    ASSUME IInv, NEW s \in Peers, PollConnect(s)
    PROVE  /\ peer' \in [Peers -> [connectID : ConnectID \cup {0}, guest : Guests \cup {Nobody},
                                   connected : BOOLEAN]]
           /\ peer'[s].connected
           /\ \A t \in Peers : /\ peer'[t].connectID = peer[t].connectID
                               /\ t # s => peer'[t] = peer[t]
<1> DEFINE A == ConnectID \cup {0}
           B == Guests \cup {Nobody}
<1>1. peer \in [Peers -> [connectID : A, guest : B, connected : BOOLEAN]]
  BY DEF IInv, TargetsRight, TypeOK
<1>2. peer' = [peer EXCEPT ![s].connected = TRUE]
  BY DEF PollConnect
<1> HIDE DEF A, B
<1>3. /\ peer' \in [Peers -> [connectID : A, guest : B, connected : BOOLEAN]]
      /\ peer'[s].connected
      /\ \A t \in Peers : /\ peer'[t].connectID = peer[t].connectID
                          /\ t # s => peer'[t] = peer[t]
  BY ONLY <1>1, <1>2, s \in Peers
<1> QED BY <1>3 DEF A, B

\* A CONNECT enters the peer under the connectID it has now, which no other
\* peer has.
LEMMA PollConnectKeeps ==
    ASSUME IInv, NEW s \in Peers, PollConnect(s) PROVE IInv'
<1> USE LobbyAssumption
<1>1. peer[s].connectID \in ConnectID
  BY DEF IInv, TargetsRight, TypeOK, Ids, PollConnect
<1>2. /\ peer' \in [Peers -> [connectID : ConnectID \cup {0}, guest : Guests \cup {Nobody},
                              connected : BOOLEAN]]
      /\ \A t \in Peers : /\ peer'[t].connectID = peer[t].connectID
                          /\ t # s => peer'[t] = peer[t]
  BY PollConnectPeer
<1>3. /\ DOMAIN connectedPeers' = DOMAIN connectedPeers \cup {peer[s].connectID}
      /\ \A i \in DOMAIN connectedPeers' :
            connectedPeers'[i] = IF i = peer[s].connectID THEN s ELSE connectedPeers[i]
  BY DEF PollConnect, entered
<1>4. /\ up' \in [Peers -> Seq(ToHost)]
      /\ \A t \in Peers : up'[t] # <<>> => up[t] # <<>>
  BY DEF IInv, TargetsRight, TypeOK, PollConnect
<1>5. DOMAIN connectedPeers' \subseteq ConnectID
  BY <1>1, <1>3 DEF IInv, TargetsRight, TypeOK
<1>6. Range(connectedPeers') \subseteq Peers
  <2>1. connectedPeers' = entered(peer[s].connectID, s) /\ Range(connectedPeers) \subseteq Peers
    BY DEF IInv, TargetsRight, TypeOK, PollConnect
  <2>2. \A i \in DOMAIN connectedPeers' : connectedPeers'[i] \in Peers
    BY <1>3, <2>1 DEF Range
  <2> QED BY <2>2 DEF Range
<1>7. TypeOK'
  BY <1>2, <1>4, <1>5, <1>6 DEF IInv, TargetsRight, TypeOK, PollConnect
<1>8. Ids'
  <2>1. \A t \in Peers : peer'[t].connectID = 0 => peer'[t] = Free
    BY <1>1, <1>2 DEF IInv, Ids, ConnectID
  <2> QED BY <1>2, <1>4, <2>1 DEF IInv, Ids, PollConnect
<1>9. \A t \in Peers : peer'[t].connected =>
        peer'[t].connectID \in DOMAIN connectedPeers' /\ connectedPeers'[peer'[t].connectID] = t
  <2> SUFFICES ASSUME NEW t \in Peers, peer'[t].connected
               PROVE  /\ peer'[t].connectID \in DOMAIN connectedPeers'
                      /\ connectedPeers'[peer'[t].connectID] = t
    OBVIOUS
  <2>1. CASE t = s
    BY <1>2, <1>3, <2>1
  <2>2. CASE t # s
    <3>1. /\ peer[t].connectID \in DOMAIN connectedPeers
          /\ connectedPeers[peer[t].connectID] = t
      BY <1>2, <2>2 DEF IInv, TargetsRight
    <3>2. peer[t].connectID # peer[s].connectID
      BY <1>1, <1>2, <2>2 DEF IInv, Ids, ConnectID
    <3> QED BY <1>2, <1>3, <3>1, <3>2
  <2> QED BY <2>1, <2>2
<1> QED BY <1>7, <1>8, <1>9 DEF IInv, TargetsRight

\* Whatever IDs the stack makes up, a guest reads IDs.
LEMMA SyncedIdsTyped ==
    ASSUME LobbyAssumption, NEW all \in SUBSET UserID, NEW ids \in SyncedIds(all)
    PROVE  ids \in SUBSET UserID
<1>1. CASE Cardinality(all) <= SyncCap
  BY <1>1 DEF SyncedIds
<1>2. CASE ~(Cardinality(all) <= SyncCap)
  <2>1. PICK w \in kSubset(SyncCap, all), j \in SUBSET Junk : ids = w \cup j
    BY <1>2 DEF SyncedIds
  <2>2. w \in SUBSET all
    BY DEF kSubset
  <2> QED BY <2>1, <2>2 DEF UserID
<1> QED BY <1>1, <1>2

\* What PollHandshake(s) sends: ids to the peer that lobbyStateTo finds, and
\* the connectID to all that are connected.
syncPacket(ids) == [type |-> "LOBBY_SYNC", ids |-> ids]
joinedPacket(s) == [type |-> "PEER_JOINED", peerID |-> peer[s].connectID]
toldBy(s, ids) ==
    [t \in Peers |-> IF t \in lobbyStateTo(peer[s].connectID)
                     THEN enet_peer_send(down, t, syncPacket(ids))[t] ELSE down[t]]

\* What a HANDSHAKE makes the host send.
LEMMA PollHandshakeSends ==
    ASSUME NEW s \in Peers, PollHandshake(s)
    PROVE  \E ids \in SyncedIds(lobby[Host] \cup {peer[s].connectID}) :
              down' = [t \in Peers |-> IF peer[t].connected
                                       THEN Append(toldBy(s, ids)[t], joinedPacket(s))
                                       ELSE toldBy(s, ids)[t]]
BY Zenon DEF PollHandshake, syncPacket, joinedPacket, toldBy, enet_host_broadcast

\* The HANDSHAKE changes the lobby and the queues to the guests only.
LEMMA PollHandshakeKeeps ==
    ASSUME IInv, NEW s \in Peers, PollHandshake(s) PROVE IInv'
<1> USE LobbyAssumption
<1>1. peer[s].connectID \in UserID
  BY DEF IInv, TargetsRight, TypeOK, UserID
<1>2. lobby' \in [Members -> SUBSET UserID] /\ lobby[Host] \in SUBSET UserID
  BY <1>1 DEF IInv, TargetsRight, TypeOK, PollHandshake, Members
<1>3. /\ up' \in [Peers -> Seq(ToHost)]
      /\ \A t \in Peers : up'[t] # <<>> => up[t] # <<>>
  BY DEF IInv, TargetsRight, TypeOK, PollHandshake
<1>4. down' \in [Peers -> Seq(ToGuest)]
  <2>1. PICK ids \in SyncedIds(lobby[Host] \cup {peer[s].connectID}) :
          down' = [t \in Peers |-> IF peer[t].connected
                                   THEN Append(toldBy(s, ids)[t], joinedPacket(s))
                                   ELSE toldBy(s, ids)[t]]
    BY PollHandshakeSends
  <2>2. ids \in SUBSET UserID
    BY <1>1, <1>2, SyncedIdsTyped
  <2>3. syncPacket(ids) \in ToGuest /\ joinedPacket(s) \in ToGuest
    BY <1>1, <2>2 DEF ToGuest, syncPacket, joinedPacket
  <2>4. down \in [Peers -> Seq(ToGuest)]
    BY DEF IInv, TargetsRight, TypeOK
  <2>5. toldBy(s, ids) \in [Peers -> Seq(ToGuest)]
    BY <2>3, <2>4 DEF toldBy, enet_peer_send
  <2> QED BY <2>1, <2>3, <2>5
<1>5. UNCHANGED <<hosting, sessions, conns, peer, connectedPeers, m_peer>>
  BY DEF PollHandshake
<1>6. TypeOK'
  BY <1>2, <1>3, <1>4, <1>5 DEF IInv, TargetsRight, TypeOK
<1> QED BY <1>3, <1>5, <1>6 DEF IInv, TargetsRight, Ids

\* A DISCONNECT frees the peer.  The ID it takes out of m_connectedPeers is
\* 0, which no user has.
LEMMA PollDisconnectKeeps ==
    ASSUME IInv, NEW s \in Peers, PollDisconnect(s) PROVE IInv'
<1> USE LobbyAssumption
<1> USE DEF IInv, TargetsRight, PollDisconnect, disconnectedPeerID
<1>1. /\ DOMAIN connectedPeers' = DOMAIN connectedPeers
      /\ \A i \in DOMAIN connectedPeers : connectedPeers'[i] = connectedPeers[i]
  <2>1. 0 \notin DOMAIN connectedPeers
    BY DEF TypeOK, ConnectID
  <2> QED BY <2>1
<1>2. /\ Free \in [connectID : ConnectID \cup {0}, guest : Guests \cup {Nobody},
                   connected : BOOLEAN]
      /\ Free.connectID = 0 /\ ~Free.connected
  BY DEF Free
<1>3. /\ peer' \in [Peers -> [connectID : ConnectID \cup {0}, guest : Guests \cup {Nobody},
                              connected : BOOLEAN]]
      /\ peer'[s].connectID = 0 /\ ~peer'[s].connected
      /\ \A t \in Peers : t # s => peer'[t] = peer[t]
  BY <1>2 DEF TypeOK
<1>4. lobby' \in [Members -> SUBSET UserID]
  BY DEF TypeOK
<1>5. /\ up' \in [Peers -> Seq(ToHost)]
      /\ \A t \in Peers : up'[t] # <<>> => t # s /\ up[t] # <<>>
  BY DEF TypeOK
<1>6. down' \in [Peers -> Seq(ToGuest)]
  <2> DEFINE left == [type |-> "PEER_LEFT", peerID |-> 0]
  <2>1. left \in ToGuest
    BY DEF ToGuest, UserID
  <2> HIDE DEF left
  <2>2. down' = [t \in Peers |-> IF t = s THEN <<>> ELSE enet_peer_send(down, t, left)[t]]
    BY DEF left
  <2> QED BY <2>1, <2>2 DEF TypeOK, enet_peer_send
<1>7. Range(connectedPeers') \subseteq Peers /\ DOMAIN connectedPeers' \subseteq ConnectID
  BY <1>1 DEF TypeOK, Range
<1>8. TypeOK'
  BY <1>3, <1>4, <1>5, <1>6, <1>7 DEF TypeOK
<1>9. Ids'
  BY <1>3, <1>5 DEF Ids, TypeOK
<1> QED BY <1>1, <1>3, <1>8, <1>9

\* A queue that is cut and ended is not empty, and its peer is in use.
LEMMA HostTimesOutKeeps ==
    ASSUME IInv, NEW s \in Peers, HostTimesOut(s) PROVE IInv'
<1> USE LobbyAssumption
<1> USE DEF IInv, TargetsRight, HostTimesOut
<1>1. PICK n \in 0 .. Len(up[s]) :
        up' = [up EXCEPT ![s] = Append(SubSeq(@, 1, n), [type |-> "DISCONNECT"])]
  OBVIOUS
<1>2. [type |-> "DISCONNECT"] \in ToHost
  BY DEF ToHost
<1>3. up' \in [Peers -> Seq(ToHost)] /\ \A t \in Peers : t # s => up'[t] = up[t]
  BY <1>1, <1>2 DEF TypeOK
<1>4. TypeOK'
  BY <1>3 DEF TypeOK
<1>5. peer[s].connectID # 0
  BY DEF Ids
<1> QED BY <1>3, <1>4, <1>5 DEF Ids

\* The connection that connect makes has a connectID that is the greatest.
LEMMA ConnectKeeps ==
    ASSUME IInv, NEW g \in Guests, connect(g) PROVE IInv'
<1> USE LobbyAssumption
<1> DEFINE s == Min(FreePeers)
           id == conns + 2
<1>1. s \in Peers /\ peer[s] = Free
  BY FirstFree DEF connect, FreePeers
<1>2. /\ peer' = [peer EXCEPT ![s] = [connectID |-> id, guest |-> g, connected |-> FALSE]]
      /\ m_peer' = [m_peer EXCEPT ![g] = id]
      /\ up' = [up EXCEPT ![s] = <<[type |-> "CONNECT"], [type |-> "HANDSHAKE"]>>]
      /\ down' = [down EXCEPT ![s] = <<>>]
      /\ conns' = conns + 1 /\ conns < MaxConns
      /\ UNCHANGED <<hosting, sessions, connectedPeers, lobby>>
  BY DEF connect
<1> HIDE DEF s
<1>3. id \in ConnectID /\ conns' \in 0 .. MaxConns
  BY <1>2 DEF IInv, TargetsRight, TypeOK, ConnectID
<1> HIDE DEF id
<1>4. /\ peer' \in [Peers -> [connectID : ConnectID \cup {0}, guest : Guests \cup {Nobody},
                              connected : BOOLEAN]]
      /\ peer'[s].connectID = id /\ ~peer'[s].connected
      /\ \A t \in Peers : t # s => peer'[t] = peer[t]
  BY <1>1, <1>2, <1>3 DEF IInv, TargetsRight, TypeOK
<1>5. m_peer' \in [Guests -> ConnectID \cup {0}]
  BY <1>2, <1>3 DEF IInv, TargetsRight, TypeOK
<1>6. /\ up' \in [Peers -> Seq(ToHost)]
      /\ \A t \in Peers : t # s => up'[t] = up[t]
  <2>1. <<[type |-> "CONNECT"], [type |-> "HANDSHAKE"]>> \in Seq(ToHost)
    BY DEF ToHost
  <2> QED BY <1>2, <2>1 DEF IInv, TargetsRight, TypeOK
<1>7. down' \in [Peers -> Seq(ToGuest)]
  <2>1. <<>> \in Seq(ToGuest)
    OBVIOUS
  <2> QED BY <1>2, <2>1 DEF IInv, TargetsRight, TypeOK
<1>8. TypeOK'
  BY <1>2, <1>3, <1>4, <1>5, <1>6, <1>7 DEF IInv, TargetsRight, TypeOK
<1>9. Ids'
  <2>1. id # 0 /\ id = conns' + 1 /\ \A t \in Peers : peer[t].connectID # id
    BY <1>2 DEF id, IInv, TargetsRight, TypeOK, Ids, ConnectID
  <2>2. \A t \in Peers : peer'[t].connectID <= conns' + 1
    BY <1>1, <1>2, <1>4, <2>1 DEF IInv, TargetsRight, TypeOK, Ids, ConnectID
  <2>3. \A t \in Peers : /\ up'[t] # <<>> => peer'[t].connectID # 0
                         /\ peer'[t].connectID = 0 => peer'[t] = Free
    BY <1>4, <1>6, <2>1 DEF IInv, Ids
  <2>4. \A t, u \in Peers :
          peer'[t].connectID = peer'[u].connectID /\ peer'[t].connectID # 0 => t = u
    BY <1>4, <2>1 DEF IInv, Ids
  <2> QED BY <2>2, <2>3, <2>4 DEF Ids
<1>10. \A t \in Peers : peer'[t].connected => t # s
  BY <1>4
<1> QED BY <1>2, <1>4, <1>8, <1>9, <1>10 DEF IInv, TargetsRight

\* The smaller of two numbers.
LEMMA MinOfTwo ==
    ASSUME NEW a \in Nat, NEW b \in Nat
    PROVE  Min({a, b}) = IF a <= b THEN a ELSE b
<1>1. ASSUME a <= b PROVE Min({a, b}) = a
  BY <1>1 DEF Min
<1>2. ASSUME ~(a <= b) PROVE Min({a, b}) = b
  BY <1>2 DEF Min
<1> QED BY <1>1, <1>2

\* What disconnect(g) leaves in the queue of the host's end of it.
LEMMA DisconnectCuts ==
    ASSUME TypeOK, NEW g \in Guests, disconnect(g)
    PROVE  /\ up' \in [Peers -> Seq(ToHost)]
           /\ \A s \in Peers :
                 \/ up'[s] = up[s]
                 \/ /\ s \in hostEnd(g)
                    /\ \E k \in 0 .. Len(up[s]) :
                          up'[s] = Append(SubSeq(up[s], 1, k), [type |-> "DISCONNECT"])
<1>1. PICK n \in 0 .. 2 :
        up' = [s \in Peers |->
                 IF s \notin hostEnd(g) \/ \E i \in DOMAIN up[s] : up[s][i].type = "DISCONNECT"
                 THEN up[s]
                 ELSE Append(SubSeq(up[s], 1, Min({n, Len(up[s])})), [type |-> "DISCONNECT"])]
  BY DEF disconnect
<1>2. \A s \in Peers : up[s] \in Seq(ToHost) /\ Len(up[s]) \in Nat
  BY DEF TypeOK
<1>3. \A s \in Peers : Min({n, Len(up[s])}) \in 0 .. Len(up[s])
  <2> SUFFICES ASSUME NEW s \in Peers PROVE Min({n, Len(up[s])}) \in 0 .. Len(up[s])
    OBVIOUS
  <2>1. n \in Nat /\ Len(up[s]) \in Nat
    BY <1>2
  <2>2. Min({n, Len(up[s])}) = IF n <= Len(up[s]) THEN n ELSE Len(up[s])
    BY <2>1, MinOfTwo
  <2> QED BY <2>1, <2>2
<1>4. [type |-> "DISCONNECT"] \in ToHost
  BY DEF ToHost
<1>5. \A s \in Peers :
         \/ up'[s] = up[s]
         \/ /\ s \in hostEnd(g)
            /\ \E k \in 0 .. Len(up[s]) :
                  up'[s] = Append(SubSeq(up[s], 1, k), [type |-> "DISCONNECT"])
  BY <1>1, <1>3
<1>6. \A s \in Peers : up'[s] \in Seq(ToHost)
  <2> SUFFICES ASSUME NEW s \in Peers PROVE up'[s] \in Seq(ToHost)
    OBVIOUS
  <2>1. ASSUME NEW k \in 0 .. Len(up[s])
        PROVE  Append(SubSeq(up[s], 1, k), [type |-> "DISCONNECT"]) \in Seq(ToHost)
    BY <1>2, <1>4, CutProperties
  <2> QED BY <1>2, <1>5, <2>1
<1> QED BY <1>1, <1>5, <1>6

\* A guest disconnects.
LEMMA DisconnectKeeps ==
    ASSUME IInv, NEW g \in Guests, disconnect(g) PROVE IInv'
<1> USE LobbyAssumption
<1>1. /\ m_peer' = [m_peer EXCEPT ![g] = 0] /\ m_peer[g] # 0
      /\ UNCHANGED <<hosting, sessions, conns, peer, connectedPeers, lobby, down>>
  BY DEF disconnect
<1>2. /\ up' \in [Peers -> Seq(ToHost)]
      /\ \A s \in Peers : up'[s] = up[s] \/ s \in hostEnd(g)
  BY DisconnectCuts DEF IInv, TargetsRight
<1>3. TypeOK'
  BY <1>1, <1>2 DEF IInv, TargetsRight, TypeOK
<1>4. Ids'
  BY <1>1, <1>2 DEF IInv, Ids, hostEnd
<1> QED BY <1>1, <1>3, <1>4 DEF IInv, TargetsRight

\* A guest gives up on the host.
LEMMA GuestTimesOutKeeps ==
    ASSUME IInv, NEW g \in Guests, GuestTimesOut(g) PROVE IInv'
<1> USE LobbyAssumption
<1>1. /\ m_peer' = [m_peer EXCEPT ![g] = 0]
      /\ UNCHANGED <<hosting, sessions, conns, peer, connectedPeers, lobby, up, down>>
  BY DEF GuestTimesOut
<1>2. TypeOK'
  BY <1>1 DEF IInv, TargetsRight, TypeOK
<1> QED BY <1>1, <1>2 DEF IInv, TargetsRight, Ids

\* A packet tells of IDs.
LEMMA LobbyOfPacket ==
    ASSUME NEW ids \in SUBSET UserID, NEW packet \in ToGuest
    PROVE  handleLobby(ids, packet) \in SUBSET UserID
<1>1. CASE packet.type = "LOBBY_SYNC"
  BY <1>1 DEF handleLobby, ToGuest
<1>2. CASE packet.type = "PEER_JOINED"
  BY <1>2 DEF handleLobby, ToGuest
<1>3. CASE packet.type = "PEER_LEFT"
  BY <1>3 DEF handleLobby, ToGuest
<1> QED BY <1>1, <1>2, <1>3 DEF ToGuest

\* A guest handles a packet.
LEMMA GuestReceivesKeeps ==
    ASSUME IInv, NEW g \in Guests, GuestReceives(g) PROVE IInv'
<1> USE LobbyAssumption
<1>1. PICK s \in hostEnd(g) :
        /\ down[s] # <<>>
        /\ lobby' = [lobby EXCEPT ![g] = handleLobby(@, Head(down[s]))]
        /\ down' = [down EXCEPT ![s] = Tail(@)]
        /\ UNCHANGED <<hosting, sessions, conns, peer, connectedPeers, m_peer, up>>
  BY DEF GuestReceives
<1>2. s \in Peers /\ g \in Members /\ down[s] \in Seq(ToGuest) /\ lobby[g] \in SUBSET UserID
  BY DEF hostEnd, IInv, TargetsRight, TypeOK, Members
<1>3. handleLobby(lobby[g], Head(down[s])) \in SUBSET UserID
  BY <1>1, <1>2, LobbyOfPacket
<1>4. lobby' \in [Members -> SUBSET UserID] /\ down' \in [Peers -> Seq(ToGuest)]
  BY <1>1, <1>2, <1>3 DEF IInv, TargetsRight, TypeOK
<1>5. TypeOK'
  BY <1>1, <1>4 DEF IInv, TargetsRight, TypeOK
<1> QED BY <1>1, <1>5 DEF IInv, TargetsRight, Ids

\* Every step keeps IInv.
LEMMA IInvStep == IInv /\ [Next]_vars => IInv'
<1> SUFFICES ASSUME IInv, [Next]_vars PROVE IInv'
  OBVIOUS
<1>1. CASE host
  BY <1>1, HostKeeps
<1>2. CASE stopHosting
  BY <1>2, StopHostingKeeps
<1>3. ASSUME NEW s \in Peers, poll(s) \/ HostTimesOut(s) PROVE IInv'
  BY <1>3, PollConnectKeeps, PollHandshakeKeeps, PollDisconnectKeeps, HostTimesOutKeeps DEF poll
<1>4. ASSUME NEW g \in Guests,
             connect(g) \/ disconnect(g) \/ GuestTimesOut(g) \/ GuestReceives(g)
      PROVE  IInv'
  BY <1>4, ConnectKeeps, DisconnectKeeps, GuestTimesOutKeeps, GuestReceivesKeeps
<1>5. CASE UNCHANGED vars
  BY <1>5 DEF vars, IInv, TargetsRight, TypeOK, Ids
<1> QED BY <1>1, <1>2, <1>3, <1>4, <1>5 DEF Next

\* Every variable keeps its type, and m_connectedPeers leads from the ID of
\* every connected user to the peer of its connection.
THEOREM TargetsAlwaysRight == Spec => []TargetsRight
<1>1. Init => IInv
  BY InitIInv
<1>2. IInv /\ [Next]_vars => IInv'
  BY IInvStep
<1>3. IInv => TargetsRight
  BY DEF IInv
<1> QED BY <1>1, <1>2, <1>3, PTL DEF Spec
-----------------------------------------------------------------------------
(* What a queue of packets will make of a lobby                            *)

\* A packet that is not a LOBBY_SYNC, at the end, takes nothing away.
LEMMA ToldMore ==
    ASSUME NEW ids, NEW q \in Seq(ToGuest), NEW all, Told(ids, q, all),
           NEW p \in ToGuest, p.type # "LOBBY_SYNC"
    PROVE  Told(ids, Append(q, p), all)
<1> DEFINE r == Append(q, p)
<1>1. /\ DOMAIN q = 1 .. Len(q) /\ DOMAIN r = 1 .. Len(q) + 1 /\ Len(q) \in Nat
      /\ \A i \in DOMAIN q : i \in DOMAIN r /\ r[i] = q[i]
      /\ r[Len(q) + 1] = p
  OBVIOUS
<1>2. \A i \in DOMAIN r : i \in DOMAIN q \/ i = Len(q) + 1
  BY <1>1
<1> HIDE DEF r
<1>3. ASSUME NEW i, NEW x, Stays(q, i, x) PROVE Stays(r, i, x)
  BY <1>1, <1>2, <1>3 DEF Stays
<1>4. (\A i \in DOMAIN r : r[i].type # "LOBBY_SYNC") => ids \subseteq all
  BY <1>1 DEF Told
<1>5. ASSUME NEW x \in all
      PROVE  \/ x \in ids /\ Stays(r, 0, x)
             \/ \E i \in DOMAIN r : Brings(r[i], x) /\ Stays(r, i, x)
  <2>1. CASE x \in ids /\ Stays(q, 0, x)
    BY <1>3, <2>1
  <2>2. ASSUME NEW i \in DOMAIN q, Brings(q[i], x), Stays(q, i, x)
        PROVE  Brings(r[i], x) /\ Stays(r, i, x) /\ i \in DOMAIN r
    BY <1>1, <1>3, <2>2
  <2> QED BY <2>1, <2>2 DEF Told
<1> QED BY <1>4, <1>5 DEF Told, r

\* A PEER_JOINED at the end adds one.
LEMMA ToldJoined ==
    ASSUME NEW ids, NEW q \in Seq(ToGuest), NEW all, Told(ids, q, all),
           NEW p \in ToGuest, p.type = "PEER_JOINED"
    PROVE  Told(ids, Append(q, p), all \cup {p.peerID})
<1> DEFINE r == Append(q, p)
           x == p.peerID
<1>1. Told(ids, r, all)
  BY ToldMore
<1>2. /\ Len(q) + 1 \in DOMAIN r /\ r[Len(q) + 1] = p
      /\ \A j \in DOMAIN r : ~(j > Len(q) + 1)
  OBVIOUS
<1> HIDE DEF r
<1>3. Brings(r[Len(q) + 1], x) /\ Stays(r, Len(q) + 1, x)
  BY <1>2 DEF Brings, Stays
<1>4. Told(ids, r, all \cup {x})
  BY <1>1, <1>2, <1>3 DEF Told
<1> QED BY <1>4 DEF r

\* A LOBBY_SYNC at the end says it all.
LEMMA ToldSynced ==
    ASSUME NEW ids, NEW q \in Seq(ToGuest), NEW p \in ToGuest, p.type = "LOBBY_SYNC"
    PROVE  Told(ids, Append(q, p), p.ids)
<1> DEFINE r == Append(q, p)
<1>1. /\ Len(q) + 1 \in DOMAIN r /\ r[Len(q) + 1] = p
      /\ \A j \in DOMAIN r : ~(j > Len(q) + 1)
  OBVIOUS
<1> HIDE DEF r
<1>2. \A x \in p.ids : Brings(r[Len(q) + 1], x) /\ Stays(r, Len(q) + 1, x)
  BY <1>1 DEF Brings, Stays
<1>3. Told(ids, r, p.ids)
  BY <1>1, <1>2 DEF Told
<1> QED BY <1>3 DEF r

\* The guest handles the first.
LEMMA ToldHandled ==
    ASSUME NEW ids, NEW q \in Seq(ToGuest), q # <<>>, NEW all, 0 \notin all,
           Told(ids, q, all), \A i \in DOMAIN q : Holds(q[i], all)
    PROVE  Told(handleLobby(ids, Head(q)), Tail(q), all)
<1> DEFINE r == Tail(q)
           p == Head(q)
<1>1. /\ 1 \in DOMAIN q /\ q[1] = p /\ p \in ToGuest
      /\ \A j \in DOMAIN r : j + 1 \in DOMAIN q /\ q[j + 1] = r[j] /\ j \in Nat /\ j > 0
      /\ \A j \in DOMAIN q : j \in Nat /\ (j # 1 => j - 1 \in DOMAIN r /\ r[j - 1] = q[j])
  OBVIOUS
<1> HIDE DEF r, p
<1>2. Holds(p, all)
  BY <1>1
<1>3. p.type \in {"LOBBY_SYNC", "PEER_JOINED", "PEER_LEFT"}
  BY <1>1 DEF ToGuest
<1>4. ASSUME NEW i \in DOMAIN q, NEW x, Stays(q, i, x) PROVE Stays(r, i - 1, x)
  BY <1>1, <1>4 DEF Stays
<1>5. ASSUME NEW x, Stays(q, 0, x) PROVE Stays(r, 0, x)
  BY <1>1, <1>5 DEF Stays
<1>6. ASSUME \A i \in DOMAIN r : r[i].type # "LOBBY_SYNC"
      PROVE  handleLobby(ids, p) \subseteq all
  <2>1. CASE p.type = "LOBBY_SYNC"
    BY <1>2, <2>1 DEF Holds, handleLobby
  <2>2. CASE p.type # "LOBBY_SYNC"
    <3>1. \A i \in DOMAIN q : q[i].type # "LOBBY_SYNC"
      BY <1>1, <1>6, <2>2
    <3>2. ids \subseteq all
      BY <3>1 DEF Told
    <3> QED BY <1>2, <1>3, <2>2, <3>2 DEF Holds, handleLobby
  <2> QED BY <2>1, <2>2
<1>7. ASSUME NEW x \in all
      PROVE  \/ x \in handleLobby(ids, p) /\ Stays(r, 0, x)
             \/ \E i \in DOMAIN r : Brings(r[i], x) /\ Stays(r, i, x)
  <2>1. CASE x \in ids /\ Stays(q, 0, x)
    <3>1. p.type = "LOBBY_SYNC" => x \in p.ids
      BY <1>1, <2>1 DEF Stays
    <3>2. x # 0
      OBVIOUS
    <3>3. x \in handleLobby(ids, p)
      BY <1>2, <1>3, <2>1, <3>1, <3>2 DEF Holds, handleLobby
    <3> QED BY <1>5, <2>1, <3>3
  <2>2. ASSUME NEW i \in DOMAIN q, Brings(q[i], x), Stays(q, i, x), i = 1
        PROVE  x \in handleLobby(ids, p) /\ Stays(r, 0, x)
    <3>1. x \in handleLobby(ids, p)
      BY <1>1, <1>3, <2>2 DEF Brings, handleLobby
    <3> QED BY <1>4, <2>2, <3>1
  <2>3. ASSUME NEW i \in DOMAIN q, Brings(q[i], x), Stays(q, i, x), i # 1
        PROVE  i - 1 \in DOMAIN r /\ Brings(r[i - 1], x) /\ Stays(r, i - 1, x)
    BY <1>1, <1>4, <2>3
  <2> QED BY <2>1, <2>2, <2>3 DEF Told
<1>8. Told(handleLobby(ids, p), r, all)
  BY <1>6, <1>7 DEF Told
<1> QED BY <1>8 DEF r, p

\* Who is to hear nothing has all.
LEMMA ToldAll ==
    ASSUME NEW ids, NEW all, Told(ids, <<>>, all)
    PROVE  ids = all
<1>1. DOMAIN <<>> = {}
  OBVIOUS
<1> QED BY <1>1 DEF Told
-----------------------------------------------------------------------------
(* The lobbies agree                                                       *)

\* What the steps below need of the invariant.
LEMMA Types ==
    ASSUME LInv
    PROVE  /\ Host \in Members /\ 0 \notin lobby[Host]
           /\ \A s \in Peers : /\ up[s] \in Seq(ToHost) /\ down[s] \in Seq(ToGuest)
                               /\ peer[s].connected => peer[s].connectID # 0
           /\ \A g \in Guests : g # Host /\ g \in Members
  BY LobbyAssumption DEF LInv, IInv, TargetsRight, TypeOK, Members, HostLists, Ids, Free

\* GreetedAreTold after a step by which nobody is greeted who was not, and
\* those who were are sent nothing, or the PEER_LEFT that says nothing.
LEMMA StillTold ==
    ASSUME LInv, lobby' = lobby,
           \A g \in Guests : \A s \in Peers : s \in hostEnd(g)' /\ Greeted(s)' =>
               /\ s \in hostEnd(g) /\ Greeted(s) /\ peer'[s].connectID = peer[s].connectID
               /\ \/ down'[s] = down[s]
                  \/ down'[s] = Append(down[s], [type |-> "PEER_LEFT", peerID |-> 0])
    PROVE  GreetedAreTold'
<1> SUFFICES ASSUME NEW g \in Guests, NEW s \in hostEnd(g)', Greeted(s)'
             PROVE  /\ peer'[s].connectID \in lobby'[Host]
                    /\ Told(lobby'[g], down'[s], lobby'[Host])
  BY DEF GreetedAreTold
<1>1. s \in Peers /\ s \in hostEnd(g) /\ Greeted(s)
  BY DEF hostEnd
<1>2. peer[s].connectID \in lobby[Host] /\ Told(lobby[g], down[s], lobby[Host])
  BY <1>1 DEF LInv, GreetedAreTold
<1>3. peer'[s].connectID = peer[s].connectID
  BY <1>1
<1>4. Told(lobby[g], Append(down[s], [type |-> "PEER_LEFT", peerID |-> 0]), lobby[Host])
  <2>1. [type |-> "PEER_LEFT", peerID |-> 0] \in ToGuest
    BY DEF ToGuest, UserID
  <2> QED BY <1>1, <1>2, <2>1, ToldMore, Types
<1> QED BY <1>1, <1>2, <1>3, <1>4

\* Nobody is in a lobby at first.
LEMMA InitLInv == Init => LInv
<1> USE LobbyAssumption
<1> SUFFICES ASSUME Init PROVE LInv
  OBVIOUS
<1>1. Users
  BY DEF Init, Users
<1>2. \A s \in Peers : /\ up[s] = <<>> /\ down[s] = <<>> /\ peer[s] = Free
                       /\ DOMAIN up[s] = {} /\ DOMAIN down[s] = {} /\ ~peer[s].connected
  BY DEF Init, Free
<1>3. lobby[Host] = {} /\ ~hosting
  BY DEF Init, Members
<1>4. Shape /\ HostLists /\ AllTrue /\ GreetedAreTold
  BY <1>2, <1>3 DEF Shape, HostLists, AllTrue, GreetedAreTold, Greeted, hostEnd
<1> QED BY <1>1, <1>4, InitIInv DEF LInv

\* A new server lists its host.
LEMMA HostLKeeps == ASSUME LInv, host PROVE LInv'
<1> USE LobbyAssumption
<1>1. /\ lobby' = [lobby EXCEPT ![Host] = @ \cup {HostID}] /\ ~hosting /\ hosting'
      /\ UNCHANGED <<conns, peer, connectedPeers, m_peer, up, down>>
  BY DEF host
<1>2. \A s \in Peers : peer[s] = Free /\ up[s] = <<>> /\ down[s] = <<>>
  BY <1>1 DEF LInv, HostLists
<1>3. \A s \in Peers : ~peer[s].connected /\ DOMAIN down[s] = {}
  BY <1>2 DEF Free
<1>4. lobby'[Host] = lobby[Host] \cup {HostID}
  BY <1>1 DEF LInv, IInv, TargetsRight, TypeOK, Members
<1>5. Users' /\ Shape'
  BY <1>1 DEF LInv, Users, Shape
<1>6. HostLists'
  BY <1>1, <1>4 DEF LInv, HostLists, HostID
<1>7. AllTrue' /\ GreetedAreTold'
  BY <1>1, <1>3 DEF AllTrue, GreetedAreTold, Greeted, hostEnd
<1> QED BY <1>5, <1>6, <1>7, HostKeeps DEF LInv

\* A stopped server has nobody to agree with.
LEMMA StopHostingLKeeps == ASSUME LInv, stopHosting PROVE LInv'
<1>1. /\ ~hosting'
      /\ \A s \in Peers : peer'[s] = Free /\ up'[s] = <<>> /\ down'[s] = <<>>
      /\ UNCHANGED <<conns, connectedPeers, m_peer, lobby>>
  BY DEF stopHosting
<1>2. \A s \in Peers : ~peer'[s].connected /\ DOMAIN up'[s] = {} /\ DOMAIN down'[s] = {}
  BY <1>1 DEF Free
<1>3. Users' /\ HostLists'
  BY <1>1 DEF LInv, Users, HostLists
<1>4. Shape' /\ AllTrue' /\ GreetedAreTold'
  BY <1>1, <1>2 DEF Shape, AllTrue, GreetedAreTold, Greeted, hostEnd
<1> QED BY <1>3, <1>4, StopHostingKeeps DEF LInv

\* The host has the HANDSHAKE, or a DISCONNECT, yet to handle.
LEMMA PollConnectLKeeps ==
    ASSUME LInv, NEW s \in Peers, PollConnect(s) PROVE LInv'
<1>1. /\ up[s] # <<>> /\ Head(up[s]).type = "CONNECT"
      /\ peer' = [peer EXCEPT ![s].connected = TRUE]
      /\ up' = [up EXCEPT ![s] = Tail(@)]
      /\ UNCHANGED <<hosting, sessions, conns, m_peer, lobby, down>>
  BY DEF PollConnect
<1>2. up[s] \in Seq(ToHost) /\ up'[s] = Tail(up[s]) /\ \A t \in Peers : t # s => up'[t] = up[t]
  BY <1>1, Types DEF LInv, IInv, TargetsRight, TypeOK
<1>3. /\ \A t \in Peers : t # s => peer'[t] = peer[t]
      /\ peer'[s].connected /\ peer'[s].connectID = peer[s].connectID
  BY PollConnectPeer, Zenon DEF LInv
<1>4. /\ \A i \in DOMAIN Tail(up[s]) : Tail(up[s])[i].type # "CONNECT"
      /\ 1 \in DOMAIN Tail(up[s])
  <2>1. /\ 1 \in DOMAIN up[s] /\ up[s][1].type = "CONNECT"
        /\ \A i \in DOMAIN Tail(up[s]) : i + 1 \in DOMAIN up[s] /\ i + 1 # 1
                                         /\ Tail(up[s])[i] = up[s][i + 1]
    BY <1>1, <1>2
  <2>2. Len(up[s]) > 1
    BY <2>1 DEF LInv, Shape
  <2>3. 1 \in DOMAIN Tail(up[s])
    BY <1>2, <2>2
  <2> QED BY <2>1, <2>3 DEF LInv, Shape
<1>5. Tail(up[s])[1].type \in {"HANDSHAKE", "DISCONNECT"}
  <2>1. Tail(up[s]) \in Seq(ToHost)
    BY <1>1, <1>2
  <2>2. Tail(up[s])[1] \in ToHost
    BY <1>4, <2>1
  <2> QED BY <1>4, <2>2 DEF ToHost
<1>6. Users' /\ AllTrue' 
  BY <1>1 DEF LInv, Users, AllTrue
<1>7. Shape'
  BY <1>2, <1>3, <1>4 DEF LInv, Shape
<1>8. HostLists'
  BY <1>1 DEF LInv, HostLists
<1>9. GreetedAreTold'
  <2>1. ~Greeted(s)'
    BY <1>2, <1>4, <1>5 DEF Greeted
  <2>2. \A g \in Guests : \A t \in Peers : t \in hostEnd(g)' /\ Greeted(t)' =>
            /\ t \in hostEnd(g) /\ Greeted(t) /\ down'[t] = down[t]
            /\ peer'[t].connectID = peer[t].connectID
    BY <1>1, <1>2, <1>3, <2>1 DEF hostEnd, Greeted
  <2> QED BY <1>1, <2>2, StillTold
<1> QED BY <1>6, <1>7, <1>8, <1>9, PollConnectKeeps DEF LInv
\* The guest that is greeted is sent the whole list, everybody else that it
\* is there.  The list fits: the host knows of no more than MaxConns guests.
LEMMA ListFits ==
    ASSUME LobbyAssumption, MaxConns + 1 <= SyncCap, NEW ids \in SUBSET (1 .. (MaxConns + 1))
    PROVE  SyncedIds(ids) = {ids}
<1>1. /\ IsFiniteSet(1 .. (MaxConns + 1))
      /\ Cardinality(1 .. (MaxConns + 1)) = MaxConns + 1
  BY FS_Interval
<1>2. /\ Cardinality(ids) <= MaxConns + 1 /\ Cardinality(ids) \in Nat
  BY <1>1, FS_Subset, FS_CardinalityType
<1> QED BY <1>2 DEF SyncedIds

\* What a HANDSHAKE adds to every queue.
LEMMA PollHandshakeQueues ==
    ASSUME LInv, MaxConns + 1 <= SyncCap, NEW s \in Peers, PollHandshake(s)
    PROVE  LET all == lobby[Host] \cup {peer[s].connectID}
           IN  /\ peer[s].connected /\ peer[s].connectID \in ConnectID
               /\ all \subseteq 1 .. (MaxConns + 1)
               /\ \A t \in Peers :
                    down'[t] = IF ~peer[t].connected THEN down[t]
                               ELSE Append(IF t = s THEN Append(down[s], syncPacket(all)) ELSE down[t],
                                           joinedPacket(s))
<1> USE LobbyAssumption
<1> DEFINE all == lobby[Host] \cup {peer[s].connectID}
<1>1. up[s] # <<>> /\ Head(up[s]).type = "HANDSHAKE"
  BY DEF PollHandshake
<1>2. peer[s].connected
  BY <1>1 DEF LInv, Shape
<1>3. peer[s].connectID \in ConnectID
  BY <1>1 DEF LInv, IInv, TargetsRight, TypeOK, Ids
<1>4. all \subseteq 1 .. (MaxConns + 1)
  BY <1>3 DEF LInv, HostLists, ConnectID
<1>5. SyncedIds(all) = {all}
  BY <1>4, ListFits
<1>6. \A t \in Peers : t \in lobbyStateTo(peer[s].connectID) <=> t = s
  BY <1>2 DEF LInv, IInv, TargetsRight, lobbyStateTo
<1>7. \A t \in Peers : toldBy(s, all)[t] = IF t = s THEN Append(down[s], syncPacket(all)) ELSE down[t]
  BY <1>2, <1>6 DEF toldBy, enet_peer_send, LInv, IInv, TargetsRight, TypeOK
<1>8. down' = [t \in Peers |-> IF peer[t].connected THEN Append(toldBy(s, all)[t], joinedPacket(s))
                                                    ELSE toldBy(s, all)[t]]
  BY <1>5, PollHandshakeSends
<1> HIDE DEF all
<1>9. \A t \in Peers :
        down'[t] = IF ~peer[t].connected THEN down[t]
                   ELSE Append(IF t = s THEN Append(down[s], syncPacket(all)) ELSE down[t],
                               joinedPacket(s))
  BY <1>2, <1>7, <1>8
<1> QED BY <1>2, <1>3, <1>4, <1>9 DEF all

\* What is true of the packets is true of more of them.
LEMMA AllHoldMore ==
    ASSUME NEW q \in Seq(ToGuest), NEW all, NEW more, all \subseteq more,
           \A i \in DOMAIN q : Holds(q[i], all), NEW p \in ToGuest, Holds(p, more)
    PROVE  \A i \in DOMAIN Append(q, p) : Holds(Append(q, p)[i], more)
<1>1. \A i \in DOMAIN q : Holds(q[i], more)
  BY DEF Holds
<1>2. \A i \in DOMAIN Append(q, p) : \/ i \in DOMAIN q /\ Append(q, p)[i] = q[i]
                                     \/ Append(q, p)[i] = p
  OBVIOUS
<1> QED BY <1>1, <1>2

\* A new member hears of all, and all of it.
LEMMA PollHandshakeLKeeps ==
    ASSUME LInv, MaxConns + 1 <= SyncCap, NEW s \in Peers, PollHandshake(s) PROVE LInv'
<1> DEFINE all == lobby[Host] \cup {peer[s].connectID}
           sync == syncPacket(all)
           joined == joinedPacket(s)
<1>1. /\ up[s] # <<>> /\ Head(up[s]).type = "HANDSHAKE"
      /\ lobby' = [lobby EXCEPT ![Host] = all]
      /\ up' = [up EXCEPT ![s] = Tail(@)]
      /\ UNCHANGED <<hosting, sessions, conns, peer, connectedPeers, m_peer>>
  BY DEF PollHandshake
<1>2. /\ peer[s].connected /\ peer[s].connectID \in ConnectID
      /\ all \subseteq 1 .. (MaxConns + 1)
      /\ \A t \in Peers :
           down'[t] = IF ~peer[t].connected THEN down[t]
                      ELSE Append(IF t = s THEN Append(down[s], sync) ELSE down[t], joined)
  BY PollHandshakeQueues
<1>3. /\ lobby'[Host] = all
      /\ \A g \in Guests : lobby'[g] = lobby[g]
  BY <1>1, Types DEF LInv, IInv, TargetsRight, TypeOK
<1>4. /\ sync \in ToGuest /\ sync.type = "LOBBY_SYNC" /\ sync.ids = all
      /\ joined \in ToGuest /\ joined.type = "PEER_JOINED" /\ joined.peerID = peer[s].connectID
  <2>1. all \subseteq UserID
    BY <1>2 DEF LInv, IInv, TargetsRight, TypeOK, UserID, ConnectID
  <2> QED BY <1>2, <2>1 DEF ToGuest, UserID, syncPacket, joinedPacket
<1> HIDE DEF sync, joined
<1>5. /\ up[s] \in Seq(ToHost) /\ up'[s] = Tail(up[s])
      /\ \A t \in Peers : t # s => up'[t] = up[t]
  BY <1>1, Types DEF LInv, IInv, TargetsRight, TypeOK
<1>6. Users'
  BY <1>1 DEF LInv, Users
<1>7. Shape'
  <2>1. \A i \in DOMAIN Tail(up[s]) : i + 1 \in DOMAIN up[s] /\ i + 1 # 1
                                      /\ Tail(up[s])[i] = up[s][i + 1]
    BY <1>1, <1>5
  <2>2. \A i \in DOMAIN Tail(up[s]) : Tail(up[s])[i].type # "CONNECT"
    BY <2>1 DEF LInv, Shape
  <2> QED BY <1>1, <1>2, <1>5, <2>2 DEF LInv, Shape
<1>8. HostLists'
  BY <1>1, <1>2, <1>3 DEF LInv, HostLists, Free
<1>9. AllTrue'
  <2> SUFFICES ASSUME NEW t \in Peers
               PROVE  \A i \in DOMAIN down'[t] : Holds(down'[t][i], all)
    BY <1>3 DEF AllTrue
  <2>1. down[t] \in Seq(ToGuest) /\ \A i \in DOMAIN down[t] : Holds(down[t][i], lobby[Host])
    BY Types DEF LInv, AllTrue
  <2>2. Holds(sync, all) /\ Holds(joined, all) /\ lobby[Host] \subseteq all
    BY <1>4 DEF Holds
  <2>3. \A i \in DOMAIN down[t] : Holds(down[t][i], all)
    BY <2>1, <2>2 DEF Holds
  <2>4. \A i \in DOMAIN Append(down[t], joined) : Holds(Append(down[t], joined)[i], all)
    BY <1>4, <2>1, <2>2, AllHoldMore
  <2>5. \A i \in DOMAIN Append(down[t], sync) : Holds(Append(down[t], sync)[i], all)
    BY <1>4, <2>1, <2>2, AllHoldMore
  <2>6. Append(down[t], sync) \in Seq(ToGuest)
    BY <1>4, <2>1
  <2>7. \A i \in DOMAIN Append(Append(down[t], sync), joined) :
            Holds(Append(Append(down[t], sync), joined)[i], all)
    <3> DEFINE q == Append(down[t], sync)
    <3>1. q \in Seq(ToGuest) /\ \A i \in DOMAIN q : Holds(q[i], all)
      BY <2>5, <2>6
    <3> HIDE DEF q, all
    <3>2. \A i \in DOMAIN Append(q, joined) : Holds(Append(q, joined)[i], all)
      BY <1>4, <2>2, <3>1, AllHoldMore
    <3> QED BY <3>2 DEF q
  <2> QED BY <1>2, <2>3, <2>4, <2>7
<1>10. GreetedAreTold'
  <2> SUFFICES ASSUME NEW g \in Guests, NEW t \in hostEnd(g)', Greeted(t)'
               PROVE  peer[t].connectID \in all /\ Told(lobby[g], down'[t], all)
    BY <1>1, <1>3 DEF GreetedAreTold
  <2>1. t \in Peers /\ t \in hostEnd(g) /\ peer[t].connected /\ down[t] \in Seq(ToGuest)
    BY <1>1, Types DEF hostEnd, Greeted
  <2>2. CASE t = s
    <3>1. Told(lobby[g], Append(down[s], sync), all) /\ Append(down[s], sync) \in Seq(ToGuest)
      <4>1. Told(lobby[g], Append(down[s], sync), sync.ids)
        BY <1>4, <2>1, <2>2, ToldSynced
      <4> QED BY <1>4, <2>1, <2>2, <4>1
    <3>2. Told(lobby[g], Append(Append(down[s], sync), joined), all)
      BY <1>4, <3>1, ToldMore
    <3> QED BY <1>2, <2>1, <2>2, <3>2
  <2>3. CASE t # s
    <3>1. Greeted(t)
      BY <1>1, <1>5, <2>1, <2>3 DEF Greeted
    <3>2. peer[t].connectID \in lobby[Host] /\ Told(lobby[g], down[t], lobby[Host])
      BY <2>1, <3>1 DEF LInv, GreetedAreTold
    <3>3. Told(lobby[g], Append(down[t], joined), all)
      BY <1>4, <2>1, <3>2, ToldJoined
    <3> QED BY <1>2, <2>1, <2>3, <3>2, <3>3
  <2> QED BY <2>2, <2>3
<1> QED BY <1>6, <1>7, <1>8, <1>9, <1>10, PollHandshakeKeeps DEF LInv
\* Everybody else is sent that 0 has left.
LEMMA PollDisconnectLKeeps ==
    ASSUME LInv, NEW s \in Peers, PollDisconnect(s) PROVE LInv'
<1> DEFINE left == [type |-> "PEER_LEFT", peerID |-> 0]
<1>1. /\ peer' = [peer EXCEPT ![s] = Free]
      /\ lobby' = [lobby EXCEPT ![Host] = @ \ {0}]
      /\ up' = [up EXCEPT ![s] = <<>>]
      /\ UNCHANGED <<hosting, sessions, conns, m_peer>>
  BY DEF PollDisconnect, disconnectedPeerID
<1>2. \A t \in Peers : down'[t] = IF t = s THEN <<>>
                                  ELSE IF peer[t].connected THEN Append(down[t], left) ELSE down[t]
  BY DEF PollDisconnect, disconnectedPeerID, enet_peer_send, LInv, IInv, TargetsRight, TypeOK
<1>3. lobby' = lobby
  BY <1>1, Types DEF LInv, IInv, TargetsRight, TypeOK
<1>4. /\ peer'[s] = Free /\ up'[s] = <<>>
      /\ \A t \in Peers : t # s => peer'[t] = peer[t] /\ up'[t] = up[t]
  BY <1>1 DEF LInv, IInv, TargetsRight, TypeOK
<1>5. Free.connectID = 0 /\ ~Free.connected /\ DOMAIN <<>> = {}
  BY DEF Free
<1>6. left \in ToGuest /\ left.type = "PEER_LEFT" /\ Holds(left, lobby[Host])
  BY DEF ToGuest, UserID, Holds
<1>7. Users'
  BY <1>1 DEF LInv, Users
<1>8. Shape'
  BY <1>4, <1>5 DEF LInv, Shape
<1>9. HostLists'
  <2>1. ~hosting => peer[s] = Free /\ \A t \in Peers : ~peer[t].connected
    BY <1>5 DEF LInv, HostLists
  <2> QED BY <1>1, <1>2, <1>3, <1>4, <2>1 DEF LInv, HostLists
<1> HIDE DEF left
<1>10. AllTrue'
  <2> SUFFICES ASSUME NEW t \in Peers
               PROVE  \A i \in DOMAIN down'[t] : Holds(down'[t][i], lobby[Host])
    BY <1>3 DEF AllTrue
  <2>1. down[t] \in Seq(ToGuest) /\ \A i \in DOMAIN down[t] : Holds(down[t][i], lobby[Host])
    BY Types DEF LInv, AllTrue
  <2>2. \A i \in DOMAIN Append(down[t], left) : Holds(Append(down[t], left)[i], lobby[Host])
    BY <1>6, <2>1, AllHoldMore
  <2> QED BY <1>2, <1>5, <2>1, <2>2
<1>11. GreetedAreTold'
  <2>1. ASSUME NEW g \in Guests, NEW t \in Peers, t \in hostEnd(g)', Greeted(t)'
        PROVE  /\ t \in hostEnd(g) /\ Greeted(t) /\ peer'[t].connectID = peer[t].connectID
               /\ down'[t] = down[t] \/ down'[t] = Append(down[t], left)
    <3>1. t # s
      BY <1>4, <1>5, <2>1 DEF Greeted
    <3> QED BY <1>1, <1>2, <1>4, <2>1, <3>1 DEF hostEnd, Greeted
  <2> QED BY <1>3, <2>1, StillTold DEF left
<1> QED BY <1>7, <1>8, <1>9, <1>10, <1>11, PollDisconnectKeeps DEF LInv

\* A queue with a DISCONNECT at its end has the shape that it had.
LEMMA CutShape ==
    ASSUME LInv, NEW s \in Peers, peer[s].connectID # 0, NEW k \in 0 .. Len(up[s]),
           NEW q, q = Append(SubSeq(up[s], 1, k), [type |-> "DISCONNECT"])
    PROVE  /\ \A i \in DOMAIN q : q[i].type = "CONNECT" => i = 1 /\ Len(q) > 1
           /\ q # <<>> /\ Head(q).type = "HANDSHAKE" => peer[s].connected
           /\ \E i \in DOMAIN q : q[i].type = "DISCONNECT"
<1> DEFINE d == [type |-> "DISCONNECT"]
<1>1. up[s] \in Seq(ToHost) /\ d \in ToHost
  BY Types DEF ToHost
<1>2. /\ q \in Seq(ToHost) /\ Len(q) = k + 1
      /\ \A i \in 1 .. k : q[i] = up[s][i]
      /\ q[k + 1] = d
  BY <1>1, CutProperties
<1>3. DOMAIN q = 1 .. (k + 1) /\ k \in Nat /\ d.type = "DISCONNECT"
  BY <1>2
<1> HIDE DEF d
<1>4. ASSUME NEW i \in DOMAIN q, q[i].type = "CONNECT" PROVE i = 1 /\ Len(q) > 1
  <2>1. i \in 1 .. k /\ i \in DOMAIN up[s]
    BY <1>1, <1>2, <1>3, <1>4
  <2>2. i = 1
    BY <1>2, <1>4, <2>1 DEF LInv, Shape
  <2> QED BY <1>2, <2>1, <2>2
<1>5. ASSUME q # <<>>, Head(q).type = "HANDSHAKE" PROVE peer[s].connected
  <2>1. Head(q) = q[1]
    BY <1>2, <1>3
  <2>2. 1 \in 1 .. k /\ q[1] = up[s][1]
    BY <1>2, <1>3, <1>5, <2>1
  <2>3. up[s] # <<>> /\ Head(up[s]) = q[1]
    BY <1>1, <2>2
  <2> QED BY <1>5, <2>1, <2>3 DEF LInv, Shape
<1> QED BY <1>2, <1>3, <1>4, <1>5

\* The host gives up on a peer.
LEMMA HostTimesOutLKeeps ==
    ASSUME LInv, NEW s \in Peers, HostTimesOut(s) PROVE LInv'
<1>1. PICK n \in 0 .. Len(up[s]) :
        up' = [up EXCEPT ![s] = Append(SubSeq(@, 1, n), [type |-> "DISCONNECT"])]
  BY DEF HostTimesOut
<1>2. /\ peer[s] # Free
      /\ UNCHANGED <<hosting, sessions, conns, peer, connectedPeers, m_peer, lobby, down>>
  BY DEF HostTimesOut
<1>3. /\ up'[s] = Append(SubSeq(up[s], 1, n), [type |-> "DISCONNECT"])
      /\ \A t \in Peers : t # s => up'[t] = up[t]
  BY <1>1 DEF LInv, IInv, TargetsRight, TypeOK
<1>4. /\ \A i \in DOMAIN up'[s] : up'[s][i].type = "CONNECT" => i = 1 /\ Len(up'[s]) > 1
      /\ up'[s] # <<>> /\ Head(up'[s]).type = "HANDSHAKE" => peer[s].connected
      /\ \E i \in DOMAIN up'[s] : up'[s][i].type = "DISCONNECT"
  <2>1. peer[s].connectID # 0
    BY <1>2 DEF LInv, IInv, Ids
  <2> QED BY <1>3, <2>1, CutShape
<1>5. Users' /\ AllTrue'
  BY <1>2 DEF LInv, Users, AllTrue
<1>6. Shape'
  BY <1>2, <1>3, <1>4 DEF LInv, Shape
<1>7. HostLists'
  BY <1>2 DEF LInv, HostLists
<1>8. GreetedAreTold'
  <2>1. \A g \in Guests : \A t \in Peers : t \in hostEnd(g)' /\ Greeted(t)' =>
            /\ t \in hostEnd(g) /\ Greeted(t) /\ down'[t] = down[t]
            /\ peer'[t].connectID = peer[t].connectID
    BY <1>2, <1>3, <1>4 DEF hostEnd, Greeted
  <2> QED BY <1>2, <2>1, StillTold
<1> QED BY <1>5, <1>6, <1>7, <1>8, HostTimesOutKeeps DEF LInv

\* A guest connects through a free peer.
LEMMA ConnectLKeeps ==
    ASSUME LInv, NEW g \in Guests, connect(g) PROVE LInv'
<1> DEFINE s == Min(FreePeers)
           id == conns + 2
<1>1. s \in Peers /\ peer[s] = Free /\ hosting
  BY FirstFree DEF connect, FreePeers
<1>2. /\ peer' = [peer EXCEPT ![s] = [connectID |-> id, guest |-> g, connected |-> FALSE]]
      /\ m_peer' = [m_peer EXCEPT ![g] = id]
      /\ up' = [up EXCEPT ![s] = <<[type |-> "CONNECT"], [type |-> "HANDSHAKE"]>>]
      /\ down' = [down EXCEPT ![s] = <<>>]
      /\ conns' = conns + 1
      /\ UNCHANGED <<hosting, sessions, connectedPeers, lobby>>
  BY DEF connect
<1> HIDE DEF s
<1>3. /\ m_peer'[g] = conns' + 1 /\ conns \in Nat
      /\ \A h \in Guests : h # g => m_peer'[h] = m_peer[h] /\ m_peer[h] <= conns + 1
      /\ \A h \in Guests : m_peer[h] \in Nat
  BY <1>2 DEF LInv, IInv, TargetsRight, TypeOK, Users, ConnectID
<1>4. /\ ~peer'[s].connected
      /\ up'[s] = <<[type |-> "CONNECT"], [type |-> "HANDSHAKE"]>> /\ down'[s] = <<>>
      /\ \A t \in Peers : t # s => peer'[t] = peer[t] /\ up'[t] = up[t] /\ down'[t] = down[t]
  BY <1>1, <1>2 DEF LInv, IInv, TargetsRight, TypeOK
<1>5. Users'
  BY <1>2, <1>3 DEF LInv, Users
<1>6. Shape'
  <2>1. /\ \A i \in DOMAIN up'[s] : up'[s][i].type = "CONNECT" => i = 1 /\ Len(up'[s]) > 1
        /\ Head(up'[s]).type = "CONNECT"
    BY <1>4
  <2> QED BY <1>4, <2>1 DEF LInv, Shape
<1>7. HostLists'
  BY <1>1, <1>2 DEF LInv, HostLists
<1>8. AllTrue'
  <2>1. DOMAIN <<>> = {}
    OBVIOUS
  <2> QED BY <1>2, <1>4, <2>1 DEF LInv, AllTrue
<1>9. GreetedAreTold'
  <2>1. ASSUME NEW h \in Guests, NEW t \in Peers, t \in hostEnd(h)', Greeted(t)'
        PROVE  /\ t \in hostEnd(h) /\ Greeted(t) /\ down'[t] = down[t]
               /\ peer'[t].connectID = peer[t].connectID
    <3>1. t # s
      BY <1>4, <2>1 DEF Greeted
    <3>2. h # g
      BY <1>2, <1>3, <1>4, <2>1, <3>1 DEF hostEnd, LInv, IInv, Ids, TargetsRight, TypeOK, ConnectID
    <3> QED BY <1>3, <1>4, <2>1, <3>1, <3>2 DEF hostEnd, Greeted
  <2> QED BY <1>2, <2>1, StillTold
<1> QED BY <1>5, <1>6, <1>7, <1>8, <1>9, ConnectKeeps DEF LInv

\* A guest disconnects, and its end of the lobby is empty.
LEMMA DisconnectLKeeps ==
    ASSUME LInv, NEW g \in Guests, disconnect(g) PROVE LInv'
<1>1. /\ m_peer' = [m_peer EXCEPT ![g] = 0] /\ m_peer[g] # 0
      /\ UNCHANGED <<hosting, sessions, conns, peer, connectedPeers, lobby, down>>
  BY DEF disconnect
<1>2. \A s \in Peers :
         \/ up'[s] = up[s]
         \/ /\ s \in hostEnd(g)
            /\ \E k \in 0 .. Len(up[s]) :
                  up'[s] = Append(SubSeq(up[s], 1, k), [type |-> "DISCONNECT"])
  BY DisconnectCuts DEF LInv, IInv, TargetsRight
<1>3. m_peer'[g] = 0 /\ \A h \in Guests : h # g => m_peer'[h] = m_peer[h]
  BY <1>1 DEF LInv, IInv, TargetsRight, TypeOK
<1>4. Users'
  BY <1>1, <1>3 DEF LInv, Users, IInv, TargetsRight, TypeOK
<1>5. AllTrue'
  BY <1>1 DEF LInv, AllTrue
<1>6. Shape'
  <2> SUFFICES ASSUME NEW s \in Peers
               PROVE  /\ \A i \in DOMAIN up'[s] : up'[s][i].type = "CONNECT" => i = 1 /\ Len(up'[s]) > 1
                      /\ up'[s] # <<>> /\ Head(up'[s]).type = "HANDSHAKE" => peer[s].connected
    BY <1>1 DEF Shape
  <2>1. CASE up'[s] = up[s]
    BY <2>1 DEF LInv, Shape
  <2>2. ASSUME s \in hostEnd(g), NEW k \in 0 .. Len(up[s]),
               up'[s] = Append(SubSeq(up[s], 1, k), [type |-> "DISCONNECT"])
        PROVE  /\ \A i \in DOMAIN up'[s] : up'[s][i].type = "CONNECT" => i = 1 /\ Len(up'[s]) > 1
               /\ up'[s] # <<>> /\ Head(up'[s]).type = "HANDSHAKE" => peer[s].connected
    <3>1. peer[s].connectID # 0
      BY <1>1, <2>2 DEF hostEnd
    <3> QED BY <2>2, <3>1, CutShape
  <2> QED BY <1>2, <2>1, <2>2
<1>7. HostLists'
  <2>1. ~hosting => \A s \in Peers : up'[s] = <<>>
    BY <1>1, <1>2 DEF LInv, HostLists, hostEnd, Free
  <2> QED BY <1>1, <2>1 DEF LInv, HostLists
<1>8. GreetedAreTold'
  <2>1. ASSUME NEW h \in Guests, NEW t \in Peers, t \in hostEnd(h)', Greeted(t)'
        PROVE  /\ t \in hostEnd(h) /\ Greeted(t) /\ down'[t] = down[t]
               /\ peer'[t].connectID = peer[t].connectID
    <3>1. h # g /\ t \in hostEnd(h)
      BY <1>1, <1>3, <2>1 DEF hostEnd
    <3>2. t \notin hostEnd(g)
      BY <3>1 DEF hostEnd, LInv, Users
    <3> QED BY <1>1, <1>2, <2>1, <3>1, <3>2 DEF Greeted
  <2> QED BY <1>1, <2>1, StillTold
<1> QED BY <1>4, <1>5, <1>6, <1>7, <1>8, DisconnectKeeps DEF LInv

\* A guest that gives up is not settled.
LEMMA GuestTimesOutLKeeps ==
    ASSUME LInv, NEW g \in Guests, GuestTimesOut(g) PROVE LInv'
<1>1. /\ m_peer' = [m_peer EXCEPT ![g] = 0]
      /\ UNCHANGED <<hosting, sessions, conns, peer, connectedPeers, lobby, up, down>>
  BY DEF GuestTimesOut
<1>2. m_peer'[g] = 0 /\ \A h \in Guests : h # g => m_peer'[h] = m_peer[h]
  BY <1>1 DEF LInv, IInv, TargetsRight, TypeOK
<1>3. Users'
  BY <1>1, <1>2 DEF LInv, Users, IInv, TargetsRight, TypeOK
<1>4. Shape' /\ HostLists' /\ AllTrue'
  BY <1>1 DEF LInv, Shape, HostLists, AllTrue
<1>5. GreetedAreTold'
  <2>1. \A h \in Guests : \A t \in Peers : t \in hostEnd(h)' /\ Greeted(t)' =>
            /\ t \in hostEnd(h) /\ Greeted(t) /\ down'[t] = down[t]
            /\ peer'[t].connectID = peer[t].connectID
    BY <1>1, <1>2 DEF hostEnd, Greeted
  <2> QED BY <1>1, <2>1, StillTold
<1> QED BY <1>3, <1>4, <1>5, GuestTimesOutKeeps DEF LInv

\* A guest handles a packet: what it was told, it has.
LEMMA GuestReceivesLKeeps ==
    ASSUME LInv, NEW g \in Guests, GuestReceives(g) PROVE LInv'
<1>1. PICK s \in hostEnd(g) :
        /\ down[s] # <<>>
        /\ lobby' = [lobby EXCEPT ![g] = handleLobby(@, Head(down[s]))]
        /\ down' = [down EXCEPT ![s] = Tail(@)]
        /\ UNCHANGED <<hosting, sessions, conns, peer, connectedPeers, m_peer, up>>
  BY DEF GuestReceives
<1>2. /\ s \in Peers /\ down[s] \in Seq(ToGuest)
      /\ down'[s] = Tail(down[s]) /\ \A t \in Peers : t # s => down'[t] = down[t]
  BY <1>1, Types DEF LInv, IInv, TargetsRight, TypeOK, hostEnd
<1>3. /\ lobby'[g] = handleLobby(lobby[g], Head(down[s]))
      /\ \A m \in Members : m # g => lobby'[m] = lobby[m]
      /\ lobby'[Host] = lobby[Host]
  BY <1>1, Types DEF LInv, IInv, TargetsRight, TypeOK
<1>4. Users' /\ Shape'
  BY <1>1 DEF LInv, Users, Shape
<1>5. HostLists'
  BY <1>1, <1>2, <1>3 DEF LInv, HostLists
<1>6. \A j \in DOMAIN Tail(down[s]) : j + 1 \in DOMAIN down[s] /\ Tail(down[s])[j] = down[s][j + 1]
  BY <1>1, <1>2
<1>7. AllTrue'
  <2>1. \A j \in DOMAIN down'[s] : Holds(down'[s][j], lobby[Host])
    BY <1>2, <1>6 DEF LInv, AllTrue
  <2> QED BY <1>2, <1>3, <2>1 DEF LInv, AllTrue
<1>8. GreetedAreTold'
  <2> SUFFICES ASSUME NEW h \in Guests, NEW t \in hostEnd(h)', Greeted(t)'
               PROVE  peer[t].connectID \in lobby[Host] /\ Told(lobby'[h], down'[t], lobby[Host])
    BY <1>1, <1>3 DEF GreetedAreTold
  <2>1. t \in Peers /\ t \in hostEnd(h) /\ Greeted(t)
    BY <1>1 DEF hostEnd, Greeted
  <2>2. peer[t].connectID \in lobby[Host] /\ Told(lobby[h], down[t], lobby[Host])
    BY <2>1 DEF LInv, GreetedAreTold
  <2>3. CASE t = s
    <3>1. h = g
      BY <1>1, <2>1, <2>3 DEF hostEnd, LInv, Users
    <3>2. Told(handleLobby(lobby[g], Head(down[s])), Tail(down[s]), lobby[Host])
      <4>1. \A i \in DOMAIN down[s] : Holds(down[s][i], lobby[Host])
        BY <1>2 DEF LInv, AllTrue
      <4> QED BY <1>1, <1>2, <2>2, <2>3, <3>1, <4>1, Types, ToldHandled
    <3> QED BY <1>2, <1>3, <2>2, <2>3, <3>1, <3>2
  <2>4. CASE t # s
    <3>1. h # g
      BY <1>1, <1>2, <2>1, <2>4 DEF hostEnd, LInv, IInv, Ids
    <3> QED BY <1>2, <1>3, <2>1, <2>2, <2>4, <3>1, Types
  <2> QED BY <2>3, <2>4
<1> QED BY <1>4, <1>5, <1>7, <1>8, GuestReceivesKeeps DEF LInv

\* Every step keeps LInv.
LEMMA LInvStep ==
    ASSUME MaxConns + 1 <= SyncCap PROVE LInv /\ [Next]_vars => LInv'
<1> SUFFICES ASSUME LInv, [Next]_vars PROVE LInv'
  OBVIOUS
<1>1. CASE host
  BY <1>1, HostLKeeps
<1>2. CASE stopHosting
  BY <1>2, StopHostingLKeeps
<1>3. ASSUME NEW s \in Peers, poll(s) \/ HostTimesOut(s) PROVE LInv'
  BY <1>3, PollConnectLKeeps, PollHandshakeLKeeps, PollDisconnectLKeeps, HostTimesOutLKeeps DEF poll
<1>4. ASSUME NEW g \in Guests,
             connect(g) \/ disconnect(g) \/ GuestTimesOut(g) \/ GuestReceives(g)
      PROVE  LInv'
  BY <1>4, ConnectLKeeps, DisconnectLKeeps, GuestTimesOutLKeeps, GuestReceivesLKeeps
<1>5. CASE UNCHANGED vars
  <2>1. IInv'
    BY <1>5, IInvStep DEF LInv
  <2>2. Users' /\ Shape' /\ HostLists' /\ AllTrue'
    BY <1>5 DEF vars, LInv, Users, Shape, HostLists, AllTrue
  <2>3. GreetedAreTold'
    BY <1>5 DEF vars, LInv, GreetedAreTold, hostEnd, Greeted
  <2> QED BY <2>1, <2>2, <2>3 DEF LInv
<1> QED BY <1>1, <1>2, <1>3, <1>4, <1>5 DEF Next

\* Who is settled has been greeted and is to hear nothing.
LEMMA LInvAgrees == LInv => LobbyAgrees
<1> SUFFICES ASSUME LInv, NEW g \in Guests, Settled(g)
             PROVE  /\ lobby[g] = lobby[Host]
                    /\ {HostID} \cup {m_peer[h] : h \in {h \in Guests : Settled(h)}} \subseteq lobby[g]
  BY DEF LobbyAgrees
<1>1. \A h \in Guests : Settled(h) => m_peer[h] \in lobby[Host] /\ Told(lobby[h], <<>>, lobby[Host])
  <2> SUFFICES ASSUME NEW h \in Guests, Settled(h)
               PROVE  m_peer[h] \in lobby[Host] /\ Told(lobby[h], <<>>, lobby[Host])
    OBVIOUS
  <2>1. PICK s \in hostEnd(h) : peer[s].connected /\ up[s] = <<>> /\ down[s] = <<>>
    BY DEF Settled
  <2>2. Greeted(s) /\ peer[s].connectID = m_peer[h]
    BY <2>1 DEF Greeted, hostEnd
  <2> QED BY <2>1, <2>2 DEF LInv, GreetedAreTold
<1>2. lobby[g] = lobby[Host]
  BY <1>1, ToldAll
<1>3. HostID \in lobby[Host]
  BY DEF Settled, hostEnd, LInv, HostLists, Free
<1> QED BY <1>1, <1>2, <1>3

\* As long as the host has seen no more connections than a LOBBY_SYNC has
\* room for, members that have heard all there is to hear see one lobby, and
\* they are all in it.
THEOREM LobbyAlwaysAgrees ==
    ASSUME MaxConns + 1 <= SyncCap PROVE Spec => []LobbyAgrees
<1>1. Init => LInv
  BY InitLInv
<1>2. LInv /\ [Next]_vars => LInv'
  BY LInvStep
<1>3. LInv => LobbyAgrees
  BY LInvAgrees
<1> QED BY <1>1, <1>2, <1>3, PTL DEF Spec
=============================================================================
