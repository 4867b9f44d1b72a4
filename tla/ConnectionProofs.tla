-------------------------- MODULE ConnectionProofs --------------------------
(***************************************************************************)
(* Proofs about Connection: types, EventsPaired, SameHandshake and         *)
(* NobodyKicked, for any number of slots, guests, ports and attempts.      *)
(*                                                                         *)
(* What the handlers compare are port, slot and session ID; what the       *)
(* properties are about is the connectID.  So the invariant (CInv) says    *)
(* who may still speak: a port speaks to at most one slot, under one       *)
(* session ID (OneVoice), and not before its CONNECT has been answered     *)
(* (CallersSilent); a connectID belongs to one port (OnePort) and has one  *)
(* slot (OneSlot); the port of a connected slot speaks to that slot only   *)
(* (OnlyHere), and a slot that an attempt gets after it has been reported  *)
(* is never confirmed (NotAgain).                                          *)
(*                                                                         *)
(* All of it needs that a slot's session ID is not given out again while   *)
(* something is alive that was sent under it: two bits come round after    *)
(* four stays, and nothing in the code waits for old datagrams to die.     *)
(* NotRound says so of a state, and Invariance assumes it of every state.  *)
(***************************************************************************)
EXTENDS Connection, FiniteSetTheorems, WellFoundedInduction, TLAPS

Open(p, e) == p[e].state # "DISCONNECTED"

\* The slots whose CONNECT has been reported and whose DISCONNECT has not.
Held(p, s) == p[s].state \in {"CONNECTED", "ACKNOWLEDGING_DISCONNECT"}

\* The guests that have accepted a VERIFY_CONNECT and have not let go of it.
Stays(p, g) == p[g].state \in {"CONNECTED", "DISCONNECTING"}

\* A guest waits for the answer to its CONNECT on port P.
Calls(p, P) == \E g \in Guests : p[g].state = "CONNECTING" /\ p[g].port = P

\* Port P speaks to slot s under session ID k: a datagram other than CONNECT is
\* under way, or the guest on that port may send one.
Speaks(p, n, P, s, k) ==
    \/ \E d \in n : d.from = P /\ d.command # "CONNECT" /\ d.peerID = s /\ d.session = k
    \/ \E g \in Guests : /\ Stays(p, g) /\ p[g].port = P
                         /\ p[g].outgoingPeerID = s /\ p[g].out = k

\* connectID i is known to belong to port P: at an end, or in a CONNECT.
Claims(p, n, i, P) ==
    \/ \E e \in Ends : Open(p, e) /\ p[e].connectID = i /\ p[e].port = P
    \/ \E d \in n : d.command = "CONNECT" /\ d.greeting.connectID = i /\ d.from = P

-----------------------------------------------------------------------------
(* The parts of the invariant, of peers p, datagrams n, bound ports b,     *)
(* a attempts and reports r                                                *)

Typed(p, n, b, a, r) ==
    /\ p \in [Ends -> Peer] /\ n \subseteq Datagram /\ b \subseteq Ports
    /\ a \in 0 .. MaxID /\ r \in [IDs -> Nat]

SlotShape(x) ==
    /\ x.state \in {"DISCONNECTED", "ACKNOWLEDGING_CONNECT", "CONNECTED",
                    "ACKNOWLEDGING_DISCONNECT"}
    /\ x.state = "DISCONNECTED" => x.sent = {}
    /\ x.state = "ACKNOWLEDGING_CONNECT" => x.sent \subseteq {"VERIFY_CONNECT"}
    /\ x.state = "CONNECTED" => x.sent \subseteq {"PING"}
    /\ x.state = "ACKNOWLEDGING_DISCONNECT" => x.sent = {}
    /\ x.state # "DISCONNECTED" =>
          /\ x.connectID \in IDs /\ x.port \in Ports /\ x.outgoingPeerID \in Nat
          /\ x.in \in SessionID /\ x.out \in SessionID

GuestShape(x) ==
    /\ x.state \in {"DISCONNECTED", "CONNECTING", "CONNECTED", "DISCONNECTING"}
    /\ x.state = "DISCONNECTED" => x.sent = {}
    /\ x.state = "CONNECTING" => 
          /\ x.sent \subseteq {"CONNECT"} /\ x.outgoingPeerID = None
          /\ x.in = Unset /\ x.out = Unset
    /\ x.state = "CONNECTED" => x.sent \subseteq {"PING"}
    /\ x.state = "DISCONNECTING" => x.sent \subseteq {"DISCONNECT"}
    /\ x.state # "DISCONNECTED" => x.connectID \in IDs /\ x.port \in Ports
    /\ x.state \in {"CONNECTED", "DISCONNECTING"} =>
          x.outgoingPeerID \in Slots /\ x.in \in SessionID /\ x.out \in SessionID

DatagramShape(d) ==
    /\ d.from \in Ports /\ d.command # "CONNECT" =>
          d.peerID \in Slots /\ d.session \in SessionID
    /\ d.command = "CONNECT" =>
          /\ d.from \in Ports /\ d.greeting \in Greeting
          /\ d.greeting.in = Unset /\ d.greeting.out = Unset
    /\ d.command = "VERIFY_CONNECT" =>
          /\ d.from = HostPort /\ d.greeting \in Greeting /\ d.greeting.peerID \in Slots
          /\ d.greeting.in \in SessionID /\ d.greeting.out \in SessionID

Shapes(p, n) ==
    /\ \A s \in Slots : SlotShape(p[s])
    /\ \A g \in Guests : GuestShape(p[g])
    /\ \A d \in n : DatagramShape(d)

\* A socket has one owner, and a port that speaks has not been given back.
PortsApart(p) ==
    \A g, h \in Guests : Open(p, g) /\ Open(p, h) /\ g # h => p[g].port # p[h].port
PortsBound(p, n, b) ==
    /\ \A g \in Guests : Open(p, g) => p[g].port \in b
    /\ \A P \in Ports, s \in Slots, k \in SessionID : Speaks(p, n, P, s, k) => P \in b

\* Who still calls has not spoken yet, and a port speaks to one slot, under one
\* session ID.
CallersSilent(p, n) ==
    \A P \in Ports, s \in Slots, k \in SessionID : Speaks(p, n, P, s, k) => ~Calls(p, P)
OneVoice(p, n) ==
    \A P \in Ports, s, t \in Slots, k, m \in SessionID :
        Speaks(p, n, P, s, k) /\ Speaks(p, n, P, t, m) => s = t /\ k = m

\* A connectID belongs to one port, and has one slot.
OnePort(p, n, a) ==
    \A i \in IDs, P \in Ports : Claims(p, n, i, P) =>
        i <= a /\ \A Q \in Ports : Claims(p, n, i, Q) => P = Q
OneSlot(p) ==
    \A s, t \in Slots : Open(p, s) /\ Open(p, t) /\ s # t => p[s].connectID # p[t].connectID

\* An attempt that has been reported once is no longer calling, and a slot it
\* gets after that is never confirmed.
Unreported(a, r) == \A i \in IDs : i > a => r[i] = 0
ReportedSpoke(p, n, b, r) ==
    \A i \in IDs, P \in Ports :
        r[i] >= 1 /\ Claims(p, n, i, P) => P \in b /\ ~Calls(p, P)
NotAgain(p, n, r) ==
    \A s \in Slots : p[s].state = "ACKNOWLEDGING_CONNECT" /\ r[p[s].connectID] >= 1 =>
        ~Speaks(p, n, p[s].port, s, p[s].in)

\* The port of a connected slot speaks to this slot only.
OnlyHere(p, n) ==
    \A s, t \in Slots, k \in SessionID :
        Held(p, s) /\ Speaks(p, n, p[s].port, t, k) => t = s /\ k = p[s].in

Paired(p, r) ==
    \A i \in IDs : /\ r[i] <= 2
                   /\ r[i] = 1 <=> \E s \in Slots : p[s].connectID = i /\ Held(p, s)

\* A DISCONNECT, under way or acknowledged, is of a guest that has left.
Gone(p, n) ==
    /\ \A d \in n, g \in Guests :
          d.command = "DISCONNECT" /\ p[g].state = "CONNECTED" => d.from # p[g].port
    /\ \A s \in Slots, g \in Guests :
          p[s].state = "ACKNOWLEDGING_DISCONNECT" /\ p[g].state = "CONNECTED" =>
              p[s].port # p[g].port

\* Port, slot and session ID tell which handshake is meant.
SameTenancy(p) ==
    \A g \in Guests, s \in Slots :
        /\ p[g].state = "CONNECTED" /\ Open(p, s)
        /\ p[g].outgoingPeerID = s /\ p[g].port = p[s].port /\ p[g].out = p[s].in
        => /\ p[g].connectID = p[s].connectID /\ p[g].shake = p[s].shake
           /\ p[g].in = p[s].out
VerifyTrue(p, n) ==
    \A d \in n, s \in Slots :
        /\ d.command = "VERIFY_CONNECT" /\ d.greeting.peerID = s
        /\ Open(p, s) /\ d.greeting.in = p[s].in
        => /\ d.greeting.connectID = p[s].connectID /\ d.greeting.shake = p[s].shake
           /\ d.greeting.out = p[s].out

CInv(p, n, b, a, r) ==
    /\ Typed(p, n, b, a, r) /\ Shapes(p, n)
    /\ PortsApart(p) /\ PortsBound(p, n, b)
    /\ CallersSilent(p, n) /\ OneVoice(p, n)
    /\ OnePort(p, n, a) /\ OneSlot(p)
    /\ Unreported(a, r) /\ ReportedSpoke(p, n, b, r) /\ NotAgain(p, n, r)
    /\ OnlyHere(p, n) /\ Paired(p, r) /\ Gone(p, n)
    /\ SameTenancy(p) /\ VerifyTrue(p, n)

-----------------------------------------------------------------------------
(* What goes on when datagrams are lost and sent                           *)

LEMMA EndsApart == Slots \cap Guests = {} /\ Slots \subseteq Ends /\ Guests \subseteq Ends
                   /\ Slots \subseteq Nat /\ Ends = Slots \cup Guests
  BY ConnectionAssumption DEF Ends

\* Nothing depends on a datagram's being under way.
LEMMA Forget ==
    ASSUME NEW p, NEW n, NEW b, NEW a, NEW r, CInv(p, n, b, a, r),
           NEW n1, n1 \subseteq n
    PROVE  CInv(p, n1, b, a, r)
<1>1. ASSUME NEW P, NEW s, NEW k, Speaks(p, n1, P, s, k)
      PROVE  Speaks(p, n, P, s, k)
  BY <1>1 DEF Speaks
<1>2. ASSUME NEW i, NEW P, Claims(p, n1, i, P)
      PROVE  Claims(p, n, i, P)
  BY <1>2 DEF Claims
<1>3. Typed(p, n1, b, a, r) /\ Shapes(p, n1)
  BY DEF CInv, Typed, Shapes
<1>4. PortsApart(p) /\ PortsBound(p, n1, b)
  BY <1>1 DEF CInv, PortsBound
<1>5. CallersSilent(p, n1) /\ OneVoice(p, n1)
  BY <1>1 DEF CInv, CallersSilent, OneVoice
<1>6. OnePort(p, n1, a) /\ OneSlot(p) /\ Unreported(a, r) /\ ReportedSpoke(p, n1, b, r)
  BY <1>2 DEF CInv, OnePort, ReportedSpoke
<1>7. NotAgain(p, n1, r) /\ OnlyHere(p, n1)
  BY <1>1 DEF CInv, NotAgain, OnlyHere
<1>8. Paired(p, r) /\ Gone(p, n1) /\ SameTenancy(p) /\ VerifyTrue(p, n1)
  BY DEF CInv, Gone, VerifyTrue
<1> QED BY <1>3, <1>4, <1>5, <1>6, <1>7, <1>8 DEF CInv

\* A datagram that says nothing new may be under way.
LEMMA Said ==
    ASSUME NEW p, NEW n, NEW b, NEW a, NEW r, CInv(p, n, b, a, r),
           NEW d \in Datagram, DatagramShape(d),
           d.from \in Ports /\ d.command # "CONNECT" =>
               Speaks(p, n, d.from, d.peerID, d.session),
           d.command = "CONNECT" => Claims(p, n, d.greeting.connectID, d.from),
           d.command = "DISCONNECT" =>
               \A g \in Guests : p[g].state = "CONNECTED" => d.from # p[g].port,
           d.command = "VERIFY_CONNECT" => VerifyTrue(p, {d})
    PROVE  CInv(p, n \cup {d}, b, a, r)
<1> DEFINE n1 == n \cup {d}
<1>1. ASSUME NEW P \in Ports, NEW s, NEW k, Speaks(p, n1, P, s, k)
      PROVE  Speaks(p, n, P, s, k)
  BY <1>1 DEF Speaks
<1>2. ASSUME NEW i, NEW P, Claims(p, n1, i, P)
      PROVE  Claims(p, n, i, P)
  BY <1>2 DEF Claims
<1>0. \A s \in Slots : Open(p, s) => p[s].port \in Ports
  BY DEF CInv, Shapes, SlotShape, Open
<1>3. Typed(p, n1, b, a, r) /\ Shapes(p, n1)
  BY DEF CInv, Typed, Shapes
<1>8. Paired(p, r) /\ Gone(p, n1) /\ SameTenancy(p) /\ VerifyTrue(p, n1)
  BY DEF CInv, Gone, VerifyTrue
<1> HIDE DEF n1
<1>4. PortsApart(p) /\ PortsBound(p, n1, b)
  BY <1>1 DEF CInv, PortsBound
<1>5. CallersSilent(p, n1) /\ OneVoice(p, n1)
  BY <1>1 DEF CInv, CallersSilent, OneVoice
<1>6. OnePort(p, n1, a) /\ OneSlot(p) /\ Unreported(a, r) /\ ReportedSpoke(p, n1, b, r)
  BY <1>2 DEF CInv, OnePort, ReportedSpoke
<1>7. NotAgain(p, n1, r) /\ OnlyHere(p, n1)
  BY <1>0, <1>1 DEF CInv, NotAgain, OnlyHere, Open, Held
<1> QED BY <1>3, <1>4, <1>5, <1>6, <1>7, <1>8 DEF CInv, n1

-----------------------------------------------------------------------------
(* What goes on when ends let go of connections                            *)

\* End e keeps what it has of its connection, or loses it.
Fades(p, q, e) ==
    Open(q, e) =>
        /\ Open(p, e)
        /\ q[e].connectID = p[e].connectID /\ q[e].port = p[e].port
        /\ q[e].outgoingPeerID = p[e].outgoingPeerID
        /\ q[e].in = p[e].in /\ q[e].out = p[e].out /\ q[e].shake = p[e].shake

\* No guest gets further in its attempt.
Recedes(p, q, g) ==
    /\ q[g].state = "CONNECTING" => p[g].state = "CONNECTING"
    /\ q[g].state = "CONNECTED" => p[g].state = "CONNECTED"
    /\ Stays(q, g) => Stays(p, g)

Lessens(p, q) ==
    /\ \A e \in Ends : Fades(p, q, e)
    /\ \A g \in Guests : Recedes(p, q, g)

LEMMA FadeSays ==
    ASSUME NEW p, NEW q, NEW n, Lessens(p, q)
    PROVE  /\ \A P, s, k : Speaks(q, n, P, s, k) => Speaks(p, n, P, s, k)
           /\ \A i, P : Claims(q, n, i, P) => Claims(p, n, i, P)
           /\ \A P : Calls(q, P) => Calls(p, P)
<1>1. \A g \in Guests : Open(q, g) => Stays(q, g) \/ ~Stays(q, g)
  OBVIOUS
<1>2. ASSUME NEW P, NEW s, NEW k, Speaks(q, n, P, s, k)
      PROVE  Speaks(p, n, P, s, k)
  BY <1>2, EndsApart DEF Speaks, Lessens, Fades, Recedes, Stays, Open
<1>3. ASSUME NEW i, NEW P, Claims(q, n, i, P)
      PROVE  Claims(p, n, i, P)
  BY <1>3 DEF Claims, Lessens, Fades
<1>4. ASSUME NEW P, Calls(q, P) PROVE Calls(p, P)
  BY <1>4, EndsApart DEF Calls, Lessens, Fades, Recedes, Open
<1> QED BY <1>2, <1>3, <1>4

\* The parts of the invariant that do not mention reports.
Silent(p, n, b, a) ==
    /\ PortsApart(p) /\ PortsBound(p, n, b)
    /\ CallersSilent(p, n) /\ OneVoice(p, n)
    /\ OnePort(p, n, a) /\ OneSlot(p)
    /\ SameTenancy(p) /\ VerifyTrue(p, n)

LEMMA FadeSilent ==
    ASSUME NEW p, NEW q, NEW n, NEW b, NEW a, Silent(p, n, b, a), Lessens(p, q)
    PROVE  Silent(q, n, b, a)
<1>1. /\ \A P, s, k : Speaks(q, n, P, s, k) => Speaks(p, n, P, s, k)
      /\ \A i, P : Claims(q, n, i, P) => Claims(p, n, i, P)
      /\ \A P : Calls(q, P) => Calls(p, P)
  BY FadeSays
<1>2. /\ \A e \in Slots \cup Guests : Fades(p, q, e)
      /\ \A g \in Guests : Recedes(p, q, g)
  BY EndsApart DEF Lessens
<1>3. PortsApart(q)
  BY <1>2 DEF Silent, PortsApart, Fades
<1>4. PortsBound(q, n, b)
  BY <1>1, <1>2 DEF Silent, PortsBound, Fades
<1>5. CallersSilent(q, n)
  BY <1>1 DEF Silent, CallersSilent
<1>6. OneVoice(q, n)
  BY <1>1 DEF Silent, OneVoice
<1>7. OnePort(q, n, a)
  BY <1>1 DEF Silent, OnePort
<1>8. OneSlot(q)
  BY <1>2 DEF Silent, OneSlot, Fades
<1>9. SameTenancy(q)
  BY <1>2 DEF Silent, SameTenancy, Fades, Recedes, Open
<1>10. VerifyTrue(q, n)
  BY <1>2 DEF Silent, VerifyTrue, Fades
<1> QED BY <1>3, <1>4, <1>5, <1>6, <1>7, <1>8, <1>9, <1>10 DEF Silent

\* What a DISCONNECT on its way means goes on being true.
LEMMA FadeGone ==
    ASSUME NEW p, NEW q, NEW n, Gone(p, n), Lessens(p, q),
           \A s \in Slots : q[s].state = "ACKNOWLEDGING_DISCONNECT" =>
               \/ p[s].state = "ACKNOWLEDGING_DISCONNECT"
               \/ \A g \in Guests : p[g].state = "CONNECTED" => p[s].port # p[g].port
    PROVE  Gone(q, n)
<1>2. /\ \A e \in Slots \cup Guests : Fades(p, q, e)
      /\ \A g \in Guests : Recedes(p, q, g)
  BY EndsApart DEF Lessens
<1>3. ASSUME NEW d \in n, NEW g \in Guests, d.command = "DISCONNECT",
             q[g].state = "CONNECTED"
      PROVE  d.from # q[g].port
  BY <1>2, <1>3 DEF Gone, Fades, Recedes, Open
<1>4. ASSUME NEW s \in Slots, NEW g \in Guests, q[s].state = "ACKNOWLEDGING_DISCONNECT",
             q[g].state = "CONNECTED"
      PROVE  q[s].port # q[g].port
  BY <1>2, <1>4 DEF Gone, Fades, Recedes, Open
<1> QED BY <1>3, <1>4 DEF Gone

\* A step in which nothing is reported: the same slots are held, and no more
\* are waiting to be confirmed.
LEMMA FadeCalm ==
    ASSUME NEW p, NEW q, NEW n, NEW b, NEW a, NEW r, CInv(p, n, b, a, r),
           q \in [Ends -> Peer], Shapes(q, n), Lessens(p, q),
           \A s \in Slots : /\ Held(q, s) <=> Held(p, s)
                            /\ q[s].state = "ACKNOWLEDGING_CONNECT" =>
                                   p[s].state = "ACKNOWLEDGING_CONNECT",
           \A s \in Slots : q[s].state = "ACKNOWLEDGING_DISCONNECT" =>
               \/ p[s].state = "ACKNOWLEDGING_DISCONNECT"
               \/ \A g \in Guests : p[g].state = "CONNECTED" => p[s].port # p[g].port
    PROVE  CInv(q, n, b, a, r)
<1>1. /\ \A P, s, k : Speaks(q, n, P, s, k) => Speaks(p, n, P, s, k)
      /\ \A i, P : Claims(q, n, i, P) => Claims(p, n, i, P)
      /\ \A P : Calls(q, P) => Calls(p, P)
  BY FadeSays
<1>2. \A s \in Slots : Fades(p, q, s)
  BY EndsApart DEF Lessens
<1>3. Typed(q, n, b, a, r) /\ Shapes(q, n)
  BY DEF CInv, Typed
<1>4. Silent(q, n, b, a)
  BY FadeSilent DEF CInv, Silent
<1>5. Gone(q, n)
  BY FadeGone DEF CInv
<1>6. Unreported(a, r) /\ ReportedSpoke(q, n, b, r)
  BY <1>1 DEF CInv, ReportedSpoke
<1>7. NotAgain(q, n, r)
  BY <1>1, <1>2 DEF CInv, NotAgain, Fades, Open
<1>8. OnlyHere(q, n)
  BY <1>1, <1>2 DEF CInv, OnlyHere, Fades, Open, Held
<1>9. Paired(q, r)
  <2>1. \A s \in Slots : Held(q, s) => Open(q, s)
    BY DEF Held, Open
  <2>2. \A s \in Slots : Held(q, s) => q[s].connectID = p[s].connectID
    BY <1>2, <2>1 DEF Fades
  <2> QED BY <2>2 DEF CInv, Paired
<1> QED BY <1>3, <1>4, <1>5, <1>6, <1>7, <1>8, <1>9 DEF CInv, Silent

\* A guest that gives up calling gives its port back.
LEMMA Closed ==
    ASSUME NEW p, NEW n, NEW b, NEW a, NEW r, CInv(p, n, b, a, r),
           NEW P, ~Calls(p, P), \A g \in Guests : Open(p, g) => p[g].port # P,
           \A s \in Slots, k \in SessionID : ~Speaks(p, n, P, s, k),
           \A i \in IDs : r[i] >= 1 => ~Claims(p, n, i, P)
    PROVE  CInv(p, n, b \ {P}, a, r)
<1>1. PortsBound(p, n, b \ {P})
  BY DEF CInv, PortsBound
<1>2. ReportedSpoke(p, n, b \ {P}, r)
  BY DEF CInv, ReportedSpoke
<1>3. Typed(p, n, b \ {P}, a, r)
  BY DEF CInv, Typed
<1> QED BY <1>1, <1>2, <1>3 DEF CInv

-----------------------------------------------------------------------------
(* Steps that report, connect, answer and accept                           *)

\* What an update of one end leaves alone.
LEMMA OneEnd ==
    ASSUME NEW p \in [Ends -> Peer], NEW e \in Ends, NEW x \in Peer
    PROVE  LET q == [p EXCEPT ![e] = x]
           IN q \in [Ends -> Peer] /\ q[e] = x /\ \A f \in Ends : f # e => q[f] = p[f]
  OBVIOUS

\* An end that keeps its connection or loses it changes no other's.
LEMMA OneLessens ==
    ASSUME NEW p \in [Ends -> Peer], NEW e \in Ends, NEW x \in Peer,
           LET q == [p EXCEPT ![e] = x]
           IN Fades(p, q, e) /\ (e \in Guests => Recedes(p, q, e))
    PROVE  Lessens(p, [p EXCEPT ![e] = x])
<1> DEFINE q == [p EXCEPT ![e] = x]
<1>1. \A f \in Ends : f # e => q[f] = p[f]
  OBVIOUS
<1>2. Fades(p, q, e) /\ (e \in Guests => Recedes(p, q, e))
  OBVIOUS
<1> HIDE DEF q
<1>3. \A f \in Ends : Fades(p, q, f)
  BY <1>1, <1>2 DEF Fades, Open
<1>4. \A g \in Guests : Recedes(p, q, g)
  BY <1>1, <1>2, EndsApart DEF Recedes, Stays
<1> QED BY <1>3, <1>4 DEF Lessens, q

\* The acknowledgement of VERIFY_CONNECT: CONNECT is reported, for the first
\* time, because the port speaks to this slot and session ID.
LEMMA Established ==
    ASSUME NEW p, NEW n, NEW b, NEW a, NEW r, CInv(p, n, b, a, r),
           NEW s \in Slots, p[s].state = "ACKNOWLEDGING_CONNECT",
           Speaks(p, n, p[s].port, s, p[s].in),
           NEW x \in Peer, x.state = "CONNECTED", x.sent \subseteq {"PING"},
           x.connectID = p[s].connectID, x.port = p[s].port,
           x.outgoingPeerID = p[s].outgoingPeerID,
           x.in = p[s].in, x.out = p[s].out, x.shake = p[s].shake
    PROVE  CInv([p EXCEPT ![s] = x], n, b, a, [r EXCEPT ![p[s].connectID] = @ + 1])
<1> DEFINE q == [p EXCEPT ![s] = x]
           i == p[s].connectID
           r1 == [r EXCEPT ![i] = @ + 1]
           P == p[s].port
<1>1. p \in [Ends -> Peer] /\ s \in Ends /\ s \notin Guests /\ r \in [IDs -> Nat]
  BY EndsApart DEF CInv, Typed
<1>2. q \in [Ends -> Peer] /\ q[s] = x /\ \A f \in Ends : f # s => q[f] = p[f]
  BY <1>1, OneEnd
<1>3. SlotShape(p[s])
  BY DEF CInv, Shapes
<1>4. i \in IDs /\ P \in Ports /\ p[s].in \in SessionID
  BY <1>3 DEF SlotShape
<1>5. Lessens(p, q)
  BY <1>1, OneLessens DEF Fades, Open
<1>6. r[i] = 0
  BY <1>1, <1>4 DEF CInv, NotAgain
<1>7. r1 \in [IDs -> Nat] /\ r1[i] = 1 /\ \A j \in IDs : j # i => r1[j] = r[j]
  BY <1>1, <1>4, <1>6
<1> HIDE DEF q, r1
<1>8. /\ \A R, t, k : Speaks(q, n, R, t, k) => Speaks(p, n, R, t, k)
      /\ \A j, R : Claims(q, n, j, R) => Claims(p, n, j, R)
      /\ \A R : Calls(q, R) => Calls(p, R)
  BY <1>5, FadeSays
<1>9. Typed(q, n, b, a, r1)
  BY <1>2, <1>7 DEF CInv, Typed
<1>10. Shapes(q, n)
  <2>1. SlotShape(x)
    BY <1>3 DEF SlotShape
  <2> QED BY <2>1, <1>2, <1>1, EndsApart DEF CInv, Shapes
<1>11. Silent(q, n, b, a)
  BY <1>5, FadeSilent DEF CInv, Silent
<1>12. Gone(q, n)
  <2>1. \A t \in Slots : q[t].state = "ACKNOWLEDGING_DISCONNECT" =>
                            p[t].state = "ACKNOWLEDGING_DISCONNECT"
    BY <1>2, EndsApart
  <2> QED BY <1>5, <2>1, FadeGone DEF CInv
<1>13. Claims(p, n, i, P)
  BY <1>1, <1>4 DEF Claims, Open
<1>14. Unreported(a, r1)
  BY <1>13, <1>7, <1>4 DEF CInv, Unreported, OnePort, Typed, IDs
<1>15. ReportedSpoke(q, n, b, r1)
  <2>1. P \in b /\ ~Calls(p, P)
    BY <1>4 DEF CInv, PortsBound, CallersSilent
  <2>2. ASSUME NEW j \in IDs, NEW R \in Ports, r1[j] >= 1, Claims(q, n, j, R)
        PROVE  R \in b /\ ~Calls(q, R)
    <3>1. Claims(p, n, j, R)
      BY <2>2, <1>8
    <3>2. CASE j = i
      BY <3>1, <3>2, <1>13, <1>4, <2>1, <1>8 DEF CInv, OnePort
    <3>3. CASE j # i
      BY <3>1, <3>3, <2>2, <1>7, <1>8 DEF CInv, ReportedSpoke
    <3> QED BY <3>2, <3>3
  <2> QED BY <2>2 DEF ReportedSpoke
<1>16. \A t \in Slots : t # s /\ Open(p, t) => p[t].connectID # i /\ q[t] = p[t]
  BY <1>2, EndsApart DEF CInv, OneSlot, Open
<1>17. NotAgain(q, n, r1)
  <2>1. ASSUME NEW t \in Slots, q[t].state = "ACKNOWLEDGING_CONNECT",
               r1[q[t].connectID] >= 1
        PROVE  ~Speaks(q, n, q[t].port, t, q[t].in)
    <3>1. t # s /\ q[t] = p[t]
      BY <2>1, <1>2, EndsApart
    <3>2. p[t].connectID # i /\ p[t].connectID \in IDs
      BY <3>1, <2>1, <1>16 DEF Open, CInv, Shapes, SlotShape
    <3> QED BY <3>1, <3>2, <2>1, <1>7, <1>8 DEF CInv, NotAgain
  <2> QED BY <2>1 DEF NotAgain
<1>18. OnlyHere(q, n)
  <2>1. ASSUME NEW t \in Slots, NEW u \in Slots, NEW k \in SessionID,
               Held(q, t), Speaks(q, n, q[t].port, u, k)
        PROVE  u = t /\ k = q[t].in
    <3>1. CASE t = s
      BY <3>1, <2>1, <1>2, <1>4, <1>8 DEF CInv, OneVoice
    <3>2. CASE t # s
      BY <3>2, <2>1, <1>2, <1>8, EndsApart DEF CInv, OnlyHere, Held
    <3> QED BY <3>1, <3>2
  <2> QED BY <2>1 DEF OnlyHere
<1>19. Paired(q, r1)
  <2>1. ASSUME NEW j \in IDs
        PROVE  /\ r1[j] <= 2
               /\ r1[j] = 1 <=> \E t \in Slots : q[t].connectID = j /\ Held(q, t)
    <3>1. CASE j = i
      BY <3>1, <1>7, <1>2 DEF Held
    <3>2. CASE j # i
      <4>1. \A t \in Slots : q[t].connectID = j /\ Held(q, t) <=>
                             p[t].connectID = j /\ Held(p, t)
        BY <3>2, <1>2, EndsApart DEF Held
      <4> QED BY <4>1, <3>2, <1>7 DEF CInv, Paired
    <3> QED BY <3>1, <3>2
  <2> QED BY <2>1 DEF Paired
<1>20. CInv(q, n, b, a, r1)
  BY <1>9, <1>10, <1>11, <1>12, <1>14, <1>15, <1>17, <1>18, <1>19 DEF CInv, Silent
<1> QED BY <1>20 DEF q, r1

\* The end of a connection whose CONNECT has been reported is reported.
LEMMA Released ==
    ASSUME NEW p, NEW n, NEW b, NEW a, NEW r, CInv(p, n, b, a, r),
           NEW s \in Slots, Held(p, s),
           NEW x \in Peer, x.state = "DISCONNECTED", x.sent = {}
    PROVE  CInv([p EXCEPT ![s] = x], n, b, a, [r EXCEPT ![p[s].connectID] = @ + 1])
<1> DEFINE q == [p EXCEPT ![s] = x]
           i == p[s].connectID
           r1 == [r EXCEPT ![i] = @ + 1]
<1>1. p \in [Ends -> Peer] /\ s \in Ends /\ s \notin Guests /\ r \in [IDs -> Nat]
  BY EndsApart DEF CInv, Typed
<1>2. q \in [Ends -> Peer] /\ q[s] = x /\ \A f \in Ends : f # s => q[f] = p[f]
  BY <1>1, OneEnd
<1>3. SlotShape(p[s])
  BY DEF CInv, Shapes
<1>4. i \in IDs /\ p[s].port \in Ports
  BY <1>3 DEF SlotShape, Held
<1>5. Lessens(p, q)
  BY <1>1, OneLessens DEF Fades, Open
<1>6. r[i] = 1
  BY <1>4 DEF CInv, Paired
<1>7. r1 \in [IDs -> Nat] /\ r1[i] = 2 /\ \A j \in IDs : j # i => r1[j] = r[j]
  BY <1>1, <1>4, <1>6
<1> HIDE DEF q, r1
<1>8. /\ \A R, t, k : Speaks(q, n, R, t, k) => Speaks(p, n, R, t, k)
      /\ \A j, R : Claims(q, n, j, R) => Claims(p, n, j, R)
      /\ \A R : Calls(q, R) => Calls(p, R)
  BY <1>5, FadeSays
<1>9. Typed(q, n, b, a, r1)
  BY <1>2, <1>7 DEF CInv, Typed
<1>10. Shapes(q, n)
  <2>1. SlotShape(x)
    BY DEF SlotShape
  <2> QED BY <2>1, <1>2, <1>1, EndsApart DEF CInv, Shapes
<1>11. Silent(q, n, b, a)
  BY <1>5, FadeSilent DEF CInv, Silent
<1>12. Gone(q, n)
  <2>1. \A t \in Slots : q[t].state = "ACKNOWLEDGING_DISCONNECT" =>
                            p[t].state = "ACKNOWLEDGING_DISCONNECT"
    BY <1>2, EndsApart
  <2> QED BY <1>5, <2>1, FadeGone DEF CInv
<1>13. \A j \in IDs : r1[j] >= 1 => r[j] >= 1
  BY <1>6, <1>7
<1>14. Unreported(a, r1)
  BY <1>13, <1>7, <1>6, <1>4 DEF CInv, Unreported, Typed, IDs
<1>15. ReportedSpoke(q, n, b, r1)
  BY <1>8, <1>13 DEF CInv, ReportedSpoke
<1>16. \A t \in Slots : Open(q, t) => t # s /\ q[t] = p[t] /\ p[t].connectID # i
  BY <1>2, EndsApart DEF CInv, OneSlot, Open, Held
<1>17. NotAgain(q, n, r1)
  <2>1. ASSUME NEW t \in Slots, q[t].state = "ACKNOWLEDGING_CONNECT",
               r1[q[t].connectID] >= 1
        PROVE  ~Speaks(q, n, q[t].port, t, q[t].in)
    <3>1. q[t] = p[t]
      BY <2>1, <1>16 DEF Open
    <3>2. p[t].connectID \in IDs
      BY <3>1, <2>1 DEF Open, CInv, Shapes, SlotShape
    <3> QED BY <3>1, <3>2, <2>1, <1>13, <1>8 DEF CInv, NotAgain
  <2> QED BY <2>1 DEF NotAgain
<1>18. OnlyHere(q, n)
  BY <1>16, <1>8 DEF CInv, OnlyHere, Held, Open
<1>19. Paired(q, r1)
  <2>1. ASSUME NEW j \in IDs
        PROVE  /\ r1[j] <= 2
               /\ r1[j] = 1 <=> \E t \in Slots : q[t].connectID = j /\ Held(q, t)
    <3>1. CASE j = i
      BY <3>1, <1>7, <1>16 DEF Held, Open
    <3>2. CASE j # i
      <4>1. \A t \in Slots : q[t].connectID = j /\ Held(q, t) <=>
                             p[t].connectID = j /\ Held(p, t)
        BY <3>2, <1>2, EndsApart DEF Held
      <4> QED BY <4>1, <3>2, <1>7 DEF CInv, Paired
    <3> QED BY <3>1, <3>2
  <2> QED BY <2>1 DEF Paired
<1>20. CInv(q, n, b, a, r1)
  BY <1>9, <1>10, <1>11, <1>12, <1>14, <1>15, <1>17, <1>18, <1>19 DEF CInv, Silent
<1> QED BY <1>20 DEF q, r1

\* The host stops.
LEMMA Stopped ==
    ASSUME NEW p, NEW n, NEW b, NEW a, NEW r, CInv(p, n, b, a, r),
           NEW q \in [Ends -> Peer],
           \A s \in Slots : q[s].state = "DISCONNECTED" /\ q[s].sent = {},
           \A g \in Guests : q[g] = p[g]
    PROVE  CInv(q, n, b, a, [i \in IDs |-> 0])
<1> DEFINE r1 == [i \in IDs |-> 0]
<1>1. Lessens(p, q)
  BY EndsApart DEF Lessens, Fades, Recedes, Open, Stays
<1>2. r1 \in [IDs -> Nat] /\ \A i \in IDs : r1[i] = 0
  OBVIOUS
<1> HIDE DEF r1
<1>3. Typed(q, n, b, a, r1)
  BY <1>2 DEF CInv, Typed
<1>4. Shapes(q, n)
  BY DEF CInv, Shapes, SlotShape
<1>5. Silent(q, n, b, a)
  BY <1>1, FadeSilent DEF CInv, Silent
<1>6. Gone(q, n)
  BY <1>1, FadeGone DEF CInv
<1>7. Unreported(a, r1) /\ ReportedSpoke(q, n, b, r1)
  BY <1>2 DEF Unreported, ReportedSpoke
<1>8. NotAgain(q, n, r1) /\ OnlyHere(q, n) /\ Paired(q, r1)
  BY <1>2 DEF NotAgain, OnlyHere, Paired, Held
<1> QED BY <1>3, <1>4, <1>5, <1>6, <1>7, <1>8 DEF CInv, Silent, r1

\* A guest calls, on a port nobody has.
LEMMA Dialled ==
    ASSUME NEW p, NEW n, NEW b, NEW a, NEW r, CInv(p, n, b, a, r), a < MaxID,
           NEW g \in Guests, p[g].state = "DISCONNECTED", NEW P \in Ports \ b,
           NEW x \in Peer, x.state = "CONNECTING", x.connectID = a + 1, x.port = P,
           x.sent \subseteq {"CONNECT"}, x.outgoingPeerID = None, x.in = Unset, x.out = Unset
    PROVE  CInv([p EXCEPT ![g] = x], n, b \cup {P}, a + 1, r)
<1> DEFINE q == [p EXCEPT ![g] = x]
           b1 == b \cup {P}
<1>1. p \in [Ends -> Peer] /\ g \in Ends /\ g \notin Slots /\ a \in 0 .. MaxID
      /\ a + 1 \in IDs /\ MaxID \in Nat
  BY EndsApart, ConnectionAssumption DEF CInv, Typed, IDs
<1>2. q \in [Ends -> Peer] /\ q[g] = x /\ \A f \in Ends : f # g => q[f] = p[f]
  BY <1>1, OneEnd
<1>3. \A s \in Slots : q[s] = p[s]
  BY <1>1, <1>2, EndsApart
<1> HIDE DEF q
<1>4. ASSUME NEW R, NEW t, NEW k, Speaks(q, n, R, t, k)
      PROVE  Speaks(p, n, R, t, k)
  BY <1>4, <1>2, EndsApart DEF Speaks, Stays
<1>5. ASSUME NEW j, NEW R, Claims(q, n, j, R), ~Claims(p, n, j, R)
      PROVE  j = a + 1 /\ R = P
  BY <1>5, <1>2, EndsApart DEF Claims, Open
<1>6. ASSUME NEW R, Calls(q, R), ~Calls(p, R)
      PROVE  R = P
  BY <1>6, <1>2, EndsApart DEF Calls
<1>7. Typed(q, n, b1, a + 1, r)
  BY <1>1, <1>2 DEF CInv, Typed
<1>8. Shapes(q, n)
  <2>1. GuestShape(x)
    BY <1>1 DEF GuestShape
  <2> QED BY <2>1, <1>2, <1>3, EndsApart DEF CInv, Shapes
<1>9. \A h \in Guests : Open(p, h) => p[h].port # P
  BY DEF CInv, PortsBound
<1>10. PortsApart(q)
  BY <1>9, <1>2, EndsApart DEF CInv, PortsApart, Open
<1>11. PortsBound(q, n, b1)
  BY <1>2, <1>4, EndsApart DEF CInv, PortsBound, Open
<1>12. \A s \in Slots, k \in SessionID : ~Speaks(p, n, P, s, k)
  BY DEF CInv, PortsBound
<1>13. CallersSilent(q, n) /\ OneVoice(q, n)
  BY <1>4, <1>6, <1>12 DEF CInv, CallersSilent, OneVoice
<1>14. \A R \in Ports : ~Claims(p, n, a + 1, R)
  BY <1>1 DEF CInv, OnePort
<1>15. OnePort(q, n, a + 1)
  <2>1. ASSUME NEW j \in IDs, NEW R \in Ports, Claims(q, n, j, R)
        PROVE  j <= a + 1 /\ \A Q \in Ports : Claims(q, n, j, Q) => R = Q
    <3>1. CASE j = a + 1
      BY <3>1, <2>1, <1>5, <1>14, <1>1
    <3>2. CASE j # a + 1
      <4>1. Claims(p, n, j, R)
        BY <3>2, <2>1, <1>5
      <4>2. j <= a /\ j \in Nat
        BY <4>1 DEF CInv, OnePort, IDs
      <4> QED BY <3>2, <4>1, <4>2, <1>5, <1>1 DEF CInv, OnePort
    <3> QED BY <3>1, <3>2
  <2> QED BY <2>1 DEF OnePort
<1>16. OneSlot(q)
  BY <1>3 DEF CInv, OneSlot, Open
<1>17. r[a + 1] = 0 /\ Unreported(a + 1, r)
  BY <1>1 DEF CInv, Unreported, IDs
<1>18. ReportedSpoke(q, n, b1, r)
  <2>1. ASSUME NEW j \in IDs, NEW R \in Ports, r[j] >= 1, Claims(q, n, j, R)
        PROVE  R \in b1 /\ ~Calls(q, R)
    <3>1. j # a + 1
      BY <2>1, <1>17
    <3>2. Claims(p, n, j, R)
      BY <2>1, <3>1, <1>5
    <3>3. R \in b /\ ~Calls(p, R)
      BY <2>1, <3>2 DEF CInv, ReportedSpoke
    <3> QED BY <3>3, <1>6
  <2> QED BY <2>1 DEF ReportedSpoke
<1>19. NotAgain(q, n, r) /\ OnlyHere(q, n) /\ Paired(q, r)
  BY <1>3, <1>4 DEF CInv, NotAgain, OnlyHere, Paired, Held
<1>20. Gone(q, n)
  BY <1>2, <1>3, EndsApart DEF CInv, Gone
<1>21. SameTenancy(q) /\ VerifyTrue(q, n)
  BY <1>2, <1>3, EndsApart DEF CInv, SameTenancy, VerifyTrue, Open
<1>22. CInv(q, n, b1, a + 1, r)
  BY <1>7, <1>8, <1>10, <1>11, <1>13, <1>15, <1>16, <1>17, <1>18, <1>19, <1>20, <1>21
     DEF CInv
<1> QED BY <1>22 DEF q

\* The host answers a CONNECT, under a session ID that nothing under way has.
LEMMA Answered ==
    ASSUME NEW p, NEW n, NEW b, NEW a, NEW r, CInv(p, n, b, a, r),
           NEW s \in Slots, p[s].state = "DISCONNECTED",
           NEW x \in Peer, SlotShape(x), x.state = "ACKNOWLEDGING_CONNECT",
           Claims(p, n, x.connectID, x.port),
           \A t \in Slots : Open(p, t) => p[t].connectID # x.connectID,
           ~Speaks(p, n, x.port, s, x.in),
           \A d \in n : d.command = "VERIFY_CONNECT" /\ d.greeting.peerID = s =>
               d.greeting.in # x.in
    PROVE  CInv([p EXCEPT ![s] = x], n, b, a, r)
<1> DEFINE q == [p EXCEPT ![s] = x]
<1>1. p \in [Ends -> Peer] /\ s \in Ends /\ s \notin Guests
  BY EndsApart DEF CInv, Typed
<1>2. q \in [Ends -> Peer] /\ q[s] = x /\ \A f \in Ends : f # s => q[f] = p[f]
  BY <1>1, OneEnd
<1>3. \A g \in Guests : q[g] = p[g]
  BY <1>1, <1>2, EndsApart
<1>4. \A t \in Slots : t # s => q[t] = p[t]
  BY <1>2, EndsApart
<1>5. x.connectID \in IDs /\ x.port \in Ports
  BY DEF SlotShape
<1> HIDE DEF q
<1>6. ASSUME NEW R, NEW t, NEW k, Speaks(q, n, R, t, k)
      PROVE  Speaks(p, n, R, t, k)
  BY <1>6, <1>3 DEF Speaks, Stays
<1>7. ASSUME NEW j, NEW R, Claims(q, n, j, R)
      PROVE  Claims(p, n, j, R)
  BY <1>7, <1>2 DEF Claims, Open
<1>8. ASSUME NEW R, Calls(q, R) PROVE Calls(p, R)
  BY <1>8, <1>3 DEF Calls
<1>9. Typed(q, n, b, a, r) /\ Shapes(q, n)
  BY <1>2, <1>3, <1>4 DEF CInv, Typed, Shapes
<1>10. PortsApart(q) /\ PortsBound(q, n, b)
  BY <1>3, <1>6 DEF CInv, PortsApart, PortsBound, Open
<1>11. CallersSilent(q, n) /\ OneVoice(q, n)
  BY <1>6, <1>8 DEF CInv, CallersSilent, OneVoice
<1>12. OnePort(q, n, a)
  BY <1>7 DEF CInv, OnePort
<1>13. OneSlot(q)
  BY <1>2, <1>4 DEF CInv, OneSlot, Open
<1>14. Unreported(a, r) /\ ReportedSpoke(q, n, b, r)
  BY <1>7, <1>8 DEF CInv, ReportedSpoke
<1>15. NotAgain(q, n, r)
  BY <1>2, <1>4, <1>6 DEF CInv, NotAgain
<1>16. \A t \in Slots : Held(q, t) => t # s /\ q[t] = p[t]
  BY <1>2, <1>4 DEF Held
<1>17. OnlyHere(q, n)
  BY <1>6, <1>16 DEF CInv, OnlyHere, Held
<1>18. Paired(q, r)
  <2>1. \A t \in Slots : Held(p, t) => t # s /\ q[t] = p[t]
    BY <1>4 DEF Held
  <2>2. \A t \in Slots, j \in IDs : q[t].connectID = j /\ Held(q, t) <=>
                                    p[t].connectID = j /\ Held(p, t)
    BY <2>1, <1>16 DEF Held
  <2> QED BY <2>2 DEF CInv, Paired
<1>19. Gone(q, n)
  BY <1>2, <1>3, <1>4 DEF CInv, Gone
<1>20. SameTenancy(q)
  <2>1. ASSUME NEW g \in Guests, q[g].state = "CONNECTED", q[g].outgoingPeerID = s,
               q[g].port = x.port, q[g].out = x.in
        PROVE  FALSE
    BY <2>1, <1>3 DEF Speaks, Stays
  <2> QED BY <2>1, <1>2, <1>3, <1>4 DEF CInv, SameTenancy, Open
<1>21. VerifyTrue(q, n)
  BY <1>2, <1>4 DEF CInv, VerifyTrue, Open
<1>22. CInv(q, n, b, a, r)
  BY <1>9, <1>10, <1>11, <1>12, <1>13, <1>14, <1>15, <1>17, <1>18, <1>19, <1>20, <1>21
     DEF CInv
<1> QED BY <1>22 DEF q

\* A guest accepts the VERIFY_CONNECT v of its attempt.  None of what its attempt
\* has at the host is reported, so no slot it had before is held.
LEMMA Settled ==
    ASSUME NEW p, NEW n, NEW b, NEW a, NEW r, CInv(p, n, b, a, r),
           NEW g \in Guests, p[g].state = "CONNECTING",
           NEW v \in n, v.command = "VERIFY_CONNECT",
           v.greeting.connectID = p[g].connectID,
           NEW x \in Peer, x.state = "CONNECTED", x.sent = {},
           x.connectID = p[g].connectID, x.port = p[g].port,
           x.outgoingPeerID = v.greeting.peerID, x.in = v.greeting.out,
           x.out = v.greeting.in, x.shake = v.greeting.shake
    PROVE  CInv([p EXCEPT ![g] = x], n, b, a, r)
<1> DEFINE q == [p EXCEPT ![g] = x]
           P == p[g].port
           c == v.greeting
<1>1. p \in [Ends -> Peer] /\ g \in Ends /\ g \notin Slots
  BY EndsApart DEF CInv, Typed
<1>2. q \in [Ends -> Peer] /\ q[g] = x /\ \A f \in Ends : f # g => q[f] = p[f]
  BY <1>1, OneEnd
<1>3. \A s \in Slots : q[s] = p[s]
  BY <1>1, <1>2, EndsApart
<1>4. \A h \in Guests : h # g => q[h] = p[h]
  BY <1>2, EndsApart
<1>5. P \in Ports /\ p[g].connectID \in IDs
  BY DEF CInv, Shapes, GuestShape
<1>6. c.peerID \in Slots /\ c.in \in SessionID /\ c.out \in SessionID
  BY DEF CInv, Shapes, DatagramShape
<1> HIDE DEF q
<1>7. ASSUME NEW R, NEW t, NEW k, Speaks(q, n, R, t, k), ~Speaks(p, n, R, t, k)
      PROVE  R = P /\ t = c.peerID /\ k = c.in
  BY <1>7, <1>2, <1>4 DEF Speaks, Stays
<1>8. ASSUME NEW j, NEW R, Claims(q, n, j, R)
      PROVE  Claims(p, n, j, R)
  BY <1>8, <1>2 DEF Claims, Open
<1>9. ASSUME NEW R, Calls(q, R) PROVE Calls(p, R) /\ R # P
  BY <1>9, <1>2, <1>4 DEF Calls, CInv, PortsApart, Open
<1>10. Calls(p, P)
  BY DEF Calls
<1>11. \A t \in Slots, k \in SessionID : ~Speaks(p, n, P, t, k)
  BY <1>5, <1>10 DEF CInv, CallersSilent
<1>12. \A t \in Slots : Open(p, t) /\ p[t].port = P =>
           p[t].connectID \in IDs /\ ~(r[p[t].connectID] >= 1)
  <2>1. ASSUME NEW t \in Slots, Open(p, t), p[t].port = P
        PROVE  p[t].connectID \in IDs /\ ~(r[p[t].connectID] >= 1)
    <3>1. p[t].connectID \in IDs
      BY <2>1 DEF Open, CInv, Shapes, SlotShape
    <3>2. Claims(p, n, p[t].connectID, P)
      BY <2>1, EndsApart DEF Claims
    <3> QED BY <3>1, <3>2, <1>5, <1>10 DEF CInv, ReportedSpoke
  <2> QED BY <2>1
<1>13. \A t \in Slots : Held(p, t) => p[t].port # P
  BY <1>12 DEF CInv, Paired, Held, Open
<1>14. Typed(q, n, b, a, r) /\ Shapes(q, n)
  <2>1. GuestShape(x)
    BY <1>5, <1>6 DEF GuestShape
  <2> QED BY <2>1, <1>2, <1>3, <1>4 DEF CInv, Typed, Shapes
<1>15. PortsApart(q)
  BY <1>2, <1>4 DEF CInv, PortsApart, Open
<1>16. P \in b /\ PortsBound(q, n, b)
  BY <1>2, <1>4, <1>7 DEF CInv, PortsBound, Open
<1>17. CallersSilent(q, n)
  BY <1>7, <1>9 DEF CInv, CallersSilent
<1>18. OneVoice(q, n)
  BY <1>7, <1>11 DEF CInv, OneVoice
<1>19. OnePort(q, n, a)
  BY <1>8 DEF CInv, OnePort
<1>20. OneSlot(q) /\ Unreported(a, r)
  BY <1>3 DEF CInv, OneSlot, Open
<1>21. ReportedSpoke(q, n, b, r)
  BY <1>8, <1>9 DEF CInv, ReportedSpoke
<1>22. NotAgain(q, n, r)
  <2>1. \A t \in Slots : p[t].state = "ACKNOWLEDGING_CONNECT" /\ r[p[t].connectID] >= 1 =>
            p[t].port # P
    BY <1>12 DEF Open
  <2> QED BY <2>1, <1>3, <1>7 DEF CInv, NotAgain
<1>23. OnlyHere(q, n)
  BY <1>13, <1>3, <1>7 DEF CInv, OnlyHere, Held
<1>24. Paired(q, r)
  BY <1>3 DEF CInv, Paired, Held
<1>25. Gone(q, n)
  <2>1. ASSUME NEW d \in n, d.command = "DISCONNECT" PROVE d.from # P
    <3>1. SUFFICES ASSUME d.from = P PROVE FALSE
      OBVIOUS
    <3>2. d.peerID \in Slots /\ d.session \in SessionID
      BY <2>1, <3>1, <1>5 DEF CInv, Shapes, DatagramShape
    <3>3. Speaks(p, n, P, d.peerID, d.session)
      BY <2>1, <3>1 DEF Speaks
    <3> QED BY <3>2, <3>3, <1>11
  <2>2. \A t \in Slots : p[t].state = "ACKNOWLEDGING_DISCONNECT" => p[t].port # P
    BY <1>13 DEF Held
  <2> QED BY <2>1, <2>2, <1>2, <1>3, <1>4 DEF CInv, Gone
<1>26. SameTenancy(q)
  <2>1. ASSUME NEW t \in Slots, Open(p, t), c.peerID = t, c.in = p[t].in
        PROVE  /\ c.connectID = p[t].connectID /\ c.shake = p[t].shake
               /\ c.out = p[t].out
    BY <2>1 DEF CInv, VerifyTrue
  <2> QED BY <2>1, <1>2, <1>3, <1>4 DEF CInv, SameTenancy, Open
<1>27. VerifyTrue(q, n)
  BY <1>3 DEF CInv, VerifyTrue, Open
<1>28. CInv(q, n, b, a, r)
  BY <1>14, <1>15, <1>16, <1>17, <1>18, <1>19, <1>20, <1>21, <1>22, <1>23, <1>24, <1>25,
     <1>26, <1>27 DEF CInv
<1> QED BY <1>28 DEF q

-----------------------------------------------------------------------------
(* What the operators of the network do                                    *)

LEMMA PeerFields ==
    ASSUME NEW x \in Peer
    PROVE  /\ x.state \in States /\ x.connectID \in IDs \cup {0}
           /\ x.port \in Ports \cup {None} /\ x.outgoingPeerID \in Nat \cup {None}
           /\ x.in \in SessionID \cup {Unset} /\ x.out \in SessionID \cup {Unset}
           /\ x.sent \in SUBSET Commands /\ x.shake \in 0 .. MaxShakes
  BY DEF Peer

LEMMA Bounds == /\ Sessions \in Nat \ {0} /\ 0 \in SessionID /\ MaxID \in Nat \ {0}
                /\ MaxShakes \in Nat \ {0} /\ NetCap \in Nat \ {0} /\ MaxStops \in Nat
                /\ 0 \in 0 .. MaxShakes
  BY ConnectionAssumption DEF SessionID

LEMMA NewPeerTyped == NewPeer \in Peer
<1>1. NewPeer.sent \in SUBSET Commands
  BY DEF NewPeer
<1> QED BY <1>1, Bounds DEF NewPeer, Peer, States

LEMMA ResetTyped ==
    ASSUME NEW x \in Peer
    PROVE  /\ enet_peer_reset(x) \in Peer
           /\ enet_peer_reset(x).state = "DISCONNECTED" /\ enet_peer_reset(x).sent = {}
<1>1. x.in \in SessionID \cup {Unset} /\ x.out \in SessionID \cup {Unset}
  BY PeerFields
<1>2. enet_peer_reset(x).sent \in SUBSET Commands
  BY DEF NewPeer, enet_peer_reset
<1> QED BY <1>1, <1>2, Bounds DEF NewPeer, Peer, States, enet_peer_reset

LEMMA OutgoingTyped ==
    ASSUME NEW e \in Ends, NEW x \in Peer, x.port \in Ports, x.connectID \in IDs,
           x.outgoingPeerID # None => x.out \in SessionID,
           NEW c \in Commands \cup {"ACKNOWLEDGE"}, NEW of \in Commands
    PROVE  Outgoing(e, x, c, of) \in Datagram
<1> DEFINE d == Outgoing(e, x, c, of)
           w == [connectID |-> x.connectID, peerID |-> incomingPeerID(e),
                 in |-> x.in, out |-> x.out, shake |-> x.shake]
<1>1. incomingPeerID(e) \in Nat
  BY EndsApart DEF incomingPeerID
<1>2. w \in Greeting
  BY <1>1, PeerFields DEF Greeting
<1>3. d.greeting \in Greeting \cup {None}
  BY <1>2 DEF Outgoing
<1>4. d.peerID \in Nat \cup {None} /\ d.session \in SessionID
  BY PeerFields, Bounds DEF Outgoing
<1>5. d.from \in Ports \cup {HostPort} /\ d.to \in Ports \cup {HostPort}
  BY DEF Outgoing
<1> QED BY <1>3, <1>4, <1>5 DEF Outgoing, Datagram

\* What end e may say as it stands.
MaySay(p, e, c) ==
    /\ Open(p, e)
    /\ c = "CONNECT" => e \in Guests
    /\ c = "VERIFY_CONNECT" => e \in Slots
    /\ c = "DISCONNECT" => e \in Guests /\ p[e].state = "DISCONNECTING"
    /\ e \in Guests => (c = "CONNECT" <=> p[e].state = "CONNECTING")

LEMMA Speak ==
    ASSUME NEW p, NEW n, NEW b, NEW a, NEW r, CInv(p, n, b, a, r),
           NEW e \in Ends, NEW c \in Commands \cup {"ACKNOWLEDGE"}, NEW of \in Commands,
           MaySay(p, e, c), NEW n1, n1 \subseteq n \cup {Outgoing(e, p[e], c, of)}
    PROVE  CInv(p, n1, b, a, r)
<1> DEFINE d == Outgoing(e, p[e], c, of)
<1>1. e \in Slots \/ e \in Guests
  BY EndsApart
<1>2. p[e] \in Peer
  BY DEF CInv, Typed
<1>3. (e \in Slots => SlotShape(p[e])) /\ (e \in Guests => GuestShape(p[e]))
  BY DEF CInv, Shapes
<1>4. p[e].port \in Ports /\ p[e].connectID \in IDs
  BY <1>1, <1>3 DEF SlotShape, GuestShape, MaySay, Open
<1>5. p[e].outgoingPeerID # None => p[e].out \in SessionID
  BY <1>1, <1>3 DEF SlotShape, GuestShape, MaySay, Open
<1>6. d \in Datagram
  BY <1>2, <1>4, <1>5, OutgoingTyped
<1>7. HostPort \notin Ports /\ None \notin Nat /\ (e \in Slots <=> e \notin Guests)
  BY ConnectionAssumption, EndsApart
<1>8. d.greeting \in Greeting \cup {None}
  BY <1>6 DEF Datagram
<1>9. d.command = c
  BY DEF Outgoing
<1>10. d.from = IF e \in Slots THEN HostPort ELSE p[e].port
  BY DEF Outgoing
<1>11. c \in {"CONNECT", "VERIFY_CONNECT"} =>
          d.greeting = [connectID |-> p[e].connectID, peerID |-> incomingPeerID(e),
                        in |-> p[e].in, out |-> p[e].out, shake |-> p[e].shake]
  BY DEF Outgoing
<1>12. c \in {"CONNECT", "VERIFY_CONNECT"} => d.greeting \in Greeting
  <2>1. incomingPeerID(e) \in Nat
    BY EndsApart DEF incomingPeerID
  <2> QED BY <2>1, <1>2, <1>4, <1>11, PeerFields DEF Greeting
<1>13. CASE e \in Slots
  <2>1. d.from \notin Ports /\ c # "CONNECT" /\ c # "DISCONNECT"
    BY <1>13, <1>10, <1>7 DEF MaySay
  <2>2. c = "VERIFY_CONNECT" =>
            /\ d.greeting.peerID = e /\ d.greeting.in = p[e].in
            /\ d.greeting.out = p[e].out /\ d.greeting.connectID = p[e].connectID
            /\ d.greeting.shake = p[e].shake
    BY <1>13, <1>11 DEF incomingPeerID
  <2>3. p[e].in \in SessionID /\ p[e].out \in SessionID
    BY <1>13, <1>3 DEF SlotShape, MaySay, Open
  <2>4. DatagramShape(d)
    BY <1>13, <1>10, <1>9, <1>12, <2>1, <2>2, <2>3 DEF DatagramShape
  <2>5. d.command = "VERIFY_CONNECT" => VerifyTrue(p, {d})
    BY <2>2, <1>9 DEF VerifyTrue
  <2>6. CInv(p, n \cup {d}, b, a, r)
    <3> HIDE DEF d
    <3> QED BY <1>6, <1>9, <2>1, <2>4, <2>5, Said
  <2> QED BY <2>6, Forget
<1>14. CASE e \in Guests
  <2>0. e \notin Slots
    BY <1>7, <1>14
  <2>1. d.from = p[e].port /\ d.peerID = p[e].outgoingPeerID /\ c # "VERIFY_CONNECT"
    BY <2>0, <1>10 DEF MaySay, Outgoing
  <2>2. CASE c = "CONNECT"
    <3>1. DatagramShape(d)
      <4>1. p[e].in = Unset /\ p[e].out = Unset
        BY <2>2, <1>14, <1>3 DEF GuestShape, MaySay
      <4>2. d.greeting.in = Unset /\ d.greeting.out = Unset
        BY <2>2, <4>1, <1>11
      <4> QED BY <2>2, <1>9, <1>12, <1>4, <2>1, <4>2 DEF DatagramShape
    <3>2. d.greeting.connectID = p[e].connectID
      BY <2>2, <1>11
    <3>3. Claims(p, n, d.greeting.connectID, d.from)
      <4>1. Claims(p, n, p[e].connectID, p[e].port)
        BY DEF Claims, MaySay
      <4> QED BY <4>1, <3>2, <2>1
    <3>4. CInv(p, n \cup {d}, b, a, r)
      <4> HIDE DEF d
      <4> QED BY <2>2, <1>6, <1>9, <3>1, <3>3, Said
    <3> QED BY <3>4, Forget
  <2>3. CASE c # "CONNECT"
    <3>1. Stays(p, e) /\ p[e].outgoingPeerID \in Slots /\ p[e].out \in SessionID
      BY <2>3, <1>14, <1>3 DEF MaySay, Open, Stays, GuestShape
    <3>2. d.session = p[e].out /\ d.peerID = p[e].outgoingPeerID
      BY <3>1, <1>7, EndsApart DEF Outgoing
    <3>3. Speaks(p, n, d.from, d.peerID, d.session)
      <4>1. Speaks(p, n, p[e].port, p[e].outgoingPeerID, p[e].out)
        BY <3>1, <1>14 DEF Speaks
      <4> QED BY <4>1, <3>2, <2>1
    <3>4. DatagramShape(d)
      BY <2>1, <2>3, <1>9, <3>1, <3>2 DEF DatagramShape
    <3>5. c = "DISCONNECT" => \A g \in Guests : p[g].state = "CONNECTED" => d.from # p[g].port
      <4>1. ASSUME NEW g \in Guests, p[g].state = "CONNECTED", c = "DISCONNECT"
            PROVE  p[e].port # p[g].port
        BY <4>1, <1>14 DEF CInv, PortsApart, MaySay, Open
      <4> QED BY <4>1, <2>1
    <3>6. CInv(p, n \cup {d}, b, a, r)
      <4> HIDE DEF d
      <4> QED BY <2>1, <2>3, <1>6, <1>9, <3>3, <3>4, <3>5, Said
    <3> QED BY <3>6, Forget
  <2> QED BY <2>2, <2>3
<1> QED BY <1>1, <1>13, <1>14

LEMMA SendWithin ==
    ASSUME NEW base, NEW ds, Send(base, ds)
    PROVE  net' \subseteq base \cup ds
  BY DEF Send

LEMMA ArrivesWithin ==
    ASSUME NEW d, NEW ds, Arrives(d, ds)
    PROVE  d \in net /\ net' \subseteq net \cup ds
  BY SendWithin DEF Arrives

-----------------------------------------------------------------------------
(* The actions                                                             *)

Others ==
    /\ hosting \in BOOLEAN /\ stops \in 0 .. MaxStops
    /\ shakes \in [IDs -> 0 .. MaxShakes]
    /\ IsFiniteSet(net) /\ Cardinality(net) <= NetCap

Now == CInv(peer, net, bound, attempts, reported)

IInv == Now /\ Others

LEMMA SendBounded ==
    ASSUME Others, NEW base, base \subseteq net, NEW ds, IsFiniteSet(ds), Send(base, ds)
    PROVE  IsFiniteSet(net') /\ Cardinality(net') <= NetCap
<1>1. IsFiniteSet(base) /\ Cardinality(base) <= Cardinality(net)
  BY FS_Subset DEF Others
<1>2. Cardinality(base) \in Nat /\ Cardinality(net) \in Nat
  BY <1>1, FS_CardinalityType DEF Others
<1>3. IsFiniteSet(base \cup ds)
  BY <1>1, FS_Union
<1> QED BY <1>1, <1>2, <1>3, Bounds DEF Others, Send

LEMMA ArrivesBounded ==
    ASSUME Others, NEW d, NEW ds, IsFiniteSet(ds), Arrives(d, ds)
    PROVE  IsFiniteSet(net') /\ Cardinality(net') <= NetCap
  BY SendBounded DEF Arrives

LEMMA Singletons == IsFiniteSet({}) /\ \A x : IsFiniteSet({x})
  BY FS_EmptySet, FS_Singleton

LEMMA OthersKept ==
    ASSUME Others, IsFiniteSet(net') /\ Cardinality(net') <= NetCap,
           UNCHANGED <<hosting, stops, shakes>>
    PROVE  Others'
  BY DEF Others

LEMMA NowTypes ==
    ASSUME Now
    PROVE  /\ peer \in [Ends -> Peer] /\ \A e \in Ends : peer[e] \in Peer
           /\ \A s \in Slots : SlotShape(peer[s])
           /\ \A g \in Guests : GuestShape(peer[g])
           /\ \A d \in net : DatagramShape(d) /\ d \in Datagram
  BY DEF Now, CInv, Typed, Shapes

LEMMA ConnectInv == ASSUME IInv, NEW g \in Guests, connect(g) PROVE IInv'
<1>1. PICK port \in Ports \ bound :
         /\ bound' = bound \cup {port}
         /\ peer' = [peer EXCEPT ![g] =
               [NewPeer EXCEPT !.state = "CONNECTING", !.connectID = attempts + 1,
                               !.port = port, !.sent = {"CONNECT"}]]
  BY DEF connect
<1> DEFINE x == [NewPeer EXCEPT !.state = "CONNECTING", !.connectID = attempts + 1,
                                !.port = port, !.sent = {"CONNECT"}]
<1>2. /\ peer[g].state = "DISCONNECTED" /\ attempts < MaxID
      /\ attempts' = attempts + 1 /\ UNCHANGED <<hosting, stops, shakes, reported, net>>
  BY DEF connect
<1>3. x.state = "CONNECTING" /\ x.connectID = attempts + 1 /\ x.port = port
      /\ x.sent = {"CONNECT"} /\ x.outgoingPeerID = None /\ x.in = Unset /\ x.out = Unset
  BY DEF NewPeer
<1>4. x \in Peer
  <2>1. attempts + 1 \in IDs
    BY <1>2, Bounds DEF IInv, Now, CInv, Typed, IDs
  <2>2. {"CONNECT"} \in SUBSET Commands
    BY DEF Commands
  <2> QED BY <2>1, <2>2, NewPeerTyped DEF Peer, States, NewPeer
<1>5. Now'
  <2> HIDE DEF x
  <2>1. CInv([peer EXCEPT ![g] = x], net, bound \cup {port}, attempts + 1, reported)
    BY <1>2, <1>3, <1>4, Dialled DEF IInv, Now
  <2> QED BY <2>1, <1>1, <1>2 DEF Now, x
<1> QED BY <1>2, <1>5 DEF IInv, Others

\* A slot's next session ID is one.
LEMMA NextSessionTyped ==
    ASSUME NEW o \in SessionID \cup {Unset}, NEW l \in SessionID \cup {Unset}
    PROVE  NextSession(o, l) \in SessionID
<1> DEFINE n == ((IF o = Unset THEN l ELSE o) + 1) % Sessions
<1>1. SessionID \subseteq Nat /\ Unset \in Nat
  BY Bounds DEF SessionID, Unset
<1>2. (IF o = Unset THEN l ELSE o) + 1 \in Nat
  BY <1>1
<1>3. n \in SessionID
  BY <1>2, Bounds DEF SessionID
<1>4. (n + 1) % Sessions \in SessionID
  <2> HIDE DEF n
  <2> QED BY <1>3, <1>1, Bounds DEF SessionID
<1> QED BY <1>3, <1>4 DEF NextSession

\* A set of numbers has a least one.
LEMMA NatMin ==
    ASSUME NEW S \in SUBSET Nat, S # {}
    PROVE  \E f \in S : \A x \in S : f <= x
<1> DEFINE R == {ss \in Nat \X Nat : ss[1] < ss[2]}
<1>1. IsWellFoundedOn(R, Nat)
  BY NatLessThanWellFounded DEF OpToRel
<1>2. \A x, y \in Nat : y < x => <<y, x>> \in R
  OBVIOUS
<1> HIDE DEF R
<1>3. PICK f \in S : \A y \in S : ~(<<y, f>> \in R)
  BY WFMin, <1>1
<1>4. ASSUME NEW y \in S PROVE f <= y
  <2>1. f \in Nat /\ y \in Nat
    OBVIOUS
  <2>2. ~(y < f)
    BY <1>2, <1>3, <2>1
  <2> QED BY <2>1, <2>2
<1> QED BY <1>4

\* No slot is given a session ID, for an attempt from a port, under which that
\* port speaks to the slot or a VERIFY_CONNECT of the slot is under way: session
\* IDs do not come round as long as what they were used for is alive.
NotRound ==
    hosting => \A d \in net, s \in Slots :
        /\ d.command = "CONNECT" /\ ~Known(d)
        /\ shakes[d.greeting.connectID] < MaxShakes /\ peer[s].state = "DISCONNECTED"
        => LET k == NextSession(d.greeting.out, peer[s].in) IN
           /\ ~Speaks(peer, net, d.from, s, k)
           /\ \A v \in net : v.command = "VERIFY_CONNECT" /\ v.greeting.peerID = s =>
                  v.greeting.in # k

LEMMA HandleConnectInv ==
    ASSUME IInv, NotRound, NEW d \in net, handle_connect(d)
    PROVE  IInv'
<1> DEFINE c == d.greeting
           free == {s \in Slots : peer[s].state = "DISCONNECTED"}
           s == CHOOSE f \in free : \A x \in free : f <= x
           x == [state |-> "ACKNOWLEDGING_CONNECT", connectID |-> c.connectID,
                 port |-> d.from, outgoingPeerID |-> c.peerID,
                 out |-> NextSession(c.in, peer[s].out),
                 in |-> NextSession(c.out, peer[s].in),
                 sent |-> {"VERIFY_CONNECT"}, shake |-> shakes[c.connectID] + 1]
           q == [peer EXCEPT ![s] = x]
<1>1. /\ hosting /\ d.command = "CONNECT" /\ ~Known(d)
      /\ free # {} /\ shakes[c.connectID] < MaxShakes
      /\ peer' = q
      /\ shakes' = [shakes EXCEPT ![c.connectID] = @ + 1]
      /\ Arrives(d, {Outgoing(s, x, "VERIFY_CONNECT", "VERIFY_CONNECT")})
      /\ UNCHANGED <<hosting, stops, bound, attempts, reported>>
  BY DEF handle_connect
<1>2. Now /\ Others
  BY DEF IInv
<1>3. s \in Slots /\ peer[s].state = "DISCONNECTED"
  <2>1. free \in SUBSET Nat
    BY EndsApart
  <2>2. \E f \in free : \A y \in free : f <= y
    BY <2>1, <1>1, NatMin
  <2>3. s \in free
    BY <2>2
  <2> QED BY <2>3
<1> HIDE DEF s
<1>4. d.from \in Ports /\ c \in Greeting /\ c.in = Unset /\ c.out = Unset
  BY <1>1, <1>2, NowTypes DEF DatagramShape
<1>5. c.connectID \in IDs /\ c.peerID \in Nat
  BY <1>4 DEF Greeting
<1>6. shakes[c.connectID] \in 0 .. MaxShakes /\ shakes[c.connectID] + 1 \in 0 .. MaxShakes
  BY <1>1, <1>2, <1>5, Bounds DEF Others
<1>7. x.in \in SessionID /\ x.out \in SessionID
  <2>1. peer[s] \in Peer
    BY <1>2, <1>3, NowTypes, EndsApart
  <2> QED BY <2>1, <1>4, PeerFields, NextSessionTyped
<1>8. x \in Peer
  <2>1. {"VERIFY_CONNECT"} \in SUBSET Commands
    BY DEF Commands
  <2> QED BY <2>1, <1>4, <1>5, <1>6, <1>7 DEF Peer, States
<1>9. SlotShape(x)
  BY <1>4, <1>5, <1>7 DEF SlotShape
<1>10. Claims(peer, net, x.connectID, x.port)
  BY <1>1 DEF Claims
<1>11. \A t \in Slots : Open(peer, t) => peer[t].connectID # x.connectID
  <2>1. SUFFICES ASSUME NEW t \in Slots, Open(peer, t), peer[t].connectID = c.connectID
                 PROVE  FALSE
    OBVIOUS
  <2>2. peer[t].port \in Ports
    BY <2>1, <1>2, NowTypes DEF Open, SlotShape
  <2>3. Claims(peer, net, c.connectID, peer[t].port)
    BY <2>1, EndsApart DEF Claims
  <2>4. Claims(peer, net, c.connectID, d.from)
    BY <1>1 DEF Claims
  <2>5. peer[t].port = d.from
    BY <2>2, <2>3, <2>4, <1>2, <1>4, <1>5 DEF Now, CInv, OnePort
  <2> QED BY <2>1, <2>5, <1>1 DEF Known, Open
<1>12. /\ ~Speaks(peer, net, x.port, s, x.in)
       /\ \A v \in net : v.command = "VERIFY_CONNECT" /\ v.greeting.peerID = s =>
              v.greeting.in # x.in
  BY <1>1, <1>3 DEF NotRound
<1>13. CInv(q, net, bound, attempts, reported)
  <2> HIDE DEF x
  <2>1. x.state = "ACKNOWLEDGING_CONNECT"
    BY DEF x
  <2> QED BY <2>1, <1>2, <1>3, <1>8, <1>9, <1>10, <1>11, <1>12, Answered DEF Now
<1>14. s \in Ends /\ s \notin Guests
  BY <1>3, EndsApart
<1>15. q[s] = x /\ MaySay(q, s, "VERIFY_CONNECT")
  <2>1. q[s] = x
    BY <1>2, <1>14, NowTypes
  <2> QED BY <2>1, <1>3, <1>14 DEF MaySay, Open
<1>16. net' \subseteq net \cup {Outgoing(s, q[s], "VERIFY_CONNECT", "VERIFY_CONNECT")}
  BY <1>1, <1>15, ArrivesWithin
<1>17. Now'
  <2> HIDE DEF q
  <2>1. CInv(q, net', bound, attempts, reported)
    BY <1>13, <1>14, <1>15, <1>16, Speak DEF Commands
  <2> QED BY <2>1, <1>1 DEF Now
<1>18. Others'
  <2>1. IsFiniteSet(net') /\ Cardinality(net') <= NetCap
    BY <1>1, <1>2, Singletons, ArrivesBounded
  <2> QED BY <2>1, <1>1, <1>2, <1>5, <1>6 DEF Others
<1> QED BY <1>17, <1>18 DEF IInv

\* A change of one end that reports nothing.
LEMMA Calm ==
    ASSUME NEW p, NEW n, NEW b, NEW a, NEW r, CInv(p, n, b, a, r),
           NEW e \in Ends, NEW x \in Peer,
           e \in Slots => SlotShape(x), e \in Guests => GuestShape(x),
           x.state # "DISCONNECTED" =>
               /\ p[e].state # "DISCONNECTED"
               /\ x.connectID = p[e].connectID /\ x.port = p[e].port
               /\ x.outgoingPeerID = p[e].outgoingPeerID
               /\ x.in = p[e].in /\ x.out = p[e].out /\ x.shake = p[e].shake,
           e \in Guests =>
               \/ x.state \in {"DISCONNECTED", p[e].state}
               \/ p[e].state = "CONNECTED" /\ x.state = "DISCONNECTING",
           e \in Slots =>
               \/ x.state = p[e].state
               \/ x.state = "DISCONNECTED" /\ p[e].state = "ACKNOWLEDGING_CONNECT"
               \/ /\ p[e].state = "CONNECTED" /\ x.state = "ACKNOWLEDGING_DISCONNECT"
                  /\ \A g \in Guests : p[g].state = "CONNECTED" => p[e].port # p[g].port
    PROVE  CInv([p EXCEPT ![e] = x], n, b, a, r)
<1> DEFINE q == [p EXCEPT ![e] = x]
<1>1. p \in [Ends -> Peer] /\ (e \in Slots <=> e \notin Guests)
  BY EndsApart DEF CInv, Typed
<1>2. q \in [Ends -> Peer] /\ q[e] = x /\ \A f \in Ends : f # e => q[f] = p[f]
  BY <1>1, OneEnd
<1>3. Fades(p, q, e) /\ (e \in Guests => Recedes(p, q, e))
  BY <1>1, <1>2 DEF Fades, Recedes, Open, Stays
<1>4. Lessens(p, q)
  BY <1>1, <1>3, OneLessens
<1> HIDE DEF q
<1>5. Shapes(q, n)
  BY <1>2, EndsApart DEF CInv, Shapes
<1>6. \A s \in Slots : /\ Held(q, s) <=> Held(p, s)
                       /\ q[s].state = "ACKNOWLEDGING_CONNECT" =>
                              p[s].state = "ACKNOWLEDGING_CONNECT"
  BY <1>2, EndsApart DEF Held
<1>7. \A s \in Slots : q[s].state = "ACKNOWLEDGING_DISCONNECT" =>
          \/ p[s].state = "ACKNOWLEDGING_DISCONNECT"
          \/ \A g \in Guests : p[g].state = "CONNECTED" => p[s].port # p[g].port
  BY <1>2, EndsApart
<1>8. CInv(q, n, b, a, r)
  BY <1>2, <1>4, <1>5, <1>6, <1>7, FadeCalm
<1> QED BY <1>8 DEF q

\* A guest that calls gives up and its socket is closed.
LEMMA GivenUp ==
    ASSUME NEW p, NEW n, NEW b, NEW a, NEW r, CInv(p, n, b, a, r),
           NEW g \in Guests, p[g].state = "CONNECTING",
           NEW x \in Peer, x.state = "DISCONNECTED", x.sent = {}
    PROVE  CInv([p EXCEPT ![g] = x], n, b \ {p[g].port}, a, r)
<1> DEFINE q == [p EXCEPT ![g] = x]
           P == p[g].port
<1>1. p \in [Ends -> Peer] /\ g \in Ends /\ g \notin Slots
  BY EndsApart DEF CInv, Typed
<1>2. q \in [Ends -> Peer] /\ q[g] = x /\ \A f \in Ends : f # g => q[f] = p[f]
  BY <1>1, OneEnd
<1>3. Fades(p, q, g) /\ Recedes(p, q, g)
  BY <1>2 DEF Fades, Recedes, Open, Stays
<1>4. Lessens(p, q)
  BY <1>1, <1>3, OneLessens
<1>5. CInv(q, n, b, a, r)
  <2>1. GuestShape(x)
    BY DEF GuestShape
  <2> QED BY <1>1, <2>1, Calm
<1> HIDE DEF q
<1>6. /\ \A R, t, k : Speaks(q, n, R, t, k) => Speaks(p, n, R, t, k)
      /\ \A j, R : Claims(q, n, j, R) => Claims(p, n, j, R)
  BY <1>4, FadeSays
<1>7. P \in Ports /\ Calls(p, P)
  BY DEF CInv, Shapes, GuestShape, Calls
<1>8. \A h \in Guests : Open(q, h) => h # g /\ q[h] = p[h] /\ p[h].port # P
  BY <1>2, EndsApart DEF CInv, PortsApart, Open
<1>9. ~Calls(q, P)
  BY <1>8 DEF Calls, Open
<1>10. \A s \in Slots, k \in SessionID : ~Speaks(q, n, P, s, k)
  BY <1>6, <1>7 DEF CInv, CallersSilent
<1>11. \A i \in IDs : r[i] >= 1 => ~Claims(q, n, i, P)
  BY <1>6, <1>7 DEF CInv, ReportedSpoke
<1>12. CInv(q, n, b \ {P}, a, r)
  BY <1>5, <1>8, <1>9, <1>10, <1>11, Closed
<1> QED BY <1>12 DEF q

LEMMA HandleVerifyConnectInv ==
    ASSUME IInv, NEW g \in Guests, NEW d \in net, handle_verify_connect(g, d)
    PROVE  IInv'
<1> DEFINE p == peer[g]
           c == d.greeting
           x == [p EXCEPT !.state = "CONNECTED", !.sent = {}, !.shake = c.shake,
                          !.outgoingPeerID = c.peerID, !.in = c.out, !.out = c.in]
<1>1. /\ Accepts(g, d) /\ d.command = "VERIFY_CONNECT"
      /\ UNCHANGED <<hosting, stops, attempts, shakes, reported>>
  BY DEF handle_verify_connect
<1>2. Now /\ Others
  BY DEF IInv
<1>3. p \in Peer /\ GuestShape(p) /\ g \in Ends /\ g \notin Slots
  BY <1>2, NowTypes, EndsApart
<1>4. c \in Greeting /\ c.peerID \in Slots /\ c.in \in SessionID /\ c.out \in SessionID
  BY <1>1, <1>2, NowTypes DEF DatagramShape
<1>5. CASE /\ p.state = "CONNECTING" /\ c.connectID = p.connectID
           /\ peer' = [peer EXCEPT ![g] = x]
           /\ Arrives(d, {Outgoing(g, x, "ACKNOWLEDGE", "VERIFY_CONNECT")})
           /\ UNCHANGED bound
  <2>1. x.state = "CONNECTED" /\ x.sent = {} /\ x.connectID = p.connectID
        /\ x.port = p.port /\ x.outgoingPeerID = c.peerID /\ x.in = c.out
        /\ x.out = c.in /\ x.shake = c.shake
    BY <1>3 DEF Peer
  <2>2. x \in Peer
    <3>1. c.peerID \in Nat /\ c.shake \in 0 .. MaxShakes
      BY <1>4, EndsApart DEF Greeting
    <3>2. {} \in SUBSET Commands
      OBVIOUS
    <3> QED BY <3>1, <3>2, <1>3, <1>4 DEF Peer, States
  <2> HIDE DEF x
  <2>3. CInv([peer EXCEPT ![g] = x], net, bound, attempts, reported)
    BY <2>1, <2>2, <1>1, <1>2, <1>5, Settled DEF Now
  <2>4. CInv(peer', net, bound, attempts, reported) /\ peer'[g] = x
    BY <2>3, <1>2, <1>3, <1>5, NowTypes
  <2>5. MaySay(peer', g, "ACKNOWLEDGE")
    BY <2>1, <2>4, <1>3 DEF MaySay, Open
  <2>6. net' \subseteq net \cup {Outgoing(g, peer'[g], "ACKNOWLEDGE", "VERIFY_CONNECT")}
    BY <1>5, <2>4, ArrivesWithin
  <2>7. CInv(peer', net', bound, attempts, reported)
    BY <2>4, <2>5, <2>6, <1>3, Speak DEF Commands
  <2>8. IsFiniteSet(net') /\ Cardinality(net') <= NetCap
    BY <1>2, <1>5, Singletons, ArrivesBounded
  <2> QED BY <2>7, <2>8, <1>1, <1>2, <1>5, OthersKept DEF IInv, Now
<1>6. CASE /\ p.state = "CONNECTING" /\ c.connectID # p.connectID
           /\ peer' = [peer EXCEPT ![g] = enet_peer_reset(p)]
           /\ Arrives(d, {}) /\ Close(g)
  <2>1. bound' = bound \ {p.port} /\ net' \subseteq net
    BY <1>6, ArrivesWithin DEF Close
  <2>2. CInv(peer', net, bound', attempts, reported)
    BY <1>2, <1>3, <1>6, <2>1, ResetTyped, GivenUp DEF Now
  <2>3. CInv(peer', net', bound', attempts, reported)
    BY <2>1, <2>2, Forget
  <2>4. IsFiniteSet(net') /\ Cardinality(net') <= NetCap
    BY <1>2, <1>6, Singletons, ArrivesBounded
  <2> QED BY <2>3, <2>4, <1>1, <1>2, OthersKept DEF IInv, Now
<1>7. CASE /\ p.state = "CONNECTED"
           /\ Arrives(d, {Outgoing(g, p, "ACKNOWLEDGE", "VERIFY_CONNECT")})
           /\ UNCHANGED <<peer, bound>>
  <2>1. MaySay(peer, g, "ACKNOWLEDGE")
    BY <1>3, <1>7 DEF MaySay, Open
  <2>2. net' \subseteq net \cup {Outgoing(g, peer[g], "ACKNOWLEDGE", "VERIFY_CONNECT")}
    BY <1>7, ArrivesWithin
  <2>3. CInv(peer, net', bound, attempts, reported)
    BY <1>2, <1>3, <2>1, <2>2, Speak DEF Commands, Now
  <2>4. IsFiniteSet(net') /\ Cardinality(net') <= NetCap
    BY <1>2, <1>7, Singletons, ArrivesBounded
  <2> QED BY <2>3, <2>4, <1>1, <1>2, <1>7, OthersKept DEF IInv, Now
<1> QED BY <1>5, <1>6, <1>7 DEF handle_verify_connect

LEMMA HandleAcknowledgeInv ==
    ASSUME IInv, NEW e \in Ends, NEW d \in net, handle_acknowledge(e, d)
    PROVE  IInv'
<1> DEFINE x == [peer[e] EXCEPT !.sent = @ \ {d.of}]
           y == [x EXCEPT !.state = "CONNECTED"]
<1>1. /\ Accepts(e, d) /\ d.command = "ACKNOWLEDGE" /\ d.of \in peer[e].sent
      /\ Arrives(d, {}) /\ UNCHANGED <<hosting, stops, bound, attempts, shakes>>
  BY DEF handle_acknowledge
<1>2. Now /\ Others
  BY DEF IInv
<1>3. /\ peer[e] \in Peer /\ e \in Slots \cup Guests
      /\ (e \in Slots <=> e \notin Guests)
      /\ e \in Slots => SlotShape(peer[e])
      /\ e \in Guests => GuestShape(peer[e])
  BY <1>2, NowTypes, EndsApart
<1>4. x \in Peer /\ x.sent = peer[e].sent \ {d.of} /\ x.state = peer[e].state
      /\ x.connectID = peer[e].connectID /\ x.port = peer[e].port
      /\ x.outgoingPeerID = peer[e].outgoingPeerID /\ x.in = peer[e].in
      /\ x.out = peer[e].out /\ x.shake = peer[e].shake
  BY <1>3 DEF Peer
<1>5. CInv(peer', net, bound, attempts, reported')
  <2>1. CASE /\ x.state = "ACKNOWLEDGING_CONNECT"
             /\ peer' = [peer EXCEPT ![e] = y] /\ Report(e)
    <3>1. e \in Slots
      BY <2>1, <1>3, <1>4 DEF GuestShape
    <3>2. y \in Peer /\ y.state = "CONNECTED" /\ y.sent = {}
          /\ y.connectID = peer[e].connectID /\ y.port = peer[e].port
          /\ y.outgoingPeerID = peer[e].outgoingPeerID /\ y.in = peer[e].in
          /\ y.out = peer[e].out /\ y.shake = peer[e].shake
      <4>1. x.sent = {}
        BY <2>1, <3>1, <1>1, <1>3, <1>4 DEF SlotShape
      <4> HIDE DEF x
      <4> QED BY <4>1, <1>4 DEF Peer, States
    <3>3. Speaks(peer, net, peer[e].port, e, peer[e].in)
      <4>1. peer[e].outgoingPeerID \in Nat
        BY <2>1, <3>1, <1>3, <1>4 DEF SlotShape
      <4>2. d.from = peer[e].port /\ d.peerID = e /\ d.session = peer[e].in
        BY <3>1, <4>1, <1>1, ConnectionAssumption DEF Accepts, Addressed
      <4> QED BY <4>2, <1>1 DEF Speaks
    <3>4. reported' = [reported EXCEPT ![peer[e].connectID] = @ + 1]
      BY <2>1, <3>1 DEF Report
    <3> HIDE DEF x, y
    <3>5. CInv([peer EXCEPT ![e] = y], net, bound, attempts,
               [reported EXCEPT ![peer[e].connectID] = @ + 1])
      BY <2>1, <3>1, <3>2, <3>3, <1>2, <1>4, Established DEF Now
    <3> QED BY <3>4, <3>5, <2>1
  <2>2. CASE /\ x.state = "DISCONNECTING"
             /\ peer' = [peer EXCEPT ![e] = enet_peer_reset(x)] /\ Report(e)
    <3>1. e \in Guests /\ e \notin Slots
      BY <2>2, <1>3, <1>4 DEF SlotShape
    <3> HIDE DEF x
    <3>2. GuestShape(enet_peer_reset(x))
      BY <1>4, ResetTyped DEF GuestShape
    <3>3. CInv([peer EXCEPT ![e] = enet_peer_reset(x)], net, bound, attempts, reported)
      BY <3>1, <3>2, <1>2, <1>4, ResetTyped, Calm DEF Now
    <3> QED BY <3>1, <3>3, <2>2 DEF Report
  <2>3. CASE /\ x.state = "CONNECTED"
             /\ peer' = [peer EXCEPT ![e] = x] /\ UNCHANGED reported
    <3> HIDE DEF x
    <3>1. e \in Slots => SlotShape(x)
      BY <2>3, <1>3, <1>4 DEF SlotShape
    <3>2. e \in Guests => GuestShape(x)
      BY <2>3, <1>3, <1>4 DEF GuestShape
    <3>3. CInv([peer EXCEPT ![e] = x], net, bound, attempts, reported)
      BY <3>1, <3>2, <2>3, <1>2, <1>4, Calm DEF Now
    <3> QED BY <3>3, <2>3
  <2> QED BY <2>1, <2>2, <2>3 DEF handle_acknowledge
<1>6. net' \subseteq net
  BY <1>1, ArrivesWithin
<1>7. Now'
  BY <1>1, <1>5, <1>6, Forget DEF Now
<1>8. IsFiniteSet(net') /\ Cardinality(net') <= NetCap
  BY <1>1, <1>2, Singletons, ArrivesBounded
<1> QED BY <1>1, <1>2, <1>7, <1>8, OthersKept DEF IInv

LEMMA PingInv == ASSUME IInv, NEW e \in Ends, enet_peer_ping(e) PROVE IInv'
<1> DEFINE x == [peer[e] EXCEPT !.sent = {"PING"}]
<1>1. /\ peer[e].state = "CONNECTED" /\ peer[e].sent = {}
      /\ peer' = [peer EXCEPT ![e].sent = {"PING"}]
      /\ Send(net, {Outgoing(e, peer[e], "PING", "PING")})
      /\ UNCHANGED <<hosting, stops, bound, attempts, shakes, reported>>
  BY DEF enet_peer_ping
<1>2. Now /\ Others
  BY DEF IInv
<1>3. /\ peer[e] \in Peer /\ (e \in Slots <=> e \notin Guests)
      /\ e \in Slots => SlotShape(peer[e])
      /\ e \in Guests => GuestShape(peer[e])
  BY <1>2, NowTypes, EndsApart
<1>4. x \in Peer /\ x.sent = {"PING"} /\ x.state = peer[e].state
      /\ x.connectID = peer[e].connectID /\ x.port = peer[e].port
      /\ x.outgoingPeerID = peer[e].outgoingPeerID /\ x.in = peer[e].in
      /\ x.out = peer[e].out /\ x.shake = peer[e].shake
  <2>1. {"PING"} \in SUBSET Commands
    BY DEF Commands
  <2> QED BY <2>1, <1>3 DEF Peer
<1>5. peer' = [peer EXCEPT ![e] = x]
  BY <1>1, <1>2, NowTypes
<1>6. MaySay(peer, e, "PING")
  BY <1>1, <1>3 DEF MaySay, Open
<1>7. net' \subseteq net \cup {Outgoing(e, peer[e], "PING", "PING")}
  BY <1>1, SendWithin
<1>8. CInv(peer, net', bound, attempts, reported)
  BY <1>2, <1>6, <1>7, Speak DEF Commands, Now
<1>9. CInv(peer', net', bound, attempts, reported)
  <2> HIDE DEF x
  <2>1. e \in Slots => SlotShape(x)
    BY <1>1, <1>3, <1>4 DEF SlotShape
  <2>2. e \in Guests => GuestShape(x)
    BY <1>1, <1>3, <1>4 DEF GuestShape
  <2>3. CInv([peer EXCEPT ![e] = x], net', bound, attempts, reported)
    BY <2>1, <2>2, <1>1, <1>4, <1>8, Calm
  <2> QED BY <2>3, <1>5
<1>10. IsFiniteSet(net') /\ Cardinality(net') <= NetCap
  BY <1>1, <1>2, Singletons, SendBounded
<1> QED BY <1>1, <1>2, <1>9, <1>10, OthersKept DEF IInv, Now

LEMMA HandlePingInv ==
    ASSUME IInv, NEW e \in Ends, NEW d \in net, handle_ping(e, d) PROVE IInv'
<1>1. /\ peer[e].state = "CONNECTED"
      /\ Arrives(d, {Outgoing(e, peer[e], "ACKNOWLEDGE", "PING")})
      /\ UNCHANGED <<hosting, stops, peer, bound, attempts, shakes, reported>>
  BY DEF handle_ping
<1>2. Now /\ Others
  BY DEF IInv
<1>3. MaySay(peer, e, "ACKNOWLEDGE")
  BY <1>1 DEF MaySay, Open
<1>4. net' \subseteq net \cup {Outgoing(e, peer[e], "ACKNOWLEDGE", "PING")}
  BY <1>1, ArrivesWithin
<1>5. CInv(peer, net', bound, attempts, reported)
  BY <1>2, <1>3, <1>4, Speak DEF Commands, Now
<1>6. IsFiniteSet(net') /\ Cardinality(net') <= NetCap
  BY <1>1, <1>2, Singletons, ArrivesBounded
<1> QED BY <1>1, <1>2, <1>5, <1>6, OthersKept DEF IInv, Now

LEMMA TransmitInv == ASSUME IInv, NEW e \in Ends, Transmit(e) PROVE IInv'
<1>1. PICK c \in peer[e].sent : Send(net, {Outgoing(e, peer[e], c, c)})
  BY DEF Transmit
<1>2. UNCHANGED <<hosting, stops, peer, bound, attempts, shakes, reported>>
  BY DEF Transmit
<1>3. Now /\ Others
  BY DEF IInv
<1>4. /\ peer[e] \in Peer /\ (e \in Slots <=> e \notin Guests) /\ e \in Slots \cup Guests
      /\ e \in Slots => SlotShape(peer[e])
      /\ e \in Guests => GuestShape(peer[e])
  BY <1>3, NowTypes, EndsApart
<1>5. c \in Commands
  BY <1>4, PeerFields
<1>6. MaySay(peer, e, c)
  <2>1. CASE e \in Slots
    BY <2>1, <1>1, <1>4 DEF MaySay, Open, SlotShape
  <2>2. CASE e \in Guests
    BY <2>2, <1>1, <1>4 DEF MaySay, Open, GuestShape
  <2> QED BY <2>1, <2>2, <1>4
<1>7. net' \subseteq net \cup {Outgoing(e, peer[e], c, c)}
  BY <1>1, SendWithin
<1>8. CInv(peer, net', bound, attempts, reported)
  BY <1>3, <1>5, <1>6, <1>7, Speak DEF Now
<1>9. IsFiniteSet(net') /\ Cardinality(net') <= NetCap
  BY <1>1, <1>3, Singletons, SendBounded
<1> QED BY <1>2, <1>3, <1>8, <1>9, OthersKept DEF IInv, Now

LEMMA TimeOutInv == ASSUME IInv, NEW e \in Ends, TimeOut(e) PROVE IInv'
<1> DEFINE x == enet_peer_reset(peer[e])
<1>1. /\ peer[e].sent # {} /\ Close(e) /\ UNCHANGED <<hosting, stops, attempts, shakes, net>>
      /\ peer' = [peer EXCEPT ![e] = x]
      /\ IF peer[e].state = "ACKNOWLEDGING_CONNECT" THEN UNCHANGED reported ELSE Report(e)
  BY DEF TimeOut, notify_disconnect
<1>2. Now /\ Others
  BY DEF IInv
<1>3. /\ peer[e] \in Peer /\ (e \in Slots <=> e \notin Guests) /\ e \in Slots \cup Guests
      /\ e \in Slots => SlotShape(peer[e])
      /\ e \in Guests => GuestShape(peer[e])
  BY <1>2, NowTypes, EndsApart
<1>4. x \in Peer /\ x.state = "DISCONNECTED" /\ x.sent = {}
  BY <1>3, ResetTyped
<1> HIDE DEF x
<1>5. SlotShape(x) /\ GuestShape(x)
  BY <1>4 DEF SlotShape, GuestShape
<1>6. CInv(peer', net, bound', attempts, reported')
  <2>1. CASE e \in Slots /\ peer[e].state = "ACKNOWLEDGING_CONNECT"
    <3>1. bound' = bound /\ reported' = reported
      BY <2>1, <1>1 DEF Close
    <3>2. CInv([peer EXCEPT ![e] = x], net, bound, attempts, reported)
      BY <2>1, <1>2, <1>3, <1>4, <1>5, Calm DEF Now
    <3> QED BY <3>1, <3>2, <1>1
  <2>2. CASE e \in Slots /\ peer[e].state # "ACKNOWLEDGING_CONNECT"
    <3>1. peer[e].state = "CONNECTED" /\ Held(peer, e)
      BY <2>2, <1>1, <1>3 DEF SlotShape, Held
    <3>2. bound' = bound
      BY <3>1, <1>1 DEF Close
    <3>3. reported' = [reported EXCEPT ![peer[e].connectID] = @ + 1]
      BY <2>2, <1>1 DEF Report
    <3>4. CInv([peer EXCEPT ![e] = x], net, bound, attempts,
               [reported EXCEPT ![peer[e].connectID] = @ + 1])
      BY <2>2, <3>1, <1>2, <1>4, Released DEF Now
    <3> QED BY <3>2, <3>3, <3>4, <1>1
  <2>3. CASE e \in Guests
    <3>1. reported' = reported
      BY <2>3, <1>1, <1>3 DEF Report
    <3>2. CASE peer[e].state = "CONNECTING"
      <4>1. bound' = bound \ {peer[e].port}
        BY <3>2, <1>1 DEF Close
      <4>2. CInv([peer EXCEPT ![e] = x], net, bound \ {peer[e].port}, attempts, reported)
        BY <3>2, <2>3, <1>2, <1>4, GivenUp DEF Now
      <4> QED BY <4>1, <4>2, <3>1, <1>1
    <3>3. CASE peer[e].state # "CONNECTING"
      <4>1. bound' = bound
        BY <3>3, <1>1 DEF Close
      <4>2. CInv([peer EXCEPT ![e] = x], net, bound, attempts, reported)
        BY <2>3, <1>2, <1>3, <1>4, <1>5, Calm DEF Now
      <4> QED BY <4>1, <4>2, <3>1, <1>1
    <3> QED BY <3>2, <3>3
  <2> QED BY <2>1, <2>2, <2>3, <1>3
<1> QED BY <1>1, <1>2, <1>6 DEF IInv, Now, Others

LEMMA DisconnectInv == ASSUME IInv, NEW g \in Guests, disconnect(g) PROVE IInv'
<1> DEFINE x == [peer[g] EXCEPT !.state = "DISCONNECTING", !.sent = {"DISCONNECT"}]
<1>1. /\ peer[g].state = "CONNECTED"
      /\ peer' = [peer EXCEPT ![g].state = "DISCONNECTING", ![g].sent = {"DISCONNECT"}]
      /\ UNCHANGED <<hosting, stops, bound, attempts, shakes, reported, net>>
  BY DEF disconnect
<1>2. Now /\ Others
  BY DEF IInv
<1>3. peer[g] \in Peer /\ g \notin Slots /\ g \in Ends /\ GuestShape(peer[g])
  BY <1>2, NowTypes, EndsApart
<1>4. x \in Peer /\ x.sent = {"DISCONNECT"} /\ x.state = "DISCONNECTING"
      /\ x.connectID = peer[g].connectID /\ x.port = peer[g].port
      /\ x.outgoingPeerID = peer[g].outgoingPeerID /\ x.in = peer[g].in
      /\ x.out = peer[g].out /\ x.shake = peer[g].shake
  <2>1. {"DISCONNECT"} \in SUBSET Commands
    BY DEF Commands
  <2> QED BY <2>1, <1>3 DEF Peer, States
<1>5. peer' = [peer EXCEPT ![g] = x]
  BY <1>1, <1>2, <1>3, NowTypes
<1> HIDE DEF x
<1>6. GuestShape(x)
  BY <1>1, <1>3, <1>4 DEF GuestShape
<1>7. CInv([peer EXCEPT ![g] = x], net, bound, attempts, reported)
  BY <1>1, <1>2, <1>3, <1>4, <1>6, Calm DEF Now
<1>8. CInv(peer', net, bound, attempts, reported)
  BY <1>5, <1>7
<1> QED BY <1>1, <1>2, <1>8 DEF IInv, Now, Others

LEMMA HandleDisconnectInv ==
    ASSUME IInv, NEW s \in Slots, NEW d \in net, handle_disconnect(s, d) PROVE IInv'
<1>1. /\ Accepts(s, d) /\ d.command = "DISCONNECT" /\ Arrives(d, {})
      /\ UNCHANGED <<hosting, stops, bound, attempts, shakes, reported>>
  BY DEF handle_disconnect
<1>2. Now /\ Others
  BY DEF IInv
<1>3. peer[s] \in Peer /\ s \notin Guests /\ s \in Ends /\ SlotShape(peer[s])
  BY <1>2, NowTypes, EndsApart
<1>4. CInv(peer', net, bound, attempts, reported)
  <2>1. CASE /\ peer[s].state = "CONNECTED"
             /\ peer' = [peer EXCEPT ![s].state = "ACKNOWLEDGING_DISCONNECT", ![s].sent = {}]
    <3> DEFINE x == [peer[s] EXCEPT !.state = "ACKNOWLEDGING_DISCONNECT", !.sent = {}]
    <3>1. x \in Peer /\ x.sent = {} /\ x.state = "ACKNOWLEDGING_DISCONNECT"
          /\ x.connectID = peer[s].connectID /\ x.port = peer[s].port
          /\ x.outgoingPeerID = peer[s].outgoingPeerID /\ x.in = peer[s].in
          /\ x.out = peer[s].out /\ x.shake = peer[s].shake
      <4>1. {} \in SUBSET Commands
        OBVIOUS
      <4> QED BY <4>1, <1>3 DEF Peer, States
    <3>2. peer' = [peer EXCEPT ![s] = x]
      BY <2>1, <1>2, <1>3, NowTypes
    <3> HIDE DEF x
    <3>3. SlotShape(x)
      BY <2>1, <1>3, <3>1 DEF SlotShape
    <3>4. \A g \in Guests : peer[g].state = "CONNECTED" => peer[s].port # peer[g].port
      BY <1>1, <1>2 DEF Accepts, Now, CInv, Gone
    <3>5. CInv([peer EXCEPT ![s] = x], net, bound, attempts, reported)
      BY <2>1, <3>1, <3>3, <3>4, <1>2, <1>3, Calm DEF Now
    <3> QED BY <3>2, <3>5
  <2>2. CASE /\ peer[s].state = "ACKNOWLEDGING_CONNECT"
             /\ peer' = [peer EXCEPT ![s] = enet_peer_reset(@)]
    <3> DEFINE x == enet_peer_reset(peer[s])
    <3>1. x \in Peer /\ x.state = "DISCONNECTED" /\ x.sent = {}
      BY <1>3, ResetTyped
    <3>2. peer' = [peer EXCEPT ![s] = x]
      BY <2>2
    <3> HIDE DEF x
    <3>3. SlotShape(x)
      BY <3>1 DEF SlotShape
    <3>4. CInv([peer EXCEPT ![s] = x], net, bound, attempts, reported)
      BY <2>2, <3>1, <3>3, <1>2, <1>3, Calm DEF Now
    <3> QED BY <3>2, <3>4
  <2> QED BY <2>1, <2>2 DEF handle_disconnect
<1>5. net' \subseteq net /\ IsFiniteSet(net') /\ Cardinality(net') <= NetCap
  BY <1>1, <1>2, Singletons, ArrivesWithin, ArrivesBounded
<1>6. Now'
  BY <1>1, <1>4, <1>5, Forget DEF Now
<1> QED BY <1>1, <1>2, <1>5, <1>6, OthersKept DEF IInv

LEMMA SendAcknowledgementsInv ==
    ASSUME IInv, NEW s \in Slots, send_acknowledgements(s) PROVE IInv'
<1> DEFINE x == enet_peer_reset(peer[s])
<1>1. /\ peer[s].state = "ACKNOWLEDGING_DISCONNECT"
      /\ Send(net, {Outgoing(s, peer[s], "ACKNOWLEDGE", "DISCONNECT")})
      /\ Report(s) /\ peer' = [peer EXCEPT ![s] = x]
      /\ UNCHANGED <<hosting, stops, bound, attempts, shakes>>
  BY DEF send_acknowledgements
<1>2. Now /\ Others
  BY DEF IInv
<1>3. peer[s] \in Peer /\ s \notin Guests /\ s \in Ends
  BY <1>2, NowTypes, EndsApart
<1>4. x \in Peer /\ x.state = "DISCONNECTED" /\ x.sent = {}
  BY <1>3, ResetTyped
<1> HIDE DEF x
<1>5. MaySay(peer, s, "ACKNOWLEDGE")
  BY <1>1, <1>3 DEF MaySay, Open
<1>6. net' \subseteq net \cup {Outgoing(s, peer[s], "ACKNOWLEDGE", "DISCONNECT")}
  BY <1>1, SendWithin
<1>7. CInv(peer, net', bound, attempts, reported)
  BY <1>2, <1>3, <1>5, <1>6, Speak DEF Commands, Now
<1>8. Held(peer, s)
  BY <1>1 DEF Held
<1>9. CInv([peer EXCEPT ![s] = x], net', bound, attempts,
           [reported EXCEPT ![peer[s].connectID] = @ + 1])
  BY <1>4, <1>7, <1>8, Released
<1>10. Now'
  BY <1>1, <1>9 DEF Now, Report
<1>11. IsFiniteSet(net') /\ Cardinality(net') <= NetCap
  BY <1>1, <1>2, Singletons, SendBounded
<1> QED BY <1>1, <1>2, <1>10, <1>11, OthersKept DEF IInv

LEMMA StopInv == ASSUME IInv, stopHosting PROVE IInv'
<1> DEFINE q == [e \in Ends |-> IF e \in Slots THEN NewPeer ELSE peer[e]]
<1>1. /\ hosting /\ stops < MaxStops /\ hosting' = FALSE /\ stops' = stops + 1
      /\ peer' = q
      /\ shakes' = [i \in IDs |-> 0] /\ reported' = [i \in IDs |-> 0]
      /\ net' = IF Late THEN net ELSE {}
      /\ UNCHANGED <<bound, attempts>>
  BY DEF stopHosting
<1>2. Now /\ Others
  BY DEF IInv
<1>3. /\ q \in [Ends -> Peer]
      /\ \A s \in Slots : q[s].state = "DISCONNECTED" /\ q[s].sent = {}
      /\ \A g \in Guests : q[g] = peer[g]
  BY <1>2, NowTypes, EndsApart, NewPeerTyped DEF NewPeer
<1> HIDE DEF q
<1>4. CInv(q, net, bound, attempts, [i \in IDs |-> 0])
  BY <1>2, <1>3, Stopped DEF Now
<1>5. net' \subseteq net
  BY <1>1
<1>6. Now'
  BY <1>1, <1>4, <1>5, Forget DEF Now
<1>7. IsFiniteSet(net') /\ Cardinality(net') <= NetCap
  BY <1>1, <1>2, FS_EmptySet, Bounds DEF Others
<1>8. Others'
  <2>1. hosting' \in BOOLEAN
    BY <1>1
  <2>2. stops' \in 0 .. MaxStops
    BY <1>1, <1>2, Bounds DEF Others
  <2>3. shakes' \in [IDs -> 0 .. MaxShakes]
    BY <1>1, Bounds
  <2> QED BY <2>1, <2>2, <2>3, <1>7 DEF Others
<1> QED BY <1>6, <1>8 DEF IInv

LEMMA LoseInv == ASSUME IInv, Lose PROVE IInv'
<1>1. PICK d \in net : net' = net \ {d}
  BY DEF Lose
<1>2. UNCHANGED <<hosting, stops, peer, bound, attempts, shakes, reported>>
  BY DEF Lose
<1>3. IsFiniteSet(net') /\ Cardinality(net') <= NetCap
  <2>1. IsFiniteSet(net') /\ Cardinality(net') <= Cardinality(net)
    BY <1>1, FS_Subset DEF IInv, Others
  <2>2. Cardinality(net') \in Nat /\ Cardinality(net) \in Nat
    BY <2>1, FS_CardinalityType DEF IInv, Others
  <2> QED BY <2>1, <2>2, Bounds DEF IInv, Others
<1>4. Now'
  BY <1>1, <1>2, Forget DEF IInv, Now
<1> QED BY <1>2, <1>3, <1>4, OthersKept DEF IInv

-----------------------------------------------------------------------------
(* The theorems                                                            *)

LEMMA InitInv == Init => IInv
<1> SUFFICES ASSUME Init PROVE IInv
  OBVIOUS
<1>1. /\ peer = [e \in Ends |-> NewPeer] /\ net = {} /\ bound = {} /\ attempts = 0
      /\ shakes = [i \in IDs |-> 0] /\ reported = [i \in IDs |-> 0]
      /\ hosting = FALSE /\ stops = 0
  BY DEF Init
<1>2. /\ \A e \in Ends : peer[e].state = "DISCONNECTED" /\ peer[e].sent = {}
      /\ peer \in [Ends -> Peer] /\ Slots \subseteq Ends /\ Guests \subseteq Ends
  BY <1>1, NewPeerTyped, EndsApart DEF NewPeer
<1>3. Typed(peer, net, bound, attempts, reported)
  BY <1>1, <1>2, Bounds DEF Typed
<1>4. \A P, s, k : ~Speaks(peer, net, P, s, k)
  BY <1>1, <1>2 DEF Speaks, Stays
<1>5. \A i, P : ~Claims(peer, net, i, P)
  BY <1>1, <1>2 DEF Claims, Open
<1>6. Shapes(peer, net)
  BY <1>1, <1>2 DEF Shapes, SlotShape, GuestShape
<1>7. /\ PortsApart(peer) /\ PortsBound(peer, net, bound)
      /\ CallersSilent(peer, net) /\ OneVoice(peer, net)
      /\ OnePort(peer, net, attempts) /\ OneSlot(peer)
  BY <1>2, <1>4, <1>5
     DEF PortsApart, PortsBound, CallersSilent, OneVoice, OnePort, OneSlot, Open
<1>8. /\ Unreported(attempts, reported) /\ ReportedSpoke(peer, net, bound, reported)
      /\ NotAgain(peer, net, reported) /\ OnlyHere(peer, net)
  BY <1>1, <1>4, <1>5 DEF Unreported, ReportedSpoke, NotAgain, OnlyHere
<1>9. Paired(peer, reported)
  BY <1>1, <1>2 DEF Paired, Held
<1>10. Gone(peer, net) /\ SameTenancy(peer) /\ VerifyTrue(peer, net)
  BY <1>1, <1>2 DEF Gone, SameTenancy, VerifyTrue
<1>11. Others
  <2>0. hosting \in BOOLEAN
    BY Zenon DEF Init
  <2>1. stops \in 0 .. MaxStops
    BY <1>1, Bounds
  <2>2. shakes \in [IDs -> 0 .. MaxShakes]
    BY <1>1, Bounds
  <2>3. IsFiniteSet(net) /\ Cardinality(net) <= NetCap
    BY <1>1, FS_EmptySet, Bounds
  <2> QED BY <2>0, <2>1, <2>2, <2>3 DEF Others
<1> QED BY <1>3, <1>6, <1>7, <1>8, <1>9, <1>10, <1>11 DEF IInv, Now, CInv

LEMMA NextInv == IInv /\ NotRound /\ [Next]_vars => IInv'
<1> SUFFICES ASSUME IInv, NotRound, [Next]_vars PROVE IInv'
  OBVIOUS
<1>1. CASE UNCHANGED vars
  BY <1>1 DEF vars, IInv, Now, Others
<1>2. CASE host
  BY <1>2 DEF host, IInv, Now, Others
<1>3. CASE stopHosting
  BY <1>3, StopInv
<1>4. CASE Lose
  BY <1>4, LoseInv
<1>5. CASE \E g \in Guests : connect(g) \/ disconnect(g)
  BY <1>5, ConnectInv, DisconnectInv
<1>6. CASE \E s \in Slots : send_acknowledgements(s)
  BY <1>6, SendAcknowledgementsInv
<1>7. CASE \E e \in Ends : enet_peer_ping(e) \/ Transmit(e) \/ TimeOut(e)
  BY <1>7, PingInv, TransmitInv, TimeOutInv
<1>8. CASE \E d \in net : handle_connect(d)
  BY <1>8, HandleConnectInv
<1>9. CASE \E d \in net : \E g \in Guests : handle_verify_connect(g, d)
  BY <1>9, HandleVerifyConnectInv
<1>10. CASE \E d \in net : \E s \in Slots : handle_disconnect(s, d)
  BY <1>10, HandleDisconnectInv
<1>11. CASE \E d \in net : \E e \in Ends : handle_acknowledge(e, d) \/ handle_ping(e, d)
  BY <1>11, HandleAcknowledgeInv, HandlePingInv
<1> QED
  BY <1>1, <1>2, <1>3, <1>4, <1>5, <1>6, <1>7, <1>8, <1>9, <1>10, <1>11 DEF Next

\* The invariant holds in every behaviour in which no session ID comes round.
THEOREM Invariance == Spec /\ []NotRound => []IInv
<1> QED BY InitInv, NextInv, PTL DEF Spec

LEMMA IInvPaired == IInv => EventsPaired
<1> SUFFICES ASSUME IInv, NEW i \in IDs
             PROVE  /\ reported[i] <= 2
                    /\ reported[i] = 1 <=>
                          \E s \in Slots :
                             /\ peer[s].connectID = i
                             /\ peer[s].state \in {"CONNECTED", "ACKNOWLEDGING_DISCONNECT"}
  BY DEF EventsPaired
<1> QED BY DEF IInv, Now, CInv, Paired, Held

\* Two ends connected under one connectID: its port is theirs, and speaks to the
\* slot under the slot's session ID.
LEMMA IInvSame == IInv => SameHandshake
<1> SUFFICES ASSUME IInv, NEW i \in IDs, NEW s \in Slots, NEW g \in Guests,
                    Connected(s, i), Connected(g, i)
             PROVE  /\ peer[g].outgoingPeerID = s /\ peer[s].port = peer[g].port
                    /\ peer[s].in = peer[g].out /\ peer[s].out = peer[g].in
                    /\ peer[s].shake = peer[g].shake
  BY DEF SameHandshake
<1>1. /\ peer[s].port \in Ports /\ peer[g].port \in Ports
      /\ peer[g].outgoingPeerID \in Slots /\ peer[g].out \in SessionID
  BY NowTypes DEF IInv, Connected, SlotShape, GuestShape
<1>2. Claims(peer, net, i, peer[s].port) /\ Claims(peer, net, i, peer[g].port)
  BY EndsApart DEF Connected, Claims, Open
<1>3. peer[s].port = peer[g].port
  BY <1>1, <1>2 DEF IInv, Now, CInv, OnePort
<1>4. Speaks(peer, net, peer[s].port, peer[g].outgoingPeerID, peer[g].out)
  BY <1>3 DEF Speaks, Stays, Connected
<1>5. peer[g].outgoingPeerID = s /\ peer[g].out = peer[s].in
  BY <1>1, <1>4 DEF IInv, Now, CInv, OnlyHere, Held, Connected
<1> QED BY <1>3, <1>5 DEF IInv, Now, CInv, SameTenancy, Open, Connected

LEMMA IInvTypes == IInv => TypeOK
<1> SUFFICES ASSUME IInv PROVE TypeOK
  OBVIOUS
<1>1. reported \in [IDs -> 0 .. 2 * MaxShakes]
  <2>1. reported \in [IDs -> Nat] /\ \A i \in IDs : reported[i] <= 2
    BY DEF IInv, Now, CInv, Typed, Paired
  <2> QED BY <2>1, Bounds
<1> QED BY <1>1 DEF TypeOK, IInv, Now, Others, CInv, Typed

LEMMA IInvKicked == IInv => NobodyKicked
<1> SUFFICES ASSUME IInv, NEW s \in Slots, NEW g \in Guests,
                    peer[s].state = "ACKNOWLEDGING_DISCONNECT",
                    Connected(g, peer[s].connectID)
             PROVE  FALSE
  BY IInvTypes DEF NobodyKicked
<1>1. /\ peer[s].port \in Ports /\ peer[s].connectID \in IDs /\ peer[g].port \in Ports
  BY NowTypes DEF IInv, Connected, SlotShape, GuestShape
<1>2. /\ Claims(peer, net, peer[s].connectID, peer[s].port)
      /\ Claims(peer, net, peer[s].connectID, peer[g].port)
  BY EndsApart DEF Connected, Claims, Open
<1>3. peer[s].port = peer[g].port
  BY <1>1, <1>2 DEF IInv, Now, CInv, OnePort
<1> QED BY <1>3 DEF IInv, Now, CInv, Gone, Connected

\* While no session ID comes round, the host's poll sees one CONNECT and then
\* one DISCONNECT per attempt.
THEOREM EventsAlwaysPaired == Spec /\ []NotRound => []EventsPaired
<1> QED BY Invariance, IInvPaired, PTL

\* While no session ID comes round, two ends of one connectID are of one
\* handshake.
THEOREM HandshakeAlwaysSame == Spec /\ []NotRound => []SameHandshake
<1> QED BY Invariance, IInvSame, PTL

\* While no session ID comes round, no slot leaves its guest on a DISCONNECT the
\* guest has not sent in this stay.
THEOREM NobodyEverKicked == Spec /\ []NotRound => []NobodyKicked
<1> QED BY Invariance, IInvKicked, PTL

=============================================================================
