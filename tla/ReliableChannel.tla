-------------------------- MODULE ReliableChannel --------------------------
(***************************************************************************)
(* ENet's reliable delivery on one channel, in one direction of one        *)
(* connection: sequence numbers and their windows, fragments,              *)
(* acknowledgements, time-outs and retransmission, over a network that     *)
(* loses, duplicates and reorders.                                         *)
(*                                                                         *)
(* A command is numbered n = 1, 2, ...; on the wire it carries SeqNo(n),   *)
(* 16 bits in the code, and every test of the code sees only that.  A      *)
(* packet of count fragments takes the numbers start .. start + count - 1. *)
(***************************************************************************)
EXTENDS Naturals, Sequences, FiniteSets, SequencesExt

CONSTANTS
    Windows,        \* ENET_PEER_RELIABLE_WINDOWS
    WindowSize,     \* ENET_PEER_RELIABLE_WINDOW_SIZE
    FreeWindows,    \* ENET_PEER_FREE_RELIABLE_WINDOWS
    DataWindow,     \* commands that fit windowSize
    MaxWaiting,     \* commands that fit maximumWaitingData
    MaxFragments,   \* bound: fragments of a packet
    Start,          \* commands sent, received and acknowledged before
    MaxCommands,    \* bound: commands sent
    QueueCap,       \* bound: commands waiting to be sent
    NetCap, AckCap, \* bounds: commands and acknowledgements in flight
    MaxAge          \* no copy outlives so many newer commands

ASSUME ChannelAssumption ==
    /\ {Windows, WindowSize, FreeWindows, DataWindow, MaxWaiting, MaxFragments,
        MaxCommands, QueueCap, NetCap, AckCap, MaxAge} \subseteq Nat \ {0}
    /\ Start \in 0 .. MaxCommands
    /\ Windows = 2 * FreeWindows /\ FreeWindows > 2 /\ WindowSize > 1
    /\ MaxAge <= FreeWindows * WindowSize /\ MaxFragments <= WindowSize

VARIABLES
    out,        \* outgoingReliableSequenceNumber
    queued,     \* outgoingSendReliableCommands
    sent,       \* sentReliableCommands: sent and not acknowledged
    windows,    \* reliableWindows: sent and not acknowledged, per window
    inTransit,  \* reliableDataInTransit
    sending,    \* in the loop of enet_protocol_check_outgoing_commands
    net,        \* commands in flight
    acks,       \* acknowledgements queued at the receiver or in flight
    in,         \* incomingReliableSequenceNumber
    incoming,   \* incomingReliableCommands
    dispatched  \* dispatchedCommands

sender == <<out, queued, sent, windows, inTransit, sending>>
receiver == <<in, incoming, dispatched>>
vars == <<sender, net, acks, receiver>>

Command == [n : 1 .. MaxCommands, start : 1 .. MaxCommands, count : 1 .. MaxFragments]
Outgoing == [cmd : Command, tried : BOOLEAN]        \* tried: sendAttempts > 0
Incoming == [start : 1 .. MaxCommands, count : 1 .. MaxFragments,
             got : SUBSET (0 .. MaxFragments - 1)]  \* fragments received

TypeOK ==
    /\ out \in 0 .. MaxCommands
    /\ queued \in Seq(Outgoing) /\ sent \in Seq(Outgoing)
    /\ windows \in [0 .. Windows - 1 -> 0 .. WindowSize]
    /\ inTransit \in 0 .. DataWindow /\ sending \in BOOLEAN
    /\ net \subseteq Command /\ acks \subseteq 1 .. MaxCommands
    /\ in \in 0 .. MaxCommands
    /\ incoming \in Seq(Incoming)
    /\ dispatched \in Seq(Incoming)

Modulus == Windows * WindowSize
SeqNo(n) == n % Modulus
Window(n) == SeqNo(n) \div WindowSize

Init ==
    /\ out = Start /\ queued = <<>> /\ sent = <<>>
    /\ windows = [w \in 0 .. Windows - 1 |-> 0] /\ inTransit = 0 /\ sending = FALSE
    /\ net = {} /\ acks = {}
    /\ in = Start /\ incoming = <<>> /\ dispatched = <<>>

-----------------------------------------------------------------------------
(* The sender                                                              *)

\* The i-th of the commands of a packet that is sent now: it gets the next
\* number and no attempt.
setup_outgoing_command(i, count) ==
    [cmd |-> [n |-> out + i, start |-> out + 1, count |-> count], tried |-> FALSE]

\* enet_peer_send: a packet that is longer than a datagram goes as fragments.
enet_peer_send(count) ==
    /\ ~sending
    /\ out + count <= MaxCommands /\ Len(queued) + count <= QueueCap
    /\ out' = out + count
    /\ queued' = queued \o [i \in 1 .. count |-> setup_outgoing_command(i, count)]
    /\ UNCHANGED <<sent, windows, inTransit, sending, net, acks, receiver>>

\* A new window is not entered while the last one is full or one that the
\* numbers have come round to is in use.
windowWrap(o, ws) ==
    /\ ~o.tried /\ SeqNo(o.cmd.n) % WindowSize = 0
    /\ LET at(i) == ws[(Window(o.cmd.n) + i) % Windows] IN
       \/ at(Windows - 1) >= WindowSize
       \/ \E i \in 0 .. FreeWindows + 1 : at(i) > 0

\* The loop goes on: its next command may be sent.
MaySend(queue, ws, transit) ==
    /\ queue # <<>>
    /\ ~windowWrap(Head(queue), ws)
    /\ transit + 1 <= DataWindow

\* A copy goes into flight; copies that are too old, or too many, are lost.
Transmit(c) ==
    LET alive == {d \in net \cup {c} : out - d.n < MaxAge} IN
    IF Cardinality(alive) <= NetCap THEN net' = alive
    ELSE \E d \in alive \ {c} : net' = alive \ {d}

\* The commands at the places in late, or at the others, in their order.
Part(late, isLate) ==
    LET places == {i \in DOMAIN sent : (i \in late) = isLate}
        before(i) == Cardinality({j \in places : j < i})
    IN [k \in 1 .. Cardinality(places) |-> sent[CHOOSE i \in places : before(i) + 1 = k]]

\* Mutant: data that is sent again counts as in transit twice.
check_timeouts_Drifts(late) ==
    /\ ~sending
    /\ queued' = Part(late, TRUE) \o queued
    /\ sent' = Part(late, FALSE)
    /\ sending' = MaySend(queued', windows, inTransit)
    /\ UNCHANGED <<out, windows, inTransit, net, acks, receiver>>

\* enet_protocol_send_outgoing_commands: check_timeouts first puts the
\* commands whose time is over, any of them, at the front of the queue.
check_timeouts(late) ==
    /\ ~sending
    /\ queued' = Part(late, TRUE) \o queued
    /\ sent' = Part(late, FALSE)
    /\ inTransit' = inTransit - Cardinality(late)
    /\ sending' = MaySend(queued', windows, inTransit')
    /\ UNCHANGED <<out, windows, net, acks, receiver>>

\* Mutant: a retransmission counts in its window again.
Counted_Again(o) == [windows EXCEPT ![Window(o.cmd.n)] = @ + 1]

Counted(o) == IF o.tried THEN windows
              ELSE [windows EXCEPT ![Window(o.cmd.n)] = @ + 1]

\* One command of the loop of enet_protocol_check_outgoing_commands.  What a
\* pass sends goes in one datagram: until it is over nobody sees any of it.
check_outgoing_commands ==
    /\ sending
    /\ LET o == Head(queued) IN
       /\ queued' = Tail(queued)
       /\ sent' = Append(sent, [o EXCEPT !.tried = TRUE])
       /\ windows' = Counted(o)
       /\ inTransit' = inTransit + 1
       /\ sending' = MaySend(queued', windows', inTransit')
       /\ Transmit(o.cmd)
    /\ acks' = {a \in acks : out - a < MaxAge}
    /\ UNCHANGED <<out, receiver>>

\* enet_protocol_remove_sent_reliable_command: the places of the command with
\* a's sequence number, among the ones sent or, failing that, the ones that
\* wait to be sent again.
Matching(list, a) ==
    {i \in DOMAIN list : SeqNo(list[i].cmd.n) = SeqNo(a) /\ \A j \in 1 .. i : list[j].tried}

First(S) == CHOOSE i \in S : \A j \in S : i <= j

handle_acknowledge(a) ==
    LET inSent == Matching(sent, a)
        inQueue == Matching(queued, a)
        oneLess == [windows EXCEPT ![Window(a)] = IF @ > 0 THEN @ - 1 ELSE @]
    IN IF inSent # {}
       THEN /\ sent' = RemoveAt(sent, First(inSent))
            /\ inTransit' = inTransit - 1
            /\ windows' = oneLess
            /\ UNCHANGED <<out, queued, sending>>
       ELSE IF inQueue # {}
       THEN /\ queued' = RemoveAt(queued, First(inQueue))
            /\ windows' = oneLess
            /\ UNCHANGED <<out, sent, inTransit, sending>>
       ELSE UNCHANGED sender

ReceiveAck(a) ==
    /\ ~sending /\ a \in acks
    /\ acks' \in {acks, acks \ {a}}
    /\ handle_acknowledge(a)
    /\ UNCHANGED <<net, receiver>>

-----------------------------------------------------------------------------
(* The receiver                                                            *)

\* Windows from the one of incomingReliableSequenceNumber, i, to that of n.
Ahead(i, n) ==
    Window(n) + (IF SeqNo(n) < SeqNo(i) THEN Windows ELSE 0) - Window(i)

InReach(n) == Ahead(in, n) < FreeWindows - 1

Distance(n) == (SeqNo(n) + Modulus - SeqNo(in)) % Modulus

waiting == FoldLeft(LAMBDA t, e : t + e.count, 0, incoming \o dispatched)
Full == waiting >= MaxWaiting

\* Mutant: a packet is complete with one fragment missing.
Complete_Early(e) == Cardinality(e.got) + 1 >= e.count

Complete(e) == Cardinality(e.got) = e.count

\* enet_peer_dispatch_incoming_reliable_commands: the packets at the front of
\* the list that follow each other and are complete.
dispatch_incoming_reliable_commands(list) ==
    LET reached(k) == IF k = 0 THEN in ELSE list[k].start + list[k].count - 1
        next(k) == Complete(list[k]) /\ SeqNo(list[k].start) = SeqNo(reached(k - 1) + 1)
        k == CHOOSE k \in 0 .. Len(list) :
                /\ \A j \in 1 .. k : next(j)
                /\ k < Len(list) => ~next(k + 1)
    IN /\ in' = reached(k)
       /\ incoming' = SubSeq(list, k + 1, Len(list))
       /\ dispatched' = dispatched \o SubSeq(list, 1, k)

\* incomingReliableCommands is kept in the order of the numbers from in on.
Inserted(e) ==
    LET k == CHOOSE k \in 0 .. Len(incoming) :
                /\ \A i \in 1 .. k : Distance(incoming[i].start) < Distance(e.start)
                /\ \A i \in k + 1 .. Len(incoming) : Distance(incoming[i].start) > Distance(e.start)
    IN InsertAt(incoming, k + 1, e)

Places(c) == {i \in DOMAIN incoming : SeqNo(incoming[i].start) = SeqNo(c.start)}

\* What happens to a command; each gives back whether it is acknowledged.
\* Out of reach, or here already: discarded as done with.
Discard(c) ==
    /\ \/ ~InReach(c.start)
       \/ c.count = 1 /\ (SeqNo(c.start) = SeqNo(in) \/ Places(c) # {})
    /\ UNCHANGED receiver

\* No room: the handler fails and the command is not acknowledged.
Refuse(c) ==
    /\ InReach(c.start) /\ Places(c) = {}
    /\ IF SeqNo(c.start) = SeqNo(in) THEN c.count > 1 ELSE Full
    /\ UNCHANGED receiver

\* The first command of its packet.
Enter(c) ==
    /\ InReach(c.start) /\ Places(c) = {}
    /\ SeqNo(c.start) # SeqNo(in) /\ ~Full
    /\ dispatch_incoming_reliable_commands(
          Inserted([start |-> c.start, count |-> c.count, got |-> {c.n - c.start}]))

\* Another fragment of a packet that has been entered.
Fill(c) ==
    /\ InReach(c.start) /\ c.count > 1 /\ Places(c) # {}
    /\ LET i == First(Places(c)) IN
       dispatch_incoming_reliable_commands(
           [incoming EXCEPT ![i].got = @ \cup {c.n - c.start}])

\* Mutant: a command that was out of reach is acknowledged as well.
queue_acknowledgement_Always(n) == acks' = acks \cup {n}

\* enet_peer_queue_acknowledgement: none for a command just out of reach,
\* which has to be sent again; further away it is an old one.
queue_acknowledgement(n) ==
    IF Ahead(in', n) \in {FreeWindows - 1, FreeWindows} THEN UNCHANGED acks
    ELSE \E lost \in SUBSET (acks \ {n}) :
            /\ Cardinality(acks \cup {n}) <= AckCap => lost = {}
            /\ acks' = (acks \cup {n}) \ lost
            /\ Cardinality(acks') <= AckCap

ReceiveCommand(c) ==
    /\ ~sending /\ c \in net
    /\ net' \in {net, net \ {c}}
    /\ \/ (Discard(c) \/ Enter(c) \/ Fill(c)) /\ queue_acknowledgement(c.n)
       \/ Refuse(c) /\ UNCHANGED acks
    /\ UNCHANGED sender

\* enet_peer_receive, from enet_protocol_dispatch_incoming_commands.
enet_peer_receive ==
    /\ ~sending /\ dispatched # <<>>
    /\ dispatched' = Tail(dispatched)
    /\ UNCHANGED <<sender, net, acks, in, incoming>>

\* A datagram is lost.
Lose ==
    /\ ~sending
    /\ \/ \E c \in net : net' = net \ {c} /\ UNCHANGED acks
       \/ \E a \in acks : acks' = acks \ {a} /\ UNCHANGED net
    /\ UNCHANGED <<sender, receiver>>

Next ==
    \/ \E count \in 1 .. MaxFragments : enet_peer_send(count)
    \/ \E late \in SUBSET DOMAIN sent : check_timeouts(late)
    \/ check_outgoing_commands
    \/ \E a \in acks : ReceiveAck(a)
    \/ \E c \in net : ReceiveCommand(c)
    \/ enet_peer_receive \/ Lose

Spec == Init /\ [][Next]_vars

-----------------------------------------------------------------------------
(* Fairness: both processes poll, unacknowledged commands time out, and of *)
(* infinitely many copies that would help the network lets some through.   *)

Held == {sent[i].cmd : i \in DOMAIN sent} \cup {queued[i].cmd : i \in DOMAIN queued}
Outstanding == {c.n : c \in Held}

\* A dispatched packet has the command n, or one being put together has.
Has(n) ==
    \/ n <= in
    \/ \E i \in DOMAIN incoming : LET e == incoming[i] IN
          n >= e.start /\ n - e.start \in e.got

\* The time of the command that was sent first is over.
TimeOut == \E late \in SUBSET DOMAIN sent : (sent # <<>> => 1 \in late) /\ check_timeouts(late)
Oldest(c) == c \in Held /\ \A d \in Held : c.n <= d.n
SendOldest ==
    check_outgoing_commands /\ ~sending' /\ \E c \in net' : Oldest(c)
ReceiveMissing == \E c \in net : ~Has(c.n) /\ ReceiveCommand(c) /\ (Enter(c) \/ Fill(c))
ReceiveOldest == \E c \in net : Oldest(c) /\ ReceiveCommand(c) /\ c.n \in acks'
ReceiveOutstandingAck == \E a \in acks : a \in Outstanding /\ ReceiveAck(a)

FairSpec ==
    /\ Spec
    /\ WF_vars(check_outgoing_commands) /\ WF_vars(enet_peer_receive)
    /\ SF_vars(TimeOut) /\ SF_vars(SendOldest)
    /\ SF_vars(ReceiveMissing) /\ SF_vars(ReceiveOldest)
    /\ SF_vars(ReceiveOutstandingAck)

-----------------------------------------------------------------------------
(* Properties                                                              *)

\* No data is dropped behind an acknowledgement: a command the sender has let
\* go of is at the receiver, as part of a dispatched packet or of one that
\* is being put together.
AckedIsHeld == \A n \in (1 .. out) \ Outstanding : Has(n)

\* The counters that let a new window be entered count what is outstanding:
\* one that drifts up stops the channel for good, one that drifts down lets
\* numbers be used twice.
WindowsExact ==
    /\ inTransit = Len(sent)
    /\ \A w \in 0 .. Windows - 1 :
          windows[w] = Cardinality({i \in DOMAIN sent : Window(sent[i].cmd.n) = w})
                     + Cardinality({i \in DOMAIN queued : queued[i].tried
                                                  /\ Window(queued[i].cmd.n) = w})

\* A packet is the set of its commands.
Contents(e) == {e.start + i : i \in e.got}
Whole(c) == c.start .. c.start + c.count - 1

\* The packets of which a command is held or waits, and in their order.
Pending == {Whole(c) : c \in {d \in Held \cup ToSet(incoming) : d.start > in}}
Lists(s, P) ==
    /\ {s[i] : i \in DOMAIN s} = P
    /\ \A i, j \in DOMAIN s : i < j => \A n \in s[i], m \in s[j] : n < m

\* The packets that have been sent and not yet received: the ones dispatched,
\* with what they have got, and the ones pending.
Undelivered ==
    [i \in DOMAIN dispatched |-> Contents(dispatched[i])]
      \o CHOOSE s \in [1 .. Cardinality(Pending) -> Pending] : Lists(s, Pending)

Fifo == INSTANCE FifoChannel WITH
            Packet <- {Whole([start |-> s, count |-> k]) :
                          s \in 1 .. MaxCommands, k \in 1 .. MaxFragments},
            queue <- Undelivered

\* The channel is a FIFO queue that always empties: the packets come out
\* once, whole and in the order in which they were sent, whatever the network
\* does to their fragments and acknowledgements.
ImplementsFifo == Fifo!FairSpec
=============================================================================
