--------------------------- MODULE FullStateBatch ---------------------------
(***************************************************************************)
(* The loop of SyncManager::sendFullState, which packs the host's objects  *)
(* into OBJECT_BATCH packets, and SyncManager::onRemoteObjectsBatched,     *)
(* which makes them at a guest and pairs them with their UIDs by position. *)
(*                                                                         *)
(* ObjectSync takes a full state in one step, cut into packets in any way  *)
(* that Cuts allows; this module is the loop that cuts it.  An object is   *)
(* its index in m_objects, and what matters of its save string is the      *)
(* length.  The guest is another process: it may take a packet while the   *)
(* host's loop is still running, and its user may place objects meanwhile. *)
(***************************************************************************)
EXTENDS Naturals, FiniteSets, Sequences

CONSTANTS
    Sizes,       \* lengths of save strings
    Rejected,    \* lengths createObjectsFromString makes nothing of
    BufSize,     \* sizeof(packet.objectsString), 16 KB in the code
    BatchMax,    \* UIDs in a packet, 32 in the code
    MaxObjects,  \* bound: objects in the host's level
    MaxOwn       \* bound: objects the guest's user places

ASSUME BatchAssumption ==
    /\ Sizes \subseteq Nat /\ Rejected \subseteq Sizes
    /\ BufSize \in Nat /\ BatchMax \in Nat \ {0}
    /\ MaxObjects \in Nat /\ MaxOwn \in Nat

VARIABLES
    level,      \* the host's m_objects: the length of each object's string
    uid,        \* the host's m_objectToUID; 0: not tracked
    counter,    \* the next UID
    at,         \* where the host's code is
    currentIdx, \* objects taken from level
    packet,     \* the packet being filled
    sent,       \* packets sent
    taken,      \* packets the guest has handled
    own,        \* objects the guest's user placed
    gobjects,   \* the guest's m_objects: what each was made from; 0: its own
    gsynced     \* the guest's m_syncedObjects: <<UID, position in gobjects>>

hostVars == <<level, uid, counter, at, currentIdx, packet, sent>>
guestVars == <<taken, own, gobjects, gsynced>>
vars == <<hostVars, guestVars>>

Index == DOMAIN level
Packet == [objs : Seq(Nat), uids : Seq(Nat), stringLength : Nat]
EmptyPacket == [objs |-> <<>>, uids |-> <<>>, stringLength |-> 0]

TypeOK ==
    /\ level \in Seq(Sizes)
    /\ uid \in [Index -> Nat]
    /\ counter \in Nat \ {0}
    /\ at \in {"while", "for", "send", "done"}
    /\ currentIdx \in 0 .. Len(level)
    /\ packet \in Packet
    /\ sent \in Seq(Packet)
    /\ taken \in 0 .. Len(sent)
    /\ own \in 0 .. MaxOwn
    /\ gobjects \in Seq(Nat)
    /\ gsynced \subseteq Nat \X Nat

-----------------------------------------------------------------------------
(* The host                                                                *)

\* Some objects are tracked when the loop starts.
Init ==
    /\ level \in UNION {[1 .. n -> Sizes] : n \in 0 .. MaxObjects}
    /\ \E tracked \in SUBSET Index : uid = [k \in Index |-> IF k \in tracked THEN k ELSE 0]
    /\ counter = Len(level) + 1
    /\ at = "while" /\ currentIdx = 0 /\ packet = EmptyPacket
    /\ sent = <<>> /\ taken = 0 /\ own = 0 /\ gobjects = <<>> /\ gsynced = {}

\* Mutant: the packet is not cleared before it is filled again.
StartPacket_Reuses ==
    /\ at = "while" /\ currentIdx < Len(level)
    /\ at' = "for"
    /\ UNCHANGED <<level, uid, counter, currentIdx, packet, sent, guestVars>>

StartPacket ==
    /\ at = "while" /\ currentIdx < Len(level)
    /\ at' = "for"
    /\ packet' = EmptyPacket
    /\ UNCHANGED <<level, uid, counter, currentIdx, sent, guestVars>>

Finish ==
    /\ at = "while" /\ currentIdx = Len(level)
    /\ at' = "done"
    /\ UNCHANGED <<level, uid, counter, currentIdx, packet, sent, guestVars>>

\* The test that objString and its ';' would not fit the buffer.
exceeds(k) == packet.stringLength + level[k] + 2 >= BufSize

\* The object at k has a UID from here on, in this packet or the next.
ensureTracked(k) ==
    IF uid[k] # 0 THEN UNCHANGED <<uid, counter>>
    ELSE uid' = [uid EXCEPT ![k] = counter] /\ counter' = counter + 1

\* Mutant: the limit on UIDs is off by one.
RoomForMore_OffByOne ==
    at = "for" /\ Len(packet.uids) <= BatchMax /\ currentIdx < Len(level)

RoomForMore ==
    at = "for" /\ Len(packet.uids) < BatchMax /\ currentIdx < Len(level)

PutObject ==
    LET k == currentIdx + 1 IN
    /\ RoomForMore /\ ~exceeds(k)
    /\ ensureTracked(k)
    /\ currentIdx' = k
    /\ packet' = [objs |-> Append(packet.objs, k),
                  uids |-> Append(packet.uids, uid'[k]),
                  stringLength |-> packet.stringLength + level[k] + 1]
    /\ UNCHANGED <<level, at, sent, guestVars>>

\* Mutant: currentIdx stays advanced, the object is skipped.
Backtrack_Skips ==
    LET k == currentIdx + 1 IN
    /\ RoomForMore /\ exceeds(k)
    /\ ensureTracked(k)
    /\ currentIdx' = k
    /\ at' = "send"
    /\ UNCHANGED <<level, packet, sent, guestVars>>

\* Mutant: currentIdx goes back by two.
Backtrack_Twice ==
    LET k == currentIdx + 1 IN
    /\ RoomForMore /\ exceeds(k)
    /\ ensureTracked(k)
    /\ currentIdx' = currentIdx - 1
    /\ at' = "send"
    /\ UNCHANGED <<level, packet, sent, guestVars>>

\* The object does not fit: left for the next packet.
Backtrack ==
    LET k == currentIdx + 1 IN
    /\ RoomForMore /\ exceeds(k)
    /\ ensureTracked(k)
    /\ at' = "send"
    /\ UNCHANGED <<level, currentIdx, packet, sent, guestVars>>

\* Mutant: a packet that ends with the objects, or with the UIDs, is not sent.
EndOfPacket_Unsent ==
    /\ at = "for" /\ ~RoomForMore
    /\ at' = "while"
    /\ UNCHANGED <<level, uid, counter, currentIdx, packet, sent, guestVars>>

EndOfPacket ==
    /\ at = "for" /\ ~RoomForMore
    /\ at' = "send"
    /\ UNCHANGED <<level, uid, counter, currentIdx, packet, sent, guestVars>>

SendPacket ==
    /\ at = "send"
    /\ at' = "while"
    /\ sent' = IF packet.uids # <<>> THEN Append(sent, packet) ELSE sent
    /\ UNCHANGED <<level, uid, counter, currentIdx, packet, guestVars>>

-----------------------------------------------------------------------------
(* The guest                                                               *)

PlaceOwn ==
    /\ own < MaxOwn
    /\ own' = own + 1
    /\ gobjects' = Append(gobjects, 0)
    /\ UNCHANGED <<hostVars, taken, gsynced>>

\* Mutant: the new objects are looked for from the start of m_objects.
track_FromStart(p, created) ==
    LET toTrack == IF Len(created) < Len(p.uids) THEN Len(created) ELSE Len(p.uids)
        uids == {p.uids[i] : i \in 1 .. toTrack}
    IN {s \in gsynced : s[1] \notin uids} \cup {<<p.uids[i], i>> : i \in 1 .. toTrack}

\* m_syncedObjects once the i-th object made has the i-th UID.
track(p, created) ==
    LET toTrack == IF Len(created) < Len(p.uids) THEN Len(created) ELSE Len(p.uids)
        uids == {p.uids[i] : i \in 1 .. toTrack}
        countBefore == Len(gobjects)
    IN {s \in gsynced : s[1] \notin uids}
       \cup {<<p.uids[i], countBefore + i>> : i \in 1 .. toTrack}

\* The objects of p that are made, in the order of its string.
createObjectsFromString(p) ==
    LET made == {i \in DOMAIN p.objs : level[p.objs[i]] \notin Rejected}
        before(i) == Cardinality({j \in made : j < i})
    IN [n \in 1 .. Cardinality(made) |-> p.objs[CHOOSE i \in made : before(i) + 1 = n]]

onRemoteObjectsBatched ==
    /\ taken < Len(sent)
    /\ LET p == sent[taken + 1]
           created == createObjectsFromString(p)
       IN /\ gsynced' = track(p, created)
          /\ gobjects' = gobjects \o created
    /\ taken' = taken + 1
    /\ UNCHANGED <<hostVars, own>>

sendFullState ==
    StartPacket \/ Finish \/ PutObject \/ Backtrack \/ EndOfPacket \/ SendPacket

Next == sendFullState \/ PlaceOwn \/ onRemoteObjectsBatched

Spec == Init /\ [][Next]_vars

\* The host's loop runs on; the guest polls.
FairSpec == Spec /\ WF_vars(sendFullState) /\ WF_vars(onRemoteObjectsBatched)

-----------------------------------------------------------------------------
(* Properties                                                              *)

\* Objects in packets sent, or in the one being filled and sent next.
Filling == at \in {"for", "send"}
Holds(p, k) == \E i \in DOMAIN p.objs : p.objs[i] = k
Packed(k) == (Filling /\ Holds(packet, k)) \/ \E n \in DOMAIN sent : Holds(sent[n], k)

\* sendFullState skips no object: what the loop has passed is in a packet.
NoneSkipped == \A k \in 1 .. currentIdx : Packed(k)

\* It sends none twice, and keeps the order of m_objects, across packets and
\* within one: a guest would have two copies of an object sent twice.
InOrder ==
    \A n, m \in DOMAIN sent : \A i \in DOMAIN sent[n].objs, j \in DOMAIN sent[m].objs :
        (n < m \/ (n = m /\ i < j)) => sent[n].objs[i] < sent[m].objs[j]

\* memcpy into objectsString stays inside it, strncpy inside uids.
WithinBuffer ==
    packet.stringLength <= BufSize /\ Len(packet.uids) <= BatchMax

\* A UID that the guest tracks names the object made from the host's object
\* of that UID, wherever the guest's own objects came in between.
GuestAligned ==
    \A s \in gsynced : s[2] \in DOMAIN gobjects /\ gobjects[s[2]] # 0
                       /\ uid[gobjects[s[2]]] = s[1]

\* If every object fits a packet of its own, the loop ends, and then the
\* guest gets every object of the level.
EndsComplete ==
    (\A k \in Index : level[k] + 2 < BufSize) =>
        <>(at = "done" /\ \A k \in Index : \E i \in DOMAIN gobjects : gobjects[i] = k)
=============================================================================
