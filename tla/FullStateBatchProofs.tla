------------------------ MODULE FullStateBatchProofs ------------------------
(***************************************************************************)
(* Proofs about the host's loop: whatever the objects and their lengths,   *)
(* it skips none, sends none twice, keeps their order, stays inside the    *)
(* packet's arrays and pairs each object with its own UID; and about the   *)
(* guest, which pairs them again by position.                              *)
(*                                                                         *)
(* The invariant says of every packet, sent or being filled, what makes it *)
(* right by itself (PacketGood), and that the packet being filled holds    *)
(* only objects behind those of the packets sent.  The guest's part, Named,*)
(* rests on it and on UIDs not changing once they are given.               *)
(***************************************************************************)
EXTENDS FullStateBatch, FiniteSetTheorems, SequenceTheorems, TLAPS

\* TypeOK without the guest's variables.
HostType ==
    /\ level \in Seq(Sizes)
    /\ uid \in [Index -> Nat]
    /\ counter \in Nat \ {0}
    /\ at \in {"while", "for", "send", "done"}
    /\ currentIdx \in 0 .. Len(level)
    /\ packet \in Packet
    /\ sent \in Seq(Packet)

\* generateUID has not given the counter's value, and no value twice.
UidsFresh ==
    /\ \A k \in Index : uid[k] < counter
    /\ \A j, k \in Index : uid[j] = uid[k] /\ uid[j] # 0 => j = k

Ascending(s) == \A i, j \in DOMAIN s : i < j => s[i] < s[j]

\* The objects of p are among the first n, in order, with their UIDs of u.
PacketGood(p, n, u) ==
    /\ Len(p.uids) = Len(p.objs)
    /\ \A i \in DOMAIN p.objs : p.objs[i] \in 1 .. n
    /\ \A i \in DOMAIN p.objs : p.uids[i] = u[p.objs[i]] /\ u[p.objs[i]] # 0
    /\ Ascending(p.objs)

Behind(p, q) == \A i \in DOMAIN p.objs, j \in DOMAIN q.objs : p.objs[i] < q.objs[j]

IInv ==
    /\ HostType
    /\ UidsFresh
    /\ WithinBuffer
    /\ \A n \in DOMAIN sent : PacketGood(sent[n], currentIdx, uid)
    /\ \A n, m \in DOMAIN sent : n < m => Behind(sent[n], sent[m])
    /\ Filling => /\ PacketGood(packet, currentIdx, uid)
                  /\ \A n \in DOMAIN sent : Behind(sent[n], packet)
    /\ NoneSkipped

-----------------------------------------------------------------------------

\* ensureTracked gives k a UID no object had and leaves the others' alone.
LEMMA EnsureTrackedFresh ==
    ASSUME HostType, UidsFresh, NEW k \in Index, ensureTracked(k)
    PROVE  /\ uid' \in [Index -> Nat] /\ counter' \in Nat \ {0}
           /\ \A j \in Index : uid'[j] < counter'
           /\ \A i, j \in Index : uid'[i] = uid'[j] /\ uid'[i] # 0 => i = j
           /\ \A j \in Index : uid[j] # 0 => uid'[j] = uid[j]
           /\ uid'[k] # 0
  <1>1. uid \in [Index -> Nat] /\ counter \in Nat \ {0}
    BY DEF HostType
  <1>2. CASE uid[k] # 0
    BY <1>1, <1>2 DEF ensureTracked, UidsFresh
  <1>3. CASE uid[k] = 0
    <2>1. uid' = [uid EXCEPT ![k] = counter] /\ counter' = counter + 1
      BY <1>3 DEF ensureTracked
    <2>2. \A j \in Index : uid'[j] = IF j = k THEN counter ELSE uid[j]
      BY <1>1, <2>1
    <2>3. uid' \in [Index -> Nat] /\ counter' \in Nat \ {0}
      BY <1>1, <2>1
    <2>4. \A j \in Index : uid[j] < counter /\ uid[j] \in Nat
      BY <1>1 DEF UidsFresh
    <2>5. \A i, j \in Index : uid'[i] = uid'[j] /\ uid'[i] # 0 => i = j
      BY <1>1, <2>2, <2>4 DEF UidsFresh
    <2> QED
      BY <1>1, <1>3, <2>1, <2>2, <2>3, <2>4, <2>5
  <1> QED
    BY <1>2, <1>3

\* The invariant holds before the loop's first step.
LEMMA InitIInv == Init => IInv
  <1> SUFFICES ASSUME Init PROVE IInv
    OBVIOUS
  <1>1. PICK n \in 0 .. MaxObjects : level \in [1 .. n -> Sizes]
    BY DEF Init
  <1>2. level \in Seq(Sizes) /\ Len(level) = n /\ Index = 1 .. n
    BY <1>1, BatchAssumption DEF Index
  <1>3. HostType /\ UidsFresh
    BY <1>2, BatchAssumption DEF Init, HostType, UidsFresh, EmptyPacket, Packet
  <1>4. WithinBuffer /\ NoneSkipped
    BY BatchAssumption DEF Init, WithinBuffer, NoneSkipped, EmptyPacket
  <1> QED
    BY <1>3, <1>4 DEF Init, IInv, Filling

\* A good packet stays good when more objects are taken and more get UIDs.
LEMMA StaysGood ==
    ASSUME NEW p \in Packet, NEW n \in Nat, NEW m \in Nat, n <= m, NEW u, NEW v,
           PacketGood(p, n, u), \A k \in 1 .. n : u[k] # 0 => v[k] = u[k]
    PROVE  PacketGood(p, m, v)
  BY DEF PacketGood

\* Appending the next object and its UID to a good packet gives a good one,
\* behind every packet the old one was behind.
LEMMA AppendGood ==
    ASSUME NEW p \in Packet, NEW q \in Packet, NEW n \in Nat, NEW u,
           PacketGood(p, n, u), u[n + 1] # 0,
           q.objs = Append(p.objs, n + 1), q.uids = Append(p.uids, u[n + 1])
    PROVE  /\ PacketGood(q, n + 1, u)
           /\ \A o \in Packet : PacketGood(o, n, u) /\ Behind(o, p) => Behind(o, q)
           /\ \A k : Holds(p, k) => Holds(q, k)
           /\ Holds(q, n + 1)
  <1>1. p.objs \in Seq(Nat) /\ p.uids \in Seq(Nat) /\ Len(p.uids) = Len(p.objs)
    BY DEF Packet, PacketGood
  <1>2. /\ Len(q.objs) = Len(p.objs) + 1 /\ Len(q.uids) = Len(q.objs)
        /\ DOMAIN q.objs = 1 .. Len(p.objs) + 1 /\ DOMAIN p.objs = 1 .. Len(p.objs)
    BY <1>1
  <1>3. /\ \A i \in DOMAIN p.objs : q.objs[i] = p.objs[i] /\ q.uids[i] = p.uids[i]
        /\ q.objs[Len(p.objs) + 1] = n + 1 /\ q.uids[Len(p.objs) + 1] = u[n + 1]
    BY <1>1, <1>2
  <1>4. \A i \in DOMAIN p.objs : p.objs[i] \in 1 .. n
    BY DEF PacketGood
  <1>5. \A i \in DOMAIN q.objs : q.objs[i] \in 1 .. n + 1
    BY <1>1, <1>2, <1>3, <1>4
  <1>6. \A i \in DOMAIN q.objs : q.uids[i] = u[q.objs[i]] /\ u[q.objs[i]] # 0
    <2>1. \A i \in DOMAIN p.objs : p.uids[i] = u[p.objs[i]] /\ u[p.objs[i]] # 0
      BY DEF PacketGood
    <2>2. ASSUME NEW i \in DOMAIN q.objs PROVE i \in DOMAIN p.objs \/ i = Len(p.objs) + 1
      BY <1>1, <1>2
    <2> QED BY <1>3, <2>1, <2>2
  <1>7. \A i \in DOMAIN q.objs :
           i \in DOMAIN p.objs \/ (i = Len(p.objs) + 1 /\ i \notin DOMAIN p.objs)
    BY <1>1, <1>2
  <1>8. Ascending(q.objs)
    <2> SUFFICES ASSUME NEW i \in DOMAIN q.objs, NEW j \in DOMAIN q.objs, i < j
                 PROVE  q.objs[i] < q.objs[j]
      BY DEF Ascending
    <2>1. i \in DOMAIN p.objs
      BY <1>1, <1>2
    <2>2. CASE j \in DOMAIN p.objs
      BY <1>3, <2>1, <2>2 DEF PacketGood, Ascending
    <2>3. CASE j = Len(p.objs) + 1
      BY <1>3, <1>4, <2>1, <2>3
    <2> QED
      BY <1>7, <2>2, <2>3
  <1>9. \A o \in Packet : PacketGood(o, n, u) /\ Behind(o, p) => Behind(o, q)
    <2> SUFFICES ASSUME NEW o \in Packet, PacketGood(o, n, u), Behind(o, p),
                        NEW i \in DOMAIN o.objs, NEW j \in DOMAIN q.objs
                 PROVE  o.objs[i] < q.objs[j]
      BY DEF Behind
    <2>1. o.objs[i] \in 1 .. n
      BY DEF PacketGood
    <2>2. CASE j \in DOMAIN p.objs
      BY <1>3, <2>2 DEF Behind
    <2>3. CASE j = Len(p.objs) + 1
      BY <1>3, <2>1, <2>3
    <2> QED
      BY <1>7, <2>2, <2>3
  <1>10. (\A k : Holds(p, k) => Holds(q, k)) /\ Holds(q, n + 1)
    <2>1. \A i \in DOMAIN p.objs : i \in DOMAIN q.objs
      BY <1>1, <1>2
    <2>2. Len(p.objs) + 1 \in DOMAIN q.objs
      BY <1>1, <1>2
    <2> QED
      BY <1>3, <2>1, <2>2 DEF Holds
  <1> QED
    BY <1>2, <1>5, <1>6, <1>8, <1>9, <1>10 DEF PacketGood

\* A step that only moves the code's place, and not from a packet that is
\* being filled to one that is not, keeps the invariant.
LEMMA MoveKeeps ==
    ASSUME IInv, at' \in {"while", "for", "send", "done"}, Filling' <=> Filling,
           UNCHANGED <<level, uid, counter, currentIdx, packet, sent>>
    PROVE  IInv'
  BY DEF IInv, HostType, UidsFresh, WithinBuffer, Index, Filling, NoneSkipped, Packed

\* The next object goes into the packet.
LEMMA PutObjectKeeps == ASSUME IInv, PutObject PROVE IInv'
  <1> DEFINE k == currentIdx + 1
  <1> USE BatchAssumption
  <1>1. HostType /\ UidsFresh /\ at = "for" /\ at' = "for" /\ sent' = sent /\ level' = level
        /\ currentIdx' = k /\ Len(packet.uids) < BatchMax /\ ensureTracked(k) /\ ~exceeds(k)
    BY DEF PutObject, RoomForMore, IInv
  <1>2. k \in Index /\ currentIdx \in Nat /\ Index = 1 .. Len(level) /\ level[k] \in Nat
    <2>1. level \in Seq(Sizes) /\ currentIdx \in Nat /\ Index = 1 .. Len(level) /\ Len(level) \in Nat
      BY <1>1 DEF HostType, Index
    <2>2. currentIdx < Len(level)
      BY DEF PutObject, RoomForMore
    <2>3. k \in Index
      BY <2>1, <2>2
    <2>4. level[k] \in Sizes
      BY <2>1, <2>3
    <2> QED
      BY <2>1, <2>3, <2>4
  <1>3. /\ uid' \in [Index -> Nat] /\ counter' \in Nat \ {0}
        /\ \A j \in Index : uid'[j] < counter'
        /\ \A i, j \in Index : uid'[i] = uid'[j] /\ uid'[i] # 0 => i = j
        /\ \A j \in Index : uid[j] # 0 => uid'[j] = uid[j]
        /\ uid'[k] # 0
    BY <1>1, <1>2, EnsureTrackedFresh
  <1>4. packet' = [objs |-> Append(packet.objs, k), uids |-> Append(packet.uids, uid'[k]),
                   stringLength |-> packet.stringLength + level[k] + 1]
    BY DEF PutObject
  <1>5. packet.objs \in Seq(Nat) /\ packet.uids \in Seq(Nat) /\ packet.stringLength \in Nat
        /\ packet \in Packet /\ sent \in Seq(Packet)
    BY <1>1 DEF HostType, Packet
  <1>6. packet' \in Packet
    <2>1. k \in Nat /\ uid'[k] \in Nat
      BY <1>2, <1>3
    <2>2. Append(packet.objs, k) \in Seq(Nat)
      BY <1>5, <2>1
    <2>3. Append(packet.uids, uid'[k]) \in Seq(Nat)
      BY <1>5, <2>1
    <2>4. packet.stringLength + level[k] + 1 \in Nat
      BY <1>2, <1>5
    <2> QED
      BY <1>4, <2>2, <2>3, <2>4 DEF Packet
  <1>7. /\ packet'.objs = Append(packet.objs, currentIdx + 1)
        /\ packet'.uids = Append(packet.uids, uid'[currentIdx + 1])
        /\ packet'.stringLength = packet.stringLength + level[k] + 1
    BY <1>4
  <1>8. \A p \in Packet : PacketGood(p, currentIdx, uid) => PacketGood(p, currentIdx, uid')
    <2>1. \A j \in 1 .. currentIdx : uid[j] # 0 => uid'[j] = uid[j]
      BY <1>2, <1>3
    <2> QED
      BY <1>2, <2>1, StaysGood
  <1>9. /\ PacketGood(packet, currentIdx, uid')
        /\ \A n \in DOMAIN sent : PacketGood(sent[n], currentIdx, uid')
        /\ \A n \in DOMAIN sent : sent[n] \in Packet /\ Behind(sent[n], packet)
    BY <1>1, <1>5, <1>8 DEF IInv, Filling
  <1>10. /\ PacketGood(packet', currentIdx + 1, uid')
         /\ \A n \in DOMAIN sent : Behind(sent[n], packet')
         /\ \A j : Holds(packet, j) => Holds(packet', j)
         /\ Holds(packet', currentIdx + 1)
    BY <1>2, <1>3, <1>5, <1>6, <1>7, <1>9, AppendGood
  <1>11. \A n \in DOMAIN sent : PacketGood(sent[n], currentIdx + 1, uid')
    BY <1>2, <1>9, StaysGood
  <1>12. HostType'
    BY <1>1, <1>2, <1>3, <1>5, <1>6 DEF HostType, Index
  <1>13. UidsFresh'
    BY <1>1, <1>3 DEF UidsFresh, Index
  <1>14. WithinBuffer'
    <2>1. packet.stringLength + level[k] + 2 < BufSize
      BY <1>1, <1>2, <1>5 DEF exceeds
    <2>2. packet'.stringLength <= BufSize
      BY <1>2, <1>5, <1>7, <2>1
    <2>3. Len(packet'.uids) = Len(packet.uids) + 1 /\ Len(packet.uids) \in Nat
      BY <1>5, <1>7
    <2>4. Len(packet'.uids) <= BatchMax
      BY <1>1, <2>3
    <2> QED
      BY <2>2, <2>4 DEF WithinBuffer
  <1>15. NoneSkipped'
    <2>1. \A j \in 1 .. currentIdx : Holds(packet, j) \/ \E n \in DOMAIN sent : Holds(sent[n], j)
      BY DEF IInv, NoneSkipped, Packed
    <2>2. \A j \in 1 .. currentIdx + 1 :
             Holds(packet', j) \/ \E n \in DOMAIN sent : Holds(sent[n], j)
      BY <1>2, <1>10, <2>1
    <2> QED
      BY <1>1, <2>2 DEF NoneSkipped, Packed, Filling, Holds
  <1> QED
    BY <1>1, <1>10, <1>11, <1>12, <1>13, <1>14, <1>15 DEF IInv, Filling

\* An object that does not fit gets its UID and stays where it is.
LEMMA BacktrackKeeps == ASSUME IInv, Backtrack PROVE IInv'
  <1> DEFINE k == currentIdx + 1
  <1>1. HostType /\ UidsFresh /\ at = "for" /\ at' = "send" /\ ensureTracked(k)
        /\ UNCHANGED <<level, currentIdx, packet, sent>>
    BY DEF Backtrack, RoomForMore, IInv
  <1>2. k \in Index /\ currentIdx \in Nat /\ Index = 1 .. Len(level)
    BY <1>1 DEF Backtrack, RoomForMore, HostType, Index
  <1>3. /\ uid' \in [Index -> Nat] /\ counter' \in Nat \ {0}
        /\ \A j \in Index : uid'[j] < counter'
        /\ \A i, j \in Index : uid'[i] = uid'[j] /\ uid'[i] # 0 => i = j
        /\ \A j \in Index : uid[j] # 0 => uid'[j] = uid[j]
    BY <1>1, <1>2, EnsureTrackedFresh
  <1>4. \A j \in 1 .. currentIdx : uid[j] # 0 => uid'[j] = uid[j]
    BY <1>2, <1>3
  <1>5. /\ packet \in Packet /\ \A n \in DOMAIN sent : sent[n] \in Packet
        /\ PacketGood(packet, currentIdx, uid)
        /\ \A n \in DOMAIN sent : PacketGood(sent[n], currentIdx, uid)
    BY <1>1 DEF IInv, Filling, HostType
  <1>6. /\ PacketGood(packet, currentIdx, uid')
        /\ \A n \in DOMAIN sent : PacketGood(sent[n], currentIdx, uid')
    BY <1>2, <1>4, <1>5, StaysGood
  <1>7. HostType' /\ UidsFresh'
    BY <1>1, <1>3 DEF HostType, UidsFresh, Index
  <1>8. WithinBuffer' /\ NoneSkipped'
    BY <1>1 DEF IInv, WithinBuffer, NoneSkipped, Packed, Filling, Holds
  <1> QED
    BY <1>1, <1>6, <1>7, <1>8 DEF IInv, Filling

\* The packet joins those sent, behind all of them; an empty one does not.
LEMMA SendPacketKeeps == ASSUME IInv, SendPacket PROVE IInv'
  <1>1. HostType /\ UidsFresh /\ at = "send" /\ at' = "while"
        /\ UNCHANGED <<level, uid, counter, currentIdx, packet>>
        /\ sent' = IF packet.uids # <<>> THEN Append(sent, packet) ELSE sent
    BY DEF SendPacket, IInv
  <1>2. /\ packet \in Packet /\ sent \in Seq(Packet) /\ DOMAIN sent = 1 .. Len(sent)
        /\ Len(sent) \in Nat
    BY <1>1 DEF HostType
  <1>a. /\ PacketGood(packet, currentIdx, uid)
        /\ \A n \in DOMAIN sent : PacketGood(sent[n], currentIdx, uid)
    BY <1>1 DEF IInv, Filling
  <1>b. /\ \A n \in DOMAIN sent : Behind(sent[n], packet)
        /\ \A n, m \in DOMAIN sent : n < m => Behind(sent[n], sent[m])
    BY <1>1 DEF IInv, Filling
  <1>c. \A j \in 1 .. currentIdx : Holds(packet, j) \/ \E n \in DOMAIN sent : Holds(sent[n], j)
    BY DEF IInv, NoneSkipped, Packed
  <1>3. UidsFresh' /\ WithinBuffer' /\ ~Filling'
    BY <1>1 DEF IInv, UidsFresh, WithinBuffer, Index, Filling
  <1>4. CASE packet.uids # <<>>
    <2>0. sent' = Append(sent, packet)
      BY <1>1, <1>4
    <2>1. /\ sent' \in Seq(Packet) /\ DOMAIN sent' = 1 .. Len(sent) + 1
          /\ \A n \in DOMAIN sent : sent'[n] = sent[n]
          /\ sent'[Len(sent) + 1] = packet
      BY <1>2, <2>0
    <2>a. /\ \A n \in DOMAIN sent' : n \in DOMAIN sent \/ n = Len(sent) + 1
          /\ \A n \in DOMAIN sent : n \in DOMAIN sent' /\ n \in Nat /\ n < Len(sent) + 1
      BY <1>2, <2>1
    <2>2. HostType'
      BY <1>1, <2>1 DEF HostType, Index
    <2>3. \A n \in DOMAIN sent' : PacketGood(sent'[n], currentIdx, uid)
      BY <1>a, <2>1, <2>a, Zenon
    <2>4. ASSUME NEW n \in DOMAIN sent', NEW m \in DOMAIN sent', n < m
          PROVE  Behind(sent'[n], sent'[m])
      <3>1. n \in DOMAIN sent
        BY <1>2, <2>1, <2>4
      <3>2. CASE m \in DOMAIN sent
        BY <1>b, <2>1, <2>4, <3>1, <3>2
      <3>3. CASE m = Len(sent) + 1
        BY <1>b, <2>1, <3>1, <3>3, Zenon
      <3> QED
        BY <2>a, <3>2, <3>3
    <2>5. ASSUME NEW j \in 1 .. currentIdx
          PROVE  \E n \in DOMAIN sent' : Holds(sent'[n], j)
      <3>1. CASE Holds(packet, j)
        <4>1. Len(sent) + 1 \in DOMAIN sent'
          BY <1>2, <2>1
        <4> QED
          BY <2>1, <3>1, <4>1, Zenon
      <3>2. CASE \E n \in DOMAIN sent : Holds(sent[n], j)
        BY <2>1, <2>a, <3>2, Zenon
      <3> QED
        BY <1>c, <3>1, <3>2
    <2> QED
      BY <1>1, <1>3, <2>2, <2>3, <2>4, <2>5 DEF IInv, NoneSkipped, Packed, Filling, Holds
  <1>5. CASE packet.uids = <<>>
    <2>1. \A j : ~Holds(packet, j)
      BY <1>2, <1>a, <1>5 DEF Holds, PacketGood, Packet
    <2>2. \A j \in 1 .. currentIdx : \E n \in DOMAIN sent : Holds(sent[n], j)
      BY <1>c, <2>1
    <2>3. HostType' /\ NoneSkipped'
      BY <1>1, <1>5, <2>2 DEF HostType, Index, NoneSkipped, Packed, Holds
    <2> QED
      BY <1>1, <1>a, <1>b, <1>3, <1>5, <2>3 DEF IInv
  <1> QED
    BY <1>4, <1>5

\* A new packet is empty, so it is good and behind every other.
LEMMA StartPacketKeeps == ASSUME IInv, StartPacket PROVE IInv'
  <1>1. HostType /\ UidsFresh /\ at = "while" /\ at' = "for" /\ packet' = EmptyPacket
        /\ UNCHANGED <<level, uid, counter, currentIdx, sent>>
    BY DEF StartPacket, IInv
  <1>2. /\ EmptyPacket.objs = <<>> /\ EmptyPacket.uids = <<>> /\ EmptyPacket.stringLength = 0
        /\ EmptyPacket \in Packet
    BY DEF EmptyPacket, Packet
  <1>3. HostType' /\ UidsFresh'
    BY <1>1, <1>2 DEF HostType, UidsFresh, Index
  <1>4. WithinBuffer'
    BY <1>1, <1>2, BatchAssumption DEF WithinBuffer
  <1>5. PacketGood(EmptyPacket, currentIdx, uid) /\ \A p : Behind(p, EmptyPacket)
    BY <1>2 DEF PacketGood, Behind, Ascending
  <1>6. NoneSkipped'
    BY <1>1 DEF IInv, NoneSkipped, Packed, Filling, Holds
  <1> QED
    BY <1>1, <1>3, <1>4, <1>5, <1>6 DEF IInv, Filling

\* Every step keeps the invariant; the guest's leave the host alone.
LEMMA StepIInv == ASSUME IInv, [Next]_vars PROVE IInv'
  <1>1. CASE StartPacket
    BY <1>1, StartPacketKeeps
  <1>2. CASE Finish
    BY <1>2, MoveKeeps DEF Finish, Filling
  <1>3. CASE PutObject
    BY <1>3, PutObjectKeeps
  <1>4. CASE Backtrack
    BY <1>4, BacktrackKeeps
  <1>5. CASE EndOfPacket
    BY <1>5, MoveKeeps DEF EndOfPacket, Filling
  <1>6. CASE SendPacket
    BY <1>6, SendPacketKeeps
  <1>7. CASE UNCHANGED hostVars
    BY <1>7, MoveKeeps DEF hostVars, Filling, IInv, HostType
  <1> QED
    BY <1>1, <1>2, <1>3, <1>4, <1>5, <1>6, <1>7
    DEF Next, sendFullState, PlaceOwn, onRemoteObjectsBatched, vars

\* IInv is an invariant of the loop.
THEOREM Invariance == Spec => []IInv
  BY InitIInv, StepIInv, PTL DEF Spec

\* Whatever fits and whatever does not, no object the loop has passed is
\* missing from the packets of the full state.
THEOREM NoObjectSkipped == Spec => []NoneSkipped
  <1>1. IInv => NoneSkipped
    BY DEF IInv
  <1> QED
    BY <1>1, Invariance, PTL

\* No object is sent twice, and the order of m_objects is kept.
THEOREM SentInOrder == Spec => []InOrder
  <1>1. IInv => InOrder
    <2> SUFFICES ASSUME IInv, NEW n \in DOMAIN sent, NEW m \in DOMAIN sent,
                        NEW i \in DOMAIN sent[n].objs, NEW j \in DOMAIN sent[m].objs,
                        n < m \/ (n = m /\ i < j)
                 PROVE  sent[n].objs[i] < sent[m].objs[j]
      BY DEF InOrder
    <2>1. CASE n < m
      BY <2>1 DEF IInv, Behind
    <2>2. CASE n = m /\ i < j
      BY <2>2 DEF IInv, PacketGood, Ascending
    <2> QED
      BY <2>1, <2>2
  <1> QED
    BY <1>1, Invariance, PTL

\* The packet's string and UIDs never run over their arrays.
THEOREM BufferSafe == Spec => []WithinBuffer
  <1>1. IInv => WithinBuffer
    BY DEF IInv
  <1> QED
    BY <1>1, Invariance, PTL

\* A UID in a packet is the one of the object at the same place, and no two
\* objects of a full state carry one UID.
UidsMatch ==
    /\ \A n \in DOMAIN sent :
          /\ Len(sent[n].uids) = Len(sent[n].objs)
          /\ \A i \in DOMAIN sent[n].uids : sent[n].uids[i] = uid[sent[n].objs[i]]
    /\ \A j, k \in Index : uid[j] = uid[k] /\ uid[j] # 0 => j = k

\* Each UID sent is that of the object at its place, and names no other.
THEOREM SentWithOwnUid == Spec => []UidsMatch
  <1>1. IInv => UidsMatch
    <2> SUFFICES ASSUME IInv PROVE UidsMatch
      OBVIOUS
    <2>1. \A n \in DOMAIN sent : sent[n].uids \in Seq(Nat) /\ sent[n].objs \in Seq(Nat)
      <3>1. \A n \in DOMAIN sent : sent[n] \in Packet
        BY DEF IInv, HostType
      <3> QED
        BY <3>1 DEF Packet
    <2> QED
      BY <2>1 DEF IInv, UidsFresh, UidsMatch, PacketGood
  <1> QED
    BY <1>1, Invariance, PTL
-----------------------------------------------------------------------------
(* The guest                                                               *)

\* The elements of a finite set of numbers have the ranks 1, 2, ... in it.
LEMMA RankExists ==
    ASSUME NEW S \in SUBSET Nat, IsFiniteSet(S), NEW n \in 1 .. Cardinality(S)
    PROVE  \E i \in S : Cardinality({j \in S : j < i}) + 1 = n
  <1> DEFINE below(i) == {j \in S : j < i}
             rank == [i \in S |-> Cardinality(below(i)) + 1]
             c == Cardinality(S)
  <1>1. \A i \in S : IsFiniteSet(below(i)) /\ Cardinality(below(i)) \in Nat
    <2> SUFFICES ASSUME NEW i \in S
                 PROVE  IsFiniteSet(below(i)) /\ Cardinality(below(i)) \in Nat
      OBVIOUS
    <2>1. below(i) \in SUBSET S
      OBVIOUS
    <2> QED
      BY <2>1, FS_Subset, FS_CardinalityType
  <1>2. c \in Nat
    BY FS_CardinalityType
  <1>3. \A i \in S : Cardinality(below(i)) < c
    <2> SUFFICES ASSUME NEW i \in S PROVE Cardinality(below(i)) < c
      OBVIOUS
    <2>1. below(i) \in SUBSET S /\ i \notin below(i)
      OBVIOUS
    <2>2. below(i) # S
      BY <2>1
    <2>3. Cardinality(below(i)) <= c /\ (c = Cardinality(below(i)) => S = below(i))
      BY <2>1, FS_Subset
    <2> QED
      BY <1>1, <1>2, <2>2, <2>3
  <1>4. rank \in [S -> 1 .. c]
    BY <1>1, <1>2, <1>3
  <1>5. \A i, j \in S : i < j => Cardinality(below(i)) < Cardinality(below(j))
    <2> SUFFICES ASSUME NEW i \in S, NEW j \in S, i < j
                 PROVE  Cardinality(below(i)) < Cardinality(below(j))
      OBVIOUS
    <2>0. i \in Nat /\ j \in Nat /\ \A k \in S : k \in Nat
      OBVIOUS
    <2>a. \A k \in S : k < i => k < j
      BY <2>0
    <2>b. ~(i < i)
      BY <2>0
    <2>1. below(i) \in SUBSET below(j) /\ i \in below(j) /\ i \notin below(i)
      BY <2>a, <2>b, Zenon
    <2>2. below(i) # below(j)
      BY <2>1
    <2>3. /\ Cardinality(below(i)) <= Cardinality(below(j))
          /\ Cardinality(below(j)) = Cardinality(below(i)) => below(j) = below(i)
      BY <1>1, <2>1, FS_Subset
    <2> QED
      BY <1>1, <2>2, <2>3
  <1>6. \A i, j \in S : rank[i] = rank[j] => i = j
    <2> SUFFICES ASSUME NEW i \in S, NEW j \in S, rank[i] = rank[j] PROVE i = j
      OBVIOUS
    <2>1. Cardinality(below(i)) = Cardinality(below(j))
      BY <1>1
    <2>2. ~(i < j) /\ ~(j < i)
      BY <1>1, <1>5, <2>1
    <2> QED
      BY <2>2
  <1>7. rank \in Injection(S, 1 .. c)
    BY <1>4, <1>6 DEF Injection, IsInjective
  <1>8. IsFiniteSet(1 .. c) /\ Cardinality(1 .. c) = c
    BY <1>2, FS_Interval
  <1>9. rank \in Surjection(S, 1 .. c)
    BY <1>7, <1>8, FS_Injection
  <1> QED
    BY <1>9 DEF Surjection

\* What is made of a packet is a sequence of its objects, no more than them.
LEMMA CreatedType ==
    ASSUME NEW p \in Packet
    PROVE  createObjectsFromString(p) \in Seq(Nat)
  <1> DEFINE made == {i \in DOMAIN p.objs : level[p.objs[i]] \notin Rejected}
             c == Cardinality(made)
             nth(n) == CHOOSE i \in made : Cardinality({j \in made : j < i}) + 1 = n
  <1>1. p.objs \in Seq(Nat) /\ DOMAIN p.objs = 1 .. Len(p.objs) /\ Len(p.objs) \in Nat
    BY DEF Packet
  <1>2. IsFiniteSet(made) /\ made \in SUBSET Nat /\ c \in Nat
    <2>1. IsFiniteSet(1 .. Len(p.objs))
      BY <1>1, FS_Interval
    <2> QED
      BY <1>1, <2>1, FS_Subset, FS_CardinalityType
  <1>3. \A n \in 1 .. c : nth(n) \in made
    BY <1>2, RankExists
  <1>4. createObjectsFromString(p) = [n \in 1 .. c |-> p.objs[nth(n)]]
    BY DEF createObjectsFromString
  <1>5. \A i \in made : p.objs[i] \in Nat
    BY <1>1
  <1> HIDE DEF made, nth
  <1>6. \A n \in 1 .. c : p.objs[nth(n)] \in Nat
    BY <1>3, <1>5
  <1> QED
    BY <1>2, <1>4, <1>6

\* If every string makes its object, what is made are the packet's objects.
LEMMA CreatedAll ==
    ASSUME NEW p \in Packet, Rejected = {}
    PROVE  createObjectsFromString(p) = p.objs
  <1> DEFINE made == {i \in DOMAIN p.objs : level[p.objs[i]] \notin Rejected}
             len == Len(p.objs)
             below(i) == {j \in made : j < i}
             nth(n) == CHOOSE i \in made : Cardinality(below(i)) + 1 = n
  <1>1. p.objs \in Seq(Nat) /\ DOMAIN p.objs = 1 .. len /\ len \in Nat
    BY DEF Packet
  <1>2. made = 1 .. len /\ Cardinality(made) = len
    <2>1. made = 1 .. len
      BY <1>1
    <2>2. Cardinality(1 .. len) = len
      BY <1>1, FS_Interval
    <2> HIDE DEF made
    <2> QED
      BY <2>1, <2>2
  <1>3. \A i \in 1 .. len : Cardinality(below(i)) = i - 1
    <2> SUFFICES ASSUME NEW i \in 1 .. len PROVE Cardinality(below(i)) = i - 1
      OBVIOUS
    <2>1. below(i) = 1 .. (i - 1)
      <3> HIDE DEF made
      <3> QED
        BY <1>1, <1>2
    <2>2. Cardinality(1 .. (i - 1)) = i - 1
      BY <1>1, FS_Interval
    <2> HIDE DEF below
    <2> QED
      BY <2>1, <2>2
  <1>4. \A n \in 1 .. len : nth(n) = n
    <2> SUFFICES ASSUME NEW n \in 1 .. len PROVE nth(n) = n
      OBVIOUS
    <2>1. n \in made /\ Cardinality(below(n)) + 1 = n
      BY <1>1, <1>2, <1>3
    <2>2. \A i \in made : Cardinality(below(i)) + 1 = n => i = n
      BY <1>1, <1>2, <1>3
    <2> HIDE DEF made, below
    <2> QED
      BY <2>1, <2>2
  <1>5. createObjectsFromString(p) = [n \in 1 .. len |-> p.objs[nth(n)]]
    <2>1. createObjectsFromString(p) = [n \in 1 .. Cardinality(made) |-> p.objs[nth(n)]]
      BY DEF createObjectsFromString
    <2> HIDE DEF made, nth
    <2> QED
      BY <1>2, <2>1
  <1> HIDE DEF nth
  <1>6. createObjectsFromString(p) = [n \in 1 .. len |-> p.objs[n]]
    BY <1>4, <1>5
  <1>7. p.objs \in [1 .. len -> Nat]
    BY <1>1, LenProperties
  <1> QED
    BY <1>6, <1>7

\* The guest's variables keep their types, and a tracked UID is that of the
\* host's object its object was made from.
GuestType ==
    /\ taken \in 0 .. Len(sent)
    /\ own \in 0 .. MaxOwn
    /\ gobjects \in Seq(Nat)
    /\ gsynced \subseteq Nat \X Nat

\* GuestAligned, and what keeps it while the host goes on: an object that is
\* named has a UID already, so that no step gives it another.
Named ==
    \A s \in gsynced : /\ s[2] \in DOMAIN gobjects
                       /\ gobjects[s[2]] \in Index
                       /\ uid[gobjects[s[2]]] = s[1] /\ s[1] # 0

\* Once given, a UID stays.
LEMMA UidsStay ==
    ASSUME IInv, [Next]_vars
    PROVE  level' = level /\ \A k \in Index : uid[k] # 0 => uid'[k] = uid[k]
  <1>1. HostType /\ UidsFresh
    BY DEF IInv
  <1>2. CASE PutObject \/ Backtrack
    <2> DEFINE k == currentIdx + 1
    <2>1. ensureTracked(k) /\ level' = level /\ k \in Index
      BY <1>1, <1>2 DEF PutObject, Backtrack, RoomForMore, HostType, Index
    <2> QED
      BY <1>1, <2>1, EnsureTrackedFresh
  <1>3. CASE ~(PutObject \/ Backtrack)
    BY <1>3 DEF Next, sendFullState, StartPacket, Finish, EndOfPacket, SendPacket,
                PlaceOwn, onRemoteObjectsBatched, vars, hostVars, guestVars
  <1> QED
    BY <1>2, <1>3

\* Packets that have been sent stay as they are.
LEMMA SentStays ==
    ASSUME IInv, [Next]_vars
    PROVE  Len(sent) <= Len(sent') /\ Len(sent) \in Nat /\ Len(sent') \in Nat
  <1>1. sent \in Seq(Packet) /\ packet \in Packet
    BY DEF IInv, HostType
  <1>2. CASE SendPacket
    BY <1>1, <1>2 DEF SendPacket
  <1>3. CASE ~SendPacket
    BY <1>1, <1>3
    DEF Next, sendFullState, StartPacket, Finish, PutObject, Backtrack, EndOfPacket,
        PlaceOwn, onRemoteObjectsBatched, vars, hostVars
  <1> QED
    BY <1>2, <1>3

\* The guest's handler keeps the types, whatever it makes of a packet.
LEMMA BatchedKeepsType ==
    ASSUME IInv, GuestType, onRemoteObjectsBatched
    PROVE  GuestType'
  <1> DEFINE p == sent[taken + 1]
             created == createObjectsFromString(p)
  <1>1. sent \in Seq(Packet) /\ taken \in Nat /\ taken < Len(sent) /\ Len(sent) \in Nat
    BY DEF IInv, HostType, GuestType, onRemoteObjectsBatched
  <1>2. p \in Packet
    BY <1>1
  <1>3. p.uids \in Seq(Nat) /\ created \in Seq(Nat)
    BY <1>2, CreatedType DEF Packet
  <1>4. /\ gobjects' = gobjects \o created /\ gsynced' = track(p, created)
        /\ taken' = taken + 1 /\ own' = own /\ sent' = sent
    BY DEF onRemoteObjectsBatched, hostVars
  <1> HIDE DEF p, created
  <1>5. gobjects' \in Seq(Nat) /\ Len(gobjects) \in Nat
    BY <1>3, <1>4 DEF GuestType
  <1>6. gsynced' \subseteq Nat \X Nat
    <2> DEFINE toTrack == IF Len(created) < Len(p.uids) THEN Len(created) ELSE Len(p.uids)
    <2>1. toTrack \in Nat /\ toTrack <= Len(p.uids) /\ DOMAIN p.uids = 1 .. Len(p.uids)
          /\ Len(p.uids) \in Nat
      BY <1>3
    <2>2. \A i \in 1 .. toTrack : p.uids[i] \in Nat /\ Len(gobjects) + i \in Nat
      <3> HIDE DEF toTrack
      <3>1. \A i \in 1 .. toTrack : i \in DOMAIN p.uids
        BY <2>1
      <3> QED
        BY <1>3, <1>5, <2>1, <3>1
    <2>3. gsynced' \subseteq gsynced \cup {<<p.uids[i], Len(gobjects) + i>> : i \in 1 .. toTrack}
      BY <1>4 DEF track
    <2> HIDE DEF toTrack
    <2> QED
      BY <2>2, <2>3 DEF GuestType
  <1> QED
    BY <1>1, <1>4, <1>5, <1>6 DEF GuestType

\* Every step keeps the types of the guest.
LEMMA StepGuestType == ASSUME IInv, GuestType, [Next]_vars PROVE GuestType'
  <1>1. CASE onRemoteObjectsBatched
    BY <1>1, BatchedKeepsType
  <1>2. CASE PlaceOwn
    <2>1. own' = own + 1 /\ own < MaxOwn /\ gobjects' = Append(gobjects, 0)
          /\ UNCHANGED <<sent, taken, gsynced>>
      BY <1>2 DEF PlaceOwn, hostVars
    <2>2. own' \in 0 .. MaxOwn
      BY <2>1, BatchAssumption DEF GuestType
    <2>3. gobjects' \in Seq(Nat)
      BY <2>1 DEF GuestType
    <2> QED
      BY <2>1, <2>2, <2>3 DEF GuestType
  <1>3. CASE sendFullState \/ UNCHANGED vars
    <2>1. UNCHANGED guestVars
      BY <1>3 DEF sendFullState, StartPacket, Finish, PutObject, Backtrack, EndOfPacket,
                  SendPacket, vars
    <2>2. Len(sent) <= Len(sent') /\ Len(sent) \in Nat /\ Len(sent') \in Nat
      BY SentStays
    <2> QED
      BY <2>1, <2>2 DEF GuestType, guestVars
  <1> QED
    BY <1>1, <1>2, <1>3 DEF Next

\* If every string makes its object, the handler pairs objects and UIDs that
\* belong together.
LEMMA BatchedKeepsNamed ==
    ASSUME IInv, GuestType, Named, onRemoteObjectsBatched, Rejected = {}
    PROVE  Named'
  <1> DEFINE p == sent[taken + 1]
             len == Len(p.objs)
             count == Len(gobjects)
  <1>1. sent \in Seq(Packet) /\ taken \in Nat /\ taken < Len(sent) /\ Len(sent) \in Nat
    BY DEF IInv, HostType, GuestType, onRemoteObjectsBatched
  <1>2. p \in Packet /\ taken + 1 \in DOMAIN sent
    BY <1>1
  <1>3. PacketGood(p, currentIdx, uid)
    BY <1>2 DEF IInv
  <1>4. /\ gobjects' = gobjects \o p.objs /\ gsynced' = track(p, p.objs)
        /\ uid' = uid /\ level' = level
    BY <1>2, CreatedAll DEF onRemoteObjectsBatched, hostVars
  <1>5. currentIdx \in Nat /\ currentIdx <= Len(level) /\ Index = 1 .. Len(level) /\ Len(level) \in Nat
    BY DEF IInv, HostType, Index
  <1> HIDE DEF p
  <1>6. /\ p.objs \in Seq(Nat) /\ p.uids \in Seq(Nat) /\ Len(p.uids) = len /\ len \in Nat
        /\ DOMAIN p.objs = 1 .. len /\ gobjects \in Seq(Nat) /\ count \in Nat
    BY <1>2, <1>3 DEF Packet, PacketGood, GuestType
  <1>7. /\ Len(gobjects') = count + len /\ DOMAIN gobjects' = 1 .. (count + len)
        /\ \A i \in 1 .. count : gobjects'[i] = gobjects[i]
        /\ \A i \in 1 .. len : gobjects'[count + i] = p.objs[i]
    BY <1>4, <1>6
  <1>8. gsynced' \subseteq gsynced \cup {<<p.uids[i], count + i>> : i \in 1 .. len}
    BY <1>4, <1>6 DEF track
  <1>9. ASSUME NEW s \in gsynced'
        PROVE  /\ s[2] \in DOMAIN gobjects' /\ gobjects'[s[2]] \in Index
               /\ uid[gobjects'[s[2]]] = s[1] /\ s[1] # 0
    <2>1. CASE s \in gsynced
      <3>1. s[2] \in 1 .. count
        BY <1>6, <2>1 DEF Named
      <3>2. s[2] \in DOMAIN gobjects'
        BY <1>6, <1>7, <3>1
      <3> QED
        BY <1>7, <2>1, <3>1, <3>2 DEF Named
    <2>2. CASE \E i \in 1 .. len : s = <<p.uids[i], count + i>>
      <3>1. PICK i \in 1 .. len : s = <<p.uids[i], count + i>>
        BY <2>2
      <3>2. s[1] = p.uids[i] /\ s[2] = count + i /\ s[2] \in DOMAIN gobjects'
        BY <1>6, <1>7, <3>1
      <3>3. gobjects'[s[2]] = p.objs[i]
        BY <1>7, <3>2
      <3>4. p.objs[i] \in 1 .. currentIdx /\ p.uids[i] = uid[p.objs[i]] /\ uid[p.objs[i]] # 0
        BY <1>3, <1>6 DEF PacketGood
      <3>5. p.objs[i] \in Index
        BY <1>5, <3>4
      <3> QED
        BY <3>2, <3>3, <3>4, <3>5
    <2> QED
      BY <1>8, <2>1, <2>2
  <1> QED
    BY <1>4, <1>9 DEF Named, Index

\* Every step keeps what the UIDs name, if every string makes its object.
LEMMA StepNamed ==
    ASSUME IInv, GuestType, Named, [Next]_vars, Rejected = {}
    PROVE  Named'
  <1>1. CASE onRemoteObjectsBatched
    BY <1>1, BatchedKeepsNamed
  <1>2. level' = level /\ \A k \in Index : uid[k] # 0 => uid'[k] = uid[k]
    BY UidsStay
  <1>3. CASE PlaceOwn
    <2>1. gobjects \in Seq(Nat) /\ gobjects' = Append(gobjects, 0) /\ gsynced' = gsynced
      BY <1>3 DEF PlaceOwn, GuestType
    <2>2. \A i \in DOMAIN gobjects : i \in DOMAIN gobjects' /\ gobjects'[i] = gobjects[i]
      BY <2>1
    <2> QED
      BY <1>2, <2>1, <2>2 DEF Named, Index
  <1>4. CASE sendFullState \/ UNCHANGED vars
    <2>1. gsynced' = gsynced /\ gobjects' = gobjects
      BY <1>4 DEF sendFullState, StartPacket, Finish, PutObject, Backtrack, EndOfPacket,
                  SendPacket, vars, guestVars
    <2> QED
      BY <1>2, <2>1 DEF Named, Index
  <1> QED
    BY <1>1, <1>3, <1>4 DEF Next

\* Every variable of the host and the guest keeps its type, whatever lengths
\* are rejected and whenever the guest takes its packets.
THEOREM TypesAlwaysHold == Spec => []TypeOK
  <1>1. Init => IInv /\ GuestType
    <2>1. Init => GuestType
      BY BatchAssumption DEF Init, GuestType
    <2> QED
      BY <2>1, InitIInv
  <1>2. IInv /\ GuestType /\ [Next]_vars => IInv' /\ GuestType'
    BY StepIInv, StepGuestType
  <1>3. IInv /\ GuestType => TypeOK
    BY DEF IInv, HostType, GuestType, TypeOK
  <1> QED
    BY <1>1, <1>2, <1>3, PTL DEF Spec

\* Pairing by position is right: a UID the guest tracks names the copy of the
\* host's object of that UID, if no string of the level is rejected.
THEOREM GuestAlwaysAligned ==
    ASSUME Rejected = {} PROVE Spec => []GuestAligned
  <1>1. Init => IInv /\ GuestType /\ Named
    <2>1. Init => GuestType /\ Named
      BY BatchAssumption DEF Init, GuestType, Named
    <2> QED
      BY <2>1, InitIInv
  <1>2. IInv /\ GuestType /\ Named /\ [Next]_vars => IInv' /\ GuestType' /\ Named'
    BY StepIInv, StepGuestType, StepNamed
  <1>3. IInv /\ Named => GuestAligned
    <2> SUFFICES ASSUME IInv, Named PROVE GuestAligned
      OBVIOUS
    <2>1. 0 \notin Index
      BY DEF IInv, HostType, Index
    <2> QED
      BY <2>1 DEF Named, GuestAligned
  <1> QED
    BY <1>1, <1>2, <1>3, PTL DEF Spec
=============================================================================
