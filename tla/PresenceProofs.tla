--------------------------- MODULE PresenceProofs ---------------------------
(***************************************************************************)
(* Proofs about Presence, for every set of guests, objects and positions:  *)
(* nothing of a session is left in an editor that is out of it, a cursor   *)
(* stays near the mouse it stands for, the guests have what reaches them   *)
(* of the settings the host's user chose, and highlights follow the        *)
(* selections.                                                             *)
(*                                                                         *)
(* Of the packets of one kind under way on a link only the last matters:   *)
(* LastIs says what it is, whatever the others are.  Of a selection every  *)
(* chunk matters: Follows says that what the receiver has collected and    *)
(* what is under way add up to the selection last sent.                    *)
(***************************************************************************)
EXTENDS Presence, FiniteSetTheorems, SequenceTheorems, TLAPS

Types ==
    /\ at \in [Members -> {"new", "fade", "editor", "alone", "gone"}]
    /\ link \in [Links -> Seq(Packet)]
    /\ told \in [Links -> (SUBSET Obj) \cup {None}]
    /\ synced \in [Members -> SUBSET Obj]
    /\ m_remoteSelections \in [Members -> [Members -> Seq(Obj)]]
    /\ m_remoteSelectionHighlights \in [Members -> [Members -> SUBSET Highlight]]
    /\ m_remoteCursors \in [Members -> [Members -> Nat \cup {None}]]
    /\ m_remotePlayers \in [Members -> [Members -> Player \cup {None}]]
    /\ pointer \in [Members -> Positions] /\ m_CursorPos \in [Members -> Positions]
    /\ play \in [Members -> {"no", "alive", "dead"}]
    /\ wasPlaytesting \in [Members -> BOOLEAN]
    /\ settings \in [Members -> LevelSettings] /\ chosen \in LevelSettings /\ unsaid \in BOOLEAN
    /\ topic \in Topics /\ acts \in 0 .. MaxActs

\* The last packet of p's type in q, if there is one, is p.
LastIs(q, p) ==
    \A i \in DOMAIN q :
        q[i].type = p.type /\ (\A j \in DOMAIN q : j > i => q[j].type # p.type) => q[i] = p

Move(s) == [type |-> "MOUSE_MOVE", x |-> m_CursorPos[s] \div 4]

\* Who has not joined yet has heard nothing and said nothing, and who fades
\* in has no settings.
Strangers ==
    /\ \A l \in Links : at[l[1]] = "new" \/ at[l[2]] = "new" =>
          link[l] = <<>> /\ m_remoteCursors[l[2]][l[1]] = None
    /\ \A g \in Guests : at[g] \in {"new", "fade"} => settings[g] = NewLevel
    /\ at[Host] # "new"

\* A cursor is, or is going to be, where the mouse was last sent from, and
\* the mouse is less than two quarters away from there.
Moves ==
    /\ \A m \in Members : Distance(m_CursorPos[m], pointer[m]) < 2
    /\ \A l \in Links : Up(l) =>
          /\ LastIs(link[l], Move(l[1]))
          /\ m_remoteCursors[l[2]][l[1]] # None /\ ~Coming(l, {"MOUSE_MOVE"}) =>
                m_remoteCursors[l[2]][l[1]] = 4 * Move(l[1]).x

\* g has no settings yet, or of those that reach it the chosen ones.
Agrees(g) == settings[g] = NewLevel \/ settings[g]["gamemode"] = chosen["gamemode"]

Said ==
    /\ settings[Host] = chosen
    /\ \A g \in Guests :
          /\ ~Coming(<<g, Host>>, {"LEVEL_SETTINGS"})
          /\ Up(<<Host, g>>) /\ ~unsaid =>
                /\ LastIs(link[<<Host, g>>], onLocalLevelSettingsChanged(Host))
                /\ ~Coming(<<Host, g>>, {"LEVEL_SETTINGS"}) => Agrees(g)

Left ==
    \A v, s \in Members :
        /\ ~InSession(v) => m_remotePlayers[v][s] = None
        /\ at[v] = "gone" => /\ m_remoteCursors[v][s] = None
                             /\ m_remoteSelectionHighlights[v][s] = {}
                             /\ m_remoteSelections[v][s] = <<>>

IInv == Types /\ Strangers /\ Moves /\ Said /\ Left

-----------------------------------------------------------------------------
(* Packets and links                                                       *)

Plain(ps) == \A i \in DOMAIN ps : ps[i].type \notin {"MOUSE_MOVE", "LEVEL_SETTINGS"}

\* A set of UIDs can be put in a row.
LEMMA SetToSeqIsRow == ASSUME NEW S \in SUBSET Obj PROVE SetToSeq(S) \in Seq(Obj)
  <1>1. IsFiniteSet(S)
    BY PresenceAssumption, FS_Subset
  <1>2. Cardinality(S) \in Nat /\ ExistsBijection(1 .. Cardinality(S), S)
    BY <1>1, FS_CardinalityType
  <1>3. \E f \in [1 .. Cardinality(S) -> S] : IsInjective(f)
    BY <1>2 DEF ExistsBijection, Bijection, Injection
  <1>4. SetToSeq(S) \in [1 .. Cardinality(S) -> S]
    BY <1>3 DEF SetToSeq
  <1> QED
    BY <1>2, <1>4

\* Selections go out in well-formed packets of the one type.
LEMMA SelectPacketsPlain ==
    ASSUME NEW uids \in Seq(Obj)
    PROVE  SelectPackets(uids) \in Seq(Packet) /\ Plain(SelectPackets(uids))
  <1>1. CASE uids = <<>>
    BY <1>1 DEF SelectPackets, Packet, Plain
  <1>2. CASE uids # <<>>
    <2> DEFINE n == Len(uids)
               chunks == (n + ChunkSize - 1) \div ChunkSize
               first(k) == (k - 1) * ChunkSize
               end(k) == IF k < chunks THEN k * ChunkSize ELSE n
    <2>1. n \in Nat /\ n > 0 /\ ChunkSize \in Nat /\ ChunkSize > 0
      BY <1>2, PresenceAssumption
    <2>2. chunks \in Nat /\ chunks * ChunkSize <= n + ChunkSize - 1
      BY <2>1
    <2> HIDE DEF n, chunks
    <2>3. ASSUME NEW k \in 1 .. chunks
          PROVE  first(k) \in Nat /\ first(k) < n /\ end(k) \in Nat /\ end(k) <= n
      <3>1. first(k) \in Nat
        BY <2>1
      <3>2. (chunks - k) * ChunkSize >= 0
        BY <2>1, <2>2
      <3>3. first(k) + ChunkSize + (chunks - k) * ChunkSize = chunks * ChunkSize
        BY <2>1, <2>2
      <3>4. first(k) < n
        BY <2>1, <2>2, <3>1, <3>2, <3>3
      <3>5. ASSUME k < chunks PROVE k * ChunkSize \in Nat /\ k * ChunkSize <= n
        <4>1. (chunks - 1 - k) * ChunkSize >= 0
          BY <2>1, <2>2, <3>5
        <4>2. k * ChunkSize + ChunkSize + (chunks - 1 - k) * ChunkSize = chunks * ChunkSize
          BY <2>1, <2>2
        <4> QED
          BY <2>1, <2>2, <4>1, <4>2
      <3> QED
        BY <2>1, <3>1, <3>4, <3>5
    <2> HIDE DEF first, end
    <2>4. ASSUME NEW k \in 1 .. chunks
          PROVE  [type |-> "SELECT_CHANGE", uids |-> SubSeq(uids, first(k) + 1, end(k)),
                  chunkIndex |-> k - 1, hasMore |-> hasMore(first(k), n)] \in Packet
      <3>1. \A i \in (first(k) + 1) .. end(k) : uids[i] \in Obj
        BY <2>1, <2>3 DEF n
      <3>2. first(k) + 1 \in Int /\ end(k) \in Int
        BY <2>3
      <3>2a. SubSeq(uids, first(k) + 1, end(k)) \in Seq(Obj)
        BY <3>1, <3>2, SubSeqProperties, Zenon
      <3>3. k - 1 \in Nat /\ hasMore(first(k), n) \in BOOLEAN
        BY DEF hasMore
      <3> QED
        BY <3>2a, <3>3 DEF Packet
    <2>5. SelectPackets(uids) = [k \in 1 .. chunks |->
            [type |-> "SELECT_CHANGE", uids |-> SubSeq(uids, first(k) + 1, end(k)),
             chunkIndex |-> k - 1, hasMore |-> hasMore(first(k), n)]]
      BY <1>2 DEF SelectPackets, n, chunks, first, end
    <2> QED
      BY <2>2, <2>4, <2>5 DEF Plain
  <1> QED
    BY <1>1, <1>2

\* What the host says of its settings is well formed.
LEMMA SettingsIsPacket ==
    ASSUME Types
    PROVE  /\ onLocalLevelSettingsChanged(Host) \in Packet
           /\ onLocalLevelSettingsChanged(Host).type = "LEVEL_SETTINGS"
           /\ onLocalLevelSettingsChanged(Host).settings["gamemode"] = settings[Host]["gamemode"]
  <1>1. /\ extractLevelSettings(Host) \in LevelSettings
        /\ extractLevelSettings(Host)["gamemode"] = settings[Host]["gamemode"]
    <2>1. settings[Host] \in [Fields -> Nat]
      BY DEF Types, Members, LevelSettings
    <2> QED
      BY <2>1 DEF extractLevelSettings, Fields, LevelSettings
  <1> HIDE DEF LevelSettings
  <1> QED
    BY <1>1 DEF onLocalLevelSettingsChanged, Packet

\* The full state ends with the settings, and has no other.
LEMMA FullStateTells ==
    ASSUME Types
    PROVE  /\ FullState \in Seq(Packet) /\ FullState # <<>>
           /\ onLocalLevelSettingsChanged(Host) \in Packet
           /\ FullState[Len(FullState)] = onLocalLevelSettingsChanged(Host)
           /\ \A i \in DOMAIN FullState :
                 /\ FullState[i].type # "MOUSE_MOVE"
                 /\ FullState[i].type = "LEVEL_SETTINGS" => FullState[i] = onLocalLevelSettingsChanged(Host)
  <1> DEFINE last == onLocalLevelSettingsChanged(Host)
             batch == [type |-> "OBJECT_BATCH", uids |-> synced[Host]]
  <1>1. last \in Packet /\ last.type = "LEVEL_SETTINGS"
    BY SettingsIsPacket
  <1>2. batch \in Packet /\ batch.type = "OBJECT_BATCH"
    BY DEF Types, Members, Packet
  <1>3. last \in Packet /\ last.type # "MOUSE_MOVE" /\ batch.type \notin {"MOUSE_MOVE", "LEVEL_SETTINGS"}
    BY <1>1, <1>2
  <1>4. FullState = (IF synced[Host] = {} THEN <<>> ELSE <<batch>>) \o <<last>>
    BY DEF FullState
  <1> HIDE DEF last, batch
  <1>5. CASE synced[Host] = {}
    <2>1. FullState = <<>> \o <<last>> /\ <<last>> \in Seq(Packet)
      BY <1>3, <1>4, <1>5
    <2>2. FullState = <<last>>
      BY <2>1, ConcatEmptySeq, Zenon
    <2> QED
      BY <1>3, <2>2 DEF last
  <1>6. CASE synced[Host] # {}
    <2>1. FullState = <<batch>> \o <<last>> /\ <<last>> \in Seq(Packet) /\ <<batch>> \in Seq(Packet)
      BY <1>2, <1>3, <1>4, <1>6
    <2>2. /\ FullState \in Seq(Packet) /\ Len(FullState) = 2
          /\ FullState[1] = batch /\ FullState[2] = last
      <3> DEFINE a == <<batch>>
                 b == <<last>>
      <3>1. Len(a) = 1 /\ Len(b) = 1 /\ a[1] = batch /\ b[1] = last
        OBVIOUS
      <3>2. FullState = a \o b /\ a \in Seq(Packet) /\ b \in Seq(Packet)
        BY <2>1
      <3> HIDE DEF a, b
      <3>3. /\ a \o b \in Seq(Packet) /\ Len(a \o b) = Len(a) + Len(b)
            /\ \A i \in 1 .. Len(a) + Len(b) :
                  (a \o b)[i] = IF i <= Len(a) THEN a[i] ELSE b[i - Len(a)]
        BY <3>2, ConcatProperties, Zenon
      <3> QED
        BY <3>1, <3>2, <3>3
    <2>3. last = onLocalLevelSettingsChanged(Host)
      BY DEF last
    <2>4. DOMAIN FullState = {1, 2}
      BY <2>2
    <2>5. FullState # <<>> /\ FullState[Len(FullState)] = last
      <3>1. FullState[Len(FullState)] = last
        BY <2>2
      <3>2. Len(<<>>) = 0 /\ Len(FullState) # 0
        BY <2>2
      <3> QED
        BY <3>1, <3>2, Zenon
    <2>6. \A i \in {1, 2} : /\ FullState[i].type # "MOUSE_MOVE"
                           /\ FullState[i].type = "LEVEL_SETTINGS" => FullState[i] = last
      BY <1>3, <2>2
    <2> QED
      BY <1>3, <2>2, <2>3, <2>4, <2>5, <2>6, Zenon
  <1> QED
    BY <1>5, <1>6

\* One packet that is no settings and no move.
LEMMA OnePlain ==
    ASSUME NEW p \in Packet, p.type \notin {"MOUSE_MOVE", "LEVEL_SETTINGS"}
    PROVE  <<p>> \in Seq(Packet) /\ Plain(<<p>>)
  BY DEF Plain

\* What is added to a link keeps the last packet, or is it.
LEMMA LastAdded ==
    ASSUME NEW q \in Seq(Packet), NEW ps \in Seq(Packet), NEW p \in Packet, LastIs(ps, p),
           LastIs(q, p) \/ \E i \in DOMAIN ps : ps[i].type = p.type
    PROVE  LastIs(q \o ps, p)
  <1> DEFINE r == q \o ps
  <1> SUFFICES ASSUME NEW i \in DOMAIN r, r[i].type = p.type,
                      \A j \in DOMAIN r : j > i => r[j].type # p.type
               PROVE  r[i] = p
    BY DEF LastIs
  <1>1. Len(q) \in Nat /\ Len(ps) \in Nat /\ DOMAIN r = 1 .. (Len(q) + Len(ps))
        /\ DOMAIN q = 1 .. Len(q) /\ DOMAIN ps = 1 .. Len(ps)
    OBVIOUS
  <1>2. /\ \A j \in 1 .. Len(q) : r[j] = q[j]
        /\ \A j \in 1 .. Len(ps) : r[Len(q) + j] = ps[j]
    OBVIOUS
  <1> HIDE DEF r
  <1>3. CASE i > Len(q)
    <2> DEFINE k == i - Len(q)
    <2>1. k \in 1 .. Len(ps) /\ r[i] = ps[k] /\ i = Len(q) + k
      BY <1>1, <1>2, <1>3
    <2> HIDE DEF k
    <2>2. \A j \in DOMAIN ps : j > k => ps[j].type # p.type
      BY <1>1, <1>2, <2>1
    <2> QED
      BY <1>1, <2>1, <2>2 DEF LastIs
  <1>4. CASE i <= Len(q)
    <2>1. i \in DOMAIN q /\ r[i] = q[i]
      BY <1>1, <1>2, <1>4
    <2>2. \A j \in DOMAIN ps : ps[j].type # p.type
      <3> SUFFICES ASSUME NEW j \in DOMAIN ps PROVE ps[j].type # p.type
        OBVIOUS
      <3>1. Len(q) + j \in DOMAIN r /\ Len(q) + j > i
        BY <1>1, <1>4
      <3> QED
        BY <1>1, <1>2, <3>1
    <2>3. LastIs(q, p)
      BY <2>2
    <2>4. \A j \in DOMAIN q : j > i => q[j].type # p.type
      BY <1>1, <1>2
    <2> QED
      BY <2>1, <2>3, <2>4 DEF LastIs
  <1> QED
    BY <1>1, <1>3, <1>4

\* The packets that wait behind the first keep the last.
LEMMA LastOfTail ==
    ASSUME NEW q \in Seq(Packet), q # <<>>, NEW p \in Packet, LastIs(q, p)
    PROVE  LastIs(Tail(q), p)
  <1>1. /\ Tail(q) \in Seq(Packet) /\ Len(Tail(q)) = Len(q) - 1 /\ Len(q) \in Nat
        /\ \A i \in 1 .. Len(Tail(q)) : Tail(q)[i] = q[i + 1]
    BY HeadTailProperties
  <1> SUFFICES ASSUME NEW i \in DOMAIN Tail(q), Tail(q)[i].type = p.type,
                      \A j \in DOMAIN Tail(q) : j > i => Tail(q)[j].type # p.type
               PROVE  Tail(q)[i] = p
    BY DEF LastIs
  <1>2. i \in 1 .. (Len(q) - 1) /\ i + 1 \in DOMAIN q /\ Tail(q)[i] = q[i + 1]
    BY <1>1
  <1>3. ASSUME NEW j \in DOMAIN q, j > i + 1 PROVE q[j].type # p.type
    <2>1. j - 1 \in DOMAIN Tail(q) /\ j - 1 > i /\ Tail(q)[j - 1] = q[j]
      BY <1>1, <1>2, <1>3
    <2> QED
      BY <2>1
  <1> QED
    BY <1>2, <1>3 DEF LastIs

\* The first is the last when there is no other.
LEMMA LastIsHead ==
    ASSUME NEW q \in Seq(Packet), q # <<>>, NEW p \in Packet, LastIs(q, p),
           Head(q).type = p.type,
           \A i \in DOMAIN Tail(q) : Tail(q)[i].type # p.type
    PROVE  Head(q) = p
  <1>1. /\ Tail(q) \in Seq(Packet) /\ Len(Tail(q)) = Len(q) - 1 /\ Len(q) \in Nat /\ Len(q) > 0
        /\ \A i \in 1 .. Len(Tail(q)) : Tail(q)[i] = q[i + 1]
    BY HeadTailProperties
  <1>2. 1 \in DOMAIN q /\ Head(q) = q[1]
    BY <1>1
  <1>3. ASSUME NEW j \in DOMAIN q, j > 1 PROVE q[j].type # p.type
    <2>1. j - 1 \in DOMAIN Tail(q) /\ Tail(q)[j - 1] = q[j]
      BY <1>1, <1>3
    <2> QED
      BY <2>1
  <1> QED
    BY <1>2, <1>3 DEF LastIs

\* From q to r nothing happens to the packets of a type: q stays, packets of
\* other types are added, or one of them is taken.
Quiet(q, r, t) ==
    \/ r = q
    \/ \E ps \in Seq(Packet) : (\A i \in DOMAIN ps : ps[i].type # t) /\ r = q \o ps
    \/ q # <<>> /\ Head(q).type # t /\ r = Tail(q)

Holds(q, t) == \E i \in DOMAIN q : q[i].type = t

\* What is quiet for a type leaves the last packet of it, if there was one.
LEMMA QuietKeepsLast ==
    ASSUME NEW q \in Seq(Packet), NEW r, NEW p \in Packet, Quiet(q, r, p.type), LastIs(q, p)
    PROVE  LastIs(r, p) /\ (Holds(q, p.type) => Holds(r, p.type))
  <1>1. CASE r = q
    BY <1>1
  <1>2. CASE \E ps \in Seq(Packet) : (\A i \in DOMAIN ps : ps[i].type # p.type) /\ r = q \o ps
    <2>1. PICK ps \in Seq(Packet) : (\A i \in DOMAIN ps : ps[i].type # p.type) /\ r = q \o ps
      BY <1>2
    <2>2. LastIs(ps, p)
      BY <2>1 DEF LastIs
    <2>3. LastIs(r, p)
      BY <2>1, <2>2, LastAdded
    <2>4. \A i \in DOMAIN q : i \in DOMAIN r /\ r[i] = q[i]
      BY <2>1
    <2> QED
      BY <2>3, <2>4 DEF Holds
  <1>3. CASE q # <<>> /\ Head(q).type # p.type /\ r = Tail(q)
    <2>1. LastIs(r, p)
      BY <1>3, LastOfTail
    <2>2. /\ Len(q) \in Nat /\ DOMAIN q = 1 .. Len(q) /\ DOMAIN Tail(q) = 1 .. (Len(q) - 1)
          /\ \A i \in 1 .. (Len(q) - 1) : Tail(q)[i] = q[i + 1]
          /\ Head(q) = q[1]
      BY <1>3
    <2>3. ASSUME NEW i \in DOMAIN q, q[i].type = p.type PROVE Holds(r, p.type)
      <3>1. i # 1
        BY <1>3, <2>2, <2>3
      <3>2. i - 1 \in DOMAIN r /\ r[i - 1] = q[i]
        BY <1>3, <2>2, <3>1
      <3> QED
        BY <2>3, <3>2 DEF Holds
    <2> QED
      BY <2>1, <2>3 DEF Holds
  <1> QED
    BY <1>1, <1>2, <1>3 DEF Quiet

\* What a mouse says is well formed.
LEMMA MoveIsPacket ==
    ASSUME Types, NEW s \in Members
    PROVE  Move(s) \in Packet /\ Move(s).type = "MOUSE_MOVE" /\ Move(s).x = m_CursorPos[s] \div 4
  <1>1. m_CursorPos[s] \in Nat
    BY PresenceAssumption DEF Types
  <1>2. m_CursorPos[s] \div 4 \in Nat
    BY <1>1
  <1> HIDE DEF Packet
  <1>3. [type |-> "MOUSE_MOVE", x |-> m_CursorPos[s] \div 4] \in Packet
    BY <1>2 DEF Packet
  <1> QED
    BY <1>3 DEF Move

-----------------------------------------------------------------------------
(* What keeps cursors and settings true                                    *)

\* No move on a link that stays up.
LEMMA MovesKept ==
    ASSUME Types, Moves, UNCHANGED mouse,
           \A l \in Links : Up(l)' =>
               /\ Up(l) /\ Quiet(link[l], link'[l], "MOUSE_MOVE")
               /\ m_remoteCursors'[l[2]][l[1]] = m_remoteCursors[l[2]][l[1]]
    PROVE  Moves'
  <1>1. \A m \in Members : (Distance(m_CursorPos[m], pointer[m]) < 2)'
    BY DEF Moves, mouse
  <1>2. \A s : Move(s)' = Move(s)
    BY DEF Move, mouse
  <1> SUFFICES ASSUME NEW l \in Links, Up(l)'
               PROVE  /\ LastIs(link'[l], Move(l[1])')
                      /\ m_remoteCursors'[l[2]][l[1]] # None /\ ~Coming(l, {"MOUSE_MOVE"})' =>
                            m_remoteCursors'[l[2]][l[1]] = 4 * Move(l[1])'.x
    BY <1>1 DEF Moves
  <1>3. l[1] \in Members /\ link[l] \in Seq(Packet)
    BY DEF Links, Members, Types
  <1>4. Move(l[1]) \in Packet /\ Move(l[1]).type = "MOUSE_MOVE"
    BY <1>3, MoveIsPacket
  <1>5. LastIs(link'[l], Move(l[1])) /\ (Holds(link[l], "MOUSE_MOVE") => Holds(link'[l], "MOUSE_MOVE"))
    <2>1. Quiet(link[l], link'[l], Move(l[1]).type) /\ LastIs(link[l], Move(l[1]))
      BY <1>4 DEF Moves
    <2>2. /\ LastIs(link'[l], Move(l[1]))
          /\ (Holds(link[l], Move(l[1]).type) => Holds(link'[l], Move(l[1]).type))
      BY <1>3, <1>4, <2>1, QuietKeepsLast, Zenon
    <2> QED
      BY <1>4, <2>2
  <1> QED
    BY <1>2, <1>5 DEF Moves, Coming, Holds

\* Nothing of the settings on a link that stays up, and a guest speaks of
\* something else.
LEMMA SaidKept ==
    ASSUME Types, Said, UNCHANGED level,
           \A g \in Guests :
               /\ \A i \in DOMAIN link'[<<g, Host>>] : link'[<<g, Host>>][i].type # "LEVEL_SETTINGS"
               /\ Up(<<Host, g>>)' =>
                    Up(<<Host, g>>) /\ Quiet(link[<<Host, g>>], link'[<<Host, g>>], "LEVEL_SETTINGS")
    PROVE  Said'
  <1> DEFINE told_ == onLocalLevelSettingsChanged(Host)
  <1>1. told_' = told_ /\ (settings[Host] = chosen)'
    BY DEF onLocalLevelSettingsChanged, extractLevelSettings, level, Said
  <1>2. told_ \in Packet /\ told_.type = "LEVEL_SETTINGS"
    BY SettingsIsPacket
  <1> SUFFICES ASSUME NEW g \in Guests
               PROVE  /\ ~Coming(<<g, Host>>, {"LEVEL_SETTINGS"})'
                      /\ Up(<<Host, g>>)' /\ ~unsaid =>
                           /\ LastIs(link'[<<Host, g>>], told_)
                           /\ ~Coming(<<Host, g>>, {"LEVEL_SETTINGS"})' => Agrees(g)
    BY <1>1 DEF Said, Agrees, level
  <1> HIDE DEF told_
  <1>3. ~Coming(<<g, Host>>, {"LEVEL_SETTINGS"})'
    BY DEF Coming
  <1>4. ASSUME Up(<<Host, g>>)', ~unsaid
        PROVE  /\ LastIs(link'[<<Host, g>>], told_)
               /\ ~Coming(<<Host, g>>, {"LEVEL_SETTINGS"})' => Agrees(g)
    <2>1. <<Host, g>> \in Links /\ link[<<Host, g>>] \in Seq(Packet)
      BY DEF Links, Types
    <2>2. LastIs(link[<<Host, g>>], told_) /\ Quiet(link[<<Host, g>>], link'[<<Host, g>>], told_.type)
          /\ (~Coming(<<Host, g>>, {"LEVEL_SETTINGS"}) => Agrees(g))
      BY <1>2, <1>4 DEF Said, told_
    <2>3. /\ LastIs(link'[<<Host, g>>], told_)
          /\ Holds(link[<<Host, g>>], told_.type) => Holds(link'[<<Host, g>>], told_.type)
      BY <1>2, <2>1, <2>2, QuietKeepsLast, Zenon
    <2> QED
      BY <1>2, <2>2, <2>3 DEF Coming, Holds
  <1> QED
    BY <1>3, <1>4

\* What is sent goes onto the links of the sender that are up.
LEMMA Sent ==
    ASSUME Types, NEW m \in Members, NEW ps \in Seq(Packet), sendPacket(m, ps)
    PROVE  /\ link' \in [Links -> Seq(Packet)]
           /\ \A l \in Links : link'[l] = IF l[1] = m /\ Up(l) THEN link[l] \o ps ELSE link[l]
  <1>1. link' = [l \in Links |-> IF l[1] = m /\ Up(l) THEN link[l] \o ps ELSE link[l]]
    BY DEF sendPacket
  <1>2. ASSUME NEW l \in Links PROVE link[l] \in Seq(Packet) /\ link[l] \o ps \in Seq(Packet)
    BY DEF Types
  <1> QED
    BY <1>1, <1>2

\* Other packets than moves and settings disturb neither.
LEMMA PlainSent ==
    ASSUME IInv, NEW m \in Members, NEW ps \in Seq(Packet), Plain(ps), sendPacket(m, ps),
           UNCHANGED <<at, mouse, level, m_remoteCursors>>
    PROVE  link' \in [Links -> Seq(Packet)] /\ Strangers' /\ Moves' /\ Said'
  <1>1. /\ link' \in [Links -> Seq(Packet)]
        /\ \A l \in Links : link'[l] = IF l[1] = m /\ Up(l) THEN link[l] \o ps ELSE link[l]
    BY Sent DEF IInv
  <1>2. \A l : Up(l)' <=> Up(l)
    BY DEF Up, InSession
  <1>3. \A l \in Links : Quiet(link[l], link'[l], "MOUSE_MOVE") /\ Quiet(link[l], link'[l], "LEVEL_SETTINGS")
    BY <1>1 DEF Quiet, Plain
  <1>4. Strangers'
    BY <1>1 DEF Strangers, IInv, level, Up, InSession
  <1>5. Moves'
    BY <1>2, <1>3, MovesKept DEF IInv
  <1>6. ASSUME NEW g \in Guests, NEW i \in DOMAIN link'[<<g, Host>>]
        PROVE  link'[<<g, Host>>][i].type # "LEVEL_SETTINGS"
    <2> DEFINE l == <<g, Host>>
    <2>1. l \in Links /\ link[l] \in Seq(Packet) /\ (link'[l] = link[l] \/ link'[l] = link[l] \o ps)
      BY <1>1 DEF Links, IInv, Types
    <2>2. \A j \in DOMAIN link[l] : link[l][j].type # "LEVEL_SETTINGS"
      BY DEF IInv, Said, Coming
    <2>3. CASE link'[l] = link[l]
      BY <1>6, <2>2, <2>3
    <2>4. CASE link'[l] = link[l] \o ps
      <3> HIDE DEF l
      <3>1. i \in 1 .. (Len(link[l]) + Len(ps)) /\ Len(link[l]) \in Nat /\ Len(ps) \in Nat
            /\ link'[l][i] = IF i <= Len(link[l]) THEN link[l][i] ELSE ps[i - Len(link[l])]
        BY <1>6, <2>1, <2>4 DEF l
      <3>2. link'[l][i].type # "LEVEL_SETTINGS"
        BY <2>1, <2>2, <3>1 DEF Plain
      <3> QED
        BY <3>2 DEF l
    <2> QED
      BY <2>1, <2>3, <2>4
  <1>7. Said'
    <2>1. \A g \in Guests : <<Host, g>> \in Links
      BY DEF Links
    <2> QED
      BY <1>2, <1>3, <1>6, <2>1, SaidKept DEF IInv
  <1> QED
    BY <1>1, <1>4, <1>5, <1>7

-----------------------------------------------------------------------------
(* Actions that send other packets                                         *)

\* A guest asks for the full state.
LEMMA RequestFullStateKeeps ==
    ASSUME IInv, NEW g \in Guests, requestFullState(g) PROVE IInv'
  <1> DEFINE p == [type |-> "REQUEST_FULL_STATE"]
  <1>1. p \in Packet /\ p.type \notin {"MOUSE_MOVE", "LEVEL_SETTINGS"} /\ g \in Members
    BY DEF Packet, Members
  <1>2. sendPacket(g, <<p>>)
    BY DEF requestFullState
  <1> HIDE DEF p
  <1>3. <<p>> \in Seq(Packet) /\ Plain(<<p>>)
    BY <1>1, OnePlain
  <1>4. link' \in [Links -> Seq(Packet)] /\ Strangers' /\ Moves' /\ Said'
    BY <1>1, <1>2, <1>3, PlainSent DEF requestFullState, view, sprites
  <1>5. Types'
    BY <1>4, PresenceAssumption DEF IInv, Types, requestFullState, Act, view, sprites, mouse, playtest, level
  <1>6. Left'
    BY DEF IInv, Left, requestFullState, InSession, view, sprites
  <1> QED
    BY <1>4, <1>5, <1>6 DEF IInv

\* An object is edited.
LEMMA ObjectModifiedKeeps ==
    ASSUME IInv, NEW m \in Members, onLocalObjectModified(m) PROVE IInv'
  <1>1. PICK u \in synced[m] : sendPacket(m, <<[type |-> "OBJECT_UPDATE", uid |-> u]>>)
    BY DEF onLocalObjectModified
  <1> DEFINE p == [type |-> "OBJECT_UPDATE", uid |-> u]
  <1>2. p \in Packet /\ p.type \notin {"MOUSE_MOVE", "LEVEL_SETTINGS"}
    BY DEF Packet, IInv, Types
  <1>3. sendPacket(m, <<p>>)
    BY <1>1
  <1> HIDE DEF p
  <1>4. <<p>> \in Seq(Packet) /\ Plain(<<p>>)
    BY <1>2, OnePlain
  <1>5. UNCHANGED <<at, told, view, mouse, playtest, level>> /\ Act("select")
    BY DEF onLocalObjectModified
  <1>6. link' \in [Links -> Seq(Packet)] /\ Strangers' /\ Moves' /\ Said'
    BY <1>3, <1>4, <1>5, PlainSent DEF view, sprites
  <1>7. Types'
    BY <1>5, <1>6, PresenceAssumption DEF IInv, Types, Act, view, sprites, mouse, playtest, level
  <1>8. Left'
    BY <1>5 DEF IInv, Left, InSession, view, sprites
  <1> QED
    BY <1>6, <1>7, <1>8 DEF IInv

\* A highlight that loses its object is still one.
LEMMA OnObjectType ==
    ASSUME Types, NEW v \in Members, NEW u, NEW what \in {"former", "freed"}
    PROVE  /\ OnObject(v, u, what) \in [Members -> [Members -> SUBSET Highlight]]
           /\ \A w, s \in Members : w # v => OnObject(v, u, what)[w][s] = m_remoteSelectionHighlights[w][s]
  <1>1. ASSUME NEW h \in Highlight
        PROVE  (IF h.uid = u /\ h.on = "object" THEN [h EXCEPT !.on = what] ELSE h) \in Highlight
    BY DEF Highlight
  <1> DEFINE new == [s \in Members |->
               {IF h.uid = u /\ h.on = "object" THEN [h EXCEPT !.on = what] ELSE h :
                   h \in m_remoteSelectionHighlights[v][s]}]
  <1>2. new \in [Members -> SUBSET Highlight]
    <2> SUFFICES ASSUME NEW s \in Members PROVE new[s] \subseteq Highlight
      OBVIOUS
    <2>1. m_remoteSelectionHighlights[v][s] \subseteq Highlight
      BY DEF Types
    <2> QED
      BY <1>1, <2>1
  <1>3. OnObject(v, u, what) = [m_remoteSelectionHighlights EXCEPT ![v] = new]
    BY DEF OnObject
  <1> HIDE DEF new
  <1> QED
    BY <1>2, <1>3 DEF Types

\* An object is deleted, with the highlights on it.
LEMMA ObjectDestroyedKeeps ==
    ASSUME IInv, NEW m \in Members, onLocalObjectDestroyed(m) PROVE IInv'
  <1>1. PICK u \in synced[m], kept \in {"former", "freed"} :
          /\ sendPacket(m, <<[type |-> "OBJECT_DELETE", uid |-> u]>>)
          /\ synced' = [synced EXCEPT ![m] = @ \ {u}]
          /\ m_remoteSelectionHighlights' = OnObject(m, u, kept)
    BY DEF onLocalObjectDestroyed
  <1> DEFINE p == [type |-> "OBJECT_DELETE", uid |-> u]
  <1>2. p \in Packet /\ p.type \notin {"MOUSE_MOVE", "LEVEL_SETTINGS"}
    BY DEF Packet, IInv, Types
  <1>3. sendPacket(m, <<p>>)
    BY <1>1
  <1> HIDE DEF p
  <1>4. <<p>> \in Seq(Packet) /\ Plain(<<p>>)
    BY <1>2, OnePlain
  <1>5. UNCHANGED <<at, told, m_remoteSelections, m_remoteCursors, m_remotePlayers, mouse, playtest, level>>
        /\ Act("select") /\ at[m] = "editor"
    BY DEF onLocalObjectDestroyed, Edits
  <1>6. link' \in [Links -> Seq(Packet)] /\ Strangers' /\ Moves' /\ Said'
    BY <1>3, <1>4, <1>5, PlainSent
  <1>7. /\ m_remoteSelectionHighlights' \in [Members -> [Members -> SUBSET Highlight]]
        /\ \A w, s \in Members : w # m => m_remoteSelectionHighlights'[w][s] = m_remoteSelectionHighlights[w][s]
    BY <1>1, OnObjectType DEF IInv
  <1>8. synced' \in [Members -> SUBSET Obj]
    BY <1>1 DEF IInv, Types
  <1>9. Types'
    BY <1>5, <1>6, <1>7, <1>8, PresenceAssumption DEF IInv, Types, Act, mouse, playtest, level
  <1>10. Left'
    BY <1>5, <1>7 DEF IInv, Left, InSession
  <1> QED
    BY <1>6, <1>9, <1>10 DEF IInv

\* A selection goes out in chunks.
LEMMA SelectionKeeps ==
    ASSUME IInv, NEW m \in Members, onLocalSelectionChanged(m) PROVE IInv'
  <1>1. PICK selected \in SUBSET synced[m] :
          /\ sendPacket(m, SelectPackets(SetToSeq(selected)))
          /\ told' = [l \in Links |-> IF l[1] = m /\ Up(l) THEN selected ELSE told[l]]
    BY DEF onLocalSelectionChanged
  <1>2. selected \in SUBSET Obj
    BY DEF IInv, Types
  <1> DEFINE ps == SelectPackets(SetToSeq(selected))
  <1>3. ps \in Seq(Packet) /\ Plain(ps)
    BY <1>2, SetToSeqIsRow, SelectPacketsPlain
  <1>4. sendPacket(m, ps)
    BY <1>1
  <1> HIDE DEF ps
  <1>5. UNCHANGED <<at, view, mouse, playtest, level>> /\ Act("select")
    BY DEF onLocalSelectionChanged
  <1>6. link' \in [Links -> Seq(Packet)] /\ Strangers' /\ Moves' /\ Said'
    BY <1>3, <1>4, <1>5, PlainSent DEF view, sprites
  <1>7. told' \in [Links -> (SUBSET Obj) \cup {None}]
    BY <1>1, <1>2 DEF IInv, Types
  <1>8. Types'
    <2>1. topic' \in Topics /\ acts' \in 0 .. MaxActs
      BY <1>5, PresenceAssumption DEF IInv, Types, Act
    <2> QED
      BY <1>5, <1>6, <1>7, <2>1 DEF IInv, Types, view, sprites, mouse, playtest, level
  <1>9. Left'
    BY <1>5 DEF IInv, Left, InSession, view, sprites
  <1> QED
    BY <1>6, <1>8, <1>9 DEF IInv

\* The frame update sends where the player is.
LEMMA PositionSent ==
    ASSUME IInv, NEW m \in Members, NEW stop \in BOOLEAN, sendPlayerPosition(m, stop),
           UNCHANGED <<at, mouse, level, m_remoteCursors>>
    PROVE  link' \in [Links -> Seq(Packet)] /\ Strangers' /\ Moves' /\ Said'
  <1> DEFINE p == [type |-> "PLAYER_POSITION", isDead |-> play[m] = "dead", stopPlaytest |-> stop]
  <1>1. (play[m] = "dead") \in BOOLEAN
    OBVIOUS
  <1>2. p \in Packet /\ p.type \notin {"MOUSE_MOVE", "LEVEL_SETTINGS"}
    BY <1>1 DEF Packet
  <1>3. sendPacket(m, <<p>>)
    BY DEF sendPlayerPosition
  <1> HIDE DEF p
  <1>4. <<p>> \in Seq(Packet) /\ Plain(<<p>>)
    BY <1>2, OnePlain
  <1> QED
    BY <1>3, <1>4, PlainSent

\* A frame of a playtest, and the first one after it.
LEMMA FrameKeeps == ASSUME IInv, NEW m \in Members, Frame(m) PROVE IInv'
  <1>1. CASE updatePlayerSync(m)
    <2>1. link' \in [Links -> Seq(Packet)] /\ Strangers' /\ Moves' /\ Said'
      BY <1>1, PositionSent DEF updatePlayerSync, level, mouse
    <2> DEFINE seen == [s \in Members |->
                 IF m_remotePlayers[m][s] # None /\ ~m_remotePlayers[m][s].dead
                 THEN [m_remotePlayers[m][s] EXCEPT !.shown = TRUE] ELSE m_remotePlayers[m][s]]
    <2>2. m_remotePlayers' = [m_remotePlayers EXCEPT ![m] = seen]
      BY <1>1 DEF updatePlayerSync
    <2>3. ASSUME NEW s \in Members PROVE seen[s] \in Player \cup {None}
      <3>1. m_remotePlayers[m][s] \in Player \cup {None}
        BY DEF IInv, Types
      <3> QED
        BY <3>1 DEF Player
    <2> HIDE DEF seen
    <2>4. m_remotePlayers' \in [Members -> [Members -> Player \cup {None}]]
          /\ \A w, s \in Members : w # m => m_remotePlayers'[w][s] = m_remotePlayers[w][s]
      <3>1. seen \in [Members -> Player \cup {None}]
        BY <2>3 DEF seen
      <3> QED
        BY <2>2, <3>1 DEF IInv, Types
    <2>5. wasPlaytesting' \in [Members -> BOOLEAN]
          /\ UNCHANGED <<at, told, synced, m_remoteSelections, m_remoteSelectionHighlights, m_remoteCursors, mouse, play, level, budget>>
          /\ at[m] = "editor"
      BY <1>1 DEF updatePlayerSync, Edits, IInv, Types
    <2>6. Types'
      BY <2>1, <2>4, <2>5 DEF IInv, Types, mouse, level, budget
    <2>7. Left'
      BY <2>4, <2>5 DEF IInv, Left, InSession
    <2> QED
      BY <2>1, <2>6, <2>7 DEF IInv
  <1>2. CASE EndPlaytest(m)
    <2>1. link' \in [Links -> Seq(Packet)] /\ Strangers' /\ Moves' /\ Said'
      BY <1>2, PositionSent DEF EndPlaytest, view, sprites
    <2>2. wasPlaytesting' \in [Members -> BOOLEAN]
          /\ UNCHANGED <<at, told, view, mouse, play, level, budget>>
      BY <1>2 DEF EndPlaytest, IInv, Types
    <2>3. Types'
      BY <2>1, <2>2 DEF IInv, Types, view, sprites, mouse, level, budget
    <2>4. Left'
      BY <2>2 DEF IInv, Left, InSession, view, sprites
    <2> QED
      BY <2>1, <2>3, <2>4 DEF IInv
  <1> QED
    BY <1>1, <1>2 DEF Frame

-----------------------------------------------------------------------------
(* Actions that send nothing                                               *)

\* As long as the links, the mice and the settings stay, the rest of the
\* invariant about them does.
LEMMA StillLinks ==
    ASSUME IInv, UNCHANGED <<at, link, mouse, level, m_remoteCursors>>
    PROVE  Strangers' /\ Moves' /\ Said'
  <1>1. Strangers'
    BY DEF IInv, Strangers, level
  <1>2. \A l : Up(l)' <=> Up(l)
    BY DEF Up, InSession
  <1>3. Moves'
    BY <1>2, MovesKept DEF IInv, Quiet
  <1>4. Said'
    BY <1>2, SaidKept DEF IInv, Quiet, Said, Coming
  <1> QED
    BY <1>1, <1>3, <1>4

\* The user's own playtest shows to nobody before a frame says so.
LEMMA PlayKeeps ==
    ASSUME IInv, NEW m \in Members, StartPlaytest(m) \/ DieOrRespawn(m) PROVE IInv'
  <1>1. /\ UNCHANGED <<at, link, told, view, mouse, wasPlaytesting, level>> /\ Act("play")
        /\ play' \in [Members -> {"no", "alive", "dead"}]
    BY DEF StartPlaytest, DieOrRespawn, IInv, Types
  <1>2. Strangers' /\ Moves' /\ Said'
    BY <1>1, StillLinks DEF view, sprites
  <1>3. Types'
    BY <1>1, PresenceAssumption DEF IInv, Types, Act, view, sprites, mouse, level
  <1>4. Left'
    BY <1>1 DEF IInv, Left, InSession, view, sprites
  <1> QED
    BY <1>2, <1>3, <1>4 DEF IInv

\* Nobody's player is left at v.
LEMMA CleanedUp ==
    ASSUME Types, NEW v \in Members, cleanUpPlayers(v)
    PROVE  /\ m_remotePlayers' \in [Members -> [Members -> Player \cup {None}]]
           /\ \A s \in Members : m_remotePlayers'[v][s] = None
           /\ \A w, s \in Members : w # v => m_remotePlayers'[w][s] = m_remotePlayers[w][s]
  BY DEF Types, cleanUpPlayers, ForAll

\* The end of a playtest drops the players of the others.
LEMMA StopPlaytestKeeps ==
    ASSUME IInv, NEW m \in Members, onStopPlaytest(m) PROVE IInv'
  <1>1. /\ UNCHANGED <<at, link, told, synced, m_remoteSelections, m_remoteSelectionHighlights,
                       m_remoteCursors, mouse, wasPlaytesting, level>>
        /\ Act("play") /\ cleanUpPlayers(m) /\ play' \in [Members -> {"no", "alive", "dead"}]
    BY DEF onStopPlaytest, IInv, Types
  <1>2. Strangers' /\ Moves' /\ Said'
    BY <1>1, StillLinks
  <1>3. /\ m_remotePlayers' \in [Members -> [Members -> Player \cup {None}]]
        /\ \A s \in Members : m_remotePlayers'[m][s] = None
        /\ \A w, s \in Members : w # m => m_remotePlayers'[w][s] = m_remotePlayers[w][s]
    BY <1>1, CleanedUp DEF IInv
  <1>4. Types'
    BY <1>1, <1>3, PresenceAssumption DEF IInv, Types, Act, mouse, level
  <1>5. Left'
    BY <1>1, <1>3 DEF IInv, Left, InSession
  <1> QED
    BY <1>2, <1>4, <1>5 DEF IInv

\* The user's choice is at once unsaid.
LEMMA ChangeSettingsKeeps == ASSUME IInv, ChangeSettings PROVE IInv'
  <1>1. /\ UNCHANGED <<at, link, told, view, mouse, playtest>> /\ Act("settings")
        /\ settings' \in [Members -> LevelSettings]
        /\ \A m \in Members : m # Host => settings'[m] = settings[m]
        /\ chosen' = settings'[Host] /\ unsaid' = TRUE
    <2>1. PICK f \in Fields : settings' = [settings EXCEPT ![Host][f] = @ + 1]
      BY DEF ChangeSettings
    <2> QED
      BY <2>1 DEF ChangeSettings, IInv, Types, LevelSettings, Members
  <1>2. Host \in Members /\ \A g \in Guests : g # Host /\ g \in Members
    BY PresenceAssumption DEF Members
  <1>3. Strangers'
    BY <1>1, <1>2 DEF IInv, Strangers, Types, view, sprites
  <1>4. \A l : Up(l)' <=> Up(l)
    BY <1>1 DEF Up, InSession
  <1>5. Moves'
    BY <1>1, <1>4, MovesKept DEF IInv, Quiet, view, sprites
  <1>6. Said'
    BY <1>1 DEF IInv, Said, Coming
  <1>7. Types'
    BY <1>1, <1>2, PresenceAssumption DEF IInv, Types, Act, view, sprites, mouse, playtest
  <1>8. Left'
    BY <1>1 DEF IInv, Left, InSession, view, sprites
  <1> QED
    BY <1>3, <1>5, <1>6, <1>7, <1>8 DEF IInv

-----------------------------------------------------------------------------
(* Members come and go                                                     *)

\* What Close leaves of a link: nothing or the beginning of it, and other
\* members' links stay.
LEMMA Closed ==
    ASSUME Types, NEW m \in Members, Close(m)
    PROVE  /\ link' \in [Links -> Seq(Packet)]
           /\ \A l \in Links :
                 /\ l[1] # m /\ l[2] # m => link'[l] = link[l]
                 /\ link[l] = <<>> => link'[l] = <<>>
                 /\ \A i \in DOMAIN link'[l] : i \in DOMAIN link[l] /\ link'[l][i] = link[l][i]
  <1>1. PICK arrive \in [{l \in Links : l[1] = m} -> 0 .. NetCap] :
          /\ \A l \in DOMAIN arrive : arrive[l] <= Len(link[l])
          /\ link' = [l \in Links |-> IF l[2] = m THEN <<>>
                                      ELSE IF l[1] = m THEN SubSeq(link[l], 1, arrive[l])
                                      ELSE link[l]]
    BY DEF Close
  <1>2. ASSUME NEW l \in Links, l[1] = m
        PROVE  /\ SubSeq(link[l], 1, arrive[l]) \in Seq(Packet)
               /\ link[l] = <<>> => SubSeq(link[l], 1, arrive[l]) = <<>>
               /\ \A i \in DOMAIN SubSeq(link[l], 1, arrive[l]) :
                     i \in DOMAIN link[l] /\ SubSeq(link[l], 1, arrive[l])[i] = link[l][i]
    <2>1. link[l] \in Seq(Packet) /\ arrive[l] \in Nat /\ arrive[l] <= Len(link[l])
      BY <1>1, <1>2, PresenceAssumption DEF Types
    <2> QED
      BY <2>1
  <1>3. ASSUME NEW l \in Links
        PROVE  /\ link[l] \in Seq(Packet)
               /\ link'[l] = IF l[2] = m THEN <<>>
                             ELSE IF l[1] = m THEN SubSeq(link[l], 1, arrive[l]) ELSE link[l]
    BY <1>1 DEF Types
  <1>4. ASSUME NEW l \in Links
        PROVE  /\ link'[l] \in Seq(Packet)
               /\ l[1] # m /\ l[2] # m => link'[l] = link[l]
               /\ link[l] = <<>> => link'[l] = <<>>
               /\ \A i \in DOMAIN link'[l] : i \in DOMAIN link[l] /\ link'[l][i] = link[l][i]
    <2>1. CASE l[2] = m
      <3>1. link'[l] = <<>>
        BY <1>3, <2>1
      <3> QED
        BY <2>1, <3>1
    <2>2. CASE l[2] # m /\ l[1] = m
      <3>1. link'[l] = SubSeq(link[l], 1, arrive[l])
        BY <1>3, <2>2
      <3> QED
        BY <1>2, <2>2, <3>1
    <2>3. CASE l[2] # m /\ l[1] # m
      BY <1>3, <2>3
    <2> QED
      BY <2>1, <2>2, <2>3
  <1>5. link' = [l \in Links |-> link'[l]]
    BY <1>1
  <1> QED
    BY <1>4, <1>5

\* A member that closes its links and is not in the session any more.
LEMMA LeavesLinks ==
    ASSUME IInv, NEW m \in Members, Close(m), at[m] # "new", UNCHANGED <<mouse, level>>,
           NEW to \in {"alone", "gone"}, at' = [at EXCEPT ![m] = to],
           \A v, s \in Members :
               m_remoteCursors'[v][s] = m_remoteCursors[v][s]
               \/ (v = m /\ m_remoteCursors'[v][s] = None)
    PROVE  link' \in [Links -> Seq(Packet)] /\ Strangers' /\ Moves' /\ Said'
  <1>1. /\ link' \in [Links -> Seq(Packet)]
        /\ \A l \in Links :
              /\ l[1] # m /\ l[2] # m => link'[l] = link[l]
              /\ link[l] = <<>> => link'[l] = <<>>
              /\ \A i \in DOMAIN link'[l] : i \in DOMAIN link[l] /\ link'[l][i] = link[l][i]
    BY Closed DEF IInv
  <1>2. \A n \in Members : at'[n] = IF n = m THEN to ELSE at[n]
    BY DEF IInv, Types
  <1>3. \A l \in Links : l[1] \in Members /\ l[2] \in Members
    BY DEF Links, Members
  <1>4. \A l \in Links : Up(l)' => Up(l) /\ l[1] # m /\ l[2] # m
    BY <1>2, <1>3 DEF Up, InSession
  <1>5. Strangers'
    <2>1. Host \in Members /\ \A g \in Guests : g \in Members
      BY DEF Members
    <2> QED
      BY <1>1, <1>2, <1>3, <2>1 DEF IInv, Strangers, level
  <1>6. Moves'
    BY <1>1, <1>3, <1>4, MovesKept DEF IInv, Quiet
  <1>7. Said'
    <2>1. \A g \in Guests : <<g, Host>> \in Links /\ <<Host, g>> \in Links
      BY DEF Links
    <2>2. \A g \in Guests : \A i \in DOMAIN link'[<<g, Host>>] :
             link'[<<g, Host>>][i].type # "LEVEL_SETTINGS"
      <3> SUFFICES ASSUME NEW g \in Guests, NEW i \in DOMAIN link'[<<g, Host>>]
                   PROVE  link'[<<g, Host>>][i].type # "LEVEL_SETTINGS"
        OBVIOUS
      <3>1. i \in DOMAIN link[<<g, Host>>] /\ link'[<<g, Host>>][i] = link[<<g, Host>>][i]
        BY <1>1, <2>1
      <3> QED
        BY <3>1 DEF IInv, Said, Coming
    <2> QED
      BY <1>1, <1>4, <2>1, <2>2, SaidKept DEF IInv, Quiet
  <1> QED
    BY <1>1, <1>5, <1>6, <1>7

\* Leaving the editor clears what it held.
LEMMA ExitKeeps == ASSUME IInv, NEW m \in Members, Exit(m) PROVE IInv'
  <1>1. /\ at[m] # "new" /\ at' = [at EXCEPT ![m] = "gone"] /\ Close(m) /\ clearAll(m)
        /\ play' \in [Members -> {"no", "alive", "dead"}]
        /\ UNCHANGED <<told, mouse, wasPlaytesting, level, budget>>
    BY DEF Exit, IInv, Types
  <1>2. /\ m_remotePlayers' \in [Members -> [Members -> Player \cup {None}]]
        /\ \A s \in Members : m_remotePlayers'[m][s] = None
        /\ \A w, s \in Members : w # m => m_remotePlayers'[w][s] = m_remotePlayers[w][s]
    BY <1>1, CleanedUp DEF clearAll, IInv
  <1>3. /\ m_remoteCursors' \in [Members -> [Members -> Nat \cup {None}]]
        /\ \A s \in Members : m_remoteCursors'[m][s] = None
        /\ \A w, s \in Members : w # m => m_remoteCursors'[w][s] = m_remoteCursors[w][s]
    BY <1>1 DEF clearAll, ForAll, IInv, Types
  <1>4. /\ m_remoteSelectionHighlights' \in [Members -> [Members -> SUBSET Highlight]]
        /\ \A s \in Members : m_remoteSelectionHighlights'[m][s] = {}
        /\ \A w, s \in Members : w # m => m_remoteSelectionHighlights'[w][s] = m_remoteSelectionHighlights[w][s]
    BY <1>1 DEF clearAll, ForAll, IInv, Types
  <1>5. /\ m_remoteSelections' \in [Members -> [Members -> Seq(Obj)]]
        /\ \A s \in Members : m_remoteSelections'[m][s] = <<>>
        /\ \A w, s \in Members : w # m => m_remoteSelections'[w][s] = m_remoteSelections[w][s]
    <2>1. <<>> \in Seq(Obj)
      OBVIOUS
    <2> QED
      BY <1>1, <2>1 DEF clearAll, ForAll, IInv, Types
  <1>6. synced' \in [Members -> SUBSET Obj]
    BY <1>1 DEF clearAll, IInv, Types
  <1>7. link' \in [Links -> Seq(Packet)] /\ Strangers' /\ Moves' /\ Said'
    <2>1. \A v, s \in Members : m_remoteCursors'[v][s] = m_remoteCursors[v][s]
                               \/ (v = m /\ m_remoteCursors'[v][s] = None)
      BY <1>3
    <2>2. "gone" \in {"alone", "gone"}
      OBVIOUS
    <2> QED
      BY <1>1, <2>1, <2>2, LeavesLinks
  <1>8. at' \in [Members -> {"new", "fade", "editor", "alone", "gone"}]
        /\ \A w \in Members : w # m => at'[w] = at[w]
    BY <1>1 DEF IInv, Types
  <1>9. Types'
    BY <1>1, <1>2, <1>3, <1>4, <1>5, <1>6, <1>7, <1>8 DEF IInv, Types, mouse, level, budget
  <1>10. Left'
    <2> SUFFICES ASSUME NEW v \in Members, NEW s \in Members
                 PROVE  /\ ~InSession(v)' => m_remotePlayers'[v][s] = None
                        /\ at'[v] = "gone" => /\ m_remoteCursors'[v][s] = None
                                              /\ m_remoteSelectionHighlights'[v][s] = {}
                                              /\ m_remoteSelections'[v][s] = <<>>
      BY DEF Left
    <2>1. CASE v = m
      BY <1>2, <1>3, <1>4, <1>5, <2>1
    <2>2. CASE v # m
      <3>1. /\ at'[v] = at[v] /\ m_remotePlayers'[v][s] = m_remotePlayers[v][s]
            /\ m_remoteCursors'[v][s] = m_remoteCursors[v][s]
            /\ m_remoteSelectionHighlights'[v][s] = m_remoteSelectionHighlights[v][s]
            /\ m_remoteSelections'[v][s] = m_remoteSelections[v][s]
        BY <1>2, <1>3, <1>4, <1>5, <1>8, <2>2
      <3> QED
        BY <3>1 DEF IInv, Left, InSession
    <2> QED
      BY <2>1, <2>2
  <1> QED
    BY <1>7, <1>9, <1>10 DEF IInv

\* A guest that loses the host goes on alone.
LEMMA LoseHostKeeps == ASSUME IInv, NEW g \in Guests, LoseHost(g) PROVE IInv'
  <1>1. /\ g \in Members /\ at[g] # "new" /\ at' = [at EXCEPT ![g] = "alone"] /\ Close(g) /\ cleanUpPlayers(g)
        /\ UNCHANGED <<told, synced, m_remoteSelections, m_remoteSelectionHighlights,
                       m_remoteCursors, mouse, playtest, level, budget>>
    BY DEF LoseHost, InSession, Members
  <1>2. /\ m_remotePlayers' \in [Members -> [Members -> Player \cup {None}]]
        /\ \A s \in Members : m_remotePlayers'[g][s] = None
        /\ \A w, s \in Members : w # g => m_remotePlayers'[w][s] = m_remotePlayers[w][s]
    BY <1>1, CleanedUp DEF IInv
  <1>3. link' \in [Links -> Seq(Packet)] /\ Strangers' /\ Moves' /\ Said'
    <2>1. \A v, s \in Members : m_remoteCursors'[v][s] = m_remoteCursors[v][s]
      BY <1>1
    <2> HIDE DEF IInv
    <2> QED
      BY <1>1, <2>1, LeavesLinks
  <1>4. at' \in [Members -> {"new", "fade", "editor", "alone", "gone"}]
        /\ at'[g] = "alone" /\ \A w \in Members : w # g => at'[w] = at[w]
    BY <1>1 DEF IInv, Types
  <1>5. Types'
    BY <1>1, <1>2, <1>3, <1>4 DEF IInv, Types, mouse, playtest, level, budget
  <1>6. Left'
    <2> SUFFICES ASSUME NEW v \in Members, NEW s \in Members
                 PROVE  /\ ~InSession(v)' => m_remotePlayers'[v][s] = None
                        /\ at'[v] = "gone" => /\ m_remoteCursors'[v][s] = None
                                              /\ m_remoteSelectionHighlights'[v][s] = {}
                                              /\ m_remoteSelections'[v][s] = <<>>
      BY DEF Left
    <2>1. CASE v = g
      BY <1>2, <1>4, <2>1
    <2>2. CASE v # g
      BY <1>1, <1>2, <1>4, <2>2 DEF IInv, Left, InSession
    <2> QED
      BY <2>1, <2>2
  <1> QED
    BY <1>3, <1>5, <1>6 DEF IInv

\* A guest joins with nothing said, and is told the settings.
LEMMA JoinKeeps == ASSUME IInv, NEW g \in Guests, Join(g) PROVE IInv'
  <1> DEFINE k == <<Host, g>>
  <1>1. /\ at[g] = "new" /\ at[Host] = "editor" /\ at' = [at EXCEPT ![g] = "fade"]
        /\ link' = [link EXCEPT ![k] = FullState]
        /\ \E before \in {FALSE, topic = "play"} : wasPlaytesting' = [wasPlaytesting EXCEPT ![g] = before]
        /\ UNCHANGED <<told, view, mouse, play, level, budget>>
    BY DEF Join, Edits
  <1>2. /\ g \in Members /\ Host \in Members /\ g # Host /\ k \in Links /\ <<g, Host>> \in Links
        /\ \A l \in Links : l[1] \in Members /\ l[2] \in Members
        /\ \A h \in Guests : h \in Members /\ h # Host /\ <<Host, h>> \in Links /\ <<h, Host>> \in Links
    BY PresenceAssumption DEF Members, Links
  <1>3. /\ link' \in [Links -> Seq(Packet)] /\ link'[k] = FullState
        /\ \A l \in Links : l # k => link'[l] = link[l]
    BY <1>1, <1>2, FullStateTells DEF IInv, Types
  <1>4. at' \in [Members -> {"new", "fade", "editor", "alone", "gone"}]
        /\ at'[g] = "fade" /\ \A m \in Members : m # g => at'[m] = at[m]
    BY <1>1, <1>2 DEF IInv, Types
  <1>5. \A l \in Links : g \in {l[1], l[2]} => l = k \/ l = <<g, Host>>
    BY <1>2 DEF Links
  <1>6. UNCHANGED <<m_remoteCursors, settings, chosen, unsaid, m_CursorPos, pointer>>
    BY <1>1 DEF view, sprites, level, mouse
  <1>7. /\ settings[g] = NewLevel
        /\ \A l \in Links : g \in {l[1], l[2]} => link[l] = <<>> /\ m_remoteCursors[l[2]][l[1]] = None
    BY <1>1 DEF IInv, Strangers
  <1> HIDE DEF k
  <1>8. Strangers'
    <2>1. ASSUME NEW l \in Links, at'[l[1]] = "new" \/ at'[l[2]] = "new"
          PROVE  link'[l] = <<>> /\ m_remoteCursors'[l[2]][l[1]] = None
      <3>1. l # k
        BY <1>1, <1>2, <1>4, <2>1 DEF k
      <3>2. at[l[1]] = "new" \/ at[l[2]] = "new"
        BY <1>2, <1>4, <2>1
      <3> QED
        BY <1>3, <1>6, <3>1, <3>2 DEF IInv, Strangers
    <2>2. \A h \in Guests : at'[h] \in {"new", "fade"} => settings'[h] = NewLevel
      BY <1>2, <1>4, <1>6, <1>7 DEF IInv, Strangers
    <2> QED
      BY <1>1, <1>2, <1>4, <2>1, <2>2 DEF Strangers
  <1>9. Moves'
    <2>1. \A s : Move(s)' = Move(s)
      BY <1>6 DEF Move
    <2>2. ASSUME NEW l \in Links, Up(l)'
          PROVE  /\ LastIs(link'[l], Move(l[1]))
                 /\ m_remoteCursors'[l[2]][l[1]] # None /\ ~Coming(l, {"MOUSE_MOVE"})' =>
                       m_remoteCursors'[l[2]][l[1]] = 4 * Move(l[1]).x
      <3>1. CASE l = k
        <4>1. LastIs(link'[l], Move(l[1]))
          BY <1>3, <3>1, FullStateTells DEF IInv, LastIs, Move
        <4> QED
          BY <1>2, <1>6, <1>7, <3>1, <4>1 DEF k
      <3>2. CASE l = <<g, Host>> /\ l # k
        <4>1. link'[l] = <<>> /\ m_remoteCursors'[l[2]][l[1]] = None
          BY <1>2, <1>3, <1>6, <1>7, <3>2
        <4> QED
          BY <4>1 DEF LastIs
      <3>3. CASE g \notin {l[1], l[2]}
        <4>1. Up(l) /\ link'[l] = link[l] /\ m_remoteCursors' = m_remoteCursors
          BY <1>2, <1>3, <1>4, <1>6, <2>2, <3>3 DEF Up, InSession, k
        <4> QED
          BY <4>1 DEF IInv, Moves, Coming
      <3> QED
        BY <1>5, <3>1, <3>2, <3>3
    <2> QED
      BY <1>6, <2>1, <2>2 DEF IInv, Moves
  <1>10. Said'
    <2> DEFINE set == onLocalLevelSettingsChanged(Host)
    <2>1. set' = set
      BY <1>6 DEF onLocalLevelSettingsChanged, extractLevelSettings
    <2>2. set.type = "LEVEL_SETTINGS"
      BY DEF onLocalLevelSettingsChanged
    <2> HIDE DEF set
    <2>3. ASSUME NEW h \in Guests PROVE ~Coming(<<h, Host>>, {"LEVEL_SETTINGS"})'
      <3>1. <<h, Host>> # k
        BY <1>2 DEF k
      <3>2. link'[<<h, Host>>] = link[<<h, Host>>]
        BY <1>2, <1>3, <3>1
      <3> QED
        BY <3>2 DEF IInv, Said, Coming
    <2>4. ASSUME NEW h \in Guests, Up(<<Host, h>>)', ~unsaid
          PROVE  /\ LastIs(link'[<<Host, h>>], set)
                 /\ ~Coming(<<Host, h>>, {"LEVEL_SETTINGS"})' => Agrees(h)
      <3>1. CASE h = g
        <4>1. link'[<<Host, h>>] = FullState
          BY <1>3, <3>1 DEF k
        <4>2. \A i \in DOMAIN FullState : FullState[i].type = "LEVEL_SETTINGS" => FullState[i] = set
          BY FullStateTells DEF IInv, set
        <4> QED
          BY <1>7, <2>2, <3>1, <4>1, <4>2 DEF LastIs, Agrees
      <3>2. CASE h # g
        <4>1. <<Host, h>> # k
          BY <3>2 DEF k
        <4>2. Up(<<Host, h>>) /\ link'[<<Host, h>>] = link[<<Host, h>>]
          BY <1>2, <1>3, <1>4, <2>4, <3>2, <4>1 DEF Up, InSession
        <4> QED
          BY <2>4, <4>2 DEF IInv, Said, Coming, set
      <3> QED
        BY <3>1, <3>2
    <2> QED
      BY <1>6, <2>1, <2>3, <2>4 DEF IInv, Said, Agrees, set
  <1>11. Types'
    <2>1. wasPlaytesting' \in [Members -> BOOLEAN]
      BY <1>1, <1>2 DEF IInv, Types
    <2> QED
      BY <1>1, <1>3, <1>4, <2>1 DEF IInv, Types, view, sprites, mouse, level, budget
  <1>12. Left'
    BY <1>1, <1>4 DEF IInv, Left, InSession, view, sprites
  <1> QED
    BY <1>8, <1>9, <1>10, <1>11, <1>12 DEF IInv

\* The editor is there.
LEMMA EndFadeKeeps == ASSUME IInv, NEW g \in Guests, EndFade(g) PROVE IInv'
  <1>1. /\ at[g] = "fade" /\ at' = [at EXCEPT ![g] = "editor"] /\ g \in Members
        /\ UNCHANGED <<link, told, view, mouse, playtest, level, budget>>
    BY DEF EndFade, Members
  <1>2. at' \in [Members -> {"new", "fade", "editor", "alone", "gone"}]
        /\ at'[g] = "editor" /\ \A m \in Members : m # g => at'[m] = at[m]
    BY <1>1 DEF IInv, Types
  <1>3. \A l \in Links : l[1] \in Members /\ l[2] \in Members
    BY DEF Links, Members
  <1>4. \A l \in Links : Up(l)' <=> Up(l)
    BY <1>1, <1>2, <1>3 DEF Up, InSession
  <1>5. Strangers'
    <2>1. Host \in Members /\ \A h \in Guests : h \in Members
      BY DEF Members
    <2> QED
      BY <1>1, <1>2, <1>3, <2>1 DEF IInv, Strangers, level, view, sprites
  <1>6. Moves'
    BY <1>1, <1>4, MovesKept DEF IInv, Quiet, view, sprites
  <1>7. Said'
    <2>1. \A h \in Guests : <<Host, h>> \in Links
      BY DEF Links
    <2> QED
      BY <1>1, <1>4, <2>1, SaidKept DEF IInv, Quiet, Said, Coming
  <1>8. Types'
    BY <1>1, <1>2 DEF IInv, Types, view, sprites, mouse, playtest, level, budget
  <1>9. Left'
    BY <1>1, <1>2 DEF IInv, Left, InSession, view, sprites
  <1> QED
    BY <1>5, <1>6, <1>7, <1>8, <1>9 DEF IInv

-----------------------------------------------------------------------------
(* A mouse moves, the settings are announced                               *)

\* A mouse moves: far enough to be sent, or not so far that it had to be.
LEMMA CursorUpdateKeeps ==
    ASSUME IInv, NEW m \in Members, onLocalCursorUpdate(m) PROVE IInv'
  <1>1. PICK p \in Positions :
          /\ pointer' = [pointer EXCEPT ![m] = p]
          /\ m_CursorPos' = [m_CursorPos EXCEPT ![m] = CursorPos(@, p)]
          /\ sendPacket(m, IF Distance(m_CursorPos[m], p) < 2 THEN <<>>
                           ELSE <<[type |-> "MOUSE_MOVE", x |-> p \div 4]>>)
    BY DEF onLocalCursorUpdate
  <1>2. UNCHANGED <<at, told, view, playtest, level>> /\ Act("point")
    BY DEF onLocalCursorUpdate
  <1> DEFINE last == m_CursorPos[m]
             mv == [type |-> "MOUSE_MOVE", x |-> p \div 4]
             ps == IF Distance(last, p) < 2 THEN <<>> ELSE <<mv>>
  <1>3. last \in Nat /\ p \in Nat /\ last \in Positions
    BY PresenceAssumption DEF IInv, Types
  <1>4. /\ m_CursorPos' \in [Members -> Positions] /\ pointer' \in [Members -> Positions]
        /\ m_CursorPos'[m] = CursorPos(last, p) /\ pointer'[m] = p
        /\ \A n \in Members : n # m => m_CursorPos'[n] = m_CursorPos[n] /\ pointer'[n] = pointer[n]
        /\ Distance(CursorPos(last, p), p) < 2
    <2>1. CursorPos(last, p) \in Positions /\ Distance(CursorPos(last, p), p) < 2
      BY <1>3 DEF CursorPos, Distance
    <2> HIDE DEF last
    <2>2. m_CursorPos' = [m_CursorPos EXCEPT ![m] = CursorPos(last, p)]
      BY <1>1 DEF last
    <2> QED
      BY <1>1, <2>1, <2>2 DEF IInv, Types
  <1>5. mv \in Packet /\ mv.type = "MOUSE_MOVE"
    <2>1. p \div 4 \in Nat
      BY <1>3
    <2> QED
      BY <2>1 DEF Packet
  <1>6. ps \in Seq(Packet) /\ \A i \in DOMAIN ps : ps[i] = mv
    BY <1>5
  <1>7. sendPacket(m, ps)
    BY <1>1
  <1> HIDE DEF ps, mv, last
  <1>8. /\ link' \in [Links -> Seq(Packet)]
        /\ \A l \in Links : link'[l] = IF l[1] = m /\ Up(l) THEN link[l] \o ps ELSE link[l]
    BY <1>6, <1>7, Sent DEF IInv
  <1>9. \A l : Up(l)' <=> Up(l)
    BY <1>2 DEF Up, InSession
  <1>10. \A l \in Links : Quiet(link[l], link'[l], "LEVEL_SETTINGS")
    BY <1>5, <1>6, <1>8 DEF Quiet
  <1>11. Strangers'
    BY <1>2, <1>8 DEF Strangers, IInv, level, Up, InSession, view, sprites
  <1>12. Said'
    <2>1. ASSUME NEW g \in Guests, NEW i \in DOMAIN link'[<<g, Host>>]
          PROVE  link'[<<g, Host>>][i].type # "LEVEL_SETTINGS"
      <3> DEFINE q == link[<<g, Host>>]
      <3>1. q \in Seq(Packet) /\ link'[<<g, Host>>] \in {q, q \o ps}
        BY <1>8 DEF Links, IInv, Types
      <3>2. \A j \in DOMAIN q : q[j].type # "LEVEL_SETTINGS"
        BY DEF IInv, Said, Coming
      <3> HIDE DEF q
      <3>3. CASE link'[<<g, Host>>] = q
        BY <2>1, <3>2, <3>3
      <3>4. CASE link'[<<g, Host>>] = q \o ps
        <4>1. i \in 1 .. (Len(q) + Len(ps)) /\ Len(q) \in Nat /\ Len(ps) \in Nat
              /\ link'[<<g, Host>>][i] = IF i <= Len(q) THEN q[i] ELSE ps[i - Len(q)]
          BY <1>6, <2>1, <3>1, <3>4
        <4> QED
          BY <1>5, <1>6, <3>1, <3>2, <4>1
      <3> QED
        BY <3>1, <3>3, <3>4
    <2>2. \A g \in Guests : <<Host, g>> \in Links
      BY DEF Links
    <2> QED
      BY <1>2, <1>9, <1>10, <2>1, <2>2, SaidKept DEF IInv
  <1>13. \A n \in Members : Distance(m_CursorPos'[n], pointer'[n]) < 2
    BY <1>4 DEF IInv, Moves
  <1>14. ASSUME NEW l \in Links, Up(l)'
         PROVE  /\ LastIs(link'[l], Move(l[1])')
                /\ m_remoteCursors'[l[2]][l[1]] # None /\ ~Coming(l, {"MOUSE_MOVE"})' =>
                      m_remoteCursors'[l[2]][l[1]] = 4 * Move(l[1])'.x
    <2>1. l[1] \in Members /\ Up(l) /\ m_remoteCursors' = m_remoteCursors /\ link[l] \in Seq(Packet)
      BY <1>2, <1>9, <1>14 DEF Links, Members, view, sprites, IInv, Types
    <2>2. CASE l[1] # m
      <3>1. Move(l[1])' = Move(l[1]) /\ link'[l] = link[l]
        BY <1>4, <1>8, <2>1, <2>2 DEF Move
      <3> QED
        BY <2>1, <3>1 DEF IInv, Moves, Coming
    <2>3. CASE l[1] = m /\ Distance(last, p) < 2
      <3>1. Move(l[1])' = Move(l[1])
        BY <1>4, <2>3 DEF Move, CursorPos, last
      <3>2. link'[l] = link[l]
        <4>1. ps = <<>> /\ link'[l] = link[l] \o ps
          BY <1>8, <2>1, <2>3 DEF ps
        <4> QED
          BY <2>1, <4>1, ConcatEmptySeq
      <3> QED
        BY <2>1, <3>1, <3>2 DEF IInv, Moves, Coming
    <2>4. CASE l[1] = m /\ ~(Distance(last, p) < 2)
      <3>1. Move(l[1])' = mv
        BY <1>4, <2>4 DEF Move, CursorPos, mv
      <3>2. ps = <<mv>> /\ link'[l] = link[l] \o ps
        BY <1>8, <2>1, <2>4 DEF ps
      <3>3. 1 \in DOMAIN ps /\ ps[1] = mv /\ LastIs(ps, mv) /\ Len(ps) = 1
        BY <1>6, <3>2 DEF LastIs
      <3>4. LastIs(link'[l], mv)
        BY <1>5, <1>6, <2>1, <3>2, <3>3, LastAdded
      <3>5. Len(link[l]) + 1 \in DOMAIN link'[l] /\ link'[l][Len(link[l]) + 1] = mv
        BY <1>6, <2>1, <3>2, <3>3
      <3> QED
        BY <1>5, <3>1, <3>4, <3>5 DEF Coming
    <2> QED
      BY <2>2, <2>3, <2>4
  <1>15. Moves'
    BY <1>13, <1>14 DEF Moves
  <1>16. Types'
    <2>1. topic' \in Topics /\ acts' \in 0 .. MaxActs
      BY <1>2, PresenceAssumption DEF IInv, Types, Act
    <2> QED
      BY <1>2, <1>4, <1>8, <2>1 DEF IInv, Types, view, sprites, playtest, level
  <1>17. Left'
    BY <1>2 DEF IInv, Left, InSession, view, sprites
  <1> QED
    BY <1>11, <1>12, <1>15, <1>16, <1>17 DEF IInv

\* The host says its settings to every guest there is.
LEMMA SettingsUpdateKeeps ==
    ASSUME IInv, NEW m \in Members, settingsUpdate(m) PROVE IInv'
  <1> DEFINE set == onLocalLevelSettingsChanged(Host)
             ps == <<set>>
  <1>1. /\ m = Host /\ sendPacket(Host, ps) /\ Act("settings") /\ unsaid' \in BOOLEAN
        /\ UNCHANGED <<at, told, view, mouse, playtest, settings, chosen>>
    BY DEF settingsUpdate, Speaks, IInv, Types
  <1>2. set \in Packet /\ set.type = "LEVEL_SETTINGS" /\ set' = set
    BY <1>1, SettingsIsPacket DEF IInv, onLocalLevelSettingsChanged, extractLevelSettings
  <1> HIDE DEF set
  <1>3. /\ ps \in Seq(Packet) /\ Len(ps) = 1 /\ ps[1] = set /\ DOMAIN ps = {1}
        /\ LastIs(ps, set)
    BY <1>2 DEF LastIs
  <1> HIDE DEF ps
  <1>4. /\ link' \in [Links -> Seq(Packet)]
        /\ \A l \in Links : link'[l] = IF l[1] = Host /\ Up(l) THEN link[l] \o ps ELSE link[l]
    BY <1>1, <1>3, Sent DEF IInv, Members
  <1>5. \A l : Up(l)' <=> Up(l)
    BY <1>1 DEF Up, InSession
  <1>6. \A l \in Links : Quiet(link[l], link'[l], "MOUSE_MOVE")
    BY <1>2, <1>3, <1>4 DEF Quiet
  <1>7. Strangers'
    BY <1>1, <1>4 DEF Strangers, IInv, Up, InSession, view, sprites
  <1>8. Moves'
    BY <1>1, <1>5, <1>6, MovesKept DEF IInv, view, sprites
  <1>9. Said'
    <2>1. ASSUME NEW g \in Guests PROVE ~Coming(<<g, Host>>, {"LEVEL_SETTINGS"})'
      <3>1. <<g, Host>> \in Links /\ g # Host
        BY PresenceAssumption DEF Links
      <3>2. link'[<<g, Host>>] = link[<<g, Host>>]
        BY <1>4, <3>1
      <3> QED
        BY <3>2 DEF IInv, Said, Coming
    <2>2. ASSUME NEW g \in Guests, Up(<<Host, g>>)'
          PROVE  LastIs(link'[<<Host, g>>], set) /\ Coming(<<Host, g>>, {"LEVEL_SETTINGS"})'
      <3> DEFINE q == link[<<Host, g>>]
      <3>1. <<Host, g>> \in Links /\ q \in Seq(Packet)
        BY DEF Links, IInv, Types
      <3>2. link'[<<Host, g>>] = q \o ps
        BY <1>4, <1>5, <2>2, <3>1
      <3> HIDE DEF q
      <3>3. LastIs(q \o ps, set)
        BY <1>2, <1>3, <3>1, LastAdded
      <3>4. Len(q) + 1 \in DOMAIN link'[<<Host, g>>] /\ link'[<<Host, g>>][Len(q) + 1] = set
        <4>1. /\ Len(q \o ps) = Len(q) + Len(ps) /\ q \o ps \in Seq(Packet)
              /\ \A i \in 1 .. Len(q) + Len(ps) :
                    (q \o ps)[i] = IF i <= Len(q) THEN q[i] ELSE ps[i - Len(q)]
          <5>1. q \in Seq(Packet) /\ ps \in Seq(Packet)
            BY <1>3, <3>1
          <5> QED
            BY <5>1, ConcatProperties
        <4>2. Len(q) \in Nat
          BY <3>1
        <4> QED
          BY <1>3, <3>2, <4>1, <4>2
      <3> QED
        BY <1>2, <3>2, <3>3, <3>4 DEF Coming
    <2>3. settings'[Host] = chosen'
      BY <1>1 DEF IInv, Said
    <2> QED
      BY <1>2, <2>1, <2>2, <2>3 DEF Said, set
  <1>10. Types'
    <2>1. topic' \in Topics /\ acts' \in 0 .. MaxActs
      BY <1>1, PresenceAssumption DEF IInv, Types, Act
    <2> QED
      BY <1>1, <1>4, <2>1 DEF IInv, Types, view, sprites, mouse, playtest
  <1>11. Left'
    BY <1>1 DEF IInv, Left, InSession, view, sprites
  <1> QED
    BY <1>7, <1>8, <1>9, <1>10, <1>11 DEF IInv

-----------------------------------------------------------------------------
(* Packets arrive                                                          *)

\* The first packet of l is taken.
LEMMA Taken ==
    ASSUME IInv, NEW l \in Links, link[l] # <<>>, link' = [link EXCEPT ![l] = Tail(@)]
    PROVE  /\ link' \in [Links -> Seq(Packet)] /\ Head(link[l]) \in Packet
           /\ \A k \in Links : k # l => link'[k] = link[k]
           /\ link'[l] = Tail(link[l])
           /\ l[1] \in Members /\ l[2] \in Members /\ at[l[1]] # "new" /\ at[l[2]] # "new"
           /\ \A k \in Links : \A t : k # l \/ Head(link[l]).type # t => Quiet(link[k], link'[k], t)
           /\ \A g \in Guests : \A i \in DOMAIN link'[<<g, Host>>] :
                 link'[<<g, Host>>][i].type # "LEVEL_SETTINGS"
           /\ Head(link[l]).type = "LEVEL_SETTINGS" => \E g \in Guests : l = <<Host, g>>
  <1>1. link[l] \in Seq(Packet)
    BY DEF IInv, Types
  <1>2. /\ Head(link[l]) \in Packet /\ Tail(link[l]) \in Seq(Packet)
        /\ Len(link[l]) \in Nat /\ Len(link[l]) > 0 /\ DOMAIN link[l] = 1 .. Len(link[l])
        /\ DOMAIN Tail(link[l]) = 1 .. (Len(link[l]) - 1)
        /\ \A i \in 1 .. (Len(link[l]) - 1) : Tail(link[l])[i] = link[l][i + 1]
        /\ Head(link[l]) = link[l][1]
    BY <1>1
  <1>3. /\ link' \in [Links -> Seq(Packet)] /\ link'[l] = Tail(link[l])
        /\ \A k \in Links : k # l => link'[k] = link[k]
    BY <1>2 DEF IInv, Types
  <1>4. l[1] \in Members /\ l[2] \in Members /\ at[l[1]] # "new" /\ at[l[2]] # "new"
    BY DEF Links, Members, IInv, Strangers
  <1>5. ASSUME NEW k \in Links, NEW t, k # l \/ Head(link[l]).type # t
        PROVE  Quiet(link[k], link'[k], t)
    BY <1>3, <1>5 DEF Quiet
  <1>6. ASSUME NEW g \in Guests, NEW i \in DOMAIN link'[<<g, Host>>]
        PROVE  link'[<<g, Host>>][i].type # "LEVEL_SETTINGS"
    <2>1. <<g, Host>> \in Links /\ \A j \in DOMAIN link[<<g, Host>>] : link[<<g, Host>>][j].type # "LEVEL_SETTINGS"
      BY DEF Links, IInv, Said, Coming
    <2>2. CASE <<g, Host>> # l
      BY <1>3, <1>6, <2>1, <2>2
    <2>3. CASE <<g, Host>> = l
      <3>1. i + 1 \in DOMAIN link[l] /\ link'[l][i] = link[l][i + 1]
        BY <1>2, <1>3, <1>6, <2>3
      <3> QED
        BY <2>1, <2>3, <3>1
    <2> QED
      BY <2>2, <2>3
  <1>7. ASSUME Head(link[l]).type = "LEVEL_SETTINGS" PROVE \E g \in Guests : l = <<Host, g>>
    <2>1. 1 \in DOMAIN link[l] /\ link[l][1].type = "LEVEL_SETTINGS"
      BY <1>2, <1>7
    <2>2. \A g \in Guests : l # <<g, Host>>
      BY <2>1 DEF IInv, Said, Coming
    <2> QED
      BY <2>2 DEF Links
  <1> QED
    BY <1>2, <1>3, <1>4, <1>5, <1>6, <1>7

\* What a handler may do to the sprites and maps of the process it runs in.
HandlesAt(v, s) ==
    /\ synced' \in [Members -> SUBSET Obj]
    /\ m_remoteSelections' \in [Members -> [Members -> Seq(Obj)]]
    /\ m_remoteSelectionHighlights' \in [Members -> [Members -> SUBSET Highlight]]
    /\ m_remotePlayers' \in [Members -> [Members -> Player \cup {None}]]
    /\ \A w, t \in Members : w # v =>
          /\ m_remoteSelections'[w][t] = m_remoteSelections[w][t]
          /\ m_remoteSelectionHighlights'[w][t] = m_remoteSelectionHighlights[w][t]
          /\ m_remotePlayers'[w][t] = m_remotePlayers[w][t]

\* One entry of a member's map changes.
LEMMA OneEntry ==
    ASSUME NEW T, NEW f \in [Members -> [Members -> T]], NEW v \in Members, NEW s \in Members,
           NEW x \in T
    PROVE  /\ [f EXCEPT ![v][s] = x] \in [Members -> [Members -> T]]
           /\ [f EXCEPT ![v][s] = x][v][s] = x
           /\ \A w, t \in Members :
                 w # v \/ t # s => [f EXCEPT ![v][s] = x][w][t] = f[w][t]
  OBVIOUS

\* A handler that leaves cursors and settings alone, for a packet that is no
\* news about them.
LEMMA OtherPacketKeeps ==
    ASSUME IInv, NEW l \in Links, handlePacket(l), HandlesAt(l[2], l[1]),
           Head(link[l]).type \notin {"MOUSE_MOVE", "LEVEL_SETTINGS"},
           UNCHANGED <<m_remoteCursors, settings>>
    PROVE  IInv'
  <1>1. /\ InSession(l[2]) /\ link[l] # <<>> /\ link' = [link EXCEPT ![l] = Tail(@)]
        /\ UNCHANGED <<at, told, mouse, playtest, chosen, unsaid, budget>>
    BY DEF handlePacket
  <1>2. /\ link' \in [Links -> Seq(Packet)] /\ \A k \in Links : k # l => link'[k] = link[k]
        /\ l[1] \in Members /\ l[2] \in Members /\ at[l[1]] # "new" /\ at[l[2]] # "new"
        /\ \A k \in Links : Quiet(link[k], link'[k], "MOUSE_MOVE") /\ Quiet(link[k], link'[k], "LEVEL_SETTINGS")
        /\ \A g \in Guests : \A i \in DOMAIN link'[<<g, Host>>] :
              link'[<<g, Host>>][i].type # "LEVEL_SETTINGS"
    BY <1>1, Taken
  <1>3. \A k : Up(k)' <=> Up(k)
    BY <1>1 DEF Up, InSession
  <1>4. Strangers'
    BY <1>1, <1>2 DEF IInv, Strangers
  <1>5. Moves'
    BY <1>1, <1>2, <1>3, MovesKept DEF IInv
  <1>6. Said'
    <2>1. \A h \in Guests : <<Host, h>> \in Links
      BY DEF Links
    <2> QED
      BY <1>1, <1>2, <1>3, <2>1, SaidKept DEF IInv, level
  <1>7. Types'
    BY <1>1, <1>2 DEF IInv, Types, HandlesAt, mouse, playtest, budget
  <1>8. Left'
    <2> SUFFICES ASSUME NEW w \in Members, NEW t \in Members
                 PROVE  /\ ~InSession(w)' => m_remotePlayers'[w][t] = None
                        /\ at'[w] = "gone" => /\ m_remoteCursors'[w][t] = None
                                              /\ m_remoteSelectionHighlights'[w][t] = {}
                                              /\ m_remoteSelections'[w][t] = <<>>
      BY DEF Left
    <2>1. CASE w = l[2]
      BY <1>1, <2>1 DEF InSession
    <2>2. CASE w # l[2]
      <3>1. /\ at'[w] = at[w] /\ m_remotePlayers'[w][t] = m_remotePlayers[w][t]
            /\ m_remoteCursors'[w][t] = m_remoteCursors[w][t]
            /\ m_remoteSelectionHighlights'[w][t] = m_remoteSelectionHighlights[w][t]
            /\ m_remoteSelections'[w][t] = m_remoteSelections[w][t]
        BY <1>1, <2>2 DEF HandlesAt
      <3> QED
        BY <3>1 DEF IInv, Left, InSession
    <2> QED
      BY <2>1, <2>2
  <1> QED
    BY <1>4, <1>5, <1>6, <1>7, <1>8 DEF IInv

\* A chunk of a selection arrives.
LEMMA SelectChangeKeeps ==
    ASSUME IInv, NEW l \in Links, handlePacket(l), Head(link[l]).type = "SELECT_CHANGE",
           onSelectChange(l[2], l[1], Head(link[l]))
    PROVE  IInv'
  <1> DEFINE v == l[2]
             s == l[1]
             p == Head(link[l])
             selection == Collected(m_remoteSelections[v][s], p)
             shown == IF Edits(v) THEN {[uid |-> u, on |-> "object"] : u \in Range(selection) \cap synced[v]}
                      ELSE {}
  <1>1. link[l] # <<>> /\ link' = [link EXCEPT ![l] = Tail(@)]
    BY DEF handlePacket
  <1>2. p \in Packet /\ v \in Members /\ s \in Members
    BY <1>1, Taken
  <1>3. p.uids \in Seq(Obj)
    BY <1>2 DEF Packet
  <1>4. selection \in Seq(Obj)
    BY <1>2, <1>3 DEF Collected, IInv, Types
  <1>5. shown \subseteq Highlight
    BY <1>2 DEF Highlight, IInv, Types
  <1>6. /\ m_remoteSelections' = [m_remoteSelections EXCEPT ![v][s] = selection]
        /\ \/ UNCHANGED m_remoteSelectionHighlights
           \/ m_remoteSelectionHighlights' = [m_remoteSelectionHighlights EXCEPT ![v][s] = shown]
        /\ UNCHANGED <<synced, m_remoteCursors, m_remotePlayers, settings>>
    BY DEF onSelectChange
  <1> HIDE DEF selection, shown, v, s
  <1>7. /\ m_remoteSelections' \in [Members -> [Members -> Seq(Obj)]]
        /\ \A w, t \in Members : w # v => m_remoteSelections'[w][t] = m_remoteSelections[w][t]
    BY <1>2, <1>4, <1>6 DEF IInv, Types
  <1>8. /\ m_remoteSelectionHighlights' \in [Members -> [Members -> SUBSET Highlight]]
        /\ \A w, t \in Members : w # v => m_remoteSelectionHighlights'[w][t] = m_remoteSelectionHighlights[w][t]
    <2>1. m_remoteSelectionHighlights \in [Members -> [Members -> SUBSET Highlight]]
      BY DEF IInv, Types
    <2>2. shown \in SUBSET Highlight
      BY <1>5
    <2>3. CASE m_remoteSelectionHighlights' = [m_remoteSelectionHighlights EXCEPT ![v][s] = shown]
      BY ONLY <1>2, <2>1, <2>2, <2>3, OneEntry
    <2>4. CASE UNCHANGED m_remoteSelectionHighlights
      BY <2>1, <2>4
    <2> QED
      BY <1>6, <2>3, <2>4
  <1>9. HandlesAt(v, s)
    BY <1>6, <1>7, <1>8 DEF HandlesAt, IInv, Types
  <1> QED
    BY <1>6, <1>9, OtherPacketKeeps DEF v, s

\* A player's position arrives.
LEMMA PlayerPositionKeeps ==
    ASSUME IInv, NEW l \in Links, handlePacket(l), Head(link[l]).type = "PLAYER_POSITION",
           onRemotePlayerPosition(l[2], l[1], Head(link[l]))
    PROVE  IInv'
  <1> DEFINE v == l[2]
             s == l[1]
             p == Head(link[l])
             seen == Seen(m_remotePlayers[v][s], p)
  <1>1. link[l] # <<>> /\ link' = [link EXCEPT ![l] = Tail(@)]
    BY DEF handlePacket
  <1>2. p \in Packet /\ v \in Members /\ s \in Members
    BY <1>1, Taken
  <1>3. p.isDead \in BOOLEAN
    BY <1>2 DEF Packet
  <1>4. seen \in Player
    BY <1>3 DEF Seen, Player
  <1>5. /\ \/ UNCHANGED m_remotePlayers
           \/ m_remotePlayers' = [m_remotePlayers EXCEPT ![v][s] = seen]
        /\ UNCHANGED <<synced, m_remoteSelections, m_remoteSelectionHighlights, m_remoteCursors, settings>>
    BY DEF onRemotePlayerPosition
  <1> HIDE DEF seen, v, s
  <1>6. /\ m_remotePlayers' \in [Members -> [Members -> Player \cup {None}]]
        /\ \A w, t \in Members : w # v => m_remotePlayers'[w][t] = m_remotePlayers[w][t]
    <2>1. m_remotePlayers \in [Members -> [Members -> Player \cup {None}]]
      BY DEF IInv, Types
    <2>2. seen \in Player \cup {None}
      BY <1>4
    <2>3. CASE m_remotePlayers' = [m_remotePlayers EXCEPT ![v][s] = seen]
      BY ONLY <1>2, <2>1, <2>2, <2>3, OneEntry
    <2>4. CASE UNCHANGED m_remotePlayers
      BY <2>1, <2>4
    <2> QED
      BY <1>5, <2>3, <2>4
  <1>7. HandlesAt(v, s)
    BY <1>5, <1>6 DEF HandlesAt, IInv, Types
  <1> QED
    BY <1>5, <1>7, OtherPacketKeeps DEF v, s

\* An edit, a deletion or a full state arrives, as far as highlights go.
LEMMA ObjectPacketKeeps ==
    ASSUME IInv, NEW l \in Links, handlePacket(l),
           LET p == Head(link[l]) IN
           \/ p.type = "OBJECT_UPDATE" /\ onRemoteObjectModified(l[2], p)
           \/ p.type = "OBJECT_DELETE" /\ onRemoteObjectDestroyed(l[2], p)
           \/ p.type = "OBJECT_BATCH" /\ onRemoteObjectsBatched(l[2], p)
    PROVE  IInv'
  <1> DEFINE v == l[2]
             s == l[1]
             p == Head(link[l])
  <1>1. link[l] # <<>> /\ link' = [link EXCEPT ![l] = Tail(@)]
    BY DEF handlePacket
  <1>2. p \in Packet /\ v \in Members /\ s \in Members
    BY <1>1, Taken
  <1>3. UNCHANGED <<m_remoteSelections, m_remoteCursors, m_remotePlayers, settings>>
    BY DEF onRemoteObjectModified, onRemoteObjectDestroyed, onRemoteObjectsBatched
  <1>4. p.type \notin {"MOUSE_MOVE", "LEVEL_SETTINGS"}
    OBVIOUS
  <1>5. /\ OnObject(v, p.uid, "freed") \in [Members -> [Members -> SUBSET Highlight]]
        /\ \A w, t \in Members : w # v =>
              OnObject(v, p.uid, "freed")[w][t] = m_remoteSelectionHighlights[w][t]
    BY <1>2, OnObjectType DEF IInv
  <1>6. /\ m_remoteSelectionHighlights \in [Members -> [Members -> SUBSET Highlight]]
        /\ synced \in [Members -> SUBSET Obj]
    BY DEF IInv, Types
  <1>7. /\ synced' \in [Members -> SUBSET Obj]
        /\ m_remoteSelectionHighlights' \in [Members -> [Members -> SUBSET Highlight]]
        /\ \A w, t \in Members : w # v => m_remoteSelectionHighlights'[w][t] = m_remoteSelectionHighlights[w][t]
    <2>1. CASE onRemoteObjectModified(v, p) \/ onRemoteObjectDestroyed(v, p)
      <3>1. synced' = synced \/ synced' = [synced EXCEPT ![v] = @ \ {p.uid}]
        BY <2>1 DEF onRemoteObjectModified, onRemoteObjectDestroyed
      <3>2. m_remoteSelectionHighlights' \in {m_remoteSelectionHighlights, OnObject(v, p.uid, "freed")}
        BY <2>1 DEF onRemoteObjectModified, onRemoteObjectDestroyed
      <3> HIDE DEF v, p
      <3>3. synced' \in [Members -> SUBSET Obj]
        BY <1>2, <1>6, <3>1
      <3> QED
        BY <1>5, <1>6, <3>2, <3>3
    <2>2. CASE p.type = "OBJECT_BATCH" /\ onRemoteObjectsBatched(v, p)
      <3>1. p.uids \subseteq Obj
        BY <1>2, <2>2 DEF Packet
      <3> DEFINE moved(h) == IF h.uid \in p.uids /\ h.on = "object" THEN [h EXCEPT !.on = "former"] ELSE h
                 new == [t \in Members |-> {moved(h) : h \in m_remoteSelectionHighlights[v][t]}]
      <3>2. \A h \in Highlight : moved(h) \in Highlight
        BY DEF Highlight
      <3>3. new \in [Members -> SUBSET Highlight]
        <4> HIDE DEF moved, v
        <4> SUFFICES ASSUME NEW t \in Members PROVE new[t] \subseteq Highlight
          OBVIOUS
        <4>1. m_remoteSelectionHighlights[v][t] \subseteq Highlight
          BY <1>2, <1>6
        <4> QED
          BY <3>2, <4>1
      <3>4. \/ UNCHANGED <<synced, m_remoteSelectionHighlights>>
            \/ /\ synced' = [synced EXCEPT ![v] = @ \cup p.uids]
               /\ m_remoteSelectionHighlights' = [m_remoteSelectionHighlights EXCEPT ![v] = new]
        BY <2>2 DEF onRemoteObjectsBatched
      <3> HIDE DEF new, v, p
      <3> QED
        BY <1>2, <1>6, <3>1, <3>3, <3>4
    <2> QED
      BY <2>1, <2>2
  <1>8. HandlesAt(v, s)
    BY <1>3, <1>7 DEF HandlesAt, IInv, Types
  <1> QED
    BY <1>3, <1>4, <1>8, OtherPacketKeeps

\* The last move of those under way puts the cursor in its place.
LEMMA MouseMoveKeeps ==
    ASSUME IInv, NEW l \in Links, handlePacket(l), Head(link[l]).type = "MOUSE_MOVE",
           onRemoteCursorUpdate(l[2], l[1], Head(link[l]))
    PROVE  IInv'
  <1> DEFINE v == l[2]
             s == l[1]
             p == Head(link[l])
             q == link[l]
  <1>1. /\ InSession(v) /\ q # <<>> /\ link' = [link EXCEPT ![l] = Tail(@)]
        /\ UNCHANGED <<at, told, mouse, playtest, chosen, unsaid, budget>>
    BY DEF handlePacket
  <1>2. /\ link' \in [Links -> Seq(Packet)] /\ \A k \in Links : k # l => link'[k] = link[k]
        /\ link'[l] = Tail(q) /\ p \in Packet
        /\ s \in Members /\ v \in Members /\ at[s] # "new" /\ at[v] # "new"
        /\ \A k \in Links : Quiet(link[k], link'[k], "LEVEL_SETTINGS")
        /\ \A g \in Guests : \A i \in DOMAIN link'[<<g, Host>>] :
              link'[<<g, Host>>][i].type # "LEVEL_SETTINGS"
    BY <1>1, Taken
  <1>3. 4 * p.x \in Nat
    BY <1>2 DEF Packet
  <1>4. /\ \/ m_remoteCursors[v][s] = None /\ UNCHANGED m_remoteCursors
           \/ m_remoteCursors' = [m_remoteCursors EXCEPT ![v][s] = 4 * p.x]
        /\ UNCHANGED <<synced, m_remoteSelections, m_remoteSelectionHighlights, m_remotePlayers, settings>>
    BY DEF onRemoteCursorUpdate
  <1>5. /\ \A k : Up(k)' <=> Up(k)
        /\ \A m : Move(m)' = Move(m)
    BY <1>1 DEF Up, InSession, Move, mouse
  <1>6. \A k \in Links : k = <<k[1], k[2]>> /\ k[1] \in Members /\ k[2] \in Members
    BY DEF Links, Members
  <1> HIDE DEF v, s, p, q
  <1>7. /\ m_remoteCursors' \in [Members -> [Members -> Nat \cup {None}]]
        /\ m_remoteCursors'[v][s] = None \/ m_remoteCursors'[v][s] = 4 * p.x
        /\ \A w, t \in Members : w # v \/ t # s => m_remoteCursors'[w][t] = m_remoteCursors[w][t]
    <2>1. m_remoteCursors \in [Members -> [Members -> Nat \cup {None}]]
      BY DEF IInv, Types
    <2>2. 4 * p.x \in Nat \cup {None}
      BY <1>3
    <2>3. CASE m_remoteCursors' = [m_remoteCursors EXCEPT ![v][s] = 4 * p.x]
      <3> DEFINE x == 4 * p.x
      <3>1. m_remoteCursors' = [m_remoteCursors EXCEPT ![v][s] = x] /\ x \in Nat \cup {None}
        BY <2>2, <2>3
      <3> HIDE DEF x
      <3>2. /\ m_remoteCursors' \in [Members -> [Members -> Nat \cup {None}]]
            /\ m_remoteCursors'[v][s] = x
            /\ \A w, t \in Members : w # v \/ t # s => m_remoteCursors'[w][t] = m_remoteCursors[w][t]
        BY ONLY <1>2, <2>1, <3>1, OneEntry
      <3> QED
        BY <3>2 DEF x
    <2>4. CASE m_remoteCursors[v][s] = None /\ UNCHANGED m_remoteCursors
      BY <2>1, <2>4
    <2> QED
      BY <1>4, <2>3, <2>4
  <1>8. Strangers'
    <2>1. ASSUME NEW k \in Links, at'[k[1]] = "new" \/ at'[k[2]] = "new"
          PROVE  link'[k] = <<>> /\ m_remoteCursors'[k[2]][k[1]] = None
      <3>1. at[k[1]] = "new" \/ at[k[2]] = "new"
        BY <1>1, <2>1
      <3>2. k # l /\ (k[2] # v \/ k[1] # s)
        BY <1>2, <1>6, <3>1 DEF v, s
      <3> QED
        BY <1>2, <1>6, <1>7, <3>1, <3>2 DEF IInv, Strangers
    <2> QED
      BY <1>1, <1>4, <2>1 DEF IInv, Strangers
  <1>9. Moves'
    <2>1. ASSUME NEW k \in Links, Up(k)'
          PROVE  /\ LastIs(link'[k], Move(k[1]))
                 /\ m_remoteCursors'[k[2]][k[1]] # None /\ ~Coming(k, {"MOUSE_MOVE"})' =>
                       m_remoteCursors'[k[2]][k[1]] = 4 * Move(k[1]).x
      <3>1. CASE k # l
        <4>1. k[2] # v \/ k[1] # s
          BY <1>6, <3>1 DEF v, s
        <4>2. link'[k] = link[k] /\ m_remoteCursors'[k[2]][k[1]] = m_remoteCursors[k[2]][k[1]] /\ Up(k)
          BY <1>2, <1>5, <1>6, <1>7, <2>1, <3>1, <4>1
        <4> QED
          BY <4>2 DEF IInv, Moves, Coming
      <3>2. CASE k = l
        <4>1. LastIs(q, Move(s)) /\ q \in Seq(Packet) /\ Move(s) \in Packet /\ Move(s).type = "MOUSE_MOVE"
          BY <1>2, <1>5, <2>1, <3>2, MoveIsPacket DEF IInv, Moves, Types, q, s
        <4>2. LastIs(Tail(q), Move(s))
          BY <1>1, <4>1, LastOfTail
        <4>3. ASSUME ~Coming(l, {"MOUSE_MOVE"})' PROVE p = Move(s)
          <5>1. \A i \in DOMAIN Tail(q) : Tail(q)[i].type # Move(s).type
            BY <1>2, <4>1, <4>3 DEF Coming
          <5>2. Head(q).type = Move(s).type
            BY <4>1 DEF q
          <5> QED
            BY <1>1, <4>1, <5>1, <5>2, LastIsHead DEF p, q
        <4> QED
          BY <1>2, <1>7, <3>2, <4>2, <4>3 DEF v, s
      <3> QED
        BY <3>1, <3>2
    <2>2. \A m \in Members : Distance(m_CursorPos'[m], pointer'[m]) < 2
      BY <1>1 DEF IInv, Moves, mouse
    <2> QED
      BY <1>5, <2>1, <2>2 DEF Moves
  <1>10. Said'
    <2>1. \A h \in Guests : <<Host, h>> \in Links
      BY DEF Links
    <2> QED
      BY <1>1, <1>2, <1>4, <1>5, <2>1, SaidKept DEF IInv, level
  <1>11. Types'
    BY <1>1, <1>2, <1>4, <1>7 DEF IInv, Types, mouse, playtest, budget
  <1>12. Left'
    <2>1. at[v] # "gone" /\ at[v] # "alone" /\ at' = at
      BY <1>1 DEF InSession
    <2> QED
      BY <1>4, <1>7, <2>1 DEF IInv, Left, InSession
  <1> QED
    BY <1>8, <1>9, <1>10, <1>11, <1>12 DEF IInv

\* The last settings of those under way are the host's.
LEMMA LevelSettingsKeeps ==
    ASSUME IInv, NEW l \in Links, handlePacket(l), Head(link[l]).type = "LEVEL_SETTINGS",
           applyLevelSettings(l[2], Head(link[l]))
    PROVE  IInv'
  <1> DEFINE p == Head(link[l])
             q == link[l]
  <1>1. /\ InSession(l[2]) /\ q # <<>> /\ link' = [link EXCEPT ![l] = Tail(@)]
        /\ UNCHANGED <<at, told, mouse, playtest, chosen, unsaid, budget, view>>
    BY DEF handlePacket, applyLevelSettings
  <1>2. /\ link' \in [Links -> Seq(Packet)] /\ \A k \in Links : k # l => link'[k] = link[k]
        /\ link'[l] = Tail(q) /\ p \in Packet
        /\ at[l[1]] # "new" /\ at[l[2]] # "new"
        /\ \A k \in Links : Quiet(link[k], link'[k], "MOUSE_MOVE")
        /\ \A g \in Guests : \A i \in DOMAIN link'[<<g, Host>>] :
              link'[<<g, Host>>][i].type # "LEVEL_SETTINGS"
    BY <1>1, Taken
  <1>3. PICK g \in Guests : l = <<Host, g>>
    BY <1>1, Taken
  <1>4. g \in Members /\ Host \in Members /\ g # Host
    BY PresenceAssumption DEF Members
  <1> DEFINE new == Applied(settings[g], p.settings)
  <1>5. new \in LevelSettings /\ new["gamemode"] = p.settings["gamemode"]
    <2>1. p.settings \in LevelSettings
      BY <1>2 DEF Packet
    <2>2. settings[g] \in LevelSettings
      BY <1>4 DEF IInv, Types
    <2> QED
      BY <2>1, <2>2 DEF Applied, Fields, LevelSettings
  <1>6. settings' = IF Edits(g) THEN [settings EXCEPT ![g] = new] ELSE settings
    BY <1>3 DEF applyLevelSettings
  <1> HIDE DEF p, q, new
  <1>7. /\ settings' \in [Members -> LevelSettings]
        /\ settings'[g] = IF Edits(g) THEN new ELSE settings[g]
        /\ \A m \in Members : m # g => settings'[m] = settings[m]
    BY <1>4, <1>5, <1>6 DEF IInv, Types
  <1>8. \A k : Up(k)' <=> Up(k)
    BY <1>1 DEF Up, InSession
  <1>9. Strangers'
    <2>1. \A h \in Guests : h \in Members
      BY DEF Members
    <2>2. \A h \in Guests : at'[h] \in {"new", "fade"} => settings'[h] = NewLevel
      BY <1>1, <1>7, <2>1 DEF IInv, Strangers, Edits
    <2> QED
      BY <1>1, <1>2, <2>2 DEF IInv, Strangers, view, sprites
  <1>10. Moves'
    BY <1>1, <1>2, <1>8, MovesKept DEF IInv, view, sprites
  <1>11. Said'
    <2> DEFINE set == onLocalLevelSettingsChanged(Host)
    <2>1. /\ set \in Packet /\ set.type = "LEVEL_SETTINGS" /\ set' = set
          /\ set.settings["gamemode"] = settings[Host]["gamemode"]
      BY <1>4, <1>7, SettingsIsPacket DEF IInv, onLocalLevelSettingsChanged, extractLevelSettings
    <2>2. settings'[Host] = chosen' /\ settings[Host] = chosen
      BY <1>1, <1>4, <1>7 DEF IInv, Said
    <2> HIDE DEF set
    <2>3. \A h \in Guests : ~Coming(<<h, Host>>, {"LEVEL_SETTINGS"})'
      BY <1>2 DEF Coming
    <2>4. ASSUME NEW h \in Guests, Up(<<Host, h>>)', ~unsaid
          PROVE  /\ LastIs(link'[<<Host, h>>], set)
                 /\ ~Coming(<<Host, h>>, {"LEVEL_SETTINGS"})' => Agrees(h)'
      <3>1. h \in Members /\ <<Host, h>> \in Links /\ Up(<<Host, h>>)
        BY <1>8, <2>4 DEF Members, Links
      <3>2. CASE h # g
        <4>1. link'[<<Host, h>>] = link[<<Host, h>>] /\ settings'[h] = settings[h] /\ chosen' = chosen
          BY <1>1, <1>2, <1>3, <1>7, <3>1, <3>2
        <4> QED
          BY <2>4, <3>1, <4>1 DEF IInv, Said, Agrees, Coming, set
      <3>3. CASE h = g
        <4>1. q = link[<<Host, h>>] /\ q \in Seq(Packet) /\ LastIs(q, set) /\ link'[<<Host, h>>] = Tail(q)
          BY <1>2, <1>3, <2>4, <3>1, <3>3 DEF IInv, Said, Types, q, set
        <4>2. LastIs(Tail(q), set)
          BY <1>1, <2>1, <4>1, LastOfTail
        <4>3. ASSUME ~Coming(<<Host, h>>, {"LEVEL_SETTINGS"})' PROVE p = set
          <5>1. \A i \in DOMAIN Tail(q) : Tail(q)[i].type # set.type
            BY <2>1, <4>1, <4>3 DEF Coming
          <5>2. Head(q).type = set.type
            BY <2>1 DEF q
          <5> QED
            BY <1>1, <2>1, <4>1, <5>1, <5>2, LastIsHead DEF p, q
        <4>4. ~Edits(g) => settings[g] = NewLevel
          BY <1>1, <1>3 DEF InSession, Edits, IInv, Strangers
        <4>5. ASSUME p = set PROVE Agrees(g)'
          BY <1>1, <1>5, <1>7, <2>1, <2>2, <4>4, <4>5 DEF Agrees
        <4> QED
          BY <3>3, <4>1, <4>2, <4>3, <4>5
      <3> QED
        BY <3>2, <3>3
    <2> QED
      BY <1>1, <2>1, <2>2, <2>3, <2>4 DEF Said, set
  <1>12. Types'
    BY <1>1, <1>2, <1>7 DEF IInv, Types, view, sprites, mouse, playtest, budget
  <1>13. Left'
    BY <1>1 DEF IInv, Left, InSession, view, sprites
  <1> QED
    BY <1>9, <1>10, <1>11, <1>12, <1>13 DEF IInv

\* Every packet but a request.
LEMMA HandlePacketKeeps == ASSUME IInv, NEW l \in Links, handlePacket(l) PROVE IInv'
  BY SelectChangeKeeps, MouseMoveKeeps, PlayerPositionKeeps, ObjectPacketKeeps, LevelSettingsKeeps
     DEF handlePacket

\* The host's answer says the settings last.
LEMMA RequestKeeps == ASSUME IInv, NEW g \in Guests, onRequest(g) PROVE IInv'
  <1> DEFINE l == <<g, Host>>
             back == <<Host, g>>
             q == link[l]
             r == link[back]
             set == onLocalLevelSettingsChanged(Host)
             new == IF InSession(g) THEN r \o FullState ELSE r
  <1>1. /\ InSession(Host) /\ q # <<>> /\ Head(q).type = "REQUEST_FULL_STATE"
        /\ link' = [link EXCEPT ![l] = Tail(@), ![back] = IF InSession(g) THEN @ \o FullState ELSE @]
        /\ UNCHANGED <<at, told, view, mouse, playtest, level, budget>>
    BY DEF onRequest
  <1>2. /\ g \in Members /\ Host \in Members /\ g # Host /\ l \in Links /\ back \in Links /\ l # back
        /\ \A h \in Guests : <<h, Host>> \in Links /\ <<Host, h>> \in Links /\ <<h, Host>> # back
    BY PresenceAssumption DEF Members, Links
  <1>3. q \in Seq(Packet) /\ r \in Seq(Packet)
    BY <1>2 DEF IInv, Types
  <1>4. /\ FullState \in Seq(Packet) /\ FullState # <<>> /\ set \in Packet /\ set.type = "LEVEL_SETTINGS"
        /\ FullState[Len(FullState)] = set
        /\ \A i \in DOMAIN FullState :
              /\ FullState[i].type # "MOUSE_MOVE"
              /\ FullState[i].type = "LEVEL_SETTINGS" => FullState[i] = set
    BY FullStateTells, SettingsIsPacket DEF IInv
  <1>5. Tail(q) \in Seq(Packet) /\ new \in Seq(Packet)
    BY <1>1, <1>3, <1>4
  <1>6. /\ link' \in [Links -> Seq(Packet)] /\ link'[l] = Tail(q) /\ link'[back] = new
        /\ \A k \in Links : k # l /\ k # back => link'[k] = link[k]
    <2>1. link' = [link EXCEPT ![l] = Tail(q), ![back] = new]
      BY <1>1, <1>2 DEF IInv, Types
    <2> HIDE DEF l, back, q, new, r
    <2> QED
      BY <1>2, <1>5, <2>1 DEF IInv, Types
  <1> HIDE DEF l, back, q, r, set
  <1>7. \A k \in Links : Quiet(link[k], link'[k], "MOUSE_MOVE")
    <2>1. Quiet(q, Tail(q), "MOUSE_MOVE")
      BY <1>1 DEF Quiet
    <2>2. Quiet(r, new, "MOUSE_MOVE")
      BY <1>4 DEF Quiet
    <2>3. \A k : Quiet(link[k], link[k], "MOUSE_MOVE")
      BY DEF Quiet
    <2> HIDE DEF new
    <2> QED
      BY <1>6, <2>1, <2>2, <2>3 DEF q, r
  <1>8. \A k : Up(k)' <=> Up(k)
    BY <1>1 DEF Up, InSession
  <1>9. Strangers'
    <2>1. ASSUME NEW k \in Links, at'[k[1]] = "new" \/ at'[k[2]] = "new"
          PROVE  link'[k] = <<>> /\ m_remoteCursors'[k[2]][k[1]] = None
      <3>1. link[k] = <<>> /\ m_remoteCursors[k[2]][k[1]] = None /\ m_remoteCursors' = m_remoteCursors
        BY <1>1, <2>1 DEF IInv, Strangers, view, sprites
      <3>2. k # l
        BY <1>1, <3>1 DEF q
      <3>3. ASSUME k = back PROVE link'[k] = <<>>
        <4>1. ~InSession(g)
          BY <1>1, <2>1, <3>3 DEF InSession, back
        <4> QED
          BY <1>6, <3>1, <3>3, <4>1 DEF r
      <3> QED
        BY <1>6, <3>1, <3>2, <3>3
    <2> QED
      BY <1>1, <2>1 DEF IInv, Strangers, level
  <1>10. Moves'
    BY <1>1, <1>7, <1>8, MovesKept DEF IInv, view, sprites
  <1>11. Said'
    <2>1. set' = set /\ settings'[Host] = chosen' /\ unsaid' = unsaid /\ settings' = settings /\ chosen' = chosen
      BY <1>1 DEF set, onLocalLevelSettingsChanged, extractLevelSettings, level, IInv, Said
    <2>2. ASSUME NEW h \in Guests PROVE ~Coming(<<h, Host>>, {"LEVEL_SETTINGS"})'
      <3>1. \A i \in DOMAIN link[<<h, Host>>] : link[<<h, Host>>][i].type # "LEVEL_SETTINGS"
        BY DEF IInv, Said, Coming
      <3>2. CASE <<h, Host>> # l
        <4>1. link'[<<h, Host>>] = link[<<h, Host>>]
          BY <1>2, <1>6, <3>2
        <4> QED
          BY <3>1, <4>1 DEF Coming
      <3>3. CASE <<h, Host>> = l
        <4>1. /\ DOMAIN q = 1 .. Len(q) /\ DOMAIN Tail(q) = 1 .. (Len(q) - 1) /\ Len(q) \in Nat
              /\ \A i \in 1 .. (Len(q) - 1) : Tail(q)[i] = q[i + 1]
          BY <1>1, <1>3
        <4>2. \A i \in DOMAIN Tail(q) : i + 1 \in DOMAIN q /\ Tail(q)[i] = q[i + 1]
          BY <4>1
        <4>3. q = link[<<h, Host>>] /\ link'[<<h, Host>>] = Tail(q)
          BY <1>6, <3>3 DEF q
        <4>4. \A i \in DOMAIN Tail(q) : Tail(q)[i].type # "LEVEL_SETTINGS"
          BY <3>1, <4>2, <4>3
        <4> QED
          BY <4>3, <4>4 DEF Coming
      <3> QED
        BY <3>2, <3>3
    <2>3. ASSUME NEW h \in Guests, Up(<<Host, h>>)', ~unsaid
          PROVE  /\ LastIs(link'[<<Host, h>>], set)
                 /\ ~Coming(<<Host, h>>, {"LEVEL_SETTINGS"})' => Agrees(h)
      <3>1. <<Host, h>> # l /\ Up(<<Host, h>>)
        BY <1>2, <1>8, <2>3 DEF l
      <3>2. CASE h # g
        <4>1. link'[<<Host, h>>] = link[<<Host, h>>]
          BY <1>2, <1>6, <3>1, <3>2 DEF back
        <4> QED
          BY <2>3, <3>1, <4>1 DEF IInv, Said, Coming, set
      <3>3. CASE h = g
        <4>1. link'[<<Host, h>>] = r \o FullState
          BY <1>6, <3>1, <3>3 DEF back, Up
        <4>2. /\ Len(FullState) \in DOMAIN FullState /\ LastIs(FullState, set)
              /\ FullState[Len(FullState)].type = set.type
          BY <1>4 DEF LastIs
        <4>3. LastIs(r \o FullState, set)
          BY <1>3, <1>4, <4>2, LastAdded
        <4>4. Coming(<<Host, h>>, {"LEVEL_SETTINGS"})'
          <5>1. /\ Len(r) \in Nat /\ Len(FullState) \in Nat /\ Len(FullState) > 0
                /\ Len(r) + Len(FullState) \in DOMAIN (r \o FullState)
                /\ (r \o FullState)[Len(r) + Len(FullState)] = FullState[Len(FullState)]
            BY <1>3, <1>4
          <5> QED
            BY <1>4, <4>1, <5>1 DEF Coming
        <4> QED
          BY <4>1, <4>3, <4>4
      <3> QED
        BY <3>2, <3>3
    <2> QED
      BY <2>1, <2>2, <2>3 DEF Said, Agrees, set
  <1>12. Types'
    BY <1>1, <1>6 DEF IInv, Types, view, sprites, mouse, playtest, level, budget
  <1>13. Left'
    BY <1>1 DEF IInv, Left, InSession, view, sprites
  <1> QED
    BY <1>9, <1>10, <1>11, <1>12, <1>13 DEF IInv

-----------------------------------------------------------------------------
(* The theorems                                                            *)

\* The host is alone at first.
LEMMA InitIInv == Init => IInv
  <1> SUFFICES ASSUME Init PROVE IInv
    OBVIOUS
  <1>1. Host \in Members /\ \A g \in Guests : g \in Members /\ g # Host
    BY PresenceAssumption DEF Members
  <1>2. \A l \in Links : l[1] \in Members /\ l[2] \in Members /\ link[l] = <<>>
    BY DEF Links, Members, Init
  <1>3. Types
    <2>1. link \in [Links -> Seq(Packet)]
      <3>1. <<>> \in Seq(Packet)
        OBVIOUS
      <3> QED
        BY <3>1 DEF Init
    <2>2. m_remoteSelections \in [Members -> [Members -> Seq(Obj)]]
      <3>1. <<>> \in Seq(Obj)
        OBVIOUS
      <3> QED
        BY <3>1 DEF Init, ForAll
    <2>3. m_remoteSelectionHighlights \in [Members -> [Members -> SUBSET Highlight]]
      BY DEF Init, ForAll
    <2>4. /\ m_remoteCursors \in [Members -> [Members -> Nat \cup {None}]]
          /\ m_remotePlayers \in [Members -> [Members -> Player \cup {None}]]
      BY DEF Init, ForAll
    <2>5. /\ pointer \in [Members -> Positions] /\ m_CursorPos \in [Members -> Positions]
          /\ acts \in 0 .. MaxActs
      BY PresenceAssumption DEF Init, ForAll
    <2>6. /\ at \in [Members -> {"new", "fade", "editor", "alone", "gone"}]
          /\ told \in [Links -> (SUBSET Obj) \cup {None}]
          /\ synced \in [Members -> SUBSET Obj]
      BY DEF Init
    <2>7. /\ play \in [Members -> {"no", "alive", "dead"}] /\ wasPlaytesting \in [Members -> BOOLEAN]
          /\ unsaid \in BOOLEAN /\ topic \in Topics
      BY DEF Init, ForAll
    <2>8. settings \in [Members -> LevelSettings] /\ chosen \in LevelSettings
      <3>1. NewLevel \in LevelSettings /\ [f \in Fields |-> 1] \in LevelSettings
        BY DEF NewLevel, LevelSettings
      <3> QED
        BY <3>1 DEF Init
    <2> QED
      BY <2>1, <2>2, <2>3, <2>4, <2>5, <2>6, <2>7, <2>8 DEF Types
  <1>4. Strangers
    BY <1>1, <1>2 DEF Init, Strangers, ForAll
  <1>5. Moves
    <2>1. \A m \in Members : Distance(m_CursorPos[m], pointer[m]) < 2
      BY DEF Init, ForAll, Distance
    <2> QED
      BY <1>2, <2>1 DEF Init, Moves, LastIs, ForAll
  <1>6. Said
    <2>1. \A g \in Guests : <<g, Host>> \in Links /\ <<Host, g>> \in Links
      BY DEF Links
    <2>2. \A g \in Guests : ~Up(<<Host, g>>)
      BY <1>1 DEF Init, Up, InSession
    <2> QED
      BY <1>1, <1>2, <2>1, <2>2 DEF Init, Said, Coming
  <1>7. Left
    BY DEF Init, Left, ForAll, InSession
  <1> QED
    BY <1>3, <1>4, <1>5, <1>6, <1>7 DEF IInv

\* Every step keeps the invariant.
LEMMA NextKeeps == IInv /\ [Next]_vars => IInv'
  <1> SUFFICES ASSUME IInv, [Next]_vars PROVE IInv'
    OBVIOUS
  <1>1. CASE \E g \in Guests : Join(g) \/ EndFade(g) \/ requestFullState(g) \/ LoseHost(g)
    BY <1>1, JoinKeeps, EndFadeKeeps, RequestFullStateKeeps, LoseHostKeeps
  <1>2. CASE \E m \in Members :
               \/ Exit(m) \/ onLocalObjectModified(m) \/ onLocalObjectDestroyed(m)
               \/ onLocalSelectionChanged(m) \/ onLocalCursorUpdate(m)
               \/ StartPlaytest(m) \/ DieOrRespawn(m) \/ onStopPlaytest(m)
               \/ Frame(m) \/ settingsUpdate(m)
    BY <1>2, ExitKeeps, ObjectModifiedKeeps, ObjectDestroyedKeeps, SelectionKeeps, CursorUpdateKeeps,
       PlayKeeps, StopPlaytestKeeps, FrameKeeps, SettingsUpdateKeeps
  <1>3. CASE ChangeSettings
    BY <1>3, ChangeSettingsKeeps
  <1>4. CASE \E l \in Links : poll(l) \/ UseFreed(l)
    <2>1. PICK l \in Links : poll(l) \/ UseFreed(l)
      BY <1>4
    <2>2. l[1] \in Members /\ l[2] \in Members /\ (l[1] # Host => l[1] \in Guests)
      BY DEF Links, Members
    <2>3. handlePacket(l) \/ (l[1] \in Guests /\ onRequest(l[1])) \/ Exit(l[2])
      BY <2>1, <2>2 DEF poll, UseFreed
    <2> QED
      BY <2>2, <2>3, HandlePacketKeeps, RequestKeeps, ExitKeeps
  <1>5. CASE UNCHANGED vars
    <2>1. UNCHANGED <<at, link, told, view, mouse, playtest, level, budget>>
      BY <1>5 DEF vars
    <2>2. Strangers' /\ Moves' /\ Said'
      BY <2>1, StillLinks DEF view, sprites
    <2> QED
      BY <2>1, <2>2 DEF IInv, Types, Left, InSession, view, sprites, mouse, playtest, level, budget
  <1> QED
    BY <1>1, <1>2, <1>3, <1>4, <1>5 DEF Next

\* The invariant holds in every state.
LEMMA IInvAlways == Spec => []IInv
  BY InitIInv, NextKeeps, PTL DEF Spec

\* Out of the session nobody's player is left in the editor, out of the
\* editor no pointer to a sprite of it is, and every variable has its type:
\* cleanUpPlayers and clearAll miss nothing, and nothing comes back after
\* them, for any number of members and packets under way.
THEOREM NothingEverLeft == Spec => []NothingLeft
  <1>1. IInv => NothingLeft
    BY DEF IInv, NothingLeft, TypeOK, Types, Left
  <1> QED
    BY <1>1, IInvAlways, PTL

\* The cursor shown for a member is within a unit and a half of its mouse
\* when no move is under way: what onLocalCursorUpdate does not send never
\* adds up.
THEOREM CursorStaysNear == Spec => []CursorNear
  <1>1. ASSUME IInv PROVE CursorNear
    <2> SUFFICES ASSUME NEW l \in Links, Up(l), m_remoteCursors[l[2]][l[1]] # None,
                        ~Coming(l, {"MOUSE_MOVE"})
                 PROVE  pointer[l[1]] - m_remoteCursors[l[2]][l[1]] \in -1 .. 4
      BY DEF CursorNear
    <2> DEFINE s == l[1]
    <2>1. s \in Members
      BY DEF Links, Members
    <2>2. m_CursorPos[s] \in Nat /\ pointer[s] \in Nat
      BY <1>1, <2>1, PresenceAssumption DEF IInv, Types
    <2>3. m_remoteCursors[l[2]][s] = 4 * (m_CursorPos[s] \div 4)
      BY <1>1 DEF IInv, Moves, Move
    <2>4. Distance(m_CursorPos[s], pointer[s]) < 2
      BY <1>1, <2>1 DEF IInv, Moves
    <2> HIDE DEF s
    <2> QED
      BY <2>2, <2>3, <2>4 DEF Distance, s
  <1> QED
    BY <1>1, IInvAlways, PTL

\* No guest overrides what the host's user chose, and of the settings that
\* are both filled in and applied a guest in the editor that got any has the
\* chosen ones as soon as the host has said so and nothing is under way,
\* whatever full states crossed them.
THEOREM SettingsAlwaysAgree == Spec => []SettingsAgree
  <1>1. ASSUME IInv PROVE SettingsAgree
    BY <1>1 DEF IInv, Said, Agrees, SettingsAgree, Settled, Up, InSession, Edits
  <1> QED
    BY <1>1, IInvAlways, PTL

-----------------------------------------------------------------------------
(* The selection that is on its way                                        *)

Select == "SELECT_CHANGE"

\* What the receiver has collected after p, with old before it.
Got(old, p) == IF p.type = Select THEN Collected(old, p) ELSE old

\* acc is what is collected, from old on, as the packets of q arrive.
Collects(q, acc, old) ==
    /\ acc \in [0 .. Len(q) -> Seq(Obj)] /\ acc[0] = old
    /\ \A i \in 1 .. Len(q) : acc[i] = Got(acc[i - 1], q[i])

IsLast(q, i) == q[i].type = Select /\ \A j \in DOMAIN q : j > i => q[j].type # Select

\* With the last chunk in q the receiver, who has collected old, is at the end
\* of a selection, and that is new.
Ends(q, acc, new) ==
    \A i \in 1 .. Len(q) : IsLast(q, i) => ~q[i].hasMore /\ Range(acc[i]) = new

Follows(q, old, new) == \E acc : Collects(q, acc, old) /\ Ends(q, acc, new)

\* A row of a set's UIDs has each of them.
LEMMA RowOfSet == ASSUME NEW S \in SUBSET Obj PROVE Range(SetToSeq(S)) = S
  <1>1. IsFiniteSet(S)
    BY PresenceAssumption, FS_Subset
  <1> DEFINE n == Cardinality(S)
             f == SetToSeq(S)
  <1>2. n \in Nat /\ ExistsBijection(1 .. n, S)
    BY <1>1, FS_CardinalityType
  <1>3. \E g \in [1 .. n -> S] : IsInjective(g)
    BY <1>2 DEF ExistsBijection, Bijection, Injection
  <1>4. f \in [1 .. n -> S] /\ IsInjective(f)
    BY <1>3 DEF SetToSeq
  <1>5. f \in Injection(1 .. n, S)
    BY <1>4 DEF Injection
  <1>6. Cardinality(1 .. n) = n
    BY <1>2, FS_Interval
  <1> HIDE DEF n, f
  <1>7. f \in Surjection(1 .. n, S)
    BY <1>1, <1>5, <1>6, FS_Injection DEF n
  <1> QED
    BY <1>4, <1>7 DEF Surjection, Range, f

\* Nothing is collected from other packets.
LEMMA FollowsNone ==
    ASSUME NEW q \in Seq(Packet), \A i \in DOMAIN q : q[i].type # Select,
           NEW old \in Seq(Obj), NEW new
    PROVE  Follows(q, old, new)
  <1> DEFINE acc == [i \in 0 .. Len(q) |-> old]
  <1>1. Len(q) \in Nat /\ DOMAIN q = 1 .. Len(q)
    OBVIOUS
  <1>2. Collects(q, acc, old)
    BY <1>1 DEF Collects, Got
  <1>3. Ends(q, acc, new)
    BY <1>1 DEF Ends, IsLast
  <1> QED
    BY <1>2, <1>3 DEF Follows

\* One packet of any kind is taken.
LEMMA FollowsTail ==
    ASSUME NEW q \in Seq(Packet), q # <<>>, NEW old, NEW new, Follows(q, old, new)
    PROVE  /\ Got(old, Head(q)) \in Seq(Obj)
           /\ Follows(Tail(q), Got(old, Head(q)), new)
  <1>1. PICK acc : Collects(q, acc, old) /\ Ends(q, acc, new)
    BY DEF Follows
  <1>2. /\ Tail(q) \in Seq(Packet) /\ Len(Tail(q)) = Len(q) - 1 /\ Len(q) \in Nat /\ Len(q) > 0
        /\ DOMAIN q = 1 .. Len(q) /\ DOMAIN Tail(q) = 1 .. (Len(q) - 1) /\ Head(q) = q[1]
        /\ \A i \in 1 .. Len(q) - 1 : Tail(q)[i] = q[i + 1]
    BY HeadTailProperties
  <1> DEFINE r == Tail(q)
             n == Len(q)
             rest == [i \in 0 .. Len(r) |-> acc[i + 1]]
             first == Got(old, Head(q))
  <1>3. /\ acc \in [0 .. n -> Seq(Obj)] /\ acc[0] = old
        /\ \A i \in 1 .. n : acc[i] = Got(acc[i - 1], q[i])
        /\ \A i \in 1 .. n : IsLast(q, i) => ~q[i].hasMore /\ Range(acc[i]) = new
    BY <1>1 DEF Collects, Ends
  <1>4. first = acc[1] /\ acc[1] \in Seq(Obj)
    BY <1>2, <1>3
  <1> HIDE DEF first, n, r
  <1>5. /\ Len(r) = n - 1 /\ n \in Nat /\ n > 0 /\ DOMAIN r = 1 .. (n - 1)
        /\ \A i \in 1 .. n - 1 : r[i] = q[i + 1]
        /\ DOMAIN q = 1 .. n
    BY <1>2 DEF n, r
  <1>6. /\ rest \in [0 .. Len(r) -> Seq(Obj)]
        /\ \A i \in 0 .. n - 1 : rest[i] = acc[i + 1]
    BY <1>3, <1>5
  <1> HIDE DEF rest
  <1>7. ASSUME NEW i \in 1 .. n - 1 PROVE rest[i] = Got(rest[i - 1], r[i])
    <2>1. i + 1 \in 1 .. n /\ (i + 1) - 1 = i /\ i - 1 \in 0 .. n - 1 /\ (i - 1) + 1 = i /\ i \in 0 .. n - 1
      BY <1>5
    <2>2. acc[i + 1] = Got(acc[i], q[i + 1])
      BY <1>3, <2>1
    <2> QED
      BY <1>5, <1>6, <2>1, <2>2
  <1>8. Collects(r, rest, first)
    BY <1>4, <1>5, <1>6, <1>7 DEF Collects
  <1>9. ASSUME NEW i \in 1 .. n - 1, IsLast(r, i) PROVE ~r[i].hasMore /\ Range(rest[i]) = new
    <2>1. i + 1 \in 1 .. n /\ r[i] = q[i + 1] /\ i \in 0 .. n - 1
      BY <1>5
    <2>2. ASSUME NEW j \in DOMAIN q, j > i + 1 PROVE q[j].type # Select
      <3>1. j - 1 \in DOMAIN r /\ j - 1 > i /\ r[j - 1] = q[j]
        BY <1>5, <2>2
      <3> QED
        BY <1>9, <3>1 DEF IsLast
    <2>3. q[i + 1].type = Select
      BY <1>9, <2>1 DEF IsLast
    <2>4. IsLast(q, i + 1)
      BY <2>2, <2>3 DEF IsLast
    <2>5. ~q[i + 1].hasMore /\ Range(acc[i + 1]) = new
      BY <1>3, <2>1, <2>4
    <2> QED
      BY <1>6, <2>1, <2>5
  <1>10. Ends(r, rest, new)
    BY <1>5, <1>9 DEF Ends
  <1> QED
    BY <1>4, <1>8, <1>10 DEF Follows, r, first

\* The last chunk ends the selection.
LEMMA FollowsHead ==
    ASSUME NEW q \in Seq(Packet), q # <<>>, NEW old, NEW new, Follows(q, old, new),
           Head(q).type = Select, \A i \in DOMAIN Tail(q) : Tail(q)[i].type # Select
    PROVE  ~Head(q).hasMore /\ Range(Collected(old, Head(q))) = new
  <1>1. PICK acc : Collects(q, acc, old) /\ Ends(q, acc, new)
    BY DEF Follows
  <1>2. /\ Len(Tail(q)) = Len(q) - 1 /\ Len(q) \in Nat /\ Len(q) > 0
        /\ DOMAIN q = 1 .. Len(q) /\ DOMAIN Tail(q) = 1 .. (Len(q) - 1) /\ Head(q) = q[1]
        /\ \A i \in 1 .. Len(q) - 1 : Tail(q)[i] = q[i + 1]
    BY HeadTailProperties
  <1>3. ASSUME NEW j \in DOMAIN q, j > 1 PROVE q[j].type # Select
    <2>1. j - 1 \in DOMAIN Tail(q) /\ Tail(q)[j - 1] = q[j]
      BY <1>2, <1>3
    <2> QED
      BY <2>1
  <1>4. IsLast(q, 1) /\ 1 \in 1 .. Len(q)
    BY <1>2, <1>3 DEF IsLast
  <1>5. acc[1] = Collected(old, Head(q))
    BY <1>1, <1>2, <1>4 DEF Collects, Got
  <1> QED
    BY <1>1, <1>2, <1>4, <1>5 DEF Ends

\* c is a where q goes and goes on as b, for ps.
Joined(q, ps, a, b, c) ==
    /\ \A i \in 0 .. Len(q) : c[i] = a[i]
    /\ \A i \in 1 .. Len(ps) : c[Len(q) + i] = b[i]

\* What is added to a queue is collected after what was in it.
LEMMA CollectsMore ==
    ASSUME NEW q \in Seq(Packet), NEW ps \in Seq(Packet), NEW old, NEW a, NEW b,
           Collects(q, a, old), Collects(ps, b, a[Len(q)])
    PROVE  \E c : Collects(q \o ps, c, old) /\ Joined(q, ps, a, b, c)
  <1> DEFINE r == q \o ps
             n == Len(q)
             m == Len(ps)
             c == [i \in 0 .. Len(r) |-> IF i <= n THEN a[i] ELSE b[i - n]]
  <1>1. /\ n \in Nat /\ m \in Nat /\ Len(r) = n + m
        /\ \A i \in 1 .. n : r[i] = q[i]
        /\ \A i \in 1 .. m : r[n + i] = ps[i]
    OBVIOUS
  <1>2. /\ a \in [0 .. n -> Seq(Obj)] /\ a[0] = old
        /\ \A i \in 1 .. n : a[i] = Got(a[i - 1], q[i])
    BY DEF Collects
  <1>3. /\ b \in [0 .. m -> Seq(Obj)] /\ b[0] = a[n]
        /\ \A i \in 1 .. m : b[i] = Got(b[i - 1], ps[i])
    BY DEF Collects
  <1> HIDE DEF r, n, m
  <1>4. /\ c \in [0 .. n + m -> Seq(Obj)]
        /\ \A i \in 0 .. n : c[i] = a[i]
        /\ \A i \in 1 .. m : c[n + i] = b[i]
    <2>1. ASSUME NEW i \in 0 .. n + m PROVE (IF i <= n THEN a[i] ELSE b[i - n]) \in Seq(Obj)
      <3>1. CASE i <= n
        BY <1>1, <1>2, <3>1
      <3>2. CASE i > n
        <4>1. i - n \in 0 .. m
          BY <1>1, <3>2
        <4> QED
          BY <1>1, <1>3, <3>2, <4>1
      <3> QED
        BY <1>1, <3>1, <3>2
    <2>2. \A i \in 1 .. m : n + i \in 0 .. n + m /\ ~(n + i <= n) /\ (n + i) - n = i
      BY <1>1
    <2> QED
      BY <1>1, <2>1, <2>2
  <1> HIDE DEF c
  <1>5. ASSUME NEW i \in 0 .. m PROVE c[n + i] = b[i]
    <2>1. CASE i = 0
      <3>1. n + i = n /\ n \in 0 .. n
        BY <1>1, <2>1
      <3> QED
        BY <1>3, <1>4, <2>1, <3>1
    <2>2. CASE i # 0
      <3>1. i \in 1 .. m
        BY <1>1, <2>2
      <3> QED
        BY <1>4, <3>1
    <2> QED
      BY <2>1, <2>2
  <1>6. ASSUME NEW i \in 1 .. n + m PROVE c[i] = Got(c[i - 1], r[i])
    <2>1. CASE i <= n
      <3>1. i \in 1 .. n /\ i \in 0 .. n /\ i - 1 \in 0 .. n
        BY <1>1, <2>1
      <3> QED
        BY <1>1, <1>2, <1>4, <3>1
    <2>2. CASE i > n
      <3> DEFINE k == i - n
      <3>1. k \in 1 .. m /\ k \in 0 .. m /\ k - 1 \in 0 .. m /\ n + k = i /\ n + (k - 1) = i - 1
        BY <1>1, <2>2
      <3> HIDE DEF k
      <3>2. c[n + k] = b[k] /\ c[n + (k - 1)] = b[k - 1] /\ b[k] = Got(b[k - 1], ps[k]) /\ r[n + k] = ps[k]
        BY <1>1, <1>3, <1>5, <3>1
      <3> QED
        BY <3>1, <3>2
    <2> QED
      BY <1>1, <2>1, <2>2
  <1>7. c[0] = old
    BY <1>1, <1>2, <1>4
  <1>8. Collects(r, c, old)
    BY <1>1, <1>4, <1>6, <1>7 DEF Collects
  <1> QED
    <2>1. Joined(q, ps, a, b, c)
      BY <1>4 DEF Joined, n, m
    <2>2. Collects(q \o ps, c, old)
      BY <1>8 DEF r
    <2> QED
      BY <2>1, <2>2

\* What does not say anything of selections changes none.
LEMMA FollowsQuiet ==
    ASSUME NEW q \in Seq(Packet), NEW r, NEW old \in Seq(Obj), NEW new,
           Follows(q, old, new), Quiet(q, r, Select)
    PROVE  Follows(r, old, new)
  <1>1. CASE r = q
    BY <1>1
  <1>2. CASE \E ps \in Seq(Packet) : (\A i \in DOMAIN ps : ps[i].type # Select) /\ r = q \o ps
    <2>1. PICK ps \in Seq(Packet) : (\A i \in DOMAIN ps : ps[i].type # Select) /\ r = q \o ps
      BY <1>2
    <2>2. PICK a : Collects(q, a, old) /\ Ends(q, a, new)
      BY DEF Follows
    <2>3. Len(q) \in Nat /\ a[Len(q)] \in Seq(Obj)
      BY <2>2 DEF Collects
    <2> DEFINE b == [i \in 0 .. Len(ps) |-> a[Len(q)]]
    <2>4. Collects(ps, b, a[Len(q)])
      BY <2>1, <2>3 DEF Collects, Got
    <2> HIDE DEF b
    <2>5. PICK c : Collects(q \o ps, c, old) /\ Joined(q, ps, a, b, c)
      BY <2>1, <2>2, <2>4, CollectsMore
    <2>6. /\ Len(r) = Len(q) + Len(ps) /\ Len(ps) \in Nat /\ DOMAIN q = 1 .. Len(q)
          /\ DOMAIN ps = 1 .. Len(ps) /\ DOMAIN r = 1 .. (Len(q) + Len(ps))
          /\ \A i \in 1 .. Len(q) : r[i] = q[i]
          /\ \A i \in 1 .. Len(ps) : r[Len(q) + i] = ps[i]
      BY <2>1
    <2>7. ASSUME NEW i \in 1 .. Len(r), IsLast(r, i) PROVE ~r[i].hasMore /\ Range(c[i]) = new
      <3>1. i \in 1 .. Len(q)
        <4>1. ASSUME i > Len(q) PROVE FALSE
          <5>1. i - Len(q) \in 1 .. Len(ps) /\ Len(q) + (i - Len(q)) = i
            BY <2>3, <2>6, <4>1
          <5>2. r[i] = ps[i - Len(q)] /\ ps[i - Len(q)].type # Select
            BY <2>1, <2>6, <5>1
          <5> QED
            BY <2>7, <5>2 DEF IsLast
        <4> QED
          BY <2>3, <2>6, <4>1
      <3>2. r[i] = q[i] /\ \A j \in DOMAIN q : j \in DOMAIN r /\ r[j] = q[j]
        BY <2>3, <2>6, <3>1
      <3>3. IsLast(q, i)
        BY <2>7, <3>2 DEF IsLast
      <3>4. i \in 0 .. Len(q)
        BY <2>3, <3>1
      <3> QED
        BY <2>2, <2>5, <3>1, <3>2, <3>3, <3>4 DEF Ends, Joined
    <2>8. Ends(r, c, new)
      BY <2>7 DEF Ends
    <2> QED
      BY <2>1, <2>5, <2>8 DEF Follows
  <1>3. CASE q # <<>> /\ Head(q).type # Select /\ r = Tail(q)
    <2>1. Got(old, Head(q)) = old
      BY <1>3 DEF Got
    <2> QED
      BY <1>3, <2>1, FollowsTail
  <1> QED
    BY <1>1, <1>2, <1>3 DEF Quiet

\* The chunks of a selection put it together again, whatever was collected.
LEMMA ChunksCollect ==
    ASSUME NEW uids \in Seq(Obj), NEW old \in Seq(Obj)
    PROVE  LET ps == SelectPackets(uids)
           IN  /\ Len(ps) > 0 /\ \A i \in DOMAIN ps : ps[i].type = Select
               /\ ~ps[Len(ps)].hasMore
               /\ \E b : Collects(ps, b, old) /\ b[Len(ps)] = uids
  <1>1. CASE uids = <<>>
    <2> DEFINE p == [type |-> "SELECT_CHANGE", uids |-> <<>>, chunkIndex |-> 0, hasMore |-> FALSE]
               ps == <<p>>
               b == [i \in 0 .. 1 |-> IF i = 0 THEN old ELSE <<>>]
    <2>1. SelectPackets(uids) = ps
      BY <1>1 DEF SelectPackets
    <2>2. Len(ps) = 1 /\ ps[1] = p /\ DOMAIN ps = 1 .. 1
      OBVIOUS
    <2>3. p.type = Select /\ ~p.hasMore /\ Got(old, p) = <<>>
      BY DEF Got, Collected, Select
    <2> HIDE DEF p, ps
    <2>4. Collects(ps, b, old)
      <3>1. b \in [0 .. 1 -> Seq(Obj)] /\ b[0] = old /\ b[1] = <<>>
        OBVIOUS
      <3> HIDE DEF b
      <3>2. \A i \in 1 .. 1 : b[i] = Got(b[i - 1], ps[i])
        BY <2>2, <2>3, <3>1
      <3> QED
        BY <2>2, <3>1, <3>2 DEF Collects
    <2>5. b[1] = uids
      BY <1>1
    <2> HIDE DEF b
    <2> QED
      BY <2>1, <2>2, <2>3, <2>4, <2>5
  <1>2. CASE uids # <<>>
    <2> DEFINE n == Len(uids)
               C == ChunkSize
               chunks == (n + C - 1) \div C
               first(k) == (k - 1) * C
               end(k) == IF k < chunks THEN k * C ELSE n
               chunk(k) == [type |-> "SELECT_CHANGE", uids |-> SubSeq(uids, first(k) + 1, end(k)),
                            chunkIndex |-> k - 1, hasMore |-> hasMore(first(k), n)]
               ps == [k \in 1 .. chunks |-> chunk(k)]
               b == [k \in 0 .. chunks |-> IF k = 0 THEN old ELSE SubSeq(uids, 1, end(k))]
    <2>1. n \in Nat /\ n > 0 /\ C \in Nat /\ C > 0
      BY <1>2, PresenceAssumption
    <2>2. SelectPackets(uids) = ps
      BY <1>2 DEF SelectPackets
    <2>3. chunks \in Nat /\ chunks * C <= n + C - 1 /\ n <= chunks * C
      BY <2>1
    <2> HIDE DEF n, C, chunks
    <2>4. chunks > 0
      <3>1. chunks = 0 => chunks * C = 0
        BY <2>1, <2>3
      <3> QED
        BY <2>1, <2>3, <3>1
    <2>5. ASSUME NEW k \in 1 .. chunks
          PROVE  first(k) \in Nat /\ first(k) < n /\ end(k) \in Nat /\ end(k) <= n /\ first(k) <= end(k)
      <3>1. first(k) \in Nat
        BY <2>1
      <3>2. (chunks - k) * C >= 0 /\ (chunks - k) * C \in Int /\ chunks * C \in Int
        BY <2>1, <2>3
      <3>3. first(k) + C + (chunks - k) * C = chunks * C
        BY <2>1, <2>3
      <3>4. first(k) < n
        BY <2>1, <2>3, <3>1, <3>2, <3>3
      <3>5. ASSUME k < chunks PROVE k * C \in Nat /\ k * C <= n /\ first(k) <= k * C
        <4>1. (chunks - 1 - k) * C >= 0 /\ (chunks - 1 - k) * C \in Int /\ k * C \in Nat
          BY <2>1, <2>3, <3>5
        <4>2. k * C + C + (chunks - 1 - k) * C = chunks * C /\ first(k) + C = k * C
          BY <2>1, <2>3
        <4> QED
          BY <2>1, <2>3, <3>1, <3>2, <4>1, <4>2
      <3> QED
        BY <2>1, <3>1, <3>4, <3>5
    <2>6. ASSUME NEW k \in 1 .. chunks, k # 1 PROVE first(k) = end(k - 1) /\ k - 1 \in 1 .. chunks
      BY <2>1, <2>3, <2>6
    <2>7. first(1) = 0 /\ end(chunks) = n
      BY <2>1, <2>3
    <2>8. ~hasMore(first(chunks), n)
      <3>1. first(chunks) + C = chunks * C
        BY <2>1, <2>3
      <3> QED
        BY <2>1, <2>3, <3>1 DEF hasMore, C
    <2> HIDE DEF first, end
    <2>9. ASSUME NEW k \in 1 .. chunks PROVE SubSeq(uids, 1, end(k)) \in Seq(Obj)
      <3>1. end(k) \in Nat /\ end(k) <= Len(uids)
        BY <2>5 DEF n
      <3> QED
        BY <3>1
    <2>10. \A k \in 1 .. chunks : /\ ps[k] = chunk(k)
                                  /\ chunk(k).type = Select /\ chunk(k).chunkIndex = k - 1
                                  /\ chunk(k).uids = SubSeq(uids, first(k) + 1, end(k))
                                  /\ chunk(k).hasMore = hasMore(first(k), n)
      BY DEF Select
    <2>11. Len(ps) = chunks /\ DOMAIN ps = 1 .. chunks
      BY <2>3
    <2>12. /\ b \in [0 .. chunks -> Seq(Obj)] /\ b[0] = old
           /\ \A k \in 1 .. chunks : b[k] = SubSeq(uids, 1, end(k))
      BY <2>3, <2>9
    <2> HIDE DEF ps, b, chunk
    <2>13. ASSUME NEW k \in 1 .. chunks PROVE b[k] = Got(b[k - 1], ps[k])
      <3>1. CASE k = 1
        <4>1. ps[k].type = Select /\ ps[k].chunkIndex = 0 /\ ps[k].uids = SubSeq(uids, first(1) + 1, end(1))
          BY <2>10, <3>1
        <4>2. first(1) + 1 = 1
          BY <2>7
        <4> QED
          BY <2>12, <3>1, <4>1, <4>2 DEF Got, Collected
      <3>2. CASE k # 1
        <4>1. ps[k].type = Select /\ ps[k].chunkIndex # 0 /\ ps[k].uids = SubSeq(uids, first(k) + 1, end(k))
          BY <2>10, <3>2
        <4>2. k - 1 \in 1 .. chunks /\ first(k) = end(k - 1)
          BY <2>6, <3>2
        <4>3. b[k - 1] = SubSeq(uids, 1, end(k - 1)) /\ b[k] = SubSeq(uids, 1, end(k))
          BY <2>12, <4>2
        <4>4. /\ end(k - 1) \in Nat /\ end(k) \in Nat /\ end(k - 1) <= end(k) /\ end(k) <= Len(uids)
          BY <2>5, <4>2 DEF n
        <4> DEFINE e == end(k - 1)
                   f == end(k)
        <4>5. SubSeq(uids, 1, e) \o SubSeq(uids, e + 1, f) = SubSeq(uids, 1, f)
          <5> HIDE DEF e, f
          <5>1. e \in Nat /\ f \in Nat /\ e <= f /\ f <= Len(uids)
            BY <4>4 DEF e, f
          <5> QED
            BY <5>1, ConcatAdjacentSubSeq
        <4> QED
          BY <4>1, <4>2, <4>3, <4>5 DEF Got, Collected
      <3> QED
        BY <3>1, <3>2
    <2>14. Collects(ps, b, old)
      BY <2>11, <2>12, <2>13 DEF Collects
    <2>15. b[chunks] = uids
      <3>1. chunks \in 1 .. chunks
        BY <2>3, <2>4
      <3> QED
        BY <2>7, <2>12, <3>1, SubSeqFull DEF n
    <2>16. chunks \in 1 .. chunks
      BY <2>3, <2>4
    <2> QED
      BY <2>2, <2>3, <2>4, <2>8, <2>10, <2>11, <2>14, <2>15, <2>16
  <1> QED
    BY <1>1, <1>2

\* A selection that is sent is the last.
LEMMA FollowsSelection ==
    ASSUME NEW q \in Seq(Packet), NEW old \in Seq(Obj), NEW before, Follows(q, old, before),
           NEW S \in SUBSET Obj
    PROVE  Follows(q \o SelectPackets(SetToSeq(S)), old, S)
  <1> DEFINE ps == SelectPackets(SetToSeq(S))
             r == q \o ps
  <1>1. SetToSeq(S) \in Seq(Obj) /\ Range(SetToSeq(S)) = S /\ ps \in Seq(Packet)
    BY SetToSeqIsRow, RowOfSet, SelectPacketsPlain
  <1>2. PICK a : Collects(q, a, old)
    BY DEF Follows
  <1>3. Len(q) \in Nat /\ a[Len(q)] \in Seq(Obj)
    BY <1>2 DEF Collects
  <1>4. /\ Len(ps) > 0 /\ \A i \in DOMAIN ps : ps[i].type = Select
        /\ ~ps[Len(ps)].hasMore
        /\ \E b : Collects(ps, b, a[Len(q)]) /\ b[Len(ps)] = SetToSeq(S)
    BY <1>1, <1>3, ChunksCollect
  <1>5. PICK b : Collects(ps, b, a[Len(q)]) /\ b[Len(ps)] = SetToSeq(S)
    BY <1>4
  <1> HIDE DEF ps
  <1>6. PICK c : Collects(r, c, old) /\ Joined(q, ps, a, b, c)
    BY <1>1, <1>2, <1>5, CollectsMore
  <1> DEFINE n == Len(q)
             m == Len(ps)
  <1>7. /\ Len(r) = n + m /\ n \in Nat /\ m \in Nat /\ m > 0
        /\ DOMAIN ps = 1 .. m /\ DOMAIN r = 1 .. (n + m)
        /\ \A i \in 1 .. m : r[n + i] = ps[i]
    BY <1>1, <1>4
  <1> HIDE DEF r, n, m
  <1>8. m \in 1 .. m /\ n + m \in DOMAIN r /\ r[n + m] = ps[m] /\ ps[m].type = Select /\ ~ps[m].hasMore
    BY <1>4, <1>7 DEF m
  <1>9. ASSUME NEW i \in 1 .. Len(r), IsLast(r, i) PROVE ~r[i].hasMore /\ Range(c[i]) = S
    <2>1. i = n + m
      <3>1. ~(n + m > i)
        BY <1>8, <1>9 DEF IsLast
      <3> QED
        BY <1>7, <3>1
    <2>2. c[n + m] = SetToSeq(S)
      BY <1>5, <1>6, <1>8 DEF n, m, Joined
    <2> QED
      BY <1>1, <1>8, <2>1, <2>2
  <1>10. Ends(r, c, S)
    BY <1>9 DEF Ends
  <1> QED
    BY <1>6, <1>10 DEF Follows, r, ps

\* What is under way leads to the selection last sent on the link.
FInv ==
    \A l \in Links : InSession(l[2]) /\ at[l[1]] # "gone" =>
        Follows(link[l], m_remoteSelections[l[2]][l[1]], told[l])

Stays(l) == InSession(l[2]) /\ at[l[1]] # "gone"

\* What a step may do to a link that stays: nothing about selections, the
\* beginning of a session, a selection sent, or a part of one taken.
Rests(l) ==
    /\ Stays(l)
    /\ m_remoteSelections'[l[2]][l[1]] = m_remoteSelections[l[2]][l[1]] /\ told'[l] = told[l]
    /\ Quiet(link[l], link'[l], Select)
Begins(l) == at' # at /\ \A i \in DOMAIN link'[l] : link'[l][i].type # Select
Selects(l) ==
    /\ Stays(l)
    /\ m_remoteSelections'[l[2]][l[1]] = m_remoteSelections[l[2]][l[1]]
    /\ told'[l] \in SUBSET Obj /\ link'[l] = link[l] \o SelectPackets(SetToSeq(told'[l]))
Takes(l) ==
    /\ handlePacket(l) /\ Head(link[l]).type = Select
    /\ onSelectChange(l[2], l[1], Head(link[l]))

\* A step that has nothing to do with links and selections.
LEMMA OthersRest ==
    ASSUME NEW l \in Links, Stays(l)', UNCHANGED <<link, told, m_remoteSelections>>,
           \A m : InSession(m)' => InSession(m),
           \A m : at'[m] # "gone" => at[m] # "gone"
    PROVE  Rests(l)
  BY DEF Rests, Stays, Quiet

\* Packets of other kinds are sent.
LEMMA SentRests ==
    ASSUME IInv, NEW m \in Members, NEW ps \in Seq(Packet), \A i \in DOMAIN ps : ps[i].type # Select,
           sendPacket(m, ps), UNCHANGED <<at, told, m_remoteSelections>>,
           NEW l \in Links, Stays(l)'
    PROVE  Rests(l)
  <1>1. link'[l] = IF l[1] = m /\ Up(l) THEN link[l] \o ps ELSE link[l]
    BY Sent DEF IInv
  <1>2. Quiet(link[l], link'[l], Select)
    BY <1>1 DEF Quiet
  <1>3. Stays(l)
    BY DEF Stays, InSession
  <1> QED
    BY <1>2, <1>3 DEF Rests

\* One packet of another kind.
LEMMA OneSentRests ==
    ASSUME IInv, NEW m \in Members, NEW p \in Packet, p.type # Select,
           sendPacket(m, <<p>>), UNCHANGED <<at, told, m_remoteSelections>>,
           NEW l \in Links, Stays(l)'
    PROVE  Rests(l)
  <1> DEFINE ps == <<p>>
  <1>1. ps \in Seq(Packet) /\ \A i \in DOMAIN ps : ps[i].type # Select
    OBVIOUS
  <1>2. sendPacket(m, ps)
    OBVIOUS
  <1> HIDE DEF ps
  <1> QED
    BY <1>1, <1>2, SentRests

\* A full state has no selection.
LEMMA FullStateNoSelect == ASSUME Types PROVE \A i \in DOMAIN FullState : FullState[i].type # Select
  <1> DEFINE last == onLocalLevelSettingsChanged(Host)
             batch == [type |-> "OBJECT_BATCH", uids |-> synced[Host]]
  <1>1. last.type # Select /\ batch.type # Select
    BY DEF onLocalLevelSettingsChanged, Select
  <1>2. FullState = (IF synced[Host] = {} THEN <<>> ELSE <<batch>>) \o <<last>>
    BY DEF FullState
  <1> HIDE DEF last, batch
  <1>3. CASE synced[Host] = {}
    BY <1>1, <1>2, <1>3
  <1>4. CASE synced[Host] # {}
    BY <1>1, <1>2, <1>4
  <1> QED
    BY <1>3, <1>4

\* Members come and go.
LEMMA MembersRest ==
    ASSUME IInv, NEW l \in Links, Stays(l)',
           \/ \E g \in Guests : Join(g) \/ EndFade(g) \/ LoseHost(g)
           \/ \E m \in Members : Exit(m)
    PROVE  Rests(l) \/ Begins(l)
  <1>1. /\ l[1] \in Members /\ l[2] \in Members /\ at \in [Members -> {"new", "fade", "editor", "alone", "gone"}]
        /\ (l[1] = Host /\ l[2] \in Guests) \/ (l[1] \in Guests /\ l[2] = Host)
        /\ link \in [Links -> Seq(Packet)]
        /\ Host \notin Guests
    BY PresenceAssumption DEF Links, Members, IInv, Types
  <1>2. ASSUME NEW g \in Guests, Join(g) PROVE Rests(l) \/ Begins(l)
    <2>1. /\ at[g] = "new" /\ at' = [at EXCEPT ![g] = "fade"] /\ g \in Members
          /\ link' = [link EXCEPT ![<<Host, g>>] = FullState]
          /\ UNCHANGED <<told, m_remoteSelections>>
      BY <1>2 DEF Join, view, Members
    <2>2. CASE l = <<Host, g>>
      <3>1. link'[l] = FullState /\ at'[g] = "fade"
        BY <1>1, <2>1, <2>2
      <3> QED
        BY <2>1, <3>1, FullStateNoSelect DEF Begins, IInv
    <2>3. CASE l # <<Host, g>>
      <3>1. l[2] # g
        BY <1>1, <1>2, <2>3 DEF Links
      <3>2. link'[l] = link[l] /\ at'[l[2]] = at[l[2]] /\ at[l[1]] # "gone"
        BY <1>1, <2>1, <2>3, <3>1 DEF Stays
      <3> QED
        BY <2>1, <3>2 DEF Stays, InSession, Rests, Quiet
    <2> QED
      BY <2>2, <2>3
  <1>3. ASSUME NEW g \in Guests, EndFade(g) PROVE Rests(l)
    <2>1. /\ at[g] = "fade" /\ at' = [at EXCEPT ![g] = "editor"] /\ g \in Members
          /\ UNCHANGED <<link, told, m_remoteSelections>>
      BY <1>3 DEF EndFade, view, Members
    <2>2. \A m \in Members : (InSession(m)' => InSession(m)) /\ (at'[m] # "gone" => at[m] # "gone")
      BY <1>1, <2>1 DEF InSession
    <2> QED
      BY <1>1, <2>1, <2>2 DEF Rests, Stays, Quiet
  <1>4. ASSUME NEW m \in Members, Close(m), NEW to \in {"alone", "gone"}, at' = [at EXCEPT ![m] = to],
               to = "gone" \/ (m # Host /\ ~InSession(Host)),
               UNCHANGED told,
               \A v, s \in Members : v # m => m_remoteSelections'[v][s] = m_remoteSelections[v][s]
        PROVE  Rests(l)
    <2>1. at'[m] = to /\ \A v \in Members : v # m => at'[v] = at[v]
      BY <1>1, <1>4
    <2>2. l[2] # m
      BY <1>4, <2>1 DEF Stays, InSession
    <2>3. l[1] # m
      <3>1. CASE to = "gone"
        BY <2>1, <3>1 DEF Stays
      <3>2. CASE m # Host /\ ~InSession(Host)
        <4>1. at'[Host] = at[Host]
          BY <2>1, <3>2 DEF Members
        <4>2. l[2] # Host
          BY <3>2, <4>1 DEF Stays, InSession
        <4> QED
          BY <1>1, <3>2, <4>2
      <3> QED
        BY <1>4, <3>1, <3>2
    <2>4. link'[l] = link[l]
      BY <1>4, <2>2, <2>3, Closed DEF IInv
    <2>5. at'[l[1]] = at[l[1]] /\ at'[l[2]] = at[l[2]]
      BY <1>1, <2>1, <2>2, <2>3
    <2>6. Stays(l)
      BY <2>5 DEF Stays, InSession
    <2> QED
      BY <1>1, <1>4, <2>2, <2>4, <2>6 DEF Rests, Quiet
  <1>5. ASSUME NEW g \in Guests, LoseHost(g) PROVE Rests(l)
    <2>1. /\ g \in Members /\ g # Host /\ ~InSession(Host) /\ Close(g) /\ UNCHANGED <<told, m_remoteSelections>>
          /\ at' = [at EXCEPT ![g] = "alone"]
      BY <1>1, <1>5 DEF LoseHost, Members
    <2> QED
      BY <1>4, <2>1
  <1>6. ASSUME NEW m \in Members, Exit(m) PROVE Rests(l)
    <2>1. /\ Close(m) /\ UNCHANGED told /\ at' = [at EXCEPT ![m] = "gone"]
          /\ m_remoteSelections' = [m_remoteSelections EXCEPT ![m] = ForAll(<<>>)]
      BY <1>6 DEF Exit, clearAll
    <2>2. \A v, s \in Members : v # m => m_remoteSelections'[v][s] = m_remoteSelections[v][s]
      BY <2>1 DEF IInv, Types
    <2> QED
      BY <1>4, <2>1, <2>2
  <1> QED
    BY <1>2, <1>3, <1>5, <1>6

\* The users' acts, and the frames.
LEMMA ActsRest ==
    ASSUME IInv, NEW l \in Links, Stays(l)',
           \/ \E g \in Guests : requestFullState(g)
           \/ \E m \in Members :
                 \/ onLocalObjectModified(m) \/ onLocalObjectDestroyed(m)
                 \/ onLocalCursorUpdate(m)
                 \/ StartPlaytest(m) \/ DieOrRespawn(m) \/ onStopPlaytest(m)
                 \/ Frame(m) \/ settingsUpdate(m)
           \/ ChangeSettings
    PROVE  Rests(l)
  <1>1. ASSUME NEW g \in Guests, requestFullState(g) PROVE Rests(l)
    <2> DEFINE p == [type |-> "REQUEST_FULL_STATE"]
    <2>1. sendPacket(g, <<p>>) /\ UNCHANGED <<at, told, m_remoteSelections>> /\ g \in Members
      BY <1>1 DEF requestFullState, view, Members
    <2>2. p \in Packet /\ p.type # Select
      BY DEF Packet, Select
    <2> HIDE DEF p
    <2> QED
      BY <2>1, <2>2, OneSentRests
  <1>2. ASSUME NEW m \in Members, onLocalObjectModified(m) PROVE Rests(l)
    <2>1. PICK u \in synced[m] : /\ sendPacket(m, <<[type |-> "OBJECT_UPDATE", uid |-> u]>>)
                                 /\ UNCHANGED <<at, told, m_remoteSelections>>
      BY <1>2 DEF onLocalObjectModified, view
    <2> DEFINE p == [type |-> "OBJECT_UPDATE", uid |-> u]
    <2>2. p \in Packet /\ p.type # Select
      <3>1. u \in Obj
        BY DEF IInv, Types
      <3> QED
        BY <3>1 DEF Packet, Select
    <2> HIDE DEF p
    <2> QED
      BY <2>1, <2>2, OneSentRests DEF p
  <1>3. ASSUME NEW m \in Members, onLocalObjectDestroyed(m) PROVE Rests(l)
    <2>1. PICK u \in synced[m] : /\ sendPacket(m, <<[type |-> "OBJECT_DELETE", uid |-> u]>>)
                                 /\ UNCHANGED <<at, told, m_remoteSelections>>
      BY <1>3 DEF onLocalObjectDestroyed
    <2> DEFINE p == [type |-> "OBJECT_DELETE", uid |-> u]
    <2>2. p \in Packet /\ p.type # Select
      <3>1. u \in Obj
        BY DEF IInv, Types
      <3> QED
        BY <3>1 DEF Packet, Select
    <2> HIDE DEF p
    <2> QED
      BY <2>1, <2>2, OneSentRests DEF p
  <1>4. ASSUME NEW m \in Members, onLocalCursorUpdate(m) PROVE Rests(l)
    <2>1. PICK x \in Positions :
             /\ sendPacket(m, IF Distance(m_CursorPos[m], x) < 2 THEN <<>>
                              ELSE <<[type |-> "MOUSE_MOVE", x |-> x \div 4]>>)
             /\ UNCHANGED <<at, told, m_remoteSelections>>
      BY <1>4 DEF onLocalCursorUpdate, view
    <2> DEFINE p == [type |-> "MOUSE_MOVE", x |-> x \div 4]
               ps == IF Distance(m_CursorPos[m], x) < 2 THEN <<>> ELSE <<p>>
    <2>2. p \in Packet /\ p.type # Select
      <3>1. x \div 4 \in Nat
        BY PresenceAssumption
      <3> QED
        BY <3>1 DEF Packet, Select
    <2> HIDE DEF p
    <2>3. ps \in Seq(Packet) /\ \A i \in DOMAIN ps : ps[i].type # Select
      BY <2>2
    <2>4. sendPacket(m, ps)
      BY <2>1 DEF p
    <2> HIDE DEF ps
    <2> QED
      BY <2>1, <2>3, <2>4, SentRests
  <1>5. ASSUME NEW m \in Members, StartPlaytest(m) \/ DieOrRespawn(m) \/ onStopPlaytest(m) \/ ChangeSettings
        PROVE Rests(l)
    <2>1. UNCHANGED <<at, link, told, m_remoteSelections>>
      BY <1>5 DEF StartPlaytest, DieOrRespawn, onStopPlaytest, ChangeSettings, view
    <2> QED
      BY <2>1, OthersRest DEF InSession
  <1>6. ASSUME NEW m \in Members, NEW stop \in BOOLEAN, sendPlayerPosition(m, stop),
               UNCHANGED <<at, told, m_remoteSelections>>
        PROVE  Rests(l)
    <2> DEFINE p == [type |-> "PLAYER_POSITION", isDead |-> play[m] = "dead", stopPlaytest |-> stop]
    <2>1. p \in Packet /\ p.type # Select
      BY DEF Packet, Select
    <2>2. sendPacket(m, <<p>>)
      BY <1>6 DEF sendPlayerPosition
    <2> HIDE DEF p
    <2> QED
      BY <1>6, <2>1, <2>2, OneSentRests
  <1>7. ASSUME NEW m \in Members, Frame(m) PROVE Rests(l)
    <2>1. CASE updatePlayerSync(m)
      BY <1>6, <2>1 DEF updatePlayerSync
    <2>2. CASE EndPlaytest(m)
      BY <1>6, <2>2 DEF EndPlaytest, view
    <2> QED
      BY <1>7, <2>1, <2>2 DEF Frame
  <1>8. ASSUME NEW m \in Members, settingsUpdate(m) PROVE Rests(l)
    <2> DEFINE p == onLocalLevelSettingsChanged(m)
    <2>1. sendPacket(m, <<p>>) /\ UNCHANGED <<at, told, m_remoteSelections>> /\ m = Host
      BY <1>8 DEF settingsUpdate, view, Speaks
    <2>2. p \in Packet /\ p.type # Select
      BY <2>1, SettingsIsPacket DEF IInv, Select
    <2> HIDE DEF p
    <2> QED
      BY <2>1, <2>2, OneSentRests
  <1>9. ASSUME ChangeSettings PROVE Rests(l)
    <2>1. Host \in Members
      BY DEF Members
    <2> QED
      BY <1>5, <1>9, <2>1
  <1> QED
    BY <1>1, <1>2, <1>3, <1>4, <1>5, <1>7, <1>8, <1>9

\* A selection goes out in chunks.
LEMMA SelectionGoes ==
    ASSUME IInv, NEW l \in Links, Stays(l)', NEW m \in Members, onLocalSelectionChanged(m)
    PROVE  Rests(l) \/ Selects(l)
  <1>1. PICK S \in SUBSET synced[m] :
          /\ sendPacket(m, SelectPackets(SetToSeq(S)))
          /\ told' = [k \in Links |-> IF k[1] = m /\ Up(k) THEN S ELSE told[k]]
          /\ UNCHANGED <<at, m_remoteSelections>>
    BY DEF onLocalSelectionChanged, view
  <1> DEFINE ps == SelectPackets(SetToSeq(S))
  <1>2. S \in SUBSET Obj
    BY DEF IInv, Types
  <1>3. ps \in Seq(Packet)
    BY <1>2, SetToSeqIsRow, SelectPacketsPlain
  <1>4. sendPacket(m, ps)
    BY <1>1
  <1>5. told'[l] = IF l[1] = m /\ Up(l) THEN S ELSE told[l]
    BY <1>1
  <1>6. Stays(l) /\ m_remoteSelections'[l[2]][l[1]] = m_remoteSelections[l[2]][l[1]]
    BY <1>1 DEF Stays, InSession
  <1> HIDE DEF ps
  <1>7. link'[l] = IF l[1] = m /\ Up(l) THEN link[l] \o ps ELSE link[l]
    BY <1>3, <1>4, Sent DEF IInv
  <1>8. CASE l[1] = m /\ Up(l)
    <2>1. told'[l] = S /\ link'[l] = link[l] \o SelectPackets(SetToSeq(S))
      BY <1>5, <1>7, <1>8 DEF ps
    <2> QED
      BY <1>2, <1>6, <2>1 DEF Selects
  <1>9. CASE ~(l[1] = m /\ Up(l))
    <2>1. told'[l] = told[l] /\ link'[l] = link[l]
      BY <1>5, <1>7, <1>9
    <2> QED
      BY <1>6, <2>1 DEF Rests, Quiet
  <1> QED
    BY <1>8, <1>9

\* The host's answer is no selection.
LEMMA RequestRests ==
    ASSUME IInv, NEW l \in Links, Stays(l)', NEW g \in Guests, onRequest(g)
    PROVE  Rests(l)
  <1> DEFINE f == <<g, Host>>
             back == <<Host, g>>
  <1>1. /\ link[f] # <<>> /\ Head(link[f]).type = "REQUEST_FULL_STATE"
        /\ link' = [link EXCEPT ![f] = Tail(@), ![back] = IF InSession(g) THEN @ \o FullState ELSE @]
        /\ UNCHANGED <<at, told, m_remoteSelections>>
    BY DEF onRequest, view
  <1>2. f \in Links /\ back \in Links /\ f # back /\ link \in [Links -> Seq(Packet)]
    BY PresenceAssumption DEF Links, IInv, Types
  <1> HIDE DEF f, back
  <1>3. /\ link'[f] = Tail(link[f])
        /\ link'[back] = IF InSession(g) THEN link[back] \o FullState ELSE link[back]
        /\ \A k \in Links : k # f /\ k # back => link'[k] = link[k]
    BY <1>1, <1>2
  <1>4. Stays(l) /\ told'[l] = told[l] /\ m_remoteSelections'[l[2]][l[1]] = m_remoteSelections[l[2]][l[1]]
    BY <1>1 DEF Stays, InSession
  <1>5. Quiet(link[l], link'[l], Select)
    <2>1. CASE l = f
      <3>1. "REQUEST_FULL_STATE" # Select
        BY DEF Select
      <3> QED
        BY <1>1, <1>3, <2>1, <3>1 DEF Quiet
    <2>2. CASE l = back
      <3>1. FullState \in Seq(Packet) /\ \A i \in DOMAIN FullState : FullState[i].type # Select
        BY FullStateTells, FullStateNoSelect DEF IInv
      <3> HIDE DEF FullState
      <3> QED
        BY <1>3, <2>2, <3>1 DEF Quiet
    <2>3. CASE l # f /\ l # back
      BY <1>3, <2>3 DEF Quiet
    <2> QED
      BY <2>1, <2>2, <2>3
  <1> QED
    BY <1>4, <1>5 DEF Rests

\* A packet that arrives changes what is collected of its own sender only.
LEMMA HandleRests ==
    ASSUME IInv, NEW l \in Links, Stays(l)', NEW k \in Links, handlePacket(k)
    PROVE  Rests(l) \/ (l = k /\ Takes(l))
  <1> DEFINE p == Head(link[k])
  <1>1. /\ link[k] # <<>> /\ link' = [link EXCEPT ![k] = Tail(@)]
        /\ UNCHANGED <<at, told>>
    BY DEF handlePacket
  <1>2. /\ \A j \in Links : j # k => link'[j] = link[j]
        /\ link'[k] = Tail(link[k])
        /\ k[1] \in Members /\ k[2] \in Members
        /\ l[1] \in Members /\ l[2] \in Members /\ (l[1] = k[1] /\ l[2] = k[2] => l = k)
    <2>1. l[1] \in Members /\ l[2] \in Members /\ (l[1] = k[1] /\ l[2] = k[2] => l = k)
      BY DEF Links, Members
    <2> QED
      BY <1>1, <2>1, Taken
  <1>3. Stays(l) /\ told'[l] = told[l]
    BY <1>1 DEF Stays, InSession
  <1>4. CASE p.type = "SELECT_CHANGE" /\ onSelectChange(k[2], k[1], p)
    <2>1. CASE l = k
      BY <1>4, <2>1 DEF Takes, Select
    <2>2. CASE l # k
      <3>1. m_remoteSelections'[l[2]][l[1]] = m_remoteSelections[l[2]][l[1]]
        <4>1. m_remoteSelections' =
                [m_remoteSelections EXCEPT ![k[2]][k[1]] = Collected(m_remoteSelections[k[2]][k[1]], p)]
          BY <1>4 DEF onSelectChange
        <4>2. m_remoteSelections \in [Members -> [Members -> Seq(Obj)]]
          BY DEF IInv, Types
        <4> QED
          BY <1>2, <2>2, <4>1, <4>2
      <3>2. link'[l] = link[l]
        BY <1>2, <2>2
      <3> QED
        BY <1>3, <3>1, <3>2 DEF Rests, Quiet
    <2> QED
      BY <2>1, <2>2
  <1>5. CASE p.type # "SELECT_CHANGE" /\ UNCHANGED m_remoteSelections
    <2>1. Quiet(link[l], link'[l], Select)
      BY <1>1, <1>2, <1>5 DEF Quiet, Select
    <2> QED
      BY <1>3, <1>5, <2>1 DEF Rests
  <1>6. \/ p.type = "SELECT_CHANGE" /\ onSelectChange(k[2], k[1], p)
        \/ p.type # "SELECT_CHANGE" /\ UNCHANGED m_remoteSelections
    BY DEF handlePacket, onRemoteCursorUpdate, onRemotePlayerPosition, onRemoteObjectModified,
           onRemoteObjectDestroyed, onRemoteObjectsBatched, applyLevelSettings, view
  <1> QED
    BY <1>4, <1>5, <1>6

\* Every step is one of the four to a link that stays.
LEMMA NextIs ==
    ASSUME IInv, Next, NEW l \in Links, Stays(l)'
    PROVE  Rests(l) \/ Begins(l) \/ Selects(l) \/ Takes(l)
  <1>1. CASE \E g \in Guests : Join(g) \/ EndFade(g) \/ requestFullState(g) \/ LoseHost(g)
    BY <1>1, MembersRest, ActsRest
  <1>2. CASE \E m \in Members :
               \/ Exit(m) \/ onLocalObjectModified(m) \/ onLocalObjectDestroyed(m)
               \/ onLocalSelectionChanged(m) \/ onLocalCursorUpdate(m)
               \/ StartPlaytest(m) \/ DieOrRespawn(m) \/ onStopPlaytest(m)
               \/ Frame(m) \/ settingsUpdate(m)
    BY <1>2, MembersRest, ActsRest, SelectionGoes
  <1>3. CASE ChangeSettings
    BY <1>3, ActsRest
  <1>4. CASE \E k \in Links : poll(k) \/ UseFreed(k)
    <2>1. PICK k \in Links : poll(k) \/ UseFreed(k)
      BY <1>4
    <2>2. k[1] \in Members /\ k[2] \in Members /\ (k[1] # Host => k[1] \in Guests)
      BY DEF Links, Members
    <2>3. handlePacket(k) \/ (k[1] \in Guests /\ onRequest(k[1])) \/ Exit(k[2])
      BY <2>1, <2>2 DEF poll, UseFreed
    <2> QED
      BY <2>2, <2>3, HandleRests, RequestRests, MembersRest
  <1> QED
    BY <1>1, <1>2, <1>3, <1>4 DEF Next

\* The selection under way stays the one last sent.
LEMMA FollowsKeeps == ASSUME IInv, FInv, [Next]_vars, IInv' PROVE FInv'
  <1> SUFFICES ASSUME NEW l \in Links, Stays(l)'
               PROVE  Follows(link'[l], m_remoteSelections'[l[2]][l[1]], told'[l])
    BY DEF FInv, Stays
  <1> DEFINE q == link[l]
             old == m_remoteSelections[l[2]][l[1]]
             new == told[l]
             q1 == link'[l]
             old1 == m_remoteSelections'[l[2]][l[1]]
             new1 == told'[l]
  <1>1. q \in Seq(Packet) /\ q1 \in Seq(Packet) /\ old \in Seq(Obj) /\ old1 \in Seq(Obj)
    BY DEF IInv, Types, Links, Members
  <1>2. Stays(l) => Follows(q, old, new)
    BY DEF FInv, Stays
  <1>3. CASE Rests(l)
    <2>1. Follows(q, old, new) /\ old1 = old /\ new1 = new /\ Quiet(q, q1, Select)
      BY <1>2, <1>3 DEF Rests
    <2> HIDE DEF q, old, new, q1, old1, new1
    <2> QED
      BY <1>1, <2>1, FollowsQuiet DEF q1, old1, new1
  <1>4. CASE Begins(l)
    <2>1. \A i \in DOMAIN q1 : q1[i].type # Select
      BY <1>4 DEF Begins
    <2> HIDE DEF q, old, new, q1, old1, new1
    <2> QED
      BY <1>1, <2>1, FollowsNone DEF q1, old1, new1
  <1>5. CASE Selects(l)
    <2>1. /\ Follows(q, old, new) /\ old1 = old /\ new1 \in SUBSET Obj
          /\ q1 = q \o SelectPackets(SetToSeq(new1))
      BY <1>2, <1>5 DEF Selects
    <2> HIDE DEF q, old, new, q1, old1, new1
    <2> QED
      BY <1>1, <2>1, FollowsSelection DEF q1, old1, new1
  <1>6. CASE Takes(l)
    <2>1. /\ q # <<>> /\ q1 = Tail(q) /\ new1 = new /\ Stays(l) /\ Head(q).type = Select
      <3>1. /\ link[l] # <<>> /\ link' = [link EXCEPT ![l] = Tail(@)] /\ UNCHANGED <<at, told>>
        BY <1>6 DEF Takes, handlePacket
      <3> QED
        BY <1>6, <3>1 DEF Takes, Stays, InSession, IInv, Types
    <2>2. old1 = Collected(old, Head(q))
      <3>1. l[1] \in Members /\ l[2] \in Members
        BY DEF Links, Members
      <3>2. m_remoteSelections' = [m_remoteSelections EXCEPT ![l[2]][l[1]] = Collected(old, Head(q))]
        BY <1>6 DEF Takes, onSelectChange
      <3> QED
        BY <3>1, <3>2 DEF IInv, Types
    <2>3. Follows(q, old, new)
      BY <1>2, <2>1
    <2> HIDE DEF q, old, new, q1, old1, new1
    <2>4. Got(old, Head(q)) = old1
      BY <2>1, <2>2 DEF Got
    <2> QED
      BY <1>1, <2>1, <2>3, <2>4, FollowsTail DEF q1, old1, new1
  <1>7. CASE UNCHANGED vars
    <2>1. UNCHANGED <<at, link, told, m_remoteSelections>>
      BY <1>7 DEF vars, view
    <2> QED
      BY <1>2, <2>1 DEF Stays, InSession
  <1> QED
    BY <1>3, <1>4, <1>5, <1>6, <1>7, NextIs

\* What the last packet of a selection does.
LEMMA TakesLast ==
    ASSUME IInv, FInv, NEW l \in Links, Takes(l), Edits(l[2]), at[l[1]] # "gone",
           ~Coming(l, {"SELECT_CHANGE"})'
    PROVE  m_remoteSelectionHighlights'[l[2]][l[1]] =
               {[uid |-> u, on |-> "object"] : u \in told[l] \cap synced[l[2]]}
  <1> DEFINE q == link[l]
             old == m_remoteSelections[l[2]][l[1]]
             new == told[l]
  <1>1. l[1] \in Members /\ l[2] \in Members /\ q \in Seq(Packet)
    BY DEF Links, Members, IInv, Types
  <1>2. q # <<>> /\ link'[l] = Tail(q) /\ Head(q).type = Select
    <2>1. link[l] # <<>> /\ link' = [link EXCEPT ![l] = Tail(@)]
      BY DEF Takes, handlePacket
    <2> QED
      BY <2>1 DEF Takes, IInv, Types
  <1>3. Follows(q, old, new)
    BY DEF FInv, Edits, InSession
  <1>4. \A i \in DOMAIN Tail(q) : Tail(q)[i].type # Select
    BY <1>2 DEF Coming, Select
  <1> HIDE DEF q, old, new
  <1>5. ~Head(q).hasMore /\ Range(Collected(old, Head(q))) = new
    BY <1>1, <1>2, <1>3, <1>4, FollowsHead
  <1>6. m_remoteSelectionHighlights' =
          [m_remoteSelectionHighlights EXCEPT ![l[2]][l[1]] =
             {[uid |-> u, on |-> "object"] : u \in Range(Collected(old, Head(q))) \cap synced[l[2]]}]
    BY <1>5 DEF Takes, onSelectChange, q, old
  <1>7. m_remoteSelectionHighlights \in [Members -> [Members -> SUBSET Highlight]]
    BY DEF IInv, Types
  <1>8. m_remoteSelectionHighlights'[l[2]][l[1]] =
           {[uid |-> u, on |-> "object"] : u \in Range(Collected(old, Head(q))) \cap synced[l[2]]}
    BY <1>1, <1>6, <1>7
  <1> QED
    BY <1>5, <1>8 DEF new

\* Only the last packet of a selection ends what is under way.
LEMMA StepFollows ==
    ASSUME IInv, FInv, Next, NEW l \in Links, Edits(l[2]), at[l[1]] # "gone", at' = at,
           Coming(l, {"SELECT_CHANGE"}), ~Coming(l, {"SELECT_CHANGE"})'
    PROVE  Takes(l)
  <1> DEFINE q == link[l]
             q1 == link'[l]
  <1>1. q \in Seq(Packet)
    BY DEF IInv, Types
  <1>2. PICK i \in DOMAIN q : q[i].type = Select
    BY DEF Coming, Select
  <1>3. \A j \in DOMAIN q1 : q1[j].type # Select
    BY DEF Coming, Select
  <1>4. Stays(l)'
    BY DEF Stays, InSession, Edits
  <1>5. ~Quiet(q, q1, Select)
    <2> HIDE DEF q, q1
    <2>1. q1 # q
      BY <1>2, <1>3
    <2>2. \A ps \in Seq(Packet) : q1 # q \o ps
      <3> SUFFICES ASSUME NEW ps \in Seq(Packet), q1 = q \o ps PROVE FALSE
        OBVIOUS
      <3>1. i \in DOMAIN q1 /\ q1[i] = q[i]
        BY <1>1
      <3> QED
        BY <1>2, <1>3, <3>1
    <2>3. ASSUME q # <<>>, Head(q).type # Select, q1 = Tail(q) PROVE FALSE
      <3>1. /\ Len(Tail(q)) = Len(q) - 1 /\ Len(q) \in Nat /\ Len(q) > 0 /\ DOMAIN q = 1 .. Len(q)
            /\ DOMAIN Tail(q) = 1 .. (Len(q) - 1) /\ Head(q) = q[1]
            /\ \A j \in 1 .. Len(q) - 1 : Tail(q)[j] = q[j + 1]
        BY <1>1, <2>3, HeadTailProperties
      <3>2. i # 1
        BY <1>2, <2>3, <3>1
      <3>3. i - 1 \in 1 .. Len(q) - 1 /\ (i - 1) + 1 = i
        BY <3>1, <3>2
      <3>4. q1[i - 1] = q[i] /\ i - 1 \in DOMAIN q1
        BY <2>3, <3>1, <3>3
      <3> QED
        BY <1>2, <1>3, <3>4
    <2> QED
      BY <2>1, <2>2, <2>3 DEF Quiet
  <1>6. ~Selects(l)
    <2> SUFFICES ASSUME Selects(l) PROVE FALSE
      OBVIOUS
    <2> DEFINE ps == SelectPackets(SetToSeq(told'[l]))
    <2>1. told'[l] \in SUBSET Obj /\ q1 = q \o ps
      BY DEF Selects
    <2>2. SetToSeq(told'[l]) \in Seq(Obj)
      BY <2>1, SetToSeqIsRow
    <2>3. ps \in Seq(Packet)
      BY <2>2, SelectPacketsPlain
    <2> HIDE DEF ps, q, q1
    <2>4. i \in DOMAIN q1 /\ q1[i] = q[i]
      BY <1>1, <2>1, <2>3
    <2> QED
      BY <1>2, <1>3, <2>4
  <1> QED
    BY <1>4, <1>5, <1>6, NextIs DEF Rests, Begins

\* Both invariants hold in every state.
LEMMA FInvAlways == Spec => [](IInv /\ FInv)
  <1>1. Init => FInv
    <2> SUFFICES ASSUME Init, NEW l \in Links
                 PROVE  Follows(link[l], m_remoteSelections[l[2]][l[1]], told[l])
      BY DEF FInv
    <2>1. link[l] = <<>> /\ m_remoteSelections[l[2]][l[1]] = <<>>
      BY DEF Init, ForAll, Links, Members
    <2>2. <<>> \in Seq(Packet) /\ <<>> \in Seq(Obj) /\ DOMAIN <<>> = {}
      OBVIOUS
    <2>3. \A i \in DOMAIN <<>> : <<>>[i].type # Select
      BY <2>2
    <2> QED
      BY <2>1, <2>2, <2>3, FollowsNone
  <1>2. IInv /\ FInv /\ [Next]_vars => (IInv /\ FInv)'
    BY NextKeeps, FollowsKeeps
  <1> QED
    BY <1>1, <1>2, InitIInv, PTL DEF Spec

\* When the last packet of a selection has arrived, the receiver highlights
\* exactly the objects it knows of what the sender selected last: whatever
\* the size of a chunk and of the selections, whatever was collected before,
\* and whatever happened to the objects and sprites in between.
THEOREM HighlightsAlwaysFollow == Spec => HighlightsFollow
  <1>1. IInv /\ FInv /\ [Next]_vars =>
          [\A l \in Links :
             LET s == l[1]  v == l[2] IN
             (/\ Edits(v) /\ at[s] # "gone" /\ at' = at
              /\ Coming(l, {"SELECT_CHANGE"}) /\ ~Coming(l, {"SELECT_CHANGE"})') =>
                 m_remoteSelectionHighlights'[v][s] =
                     {[uid |-> u, on |-> "object"] : u \in told[l] \cap synced[v]}]_vars
    BY StepFollows, TakesLast
  <1> QED
    BY <1>1, FInvAlways, PTL DEF Spec, HighlightsFollow
=============================================================================
