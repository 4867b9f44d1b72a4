----------------------------- MODULE ObjectSync -----------------------------
(***************************************************************************)
(* Object tracking and synchronisation: SyncManager's UID maps, the editor *)
(* hooks that announce local edits, the handlers of OBJECT_ADD,            *)
(* OBJECT_DELETE, OBJECT_UPDATE and OBJECT_BATCH, and the full state the   *)
(* host sends when a guest connects and again when it asks.                *)
(*                                                                         *)
(* One host and its guests, each a process with a level editor.  ENet's    *)
(* reliable channel 0 is a FIFO queue in each direction; one scheduler     *)
(* frame delivers packets one at a time, so every handler is one step.     *)
(*                                                                         *)
(* A UID is <<creator, k>>, the pair generateUID prints as "creator_k".    *)
(* A guest is one ENet connection: a player that leaves and joins again    *)
(* has a new connectID and is another guest.                               *)
(***************************************************************************)
EXTENDS Naturals, FiniteSets, Sequences, Functions

CONSTANTS
    Host, Guests,
    Obj,            \* addresses a GameObject can have, in each process
    Val,            \* what the save string of an object says
    Truncated,      \* values whose string is cut at 4095 characters in an
                    \* ObjectStringPacket, so that creation may fail
    NoObj, NoUid, NoVal, Nobody,
    BatchCap,       \* objects that fit an OBJECT_BATCH
    MaxUid          \* bound: UIDs a member generates

Members == {Host} \cup Guests
Uid == Members \X (0 .. MaxUid - 1)

ASSUME ConstantsAssumption ==
    /\ Host \notin Guests
    /\ NoObj \notin Obj
    /\ NoUid \notin Uid
    /\ NoVal \notin Val
    /\ Nobody \notin Members
    /\ Truncated \subseteq Val
    /\ BatchCap \in Nat \ {0}
    /\ MaxUid \in Nat

VARIABLES
    ed,         \* per member: the editor's objects and SyncManager's maps
    phase,      \* per member: where its user is
    timer,      \* per guest: requestFullStateDelayed is scheduled
    connected,  \* guests whose CONNECT event the host has polled
    up, down,   \* per guest: packets in flight to, and from, the host
    missed,     \* ghost: per guest, UIDs it was never told or got nothing of
    strays,     \* ghost: and those the host gave up for a guest's packet
    apart       \* ghost: and those whose last edits were not told or crossed

ghosts == <<missed, strays, apart>>
vars == <<ed, phase, timer, connected, up, down, ghosts>>

Phases == {"out", "transition", "editor", "gone"}

EditorState ==
    [val    : [Obj -> Val \cup {NoVal}],        \* NoVal: not in m_objects
     synced : [Uid -> Obj \cup {NoObj}],        \* m_syncedObjects
     o2u    : [Obj -> Uid \cup {NoUid}],        \* m_objectToUID
     owner  : [Uid -> Members \cup {Nobody}],   \* m_objectOwners
     next   : 0 .. MaxUid]                      \* m_objectCounter

StringPacket == [type : {"OBJECT_ADD", "OBJECT_UPDATE"}, uid : Uid, val : Val]
DeletePacket == [type : {"OBJECT_DELETE"}, uid : Uid]
BatchPacket ==
    [type : {"OBJECT_BATCH"}, objs : UNION {[S -> Val] : S \in SUBSET Uid}]
ObjectPacket == StringPacket \cup DeletePacket \cup BatchPacket
\* CONNECT and DISCONNECT are ENet's events, in their place in the stream.
ControlPacket ==
    [type : {"CONNECT", "REQUEST_FULL_STATE", "DISCONNECT"}]

TypeOK ==
    /\ ed \in [Members -> EditorState]
    /\ phase \in [Members -> Phases]
    /\ timer \in [Guests -> BOOLEAN]
    /\ connected \in SUBSET Guests
    /\ up \in [Guests -> Seq(ObjectPacket \cup ControlPacket)]
    /\ down \in [Guests -> Seq(ObjectPacket)]
    /\ {missed, strays, apart} \subseteq [Guests -> SUBSET Uid]

-----------------------------------------------------------------------------
(* The editor and the two maps of one member                               *)

Live(e) == {o \in Obj : e.val[o] # NoVal}
Fresh(e) == Obj \ Live(e)
Tracked(e) == {u \in Uid : e.synced[u] # NoObj}
Copy(e, u) == IF e.synced[u] = NoObj THEN NoVal ELSE e.val[e.synced[u]]
isTrackedObject(e, o) == e.o2u[o] # NoUid
InSession(m) == phase[m] \in {"transition", "editor"}
getEditorLayer(m) == phase[m] = "editor"
Attached(g) == InSession(g) /\ g \in connected      \* g hears from the host

trackObject(e, u, o) == [e EXCEPT !.synced[u] = o, !.o2u[o] = u]

\* The editor's own part of creating, changing and removing an object.
setValue(e, o, v) == [e EXCEPT !.val[o] = v]

setOwner(e, u, m) == [e EXCEPT !.owner[u] = m]

\* Mutant: m_syncedObjects keeps the entry.
untrackObject_KeepsEntry(e, u) ==
    IF e.synced[u] = NoObj THEN e ELSE [e EXCEPT !.o2u[e.synced[u]] = NoUid]

untrackObject(e, u) ==
    IF e.synced[u] = NoObj THEN e
    ELSE [e EXCEPT !.o2u[e.synced[u]] = NoUid, !.synced[u] = NoObj]

\* The objects in DOMAIN num get the counter values num gives them.
numberObjects(e, m, num, last) ==
    [e EXCEPT
       !.synced = [u \in Uid |-> IF \E o \in DOMAIN num : u = <<m, num[o]>>
                                 THEN CHOOSE o \in DOMAIN num : u = <<m, num[o]>>
                                 ELSE e.synced[u]],
       !.o2u = [o \in Obj |-> IF o \in DOMAIN num THEN <<m, num[o]>> ELSE e.o2u[o]],
       !.next = last]

\* Every live object without a UID gets the next one, in m_objects order,
\* which is any order here.
trackExistingObjects(e, m) ==
    LET new == {o \in Live(e) : ~isTrackedObject(e, o)}
    IN UNION {{numberObjects(e, m, num, last) :
                  num \in Bijection(new, e.next .. (last - 1))} :
              last \in e.next .. MaxUid}

Emptied == [val    |-> [o \in Obj |-> NoVal],
            synced |-> [u \in Uid |-> NoObj],
            o2u    |-> [o \in Obj |-> NoUid],
            owner  |-> [u \in Uid |-> Nobody],
            next   |-> 0]

-----------------------------------------------------------------------------
(* Hooks.  Each gives the new editor state and the packets it sends.  The  *)
(* editor's call is by the "user", or by a "packet" handler, that is with  *)
(* m_applyingRemoteChanges set; then the hooks send nothing.               *)

Result(e, packets) == [ed |-> e, out |-> packets]

\* Mutant: generateUID does not advance the counter.
onLocalObjectAdded_SameUid(e, m, o) ==
    LET u == <<m, e.next>>
    IN Result(setOwner(trackObject(e, u, o), u, m),
              <<[type |-> "OBJECT_ADD", uid |-> u, val |-> e.val[o]]>>)

onLocalObjectAdded(e, m, o) ==
    LET u == <<m, e.next>>
        counted == [e EXCEPT !.next = @ + 1]
    IN Result(setOwner(trackObject(counted, u, o), u, m),
              <<[type |-> "OBJECT_ADD", uid |-> u, val |-> e.val[o]]>>)

\* Mutants: the maps keep the freed object; the deletion is not sent.
onLocalObjectDestroyed_Dangling(e, o) ==
    Result(e, <<[type |-> "OBJECT_DELETE", uid |-> e.o2u[o]]>>)
onLocalObjectDestroyed_Silent(e, o) == Result(untrackObject(e, e.o2u[o]), <<>>)

onLocalObjectDestroyed(e, o) ==
    LET u == e.o2u[o] IN
    Result(untrackObject(e, u), <<[type |-> "OBJECT_DELETE", uid |-> u]>>)

\* Mutant: sends an update for an object that has no UID.
onLocalObjectModified_Untracked(e, o) ==
    <<[type |-> "OBJECT_UPDATE", uid |-> e.o2u[o], val |-> e.val[o]]>>

onLocalObjectModified(e, o) ==
    IF isTrackedObject(e, o)
    THEN <<[type |-> "OBJECT_UPDATE", uid |-> e.o2u[o], val |-> e.val[o]]>>
    ELSE <<>>

\* Mutant: m_applyingRemoteChanges is not looked at.
addSpecial_Echoes(e, m, o, v, by) == onLocalObjectAdded(setValue(e, o, v), m, o)

addSpecial(e, m, o, v, by) ==
    LET made == setValue(e, o, v) IN
    IF by = "packet" THEN Result(made, <<>>) ELSE onLocalObjectAdded(made, m, o)

removeObject(e, o, by) ==
    LET told == IF by = "user" /\ isTrackedObject(e, o)
                THEN onLocalObjectDestroyed(e, o)
                ELSE Result(e, <<>>)
    IN Result(setValue(told.ed, o, NoVal), told.out)

-----------------------------------------------------------------------------
(* Handlers of object packets: the set of results, as the address of a new *)
(* object and the outcome of createObjectsFromString are not determined.   *)

\* createObjectsFromString of one string, then the tracking of what it made.
Recreate(e, m, from, p) ==
    {LET r == addSpecial(e, m, o, p.val, "packet")
     IN Result(setOwner(trackObject(r.ed, p.uid, o), p.uid, from), r.out) : o \in Fresh(e)}
    \cup (IF p.val \in Truncated THEN {Result(e, <<>>)} ELSE {})

onRemoteObjectAdded(e, m, from, p) == Recreate(e, m, from, p)

onRemoteObjectDestroyed(e, p) ==
    IF e.synced[p.uid] = NoObj THEN {Result(e, <<>>)}
    ELSE LET o == e.synced[p.uid]
             untracked == untrackObject(e, p.uid)
         IN {IF o \in Live(e) THEN removeObject(untracked, o, "packet")
             ELSE Result(untracked, <<>>)}

\* Mutant: the old object is removed and stays in the maps.
onRemoteObjectModified_KeepsOld(e, m, from, p) ==
    IF e.synced[p.uid] = NoObj THEN {Result(e, <<>>)}
    ELSE Recreate(removeObject(e, e.synced[p.uid], "packet").ed, m, from, p)

onRemoteObjectModified(e, m, from, p) ==
    IF e.synced[p.uid] = NoObj THEN {Result(e, <<>>)}
    ELSE LET removed == removeObject(e, e.synced[p.uid], "packet") IN
         {Result(r.ed, removed.out \o r.out) :
             r \in Recreate(untrackObject(removed.ed, p.uid), m, from, p)}

\* The objects of a batch appear at the addresses at gives their UIDs.
placeObjects(e, from, objs, at) ==
    LET uidAt(o) == CHOOSE u \in DOMAIN at : at[u] = o
        placed == {o \in Obj : \E u \in DOMAIN at : at[u] = o}
    IN [e EXCEPT
          !.val = [o \in Obj |-> IF o \in placed THEN objs[uidAt(o)] ELSE e.val[o]],
          !.synced = [u \in Uid |-> IF u \in DOMAIN at THEN at[u] ELSE e.synced[u]],
          !.o2u = [o \in Obj |-> IF o \in placed THEN uidAt(o) ELSE e.o2u[o]],
          !.owner = [u \in Uid |-> IF u \in DOMAIN at THEN from ELSE e.owner[u]]]

\* Mutant: a batch with an object that is here already is taken for a repeat.
onRemoteObjectsBatched_Once(e, from, p) ==
    IF \E u \in DOMAIN p.objs : e.synced[u] # NoObj THEN {Result(e, <<>>)}
    ELSE {Result(placeObjects(e, from, p.objs, at), <<>>) :
             at \in Injection(DOMAIN p.objs, Fresh(e))}

onRemoteObjectsBatched(e, from, p) ==
    {Result(placeObjects(e, from, p.objs, at), <<>>) :
        at \in Injection(DOMAIN p.objs, Fresh(e))}

handlePacket(e, m, from, p) ==
    CASE p.type = "OBJECT_ADD"    -> onRemoteObjectAdded(e, m, from, p)
      [] p.type = "OBJECT_DELETE" -> onRemoteObjectDestroyed(e, p)
      [] p.type = "OBJECT_UPDATE" -> onRemoteObjectModified(e, m, from, p)
      [] p.type = "OBJECT_BATCH"  -> onRemoteObjectsBatched(e, from, p)

-----------------------------------------------------------------------------
(* Full state                                                              *)

\* The packet with the objects of the UIDs in S, each looked up by its UID.
batchOf(e, S) ==
    [type |-> "OBJECT_BATCH",
     objs |-> [u \in S |-> e.val[CHOOSE o \in Live(e) : e.o2u[o] = u]]]

\* The ways the loop can cut UIDs into packets: how many fit depends on the
\* lengths of the objects' strings.
Cuts(uids) ==
    LET fits == {S \in SUBSET uids : Cardinality(S) \in 1 .. BatchCap} IN
    {c \in UNION {[1 .. n -> fits] : n \in 0 .. Cardinality(uids)} :
        /\ UNION Range(c) = uids
        /\ \A i, j \in DOMAIN c : i # j => c[i] \cap c[j] = {}}

\* The packets of a full state; every live object is tracked by now.
Batches(e) ==
    {[i \in DOMAIN c |-> batchOf(e, c[i])] : c \in Cuts({e.o2u[o] : o \in Live(e)})}

sendFullState(e) ==
    UNION {{Result(t, b) : b \in Batches(t)} : t \in trackExistingObjects(e, Host)}

-----------------------------------------------------------------------------
(* Ghosts: what each end has not heard of the other's edits                *)

Mentions(p, u) ==
    IF p.type = "OBJECT_BATCH" THEN u \in DOMAIN p.objs
    ELSE p.type \in {"OBJECT_ADD", "OBJECT_DELETE", "OBJECT_UPDATE"} /\ p.uid = u
InFlight(queue, u, types) ==
    \E i \in DOMAIN queue : queue[i].type \in types /\ Mentions(queue[i], u)
Says(queue, u) == \E i \in DOMAIN queue : Mentions(queue[i], u)
About(p) == {u \in Uid : Mentions(p, u)}
MadeBy == {"OBJECT_ADD", "OBJECT_BATCH"}
isCut(p) == p.type \in {"OBJECT_ADD", "OBJECT_UPDATE"} /\ p.val \in Truncated

\* g has dropped p, in its fade.
Dropped(g, p) ==
    /\ missed' = [missed EXCEPT ![g] = IF p.type \in MadeBy THEN @ \cup About(p) ELSE @]
    /\ UNCHANGED <<strays, apart>>

\* g has handled p: it missed what a cut string did not make, and what crossed
\* an edit of its own may now differ.
Handled(g, p) ==
    LET made == IF p.type \in MadeBy THEN About(p) ELSE {}
        lost == {u \in About(p) : isCut(p) /\ (u \in made \/ u \in Tracked(ed[g]))}
    IN /\ missed' = [missed EXCEPT ![g] = (@ \ made) \cup (lost \ Tracked(ed'[g]))]
       /\ apart' = [apart EXCEPT ![g] = @ \cup {u \in About(p) : Says(up[g], u)}]
       /\ UNCHANGED strays

\* The host has handled p of g, and forwards it to nobody.
Forwards(g, p) ==
    LET ends == {u \in About(p) : /\ u \in Tracked(ed[Host]) \/ p.type \in MadeBy
                                  /\ isCut(p) \/ p.type = "OBJECT_DELETE"} \ Tracked(ed'[Host])
        has(h, u) == u \in Tracked(ed[h]) \/ InFlight(down[h], u, MadeBy)
    IN /\ missed' = [h \in Guests |-> IF h # g /\ p.type \in MadeBy
                                      THEN missed[h] \cup About(p) ELSE missed[h]]
       /\ strays' = [h \in Guests |-> strays[h] \cup {u \in ends : has(h, u)}]
       /\ apart' = [h \in Guests |-> apart[h] \cup {u \in About(p) : h # g \/ Says(down[h], u)}]

\* m has told of its object o, as it is now or as it was before the edit.  Of
\* two objects with one UID, the maps name the last.
Tells(m, o, asItIs) ==
    LET u == ed[m].o2u[o]
        told == {g \in Guests : m = g \/ (m = Host /\ Attached(g))}
    IN /\ apart' = [g \in Guests |->
                      IF g \notin told \/ u \notin Uid THEN apart[g]
                      ELSE IF asItIs /\ ed[m].synced[u] = o THEN apart[g] \ {u}
                      ELSE apart[g] \cup {u}]
       /\ UNCHANGED <<missed, strays>>

-----------------------------------------------------------------------------
(* The session                                                             *)

Init ==
    /\ \E level \in [Obj -> Val \cup {NoVal}] :
          /\ Cardinality({o \in Obj : level[o] # NoVal}) <= MaxUid
          /\ ed = [m \in Members |-> IF m = Host THEN [Emptied EXCEPT !.val = level]
                                               ELSE Emptied]
    /\ phase = [m \in Members |-> "out"]
    /\ timer = [g \in Guests |-> FALSE]
    /\ connected = {}
    /\ up = [g \in Guests |-> <<>>]
    /\ down = [g \in Guests |-> <<>>]
    /\ missed = [g \in Guests |-> {}]
    /\ strays = [g \in Guests |-> {}]
    /\ apart = [g \in Guests |-> {}]

\* Mutant: only one of the peers is sent to.
Broadcast_One(packets) ==
    LET peers == {g \in connected : InSession(g)} IN
    [g \in Guests |-> IF g \in peers /\ g = (CHOOSE h \in peers : TRUE)
                      THEN down[g] \o packets ELSE down[g]]

\* enet_host_broadcast: to every peer in the CONNECTED state.
Broadcast(packets) ==
    [g \in Guests |-> IF g \in connected /\ InSession(g)
                      THEN down[g] \o packets ELSE down[g]]

\* sendPacket with no target: the host broadcasts, a guest sends to the host.
sendPacket(m, packets) ==
    IF m = Host
    THEN down' = Broadcast(packets) /\ UNCHANGED up
    ELSE up' = [up EXCEPT ![m] = @ \o packets] /\ UNCHANGED down

\* HostPopup::onStartHost, in the host's open editor.
StartHosting ==
    /\ phase[Host] = "out"
    /\ phase' = [phase EXCEPT ![Host] = "editor"]
    /\ \E e \in trackExistingObjects(ed[Host], Host) : ed' = [ed EXCEPT ![Host] = e]
    /\ UNCHANGED <<timer, connected, up, down, ghosts>>

\* JoinPopup::OnJoin: connected, the editor is created and fades in.
Join(g) ==
    /\ phase[Host] = "editor" /\ phase[g] = "out"
    /\ phase' = [phase EXCEPT ![g] = "transition"]
    /\ timer' = [timer EXCEPT ![g] = TRUE]
    /\ up' = [up EXCEPT ![g] = <<[type |-> "CONNECT"]>>]
    /\ UNCHANGED <<ed, connected, down, ghosts>>

\* The fade ends: the editor's scene is the running scene from now on.
EndTransition(g) ==
    /\ phase[g] = "transition"
    /\ phase' = [phase EXCEPT ![g] = "editor"]
    /\ UNCHANGED <<ed, timer, connected, up, down, ghosts>>

\* Mutant: the timer fires and nothing is asked.
requestFullState_Silent(g) ==
    /\ InSession(g) /\ timer[g]
    /\ timer' = [timer EXCEPT ![g] = FALSE]
    /\ UNCHANGED <<ed, phase, connected, up, down, ghosts>>

\* requestFullStateDelayed, 0.5 s after the editor was made.  The fade lasts
\* 0.5 s as well, and either may end first.
requestFullState(g) ==
    /\ InSession(g) /\ timer[g]
    /\ timer' = [timer EXCEPT ![g] = FALSE]
    /\ up' = [up EXCEPT ![g] = Append(@, [type |-> "REQUEST_FULL_STATE"])]
    /\ UNCHANGED <<ed, phase, connected, down, ghosts>>

\* EditorPauseLayer::handleExit, or a crash: what ENet has not delivered of
\* the guest's packets is lost, then the host sees the peer disconnect.
Leave(g) ==
    /\ InSession(g)
    /\ phase' = [phase EXCEPT ![g] = "gone"]
    /\ timer' = [timer EXCEPT ![g] = FALSE]
    /\ ed' = [ed EXCEPT ![g] = Emptied]
    /\ \E n \in 0 .. Len(up[g]) :
          up' = [up EXCEPT ![g] = Append(SubSeq(@, 1, n), [type |-> "DISCONNECT"])]
    /\ down' = [down EXCEPT ![g] = <<>>]
    /\ UNCHANGED <<connected, ghosts>>

\* The guest's own DISCONNECT event: the session ends, its editor stays.
LoseHost(g) ==
    /\ InSession(g)
    /\ phase' = [phase EXCEPT ![g] = "gone"]
    /\ timer' = [timer EXCEPT ![g] = FALSE]
    /\ \E n \in 0 .. Len(up[g]) :
          up' = [up EXCEPT ![g] = Append(SubSeq(@, 1, n), [type |-> "DISCONNECT"])]
    /\ down' = [down EXCEPT ![g] = <<>>]
    /\ UNCHANGED <<ed, connected, ghosts>>

-----------------------------------------------------------------------------
(* What the users do                                                       *)

MayEdit(m) == phase[m] = "editor"

AddObject(m) ==
    /\ MayEdit(m)
    /\ ed[m].next < MaxUid
    /\ \E o \in Fresh(ed[m]), v \in Val :
          LET r == addSpecial(ed[m], m, o, v, "user") IN
          /\ ed' = [ed EXCEPT ![m] = r.ed]
          /\ sendPacket(m, r.out)
    /\ UNCHANGED <<phase, timer, connected, ghosts>>

RemoveObject(m) ==
    /\ MayEdit(m)
    /\ \E o \in Live(ed[m]) :
          LET r == removeObject(ed[m], o, "user") IN
          /\ ed' = [ed EXCEPT ![m] = r.ed]
          /\ sendPacket(m, r.out)
    /\ UNCHANGED <<phase, timer, connected, ghosts>>

\* Mutant: the news, then the edit.
transformObjectCall_Stale(m) ==
    /\ MayEdit(m)
    /\ \E o \in Live(ed[m]), v \in Val :
          /\ ed' = [ed EXCEPT ![m] = setValue(@, o, v)]
          /\ sendPacket(m, onLocalObjectModified(ed[m], o))
          /\ Tells(m, o, TRUE)
    /\ UNCHANGED <<phase, timer, connected>>

\* transformObjectCall and SetupTriggerPopup::onClose: the edit, then the news.
transformObjectCall(m) ==
    /\ MayEdit(m)
    /\ \E o \in Live(ed[m]), v \in Val :
          LET edited == setValue(ed[m], o, v) IN
          /\ ed' = [ed EXCEPT ![m] = edited]
          /\ sendPacket(m, onLocalObjectModified(edited, o))
          /\ Tells(m, o, TRUE)
    /\ UNCHANGED <<phase, timer, connected>>

\* scaleObjects and rotateObjects: the news, then the edit.
rotateObjects(m) ==
    /\ MayEdit(m)
    /\ \E o \in Live(ed[m]), v \in Val :
          /\ ed' = [ed EXCEPT ![m] = setValue(@, o, v)]
          /\ sendPacket(m, onLocalObjectModified(ed[m], o))
          /\ Tells(m, o, FALSE)
    /\ UNCHANGED <<phase, timer, connected>>

updateButtons(m) ==
    /\ MayEdit(m)
    /\ \E o \in Live(ed[m]) :
          /\ sendPacket(m, onLocalObjectModified(ed[m], o))
          /\ Tells(m, o, TRUE)
    /\ UNCHANGED <<ed, phase, timer, connected>>

-----------------------------------------------------------------------------
(* NetworkManager::poll, one event at a time                               *)

Polls(g, type) ==
    /\ phase[Host] = "editor"
    /\ up[g] # <<>> /\ Head(up[g]).type = type

AnswerWithFullState(g) ==
    \E r \in sendFullState(ed[Host]) :
        /\ ed' = [ed EXCEPT ![Host] = r.ed]
        /\ up' = [up EXCEPT ![g] = Tail(@)]
        /\ down' = IF InSession(g) THEN [down EXCEPT ![g] = @ \o r.out] ELSE down
        /\ apart' = [apart EXCEPT ![g] = @ \ Tracked(r.ed)]
        /\ UNCHANGED <<missed, strays>>

PollConnect(g) ==
    /\ Polls(g, "CONNECT")
    /\ connected' = connected \cup {g}
    /\ AnswerWithFullState(g)
    /\ UNCHANGED <<phase, timer>>

PollRequest(g) ==
    /\ Polls(g, "REQUEST_FULL_STATE")
    /\ AnswerWithFullState(g)
    /\ UNCHANGED <<phase, timer, connected>>

PollDisconnect(g) ==
    /\ Polls(g, "DISCONNECT")
    /\ connected' = connected \ {g}
    /\ up' = [up EXCEPT ![g] = Tail(@)]
    /\ UNCHANGED <<ed, phase, timer, down, ghosts>>

HostReceives(g) ==
    /\ phase[Host] = "editor"
    /\ up[g] # <<>>
    /\ Head(up[g]).type \in {"OBJECT_ADD", "OBJECT_DELETE", "OBJECT_UPDATE"}
    /\ \E r \in handlePacket(ed[Host], Host, g, Head(up[g])) :
          /\ ed' = [ed EXCEPT ![Host] = r.ed]
          /\ down' = Broadcast(r.out)
    /\ up' = [up EXCEPT ![g] = Tail(@)]
    /\ Forwards(g, Head(up[g]))
    /\ UNCHANGED <<phase, timer, connected>>

GuestReceives(g) ==
    /\ getEditorLayer(g)
    /\ down[g] # <<>>
    /\ \E r \in handlePacket(ed[g], g, Host, Head(down[g])) :
          /\ ed' = [ed EXCEPT ![g] = r.ed]
          /\ up' = [up EXCEPT ![g] = @ \o r.out]
    /\ down' = [down EXCEPT ![g] = Tail(@)]
    /\ Handled(g, Head(down[g]))
    /\ UNCHANGED <<phase, timer, connected>>

\* "No editor layer!": the packet is dropped.
GuestDrops(g) ==
    /\ phase[g] = "transition"
    /\ down[g] # <<>>
    /\ down' = [down EXCEPT ![g] = Tail(@)]
    /\ Dropped(g, Head(down[g]))
    /\ UNCHANGED <<ed, phase, timer, connected, up>>

Poll(g) ==
    \/ PollConnect(g) \/ PollRequest(g) \/ PollDisconnect(g)
    \/ HostReceives(g) \/ GuestReceives(g) \/ GuestDrops(g)

Edit(m) ==
    \/ AddObject(m) \/ RemoveObject(m)
    \/ transformObjectCall(m) \/ rotateObjects(m) \/ updateButtons(m)

Session(g) ==
    \/ Join(g) \/ EndTransition(g) \/ requestFullState(g)
    \/ Leave(g) \/ LoseHost(g) \/ Poll(g)

Next == StartHosting \/ (\E g \in Guests : Session(g)) \/ (\E m \in Members : Edit(m))

Spec == Init /\ [][Next]_vars

\* The scheduler polls both processes every frame, a fade ends and a
\* scheduled timer fires; users are under no obligation.
Fairness ==
    \A g \in Guests : /\ WF_vars(EndTransition(g))
                      /\ WF_vars(requestFullState(g))
                      /\ WF_vars(Poll(g))

-----------------------------------------------------------------------------
(* Properties                                                              *)

\* The two maps agree: the object a UID names carries that UID, so two UIDs
\* never name one object and a handler never removes another UID's object.
SyncedInverse ==
    \A m \in Members : \A u \in Tracked(ed[m]) :
        ed[m].o2u[ed[m].synced[u]] = u

\* No dangling pointer: a tracked object is in the editor.  Without it
\* onRemoteObjectModified, which does not look, removes a freed object.
SyncedLive ==
    \A m \in Members : \A u \in Tracked(ed[m]) : ed[m].synced[u] \in Live(ed[m])

\* The host hears of an object once: each of its objects is the one its UID
\* names, and every object of its level is tracked, so no edit goes unsent.
HostExact ==
    LET e == ed[Host] IN
    phase[Host] = "editor" =>
        \A o \in Obj : IF o \in Live(e)
                       THEN isTrackedObject(e, o) /\ e.synced[e.o2u[o]] = o
                       ELSE ~isTrackedObject(e, o)

\* generateUID never gives a UID some member tracks or some packet names.
NextUidIsNew ==
    \A m \in Members : \A k \in ed[m].next .. (MaxUid - 1) : phase[m] # "gone" =>
        LET u == <<m, k>> IN
        /\ \A n \in Members : ed[n].synced[u] = NoObj
        /\ \A g \in Guests : \A q \in {up[g], down[g]} :
              \A i \in DOMAIN q : ~Mentions(q[i], u)

\* Applying a remote edit sends nothing: no packet echoes back and forth.
NoEcho ==
    [][\A g \in Guests :
         /\ HostReceives(g) => down' = down
         /\ GuestReceives(g) => up' = up]_vars

StateToCome(g) ==
    \/ timer[g]
    \/ \E i \in DOMAIN up[g] : up[g][i].type \in {"CONNECT", "REQUEST_FULL_STATE"}

\* An object of the host is at each guest, or on its way there, or the guest
\* has deleted it and the news is on its way; or the guest missed it: its fade
\* swallowed the packet, a cut string made nothing of it, or another guest made
\* it.  There is no other way to lose one.
NothingLost ==
    \A g \in Guests : Attached(g) /\ ~StateToCome(g) =>
        \A u \in Tracked(ed[Host]) :
            \/ u \in Tracked(ed[g])
            \/ InFlight(down[g], u, MadeBy)
            \/ InFlight(up[g], u, {"OBJECT_DELETE"})
            \/ u \in missed[g]

\* What a guest has, the host has or is to make, or the news of its deletion is
\* on its way; or a guest's packet took it from the host, deleted it or made
\* nothing of it, while this guest had it or was sent it.
NothingKept ==
    \A g \in Guests : Attached(g) =>
        \A u \in Tracked(ed[g]) :
            \/ u \in Tracked(ed[Host])
            \/ InFlight(up[g], u, {"OBJECT_ADD"})
            \/ InFlight(down[g], u, {"OBJECT_DELETE"})
            \/ u \in strays[g]

\* What p leaves in the object u.
ValueIn(p, u) ==
    CASE p.type = "OBJECT_BATCH" -> p.objs[u]
      [] p.type = "OBJECT_DELETE" -> NoVal
      [] OTHER -> p.val

\* The last packet of the queue about u says v.
LastSays(queue, u, v) ==
    \E i \in DOMAIN queue :
        /\ Mentions(queue[i], u) /\ ValueIn(queue[i], u) = v
        /\ \A j \in DOMAIN queue : Mentions(queue[j], u) => j <= i

\* The host and g have the same under u, once the packets about u have arrived;
\* unless the last edit was told before it was made, was another guest's, or
\* crossed one of the other end.
HostCopyCurrent ==
    \A g \in Guests : Attached(g) =>
        \A u \in (Tracked(ed[Host]) \cap Tracked(ed[g])) \ apart[g] :
            LET here == Copy(ed[Host], u)  there == Copy(ed[g], u)
                sent == Says(down[g], u)   coming == Says(up[g], u)
            IN /\ sent /\ ~coming => LastSays(down[g], u, here)
               /\ coming /\ ~sent => LastSays(up[g], u, there)
               /\ ~sent /\ ~coming => here = there

\* A guest and the host keep in step: what one of them has and the other has
\* not is explained by a packet between them or a known loss.
GuestInStep == NothingLost /\ NothingKept

\* Nothing is in flight and every member that joined is in its editor.
Quiescent ==
    /\ phase[Host] = "editor"
    /\ \A g \in Guests :
          /\ up[g] = <<>> /\ down[g] = <<>> /\ ~timer[g]
          /\ phase[g] \in {"out", "editor"}

\* "full level state": at rest a guest's editor has each of the host's objects
\* once.  It may have none, when both states came in its fade, or each twice,
\* when both came after it.
FullStateOnce ==
    Quiescent => \A g \in connected : \A u \in Tracked(ed[Host]) :
        Cardinality({o \in Live(ed[g]) : ed[g].o2u[o] = u}) = 1

\* A guest whose request for the full state is still to be made or answered
\* when its editor is open gets every object the host has, unless the host or
\* the guest lets go of it first.
JoinCompletes ==
    \A g \in Guests : \A u \in Uid :
        getEditorLayer(g) /\ StateToCome(g) /\ u \in Tracked(ed[Host]) ~>
            \/ u \in Tracked(ed[g])
            \/ u \notin Tracked(ed[Host])
            \/ phase[g] = "gone"
=============================================================================
