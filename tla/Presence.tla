------------------------------ MODULE Presence ------------------------------
(***************************************************************************)
(* What the members of a session see of each other besides the objects:    *)
(* selections and their highlights, cursors, the players of a playtest,    *)
(* and the settings of the host's level (SyncManager.cpp, with the hooks   *)
(* of EditorHooks.cpp and the frame update of main.cpp).                   *)
(*                                                                         *)
(* A member is a connection ID, so a guest joins at most once; the host    *)
(* does not relay, so links lead to the host and from it.  A link is the   *)
(* FIFO channel of ReliableChannel.  Objects are those the host tracks     *)
(* when it starts to host, named by their UIDs; ObjectSync has their       *)
(* creation in detail.                                                     *)
(***************************************************************************)
EXTENDS Integers, FiniteSets, Sequences, SequencesExt

CONSTANTS
    Host, Guests,
    Obj,            \* UIDs
    ChunkSize,      \* UIDs in a SelectPacket (50)
    Positions,      \* bound: of a mouse, in quarters of a unit
    Topics,         \* bound: what the users do in one behaviour
    MaxActs,        \* bound: and how often
    NetCap,         \* bound: packets on a link
    MaxFrames,      \* bound: of them, a player's positions
    None

ASSUME PresenceAssumption ==
    /\ Host \notin Guests /\ IsFiniteSet(Obj)
    /\ Topics \subseteq {"select", "point", "play", "settings"}
    /\ ChunkSize \in Nat \ {0} /\ Positions \subseteq Nat /\ 0 \in Positions /\ MaxActs \in Nat /\ NetCap \in Nat /\ MaxFrames \in Nat \ {0}

Members == {Host} \cup Guests
Links == ({Host} \X Guests) \cup (Guests \X {Host})     \* <<from, to>>

VARIABLES
    at,             \* "new", "fade" (joined, the editor fades in), "editor",
                    \* "alone" (the editor, the session lost) or "gone"
    link,           \* packets under way
    told,           \* ghost: the selection last sent on a link
    synced,         \* UIDs in m_syncedObjects
    m_remoteSelections, m_remoteSelectionHighlights, m_remoteCursors, m_remotePlayers,
    pointer,        \* the user's mouse; m_CursorPos is where it was last sent from
    m_CursorPos,
    play,           \* the user's playtest: "no", "alive" or "dead"
    wasPlaytesting,
    settings,       \* the level settings; 0 in a new level
    chosen,         \* ghost: the settings the host's user chose
    unsaid,         \* ghost: and has not told the guests
    topic, acts     \* ghosts: one of Topics; acts of the users

sprites == <<m_remoteSelectionHighlights, m_remoteCursors, m_remotePlayers>>
view == <<synced, m_remoteSelections, sprites>>
mouse == <<pointer, m_CursorPos>>
playtest == <<play, wasPlaytesting>>
level == <<settings, chosen, unsaid>>
budget == <<topic, acts>>
vars == <<at, link, told, view, mouse, playtest, level, budget>>

\* A highlight is a child of the object its UID names, of one the UID named
\* before, or freed with its parent.
Highlight == [uid : Obj, on : {"object", "former", "freed"}]
Player == [dead : BOOLEAN, shown : BOOLEAN]

\* One setting for each way a LevelSettingsData treats them, and a level's.
Fields == {"gamemode", "speed", "startOffset"}
LevelSettings == [Fields -> Nat]
NewLevel == [f \in Fields |-> 0]

Packet ==
         [type : {"SELECT_CHANGE"}, uids : Seq(Obj), chunkIndex : Nat, hasMore : BOOLEAN]
    \cup [type : {"MOUSE_MOVE"}, x : Nat]
    \cup [type : {"PLAYER_POSITION"}, isDead : BOOLEAN, stopPlaytest : BOOLEAN]
    \cup [type : {"OBJECT_UPDATE", "OBJECT_DELETE"}, uid : Obj]
    \cup [type : {"OBJECT_BATCH"}, uids : SUBSET Obj]
    \cup [type : {"LEVEL_SETTINGS"}, settings : LevelSettings]
    \cup [type : {"REQUEST_FULL_STATE"}]

TypeOK ==
    /\ at \in [Members -> {"new", "fade", "editor", "alone", "gone"}]
    /\ \A l \in Links : \A i \in DOMAIN link[l] : link[l][i] \in Packet
    /\ told \in [Links -> (SUBSET Obj) \cup {None}]
    /\ synced \in [Members -> SUBSET Obj]
    /\ \A v, s \in Members :
          /\ m_remoteSelections[v][s] \in Seq(Obj)
          /\ m_remoteSelectionHighlights[v][s] \subseteq Highlight
          /\ m_remoteCursors[v][s] \in Nat \cup {None}
          /\ m_remotePlayers[v][s] \in Player \cup {None}
    /\ pointer \in [Members -> Positions] /\ m_CursorPos \in [Members -> Positions]
    /\ play \in [Members -> {"no", "alive", "dead"}]
    /\ wasPlaytesting \in [Members -> BOOLEAN]
    /\ settings \in [Members -> LevelSettings] /\ chosen \in LevelSettings /\ unsaid \in BOOLEAN
    /\ topic \in Topics /\ acts \in 0 .. MaxActs

-----------------------------------------------------------------------------

InSession(m) == at[m] \in {"fade", "editor"}
Edits(m) == at[m] = "editor"

\* Both ends of a connection.
Up(l) == InSession(l[1]) /\ InSession(l[2])

ForAll(x) == [s \in Members |-> x]

\* NetworkManager::sendPacket, ps in this order: the host to every guest
\* there is, a guest to the host.
sendPacket(m, ps) ==
    /\ link' = [l \in Links |-> IF l[1] = m /\ Up(l) THEN link[l] \o ps ELSE link[l]]
    /\ \A l \in Links : Len(link'[l]) <= NetCap

\* The users act on one topic: the parts of the state that two topics change
\* are disjoint, but for link and at.
Act(t) == topic = t /\ acts < MaxActs /\ acts' = acts + 1 /\ UNCHANGED topic

Init ==
    /\ at = [m \in Members |-> IF m = Host THEN "editor" ELSE "new"]
    /\ link = [l \in Links |-> <<>>] /\ told = [l \in Links |-> None]
    /\ synced = [m \in Members |-> IF m = Host THEN Obj ELSE {}]
    /\ m_remoteSelections = ForAll(ForAll(<<>>))
    /\ m_remoteSelectionHighlights = ForAll(ForAll({}))
    /\ m_remoteCursors = ForAll(ForAll(None)) /\ m_remotePlayers = ForAll(ForAll(None))
    /\ pointer = ForAll(0) /\ m_CursorPos = ForAll(0)
    /\ play = ForAll("no") /\ wasPlaytesting = ForAll(FALSE)
    /\ chosen = [f \in Fields |-> 1] /\ unsaid = FALSE
    /\ settings = [m \in Members |-> IF m = Host THEN chosen ELSE NewLevel]
    /\ topic \in Topics /\ acts = 0

-----------------------------------------------------------------------------
(* Members come and go                                                     *)

\* Fills in the audio, the colours and the start mode, and for nothing the
\* start offset and whether the level is a platformer; two players and the
\* start speed stay the zeros of the memset.
extractLevelSettings(m) ==
    [f \in Fields |-> IF f = "speed" THEN 0 ELSE settings[m][f]]

onLocalLevelSettingsChanged(m) ==
    [type |-> "LEVEL_SETTINGS", settings |-> extractLevelSettings(m)]

\* sendFullState, with onLocalLevelSettingsChanged at its end.
FullState ==
    (IF synced[Host] = {} THEN <<>> ELSE <<[type |-> "OBJECT_BATCH", uids |-> synced[Host]]>>)
    \o <<onLocalLevelSettingsChanged(Host)>>

\* JoinPopup::OnJoin and the host's CONNECT event.  The process may come from
\* an earlier session: nothing resets its cursor or wasPlaytesting.
Join(g) ==
    /\ at[g] = "new" /\ Edits(Host)
    /\ at' = [at EXCEPT ![g] = "fade"]
    /\ link' = [link EXCEPT ![<<Host, g>>] = FullState]
    /\ \E before \in {FALSE, topic = "play"} : wasPlaytesting' = [wasPlaytesting EXCEPT ![g] = before]
    /\ UNCHANGED <<told, view, mouse, play, level, budget>>

\* The fade ends: from now on getEditorLayer finds the editor.
EndFade(g) ==
    /\ at[g] = "fade"
    /\ at' = [at EXCEPT ![g] = "editor"]
    /\ UNCHANGED <<link, told, view, mouse, playtest, level, budget>>

\* requestFullStateDelayed; its timer may end before the fade does.
requestFullState(g) ==
    /\ InSession(g) /\ Act(topic)
    /\ sendPacket(g, <<[type |-> "REQUEST_FULL_STATE"]>>)
    /\ UNCHANGED <<at, told, view, mouse, playtest, level>>

cleanUpPlayers(v) == m_remotePlayers' = [m_remotePlayers EXCEPT ![v] = ForAll(None)]

\* Mutant: the cursors are forgotten.
clearAll_KeepsCursors(v) ==
    /\ cleanUpPlayers(v)
    /\ m_remoteSelectionHighlights' = [m_remoteSelectionHighlights EXCEPT ![v] = ForAll({})]
    /\ m_remoteSelections' = [m_remoteSelections EXCEPT ![v] = ForAll(<<>>)]
    /\ synced' = [synced EXCEPT ![v] = {}]
    /\ UNCHANGED m_remoteCursors

clearAll(v) ==
    /\ cleanUpPlayers(v)
    /\ m_remoteCursors' = [m_remoteCursors EXCEPT ![v] = ForAll(None)]
    /\ m_remoteSelectionHighlights' = [m_remoteSelectionHighlights EXCEPT ![v] = ForAll({})]
    /\ m_remoteSelections' = [m_remoteSelections EXCEPT ![v] = ForAll(<<>>)]
    /\ synced' = [synced EXCEPT ![v] = {}]

\* m's end of its links is closed: nothing more reaches it, and what it has
\* sent may be lost from some packet on.
Close(m) ==
    \E arrive \in [{l \in Links : l[1] = m} -> 0 .. NetCap] :
        /\ \A l \in DOMAIN arrive : arrive[l] <= Len(link[l])
        /\ link' = [l \in Links |-> IF l[2] = m THEN <<>>
                                    ELSE IF l[1] = m THEN SubSeq(link[l], 1, arrive[l])
                                    ELSE link[l]]

\* The editor is left: disconnect or stopHosting, then clearAll from onExit.
\* A process that uses a freed highlight may end like this too.
Exit(m) ==
    /\ at[m] \in {"editor", "alone"}
    /\ at' = [at EXCEPT ![m] = "gone"]
    /\ Close(m) /\ clearAll(m)
    /\ play' = [play EXCEPT ![m] = "no"]
    /\ UNCHANGED <<told, mouse, wasPlaytesting, level, budget>>

\* DISCONNECT at a guest: $on_mod's callback cleans up the players.
LoseHost(g) ==
    /\ InSession(g) /\ ~InSession(Host)
    /\ at' = [at EXCEPT ![g] = "alone"]
    /\ Close(g) /\ cleanUpPlayers(g)
    /\ UNCHANGED <<told, synced, m_remoteSelections, m_remoteSelectionHighlights,
                   m_remoteCursors, mouse, playtest, level, budget>>

-----------------------------------------------------------------------------
(* Objects, as far as highlights are their children                        *)

\* What becomes of v's highlights on the object u.
OnObject(v, u, what) ==
    [m_remoteSelectionHighlights EXCEPT ![v] = [s \in Members |->
        {IF h.uid = u /\ h.on = "object" THEN [h EXCEPT !.on = what] ELSE h : h \in @[s]}]]

onLocalObjectModified(m) ==
    \E u \in synced[m] :
        /\ Edits(m) /\ Act("select")
        /\ sendPacket(m, <<[type |-> "OBJECT_UPDATE", uid |-> u]>>)
        /\ UNCHANGED <<at, told, view, mouse, playtest, level>>

\* removeObject and its hook; the undo list may keep the object.
onLocalObjectDestroyed(m) ==
    \E u \in synced[m], kept \in {"former", "freed"} :
        /\ Edits(m) /\ Act("select")
        /\ sendPacket(m, <<[type |-> "OBJECT_DELETE", uid |-> u]>>)
        /\ synced' = [synced EXCEPT ![m] = @ \ {u}]
        /\ m_remoteSelectionHighlights' = OnObject(m, u, kept)
        /\ UNCHANGED <<at, told, m_remoteSelections, m_remoteCursors, m_remotePlayers,
                       mouse, playtest, level>>

\* The object is made anew, and its highlights are freed with the old one.
onRemoteObjectModified(v, p) ==
    /\ m_remoteSelectionHighlights' =
         IF Edits(v) /\ p.uid \in synced[v] THEN OnObject(v, p.uid, "freed")
         ELSE m_remoteSelectionHighlights
    /\ UNCHANGED <<synced, m_remoteSelections, m_remoteCursors, m_remotePlayers, settings>>

onRemoteObjectDestroyed(v, p) ==
    /\ IF Edits(v) /\ p.uid \in synced[v]
       THEN /\ synced' = [synced EXCEPT ![v] = @ \ {p.uid}]
            /\ m_remoteSelectionHighlights' = OnObject(v, p.uid, "freed")
       ELSE UNCHANGED <<synced, m_remoteSelectionHighlights>>
    /\ UNCHANGED <<m_remoteSelections, m_remoteCursors, m_remotePlayers, settings>>

\* A UID that was tracked now names the new copy.
onRemoteObjectsBatched(v, p) ==
    /\ IF Edits(v)
       THEN /\ synced' = [synced EXCEPT ![v] = @ \cup p.uids]
            /\ m_remoteSelectionHighlights' = [m_remoteSelectionHighlights EXCEPT ![v] =
                 [s \in Members |->
                    {IF h.uid \in p.uids /\ h.on = "object" THEN [h EXCEPT !.on = "former"] ELSE h
                        : h \in @[s]}]]
       ELSE UNCHANGED <<synced, m_remoteSelectionHighlights>>
    /\ UNCHANGED <<m_remoteSelections, m_remoteCursors, m_remotePlayers, settings>>

-----------------------------------------------------------------------------
(* Selections                                                              *)

\* Mutant: i + 50 <= uids.size().
hasMore_OffByOne(i, size) == i + ChunkSize <= size

\* After the chunk that starts with the UID at i, counted from 0.
hasMore(i, size) == i + ChunkSize < size

SelectPackets(uids) ==
    LET chunks == (Len(uids) + ChunkSize - 1) \div ChunkSize
        first(k) == (k - 1) * ChunkSize
        end(k) == IF k < chunks THEN k * ChunkSize ELSE Len(uids)
    IN IF uids = <<>>
       THEN <<[type |-> "SELECT_CHANGE", uids |-> <<>>, chunkIndex |-> 0, hasMore |-> FALSE]>>
       ELSE [k \in 1 .. chunks |->
               [type |-> "SELECT_CHANGE",
                uids |-> SubSeq(uids, first(k) + 1, end(k)),
                chunkIndex |-> k - 1,
                hasMore |-> hasMore(first(k), Len(uids))]]

\* selectObjects; deselectAll with none.
onLocalSelectionChanged(m) ==
    \E selected \in SUBSET synced[m] :
        /\ Edits(m) /\ Act("select")
        /\ sendPacket(m, SelectPackets(SetToSeq(selected)))
        /\ told' = [l \in Links |-> IF l[1] = m /\ Up(l) THEN selected ELSE told[l]]
        /\ UNCHANGED <<at, view, mouse, playtest, level>>

\* Mutant: the first chunk does not clear the selection before.
Collected_Appends(selection, p) == selection \o p.uids

Collected(selection, p) ==
    IF p.chunkIndex = 0 THEN p.uids ELSE selection \o p.uids

\* onRemoteSelectionChanged.  removeFromParent on a highlight that is freed
\* is undefined: nothing, or UseFreed.
onSelectChange(v, s, p) ==
    LET selection == Collected(m_remoteSelections[v][s], p) IN
    /\ m_remoteSelections' = [m_remoteSelections EXCEPT ![v][s] = selection]
    /\ m_remoteSelectionHighlights' =
         IF p.hasMore THEN m_remoteSelectionHighlights
         ELSE [m_remoteSelectionHighlights EXCEPT ![v][s] =
                 IF Edits(v)
                 THEN {[uid |-> u, on |-> "object"] : u \in Range(selection) \cap synced[v]}
                 ELSE {}]
    /\ UNCHANGED <<synced, m_remoteCursors, m_remotePlayers, settings>>

UseFreed(l) ==
    /\ link[l] # <<>> /\ Edits(l[2])
    /\ Head(link[l]).type = "SELECT_CHANGE" /\ ~Head(link[l]).hasMore
    /\ \E h \in m_remoteSelectionHighlights[l[2]][l[1]] : h.on = "freed"
    /\ Exit(l[2])

-----------------------------------------------------------------------------
(* Cursors                                                                 *)

Distance(p, q) == IF p > q THEN p - q ELSE q - p

\* Mutant: the position is kept before the distance is looked at.
CursorPos_Drifts(last, p) == p

\* onLocalCursorUpdate: m_CursorPos stays unless the move is long enough.
CursorPos(last, p) == IF Distance(last, p) < 2 THEN last ELSE p

\* ccTouchMoved.
onLocalCursorUpdate(m) ==
    \E p \in Positions :
        /\ Edits(m) /\ p # pointer[m] /\ Act("point")
        /\ pointer' = [pointer EXCEPT ![m] = p]
        /\ m_CursorPos' = [m_CursorPos EXCEPT ![m] = CursorPos(@, p)]
        /\ sendPacket(m, IF Distance(m_CursorPos[m], p) < 2 THEN <<>>
                         ELSE <<[type |-> "MOUSE_MOVE", x |-> p \div 4]>>)
        /\ UNCHANGED <<at, told, view, playtest, level>>

\* The packet has whole units; without an editor there is no new cursor.
onRemoteCursorUpdate(v, s, p) ==
    /\ m_remoteCursors' =
         IF m_remoteCursors[v][s] = None /\ ~Edits(v) THEN m_remoteCursors
         ELSE [m_remoteCursors EXCEPT ![v][s] = 4 * p.x]
    /\ UNCHANGED <<synced, m_remoteSelections, m_remoteSelectionHighlights, m_remotePlayers, settings>>

-----------------------------------------------------------------------------
(* Players                                                                 *)

StartPlaytest(m) ==
    /\ Edits(m) /\ play[m] = "no" /\ Act("play")
    /\ play' = [play EXCEPT ![m] = "alive"]
    /\ UNCHANGED <<at, link, told, view, mouse, wasPlaytesting, level>>

DieOrRespawn(m) ==
    /\ Edits(m) /\ play[m] # "no" /\ Act("play")
    /\ play' = [play EXCEPT ![m] = IF @ = "alive" THEN "dead" ELSE "alive"]
    /\ UNCHANGED <<at, link, told, view, mouse, wasPlaytesting, level>>

onStopPlaytest(m) ==
    /\ Edits(m) /\ play[m] # "no" /\ Act("play")
    /\ play' = [play EXCEPT ![m] = "no"]
    /\ cleanUpPlayers(m)
    /\ UNCHANGED <<at, link, told, synced, m_remoteSelections, m_remoteSelectionHighlights,
                   m_remoteCursors, mouse, wasPlaytesting, level>>

\* Frames are not counted as acts: they wait while the last are under way.
sendPlayerPosition(m, stop) ==
    /\ \A l \in Links : l[1] = m =>
          Cardinality({i \in DOMAIN link[l] : link[l][i].type = "PLAYER_POSITION"}) < MaxFrames
    /\ sendPacket(m, <<[type |-> "PLAYER_POSITION", isDead |-> play[m] = "dead",
                        stopPlaytest |-> stop]>>)

\* CCScheduler::update in a playtest, with updatePlayerSync when 0.05 s are
\* over: it shows every player that is not dead.
updatePlayerSync(m) ==
    /\ Edits(m) /\ play[m] # "no"
    /\ wasPlaytesting' = [wasPlaytesting EXCEPT ![m] = TRUE]
    /\ sendPlayerPosition(m, FALSE)
    /\ m_remotePlayers' = [m_remotePlayers EXCEPT ![m] = [s \in Members |->
         IF @[s] # None /\ ~@[s].dead THEN [@[s] EXCEPT !.shown = TRUE] ELSE @[s]]]
    /\ UNCHANGED <<at, told, synced, m_remoteSelections, m_remoteSelectionHighlights,
                   m_remoteCursors, mouse, play, level, budget>>

\* The first frame after a playtest, if it comes in a session.
EndPlaytest(m) ==
    /\ InSession(m) /\ play[m] = "no" /\ wasPlaytesting[m]
    /\ wasPlaytesting' = [wasPlaytesting EXCEPT ![m] = FALSE]
    /\ sendPlayerPosition(m, TRUE)
    /\ UNCHANGED <<at, told, view, mouse, play, level, budget>>

\* Mutant: a player that respawns is not shown again.
Seen_StaysHidden(old, p) ==
    IF old = None THEN [dead |-> p.isDead, shown |-> TRUE]
    ELSE [dead |-> p.isDead, shown |-> old.shown /\ ~p.isDead]

\* A new player is shown as it is created; a known one is hidden by
\* stopPlaytest and then shown or hidden all the same.
Seen(old, p) ==
    IF old = None THEN [dead |-> p.isDead, shown |-> TRUE]
    ELSE [dead |-> p.isDead, shown |-> ~p.isDead]

onRemotePlayerPosition(v, s, p) ==
    /\ m_remotePlayers' =
         IF Edits(v) THEN [m_remotePlayers EXCEPT ![v][s] = Seen(@, p)] ELSE m_remotePlayers
    /\ UNCHANGED <<synced, m_remoteSelections, m_remoteSelectionHighlights, m_remoteCursors, settings>>

-----------------------------------------------------------------------------
(* Level settings                                                          *)

\* The host's user changes a setting; a guest has no settings button.
ChangeSettings ==
    /\ Edits(Host) /\ Act("settings")
    /\ \E f \in Fields : settings' = [settings EXCEPT ![Host][f] = @ + 1]
    /\ chosen' = settings'[Host] /\ unsaid' = TRUE
    /\ UNCHANGED <<at, link, told, view, mouse, playtest>>

\* Mutant: guests speak too.
Speaks_Everyone(m, applying) == ~applying

\* updateOptions and settingsUpdate go on for the host alone, and not from
\* within applyLevelSettings, which calls updateOptions itself.
Speaks(m, applying) == m = Host /\ ~applying

\* A click that may have changed settings: onLocalLevelSettingsChanged.
settingsUpdate(m) ==
    /\ Edits(m) /\ Speaks(m, FALSE) /\ Act("settings")
    /\ sendPacket(m, <<onLocalLevelSettingsChanged(m)>>)
    /\ unsaid' = (unsaid /\ m # Host)
    /\ UNCHANGED <<at, told, view, mouse, playtest, settings, chosen>>

\* The level with the data applied: its own start offset stays.
Applied(own, data) ==
    [f \in Fields |-> IF f = "startOffset" THEN own[f] ELSE data[f]]

applyLevelSettings(v, p) ==
    /\ settings' = IF Edits(v) THEN [settings EXCEPT ![v] = Applied(@, p.settings)] ELSE settings
    /\ UNCHANGED view

-----------------------------------------------------------------------------

\* handlePacket at the end of the link, but for REQUEST_FULL_STATE.
handlePacket(l) ==
    LET s == l[1]  v == l[2]  p == Head(link[l]) IN
    /\ InSession(v) /\ link[l] # <<>>
    /\ p.type # "REQUEST_FULL_STATE"
    /\ link' = [link EXCEPT ![l] = Tail(@)]
    /\ \/ p.type = "SELECT_CHANGE" /\ onSelectChange(v, s, p)
       \/ p.type = "MOUSE_MOVE" /\ onRemoteCursorUpdate(v, s, p)
       \/ p.type = "PLAYER_POSITION" /\ onRemotePlayerPosition(v, s, p)
       \/ p.type = "OBJECT_UPDATE" /\ onRemoteObjectModified(v, p)
       \/ p.type = "OBJECT_DELETE" /\ onRemoteObjectDestroyed(v, p)
       \/ p.type = "OBJECT_BATCH" /\ onRemoteObjectsBatched(v, p)
       \/ p.type = "LEVEL_SETTINGS" /\ applyLevelSettings(v, p)
    /\ UNCHANGED <<at, told, mouse, playtest, chosen, unsaid, budget>>

\* The host answers a guest that is still there.
onRequest(g) ==
    LET l == <<g, Host>>  back == <<Host, g>> IN
    /\ InSession(Host) /\ link[l] # <<>> /\ Head(link[l]).type = "REQUEST_FULL_STATE"
    /\ link' = [link EXCEPT ![l] = Tail(@),
                            ![back] = IF InSession(g) THEN @ \o FullState ELSE @]
    /\ Len(link'[back]) <= NetCap
    /\ UNCHANGED <<at, told, view, mouse, playtest, level, budget>>

poll(l) == handlePacket(l) \/ (l[1] # Host /\ onRequest(l[1]))

Frame(m) == updatePlayerSync(m) \/ EndPlaytest(m)

Next ==
    \/ \E g \in Guests : Join(g) \/ EndFade(g) \/ requestFullState(g) \/ LoseHost(g)
    \/ \E m \in Members :
          \/ Exit(m) \/ onLocalObjectModified(m) \/ onLocalObjectDestroyed(m)
          \/ onLocalSelectionChanged(m) \/ onLocalCursorUpdate(m)
          \/ StartPlaytest(m) \/ DieOrRespawn(m) \/ onStopPlaytest(m)
          \/ Frame(m) \/ settingsUpdate(m)
    \/ ChangeSettings
    \/ \E l \in Links : poll(l) \/ UseFreed(l)

Spec == Init /\ [][Next]_vars

\* Every process in a session updates and polls in each frame; no user has to
\* do anything.
FairSpec ==
    /\ Spec
    /\ \A m \in Members : WF_vars(Frame(m))
    /\ \A l \in Links : WF_vars(poll(l))

-----------------------------------------------------------------------------
(* Properties                                                              *)

Coming(l, types) == \E i \in DOMAIN link[l] : link[l][i].type \in types

\* After the last packet of a selection the receiver highlights exactly what
\* the sender selected last, of the objects it knows: however many packets it
\* took, whatever was selected before and whichever sprites were freed since.
HighlightsFollow ==
    [][\A l \in Links :
         LET s == l[1]  v == l[2] IN
         (/\ Edits(v) /\ at[s] # "gone" /\ at' = at
          /\ Coming(l, {"SELECT_CHANGE"}) /\ ~Coming(l, {"SELECT_CHANGE"})') =>
             m_remoteSelectionHighlights'[v][s] =
                 {[uid |-> u, on |-> "object"] : u \in told[l] \cap synced[v]}]_vars

\* A cursor that is shown is within a unit and a half of the mouse it stands
\* for, once the moves under way have arrived: small moves do not add up.
CursorNear ==
    \A l \in Links : LET c == m_remoteCursors[l[2]][l[1]] IN
        Up(l) /\ c # None /\ ~Coming(l, {"MOUSE_MOVE"}) => pointer[l[1]] - c \in -1 .. 4

\* Every variable keeps its type.
\* Out of the session nobody's player is left in the editor, and out of the
\* editor no pointer to a sprite of it is: the next one would use it freed.
NothingLeft ==
    TypeOK /\ \A v, s \in Members :
        /\ ~InSession(v) => m_remotePlayers[v][s] = None
        /\ at[v] = "gone" => /\ m_remoteCursors[v][s] = None
                             /\ m_remoteSelectionHighlights[v][s] = {}
                             /\ m_remoteSelections[v][s] = <<>>

\* g is in the editor, got settings, and there are no others to come.
Settled(g) ==
    /\ InSession(Host) /\ Edits(g) /\ settings[g] # NewLevel
    /\ ~unsaid /\ ~Coming(<<Host, g>>, {"LEVEL_SETTINGS"})

\* No guest overrides what the host's user chose, and of the settings that are
\* both filled in and applied a settled guest has the last: full states and
\* changes may cross, and those that come in the fade are dropped.
SettingsAgree ==
    /\ InSession(Host) => settings[Host] = chosen
    /\ \A g \in Guests : Settled(g) => settings[g]["gamemode"] = chosen["gamemode"]

\* Who playtests and lives gets to be seen by who is in the editor, deaths,
\* respawns and the other's own playtests notwithstanding.
AliveIsShown ==
    \A l \in Links : LET s == l[1]  v == l[2]
                         Alive == play[s] = "alive" /\ Edits(s) /\ Edits(v)
                         p == m_remotePlayers[v][s]
                     IN Alive ~> ((p # None /\ p.shown) \/ ~Alive)
=============================================================================
