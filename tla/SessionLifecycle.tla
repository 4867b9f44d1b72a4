-------------------------- MODULE SessionLifecycle --------------------------
(***************************************************************************)
(* One process through its sessions: the flags g_isHost and g_isInSession, *)
(* NetworkManager's m_host, m_peer and m_isHost, DiscoveryManager's        *)
(* threads, and what a session leaves in SyncManager's maps.               *)
(*                                                                         *)
(* The user opens a level, hosts it from the pause menu, stops, joins from *)
(* the main menu, loses the host, goes on with the level, exits.  Other    *)
(* members are the environment: they send objects and go away.             *)
(*                                                                         *)
(* A UID is <<user ID, counter>>.  The host's user ID is 1; a guest's is   *)
(* its connectID, here always 2 as a process is in one session at a time   *)
(* and a new one starts with empty maps or as host.                        *)
(***************************************************************************)
EXTENDS Discovery, Naturals, FiniteSets, Functions

CONSTANTS
    Obj,        \* addresses of GameObjects
    MaxCount    \* bound: UIDs of one user

ASSUME SessionAssumption == MaxCount \in Nat /\ IsFiniteSet(Obj)

VARIABLES
    screen,         \* "menu", "join" (with the JoinPopup), or "editor"
    g_isHost, g_isInSession,
    m_isHost, m_peer,   \* m_peer: there is a connection to a host
    m_host,         \* the ENet host: "none", "server" or "client"
    m_userID, m_objectCounter,
    objects,        \* m_objects of the open level
    synced,         \* m_syncedObjects: UID -> object
    o2u             \* m_objectToUID: object -> UID

flags == <<g_isHost, g_isInSession>>
network == <<m_isHost, m_peer, m_host>>
maps == <<m_objectCounter, synced, o2u>>
vars == <<screen, flags, network, threads, m_userID, objects, maps>>

Uid == {1, 2} \X (0 .. MaxCount - 1)
NoMap == [x \in {} |-> x]

TypeOK ==
    /\ ThreadsTypeOK
    /\ screen \in {"menu", "join", "editor"}
    /\ g_isHost \in BOOLEAN /\ g_isInSession \in BOOLEAN
    /\ m_isHost \in BOOLEAN /\ m_peer \in BOOLEAN
    /\ m_host \in {"none", "server", "client"}
    /\ m_userID \in {0, 1, 2} /\ m_objectCounter \in 0 .. MaxCount
    /\ objects \subseteq Obj
    /\ DOMAIN synced \subseteq Uid /\ Range(synced) \subseteq Obj
    /\ DOMAIN o2u \subseteq Obj /\ Range(o2u) \subseteq Uid

-----------------------------------------------------------------------------

getPeerID(peer, isHost) == IF peer THEN 2 ELSE IF isHost THEN 1 ELSE 0

\* f with f[x] = y, whether or not x was in its domain; and f without x.
With(f, x, y) == [z \in DOMAIN f \cup {x} |-> IF z = x THEN y ELSE f[z]]
Without(f, x) == [z \in DOMAIN f \ {x} |-> f[z]]

trackObject(u, o) == synced' = With(synced, u, o) /\ o2u' = With(o2u, o, u)

Init ==
    /\ ThreadsInit
    /\ screen = "menu" /\ g_isHost = FALSE /\ g_isInSession = FALSE
    /\ m_isHost = FALSE /\ m_peer = FALSE /\ m_host = "none"
    /\ m_userID = 0 /\ m_objectCounter = 0
    /\ objects = {} /\ synced = NoMap /\ o2u = NoMap

\* The user opens a level of its own.
OpenLevel ==
    /\ MainRuns /\ screen = "menu"
    /\ screen' = "editor"
    /\ objects' \in SUBSET Obj
    /\ UNCHANGED <<flags, network, threads, m_userID, maps>>

\* Mutant: the objects go, the UID counter stays.
clearAll_KeepsCounter == UNCHANGED m_objectCounter /\ synced' = NoMap /\ o2u' = NoMap

\* SyncManager::clearAll, from MyLevelEditorLayer::onExit.
clearAll == m_objectCounter' = 0 /\ synced' = NoMap /\ o2u' = NoMap

\* Mutant: the broadcast goes on.
stopHosting_Broadcasts ==
    /\ UNCHANGED threads
    /\ IF m_isHost /\ m_host # "none"
       THEN m_host' = "none" /\ m_isHost' = FALSE
       ELSE UNCHANGED <<m_host, m_isHost>>

\* NetworkManager::stopHosting; false and without effect for a client.  The
\* caller goes on when stopBroadcasting has joined its thread.
stopHosting ==
    IF m_isHost /\ m_host # "none"
    THEN m_host' = "none" /\ m_isHost' = FALSE /\ stopBroadcasting
    ELSE UNCHANGED <<m_host, m_isHost, threads>>

\* NetworkManager::disconnect.
disconnect == m_peer' = FALSE /\ stopHosting

\* Every live object without a UID gets one of its own from first on, in any
\* order; a UID already in the map now names the new object.
trackExistingObjects(user) ==
    LET new == objects \ DOMAIN o2u
        last == m_objectCounter + Cardinality(new)
    IN /\ last <= MaxCount
       /\ m_objectCounter' = last
       /\ \E num \in Bijection(new, m_objectCounter .. (last - 1)) :
            /\ o2u' = [o \in DOMAIN o2u \cup new |->
                         IF o \in new THEN <<user, num[o]>> ELSE o2u[o]]
            /\ synced' = [u \in DOMAIN synced \cup {<<user, num[o]>> : o \in new} |->
                            IF \E o \in new : u = <<user, num[o]>>
                            THEN CHOOSE o \in new : u = <<user, num[o]>>
                            ELSE synced[u]]

\* The pause menu shows the button unless the process is a guest.
PopupOpens == MainRuns /\ screen = "editor" /\ ~(g_isInSession /\ ~g_isHost)

\* Mutant: the user ID of the last session stays.
StartHost_OldId ==
    /\ PopupOpens /\ ~(g_isHost /\ g_isInSession)
    /\ m_host' = "server" /\ m_isHost' = TRUE /\ startBroadcasting
    /\ g_isHost' = TRUE /\ g_isInSession' = TRUE
    /\ trackExistingObjects(m_userID)
    /\ UNCHANGED <<screen, m_peer, m_userID, objects>>

\* HostPopup::onStartHost, hosting.
StartHost ==
    /\ PopupOpens /\ ~(g_isHost /\ g_isInSession)
    /\ m_host' = "server" /\ m_isHost' = TRUE /\ startBroadcasting
    /\ g_isHost' = TRUE /\ g_isInSession' = TRUE
    /\ m_userID' = getPeerID(m_peer, TRUE)
    /\ trackExistingObjects(getPeerID(m_peer, TRUE))
    /\ UNCHANGED <<screen, m_peer, objects>>

\* The port is in use.
FailToHost ==
    /\ PopupOpens /\ ~(g_isHost /\ g_isInSession)
    /\ m_host' = "none"
    /\ UNCHANGED <<screen, flags, m_isHost, m_peer, threads, m_userID, objects, maps>>

\* HostPopup::onStartHost, "Stop Hosting".
StopHost ==
    /\ PopupOpens /\ g_isHost /\ g_isInSession
    /\ stopHosting
    /\ UNCHANGED <<screen, flags, m_peer, m_userID, objects, maps>>

\* JoinPopup::init and onClose.
OpenJoinPopup ==
    /\ MainRuns /\ screen = "menu" /\ screen' = "join"
    /\ startListening
    /\ UNCHANGED <<flags, network, m_userID, objects, maps>>

CloseJoinPopup ==
    /\ MainRuns /\ screen = "join" /\ screen' = "menu"
    /\ stopListening
    /\ UNCHANGED <<flags, network, m_userID, objects, maps>>

\* JoinPopup::OnJoin; it closes the popup and opens an empty level.
OnJoin ==
    /\ MainRuns /\ screen = "join"
    /\ stopListening
    /\ screen' = "editor" /\ objects' = {}
    /\ m_host' = "client" /\ m_peer' = TRUE /\ m_isHost' = FALSE
    /\ g_isHost' = FALSE /\ g_isInSession' = TRUE
    /\ m_userID' = getPeerID(TRUE, FALSE)
    /\ UNCHANGED maps

FailToJoin ==
    /\ MainRuns /\ screen = "join"
    /\ m_host' = "none" /\ m_peer' = FALSE
    /\ UNCHANGED <<screen, flags, m_isHost, threads, m_userID, objects, maps>>

\* Mutant: a guest stays in the session.
LoseHost_InSession ==
    /\ MainRuns /\ g_isInSession /\ m_host = "client" /\ m_peer
    /\ m_peer' = FALSE
    /\ UNCHANGED <<screen, g_isHost, g_isInSession, m_isHost, m_host, threads, m_userID, objects, maps>>

\* The DISCONNECT event at a guest, with the callback of $on_mod(Loaded).
LoseHost ==
    /\ MainRuns /\ g_isInSession /\ m_host = "client" /\ m_peer
    /\ m_peer' = FALSE
    /\ g_isInSession' = (g_isInSession /\ g_isHost)
    /\ UNCHANGED <<screen, g_isHost, m_isHost, m_host, threads, m_userID, objects, maps>>

\* EditorPauseLayer: every way out of the editor, then clearAll in onExit.
handleExit ==
    /\ MainRuns /\ screen = "editor" /\ screen' = "menu" /\ objects' = {}
    /\ IF g_isInSession
       THEN /\ IF g_isHost THEN stopHosting /\ UNCHANGED m_peer ELSE disconnect
            /\ g_isInSession' = FALSE /\ g_isHost' = FALSE
       ELSE UNCHANGED <<flags, network, threads>>
    /\ clearAll
    /\ UNCHANGED m_userID

\* Mutant: deleting an object gives a UID back, in a session or not.
DeleteObject_Reuses ==
    /\ MainRuns /\ screen = "editor"
    /\ \E o \in objects :
         /\ objects' = objects \ {o}
         /\ o2u' = Without(o2u, o) /\ synced' = synced
         /\ m_objectCounter' = m_objectCounter - 1
    /\ UNCHANGED <<screen, flags, network, threads, m_userID>>

\* addSpecial for an object the user places.
PlaceObject ==
    /\ MainRuns /\ screen = "editor"
    /\ \E o \in Obj \ objects :
         /\ objects' = objects \cup {o}
         /\ IF g_isInSession
            THEN /\ m_objectCounter < MaxCount
                 /\ m_objectCounter' = m_objectCounter + 1
                 /\ trackObject(<<m_userID, m_objectCounter>>, o)
            ELSE UNCHANGED maps
    /\ UNCHANGED <<screen, flags, network, threads, m_userID>>

\* removeObject for an object the user deletes.
DeleteObject ==
    /\ MainRuns /\ screen = "editor"
    /\ \E o \in objects :
         /\ objects' = objects \ {o}
         /\ IF g_isInSession /\ o \in DOMAIN o2u
            THEN LET u == o2u[o] IN
                 IF u \in DOMAIN synced
                 THEN o2u' = Without(o2u, synced[u]) /\ synced' = Without(synced, u)
                 ELSE UNCHANGED <<o2u, synced>>
            ELSE UNCHANGED <<o2u, synced>>
    /\ UNCHANGED <<screen, flags, network, threads, m_userID, m_objectCounter>>

\* An object of another member arrives, once: a host's at a guest, a guest's
\* at the host.
RemoteObject ==
    /\ MainRuns /\ g_isInSession /\ m_host # "none"
    /\ \E u \in Uid \ DOMAIN synced, o \in Obj \ objects :
         /\ u[1] # m_userID
         /\ objects' = objects \cup {o}
         /\ trackObject(u, o)
    /\ UNCHANGED <<screen, flags, network, threads, m_userID, m_objectCounter>>

\* The threads of DiscoveryManager share nothing else with the main thread.
Threads ==
    /\ Joined \/ broadcastLoop \/ listenLoop
    /\ UNCHANGED <<screen, flags, network, m_userID, objects, maps>>

Next ==
    \/ OpenLevel \/ StartHost \/ FailToHost \/ StopHost
    \/ OpenJoinPopup \/ CloseJoinPopup \/ OnJoin \/ FailToJoin
    \/ LoseHost \/ handleExit \/ PlaceObject \/ DeleteObject \/ RemoteObject
    \/ Threads

Spec == Init /\ [][Next]_vars
FairSpec == Spec /\ ThreadsRun

-----------------------------------------------------------------------------
(* Properties                                                              *)

\* The process acts as a guest exactly while there is a peer to send to, and
\* a client never takes itself for a server.
GuestHasPeer ==
    /\ (g_isInSession /\ ~g_isHost) <=> m_peer
    /\ m_peer => ~m_isHost /\ m_host = "client"

\* Nothing of a session is left in the menu that the next one would take over.
MenuIsClean ==
    screen # "editor" =>
        /\ ~g_isHost /\ ~g_isInSession /\ ~m_isHost /\ ~m_peer
        /\ DOMAIN synced = {} /\ DOMAIN o2u = {} /\ m_objectCounter = 0

\* The user ID in the UIDs a process makes is the senderID of its packets,
\* whatever it was before: guest of a lost host, host, or nothing.
IdsAgree == g_isInSession /\ m_host # "none" => m_userID = getPeerID(m_peer, m_isHost)

\* The flags that main.cpp, NetworkManager and SyncManager keep for the same
\* session agree, through every order of hosting, joining, losing the host
\* and leaving.
FlagsAgree == GuestHasPeer /\ MenuIsClean /\ IdsAgree

\* A thread outlives neither its purpose nor its object: one that is joinable
\* has its flag set or is being joined, so std::thread is never assigned over
\* a joinable one (which ends the program), and the session is announced only
\* while there is a server or the main thread is stopping it.
ThreadsOwned ==
    /\ m_broadcastThread # "none" => m_isBroadcasting \/ waits = "broadcaster"
    /\ m_listenThread # "none" => m_isListening \/ waits = "listener"
    /\ m_broadcastThread # "none" => m_host = "server" \/ waits = "broadcaster"
    /\ m_listenThread # "none" => screen = "join" \/ waits = "listener"

\* stopBroadcasting and stopListening return: the main thread, which polls
\* the network and draws, goes on.
MainGoesOn == waits # "none" ~> waits = "none"
=============================================================================
