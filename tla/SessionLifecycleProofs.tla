----------------------- MODULE SessionLifecycleProofs -----------------------
(***************************************************************************)
(* Proofs about SessionLifecycle, for every set of addresses and every     *)
(* number of UIDs: the flags of a session agree, and no thread of          *)
(* DiscoveryManager outlives its purpose.  For these the maps matter only  *)
(* as far as they are empty in the menu; their types come at the end.      *)
(***************************************************************************)
EXTENDS SessionLifecycle, FiniteSetTheorems, TLAPS

\* The types of what is not a map.
FlagTypes ==
    /\ screen \in {"menu", "join", "editor"}
    /\ g_isHost \in BOOLEAN /\ g_isInSession \in BOOLEAN
    /\ m_isHost \in BOOLEAN /\ m_peer \in BOOLEAN
    /\ m_host \in {"none", "server", "client"}
    /\ m_isBroadcasting \in BOOLEAN /\ m_isListening \in BOOLEAN
    /\ waits \in {"none", "broadcaster", "listener"}

\* NetworkManager serves only for a process that says it hosts, and it hosts
\* only in a session.
ServesAsHost ==
    /\ m_isHost <=> m_host = "server"
    /\ m_isHost => g_isHost
    /\ g_isHost => g_isInSession

IInv == FlagTypes /\ ServesAsHost /\ FlagsAgree /\ ThreadsOwned

-----------------------------------------------------------------------------

\* A process starts in a clean menu with nothing running.
LEMMA InitIInv == Init => IInv
  BY DEF Init, ThreadsInit, NoMap, IInv, FlagTypes, ServesAsHost, FlagsAgree,
         GuestHasPeer, MenuIsClean, IdsAgree, ThreadsOwned

\* stopHosting for a process that hosts and whose thread is not being joined
\* leaves no server, and no announcing thread that nobody waits for.
LEMMA StopHostingStops ==
    ASSUME FlagTypes, ServesAsHost, ThreadsOwned, MainRuns, stopHosting
    PROVE  /\ ~m_isHost' /\ m_host' \in {m_host, "none"} /\ m_host' # "server"
           /\ m_isBroadcasting' \in BOOLEAN
           /\ m_isListening' = m_isListening /\ m_listenThread' = m_listenThread
           /\ m_broadcastThread' = m_broadcastThread
           /\ waits' \in {"none", "broadcaster"}
           /\ m_broadcastThread' # "none" => waits' = "broadcaster"
  <1>1. CASE m_isHost
    BY <1>1 DEF FlagTypes, ServesAsHost, MainRuns, stopHosting, stopBroadcasting
  <1>2. CASE ~m_isHost
    BY <1>2 DEF FlagTypes, ServesAsHost, ThreadsOwned, MainRuns, stopHosting, threads
  <1> QED
    BY <1>1, <1>2

-----------------------------------------------------------------------------
(* Every action keeps the invariant                                        *)

\* Hosting in an editor that is in no session.
LEMMA StartHostKeeps == ASSUME IInv, StartHost PROVE IInv'
  <1> USE DEF IInv, FlagsAgree
  <1>1. FlagTypes' /\ ServesAsHost'
    BY DEF StartHost, PopupOpens, startBroadcasting, FlagTypes, ServesAsHost
  <1>2. ~m_peer
    BY DEF StartHost, PopupOpens, GuestHasPeer, FlagTypes
  <1>3. GuestHasPeer' /\ MenuIsClean' /\ IdsAgree'
    BY <1>2 DEF StartHost, PopupOpens, GuestHasPeer, MenuIsClean, IdsAgree, getPeerID, FlagTypes
  <1>4. ThreadsOwned'
    BY DEF StartHost, PopupOpens, MainRuns, startBroadcasting, ThreadsOwned, FlagTypes
  <1> QED
    BY <1>1, <1>3, <1>4

\* NetworkManager cannot open its socket: nothing else changes.
LEMMA FailToHostKeeps == ASSUME IInv, FailToHost PROVE IInv'
  <1> USE DEF IInv, FlagsAgree
  <1>1. ~m_isHost /\ ~m_peer /\ screen = "editor" /\ waits = "none"
    BY DEF FailToHost, PopupOpens, MainRuns, ServesAsHost, GuestHasPeer, FlagTypes
  <1>2. FlagTypes' /\ ServesAsHost'
    BY <1>1 DEF FailToHost, FlagTypes, ServesAsHost, flags, threads
  <1>3. GuestHasPeer' /\ MenuIsClean' /\ IdsAgree'
    BY <1>1 DEF FailToHost, GuestHasPeer, MenuIsClean, IdsAgree, flags
  <1>4. ThreadsOwned'
    BY <1>1 DEF FailToHost, ThreadsOwned, ServesAsHost, threads
  <1> QED
    BY <1>2, <1>3, <1>4

\* Stop Hosting ends the server, and g_isHost and g_isInSession stay.
LEMMA StopHostKeeps == ASSUME IInv, StopHost PROVE IInv'
  <1> USE DEF IInv, FlagsAgree
  <1>1. /\ MainRuns /\ stopHosting /\ UNCHANGED <<screen, flags, m_peer, m_userID, maps>>
        /\ screen = "editor" /\ g_isHost /\ g_isInSession
    BY DEF StopHost, PopupOpens
  <1>2. ~m_peer
    BY <1>1 DEF GuestHasPeer
  <1>3. FlagTypes' /\ ServesAsHost'
    <2>1. m_isHost' \in BOOLEAN
      BY <1>1 DEF stopHosting, FlagTypes
    <2>2. /\ UNCHANGED <<g_isHost, g_isInSession>>
          /\ ~m_isHost' /\ m_host' # "server" /\ m_host' \in {m_host, "none"}
          /\ m_isBroadcasting' \in BOOLEAN /\ m_isListening' = m_isListening
          /\ waits' \in {"none", "broadcaster"}
      BY <1>1, StopHostingStops DEF flags
    <2> QED
      BY <1>1, <2>1, <2>2 DEF FlagTypes, ServesAsHost
  <1>4. GuestHasPeer' /\ MenuIsClean'
    BY <1>1, <1>2 DEF GuestHasPeer, MenuIsClean, flags
  <1>5. IdsAgree'
    <2>1. CASE m_isHost
      BY <1>1, <2>1 DEF stopHosting, IdsAgree, ServesAsHost
    <2>2. CASE ~m_isHost
      BY <1>1, <2>2 DEF stopHosting, IdsAgree, flags
    <2> QED
      BY <2>1, <2>2
  <1>6. ThreadsOwned'
    BY <1>1, StopHostingStops DEF ThreadsOwned, MainRuns
  <1> QED
    BY <1>3, <1>4, <1>5, <1>6

\* The join popup comes and goes with the listening thread.
LEMMA JoinPopupKeeps ==
    ASSUME IInv, OpenJoinPopup \/ CloseJoinPopup \/ FailToJoin PROVE IInv'
  <1> USE DEF IInv, FlagsAgree
  <1>1. /\ screen \in {"menu", "join"} /\ screen' \in {"menu", "join"}
        /\ waits = "none" /\ UNCHANGED <<flags, m_isHost, m_userID, maps, m_isBroadcasting, m_broadcastThread>>
        /\ UNCHANGED <<m_host, m_peer>> \/ (m_host' = "none" /\ m_peer' = FALSE)
    BY DEF OpenJoinPopup, CloseJoinPopup, FailToJoin, MainRuns, startListening, stopListening,
           network, threads
  <1>2. ~g_isHost /\ ~g_isInSession /\ ~m_isHost /\ ~m_peer
    BY <1>1 DEF MenuIsClean
  <1>3. FlagTypes'
    BY <1>1 DEF OpenJoinPopup, CloseJoinPopup, FailToJoin, startListening, stopListening,
           network, threads, flags, FlagTypes
  <1>4. ServesAsHost' /\ GuestHasPeer' /\ MenuIsClean' /\ IdsAgree'
    BY <1>1, <1>2 DEF ServesAsHost, GuestHasPeer, MenuIsClean, IdsAgree, flags, maps
  <1>5. ThreadsOwned'
    BY <1>1, <1>2 DEF OpenJoinPopup, CloseJoinPopup, FailToJoin, startListening, stopListening,
           ThreadsOwned, ServesAsHost, network, threads
  <1> QED
    BY <1>3, <1>4, <1>5

\* Joining makes a client of a process in the menu.
LEMMA OnJoinKeeps == ASSUME IInv, OnJoin PROVE IInv'
  <1> USE DEF IInv, FlagsAgree
  <1>1. ~m_isHost /\ waits = "none"
    BY DEF OnJoin, MainRuns, MenuIsClean
  <1>2. FlagTypes' /\ ServesAsHost'
    BY DEF OnJoin, stopListening, FlagTypes, ServesAsHost
  <1>3. GuestHasPeer' /\ MenuIsClean' /\ IdsAgree'
    BY DEF OnJoin, GuestHasPeer, MenuIsClean, IdsAgree, getPeerID
  <1>4. ThreadsOwned'
    BY <1>1 DEF OnJoin, stopListening, ThreadsOwned, ServesAsHost
  <1> QED
    BY <1>2, <1>3, <1>4

\* The host's DISCONNECT ends the session; the editor stays open.
LEMMA LoseHostKeeps == ASSUME IInv, LoseHost PROVE IInv'
  <1> USE DEF IInv, FlagsAgree
  <1>1. ~g_isHost /\ ~m_isHost /\ screen = "editor"
    BY DEF LoseHost, GuestHasPeer, MenuIsClean, FlagTypes
  <1>2. FlagTypes' /\ ServesAsHost'
    BY <1>1 DEF LoseHost, FlagTypes, ServesAsHost, threads
  <1>3. GuestHasPeer' /\ MenuIsClean' /\ IdsAgree'
    BY <1>1 DEF LoseHost, GuestHasPeer, MenuIsClean, IdsAgree
  <1>4. ThreadsOwned'
    BY DEF LoseHost, ThreadsOwned, threads
  <1> QED
    BY <1>2, <1>3, <1>4

\* However the editor is left, a clean menu is what is left of the session.
LEMMA ExitKeeps == ASSUME IInv, handleExit PROVE IInv'
  <1> USE DEF IInv, FlagsAgree
  <1>1. /\ MainRuns /\ screen = "editor" /\ screen' = "menu"
        /\ DOMAIN synced' = {} /\ DOMAIN o2u' = {} /\ m_objectCounter' = 0
        /\ m_userID' = m_userID
    BY DEF handleExit, clearAll, NoMap
  <1>2. CASE g_isInSession
    <2>1. stopHosting /\ ~m_peer' /\ ~g_isInSession' /\ ~g_isHost'
      BY <1>2 DEF handleExit, disconnect, GuestHasPeer
    <2>2. m_peer' \in BOOLEAN /\ g_isHost' \in BOOLEAN /\ g_isInSession' \in BOOLEAN
      BY <1>2, <2>1 DEF handleExit, disconnect, FlagTypes
    <2>3. m_isHost' \in BOOLEAN
      BY <2>1 DEF stopHosting, FlagTypes
    <2>4. FlagTypes' /\ ServesAsHost'
      BY <1>1, <2>1, <2>2, <2>3, StopHostingStops DEF FlagTypes, ServesAsHost
    <2>5. GuestHasPeer' /\ MenuIsClean' /\ IdsAgree'
      BY <1>1, <2>1, StopHostingStops DEF GuestHasPeer, MenuIsClean, IdsAgree
    <2>6. ThreadsOwned'
      BY <1>1, <2>1, StopHostingStops DEF ThreadsOwned, MainRuns
    <2> QED
      BY <2>4, <2>5, <2>6
  <1>3. CASE ~g_isInSession
    <2>1. UNCHANGED <<flags, network, threads>>
      BY <1>3 DEF handleExit
    <2>2. ~g_isHost /\ ~m_isHost /\ ~m_peer
      BY <1>3 DEF ServesAsHost, GuestHasPeer
    <2>3. FlagTypes' /\ ServesAsHost'
      BY <1>1, <2>1 DEF FlagTypes, ServesAsHost, flags, network, threads
    <2>4. GuestHasPeer' /\ MenuIsClean' /\ IdsAgree'
      BY <1>1, <1>3, <2>1, <2>2 DEF GuestHasPeer, MenuIsClean, IdsAgree, flags, network
    <2>5. ThreadsOwned'
      BY <1>1, <2>1 DEF ThreadsOwned, MainRuns, network, threads
    <2> QED
      BY <2>3, <2>4, <2>5
  <1> QED
    BY <1>2, <1>3

\* What happens in an editor and leaves flags and threads alone.
LEMMA EditsKeep ==
    ASSUME IInv, OpenLevel \/ PlaceObject \/ DeleteObject \/ RemoteObject
    PROVE  IInv'
  <1> USE DEF IInv, FlagsAgree
  <1>1. screen' = "editor" /\ UNCHANGED <<flags, network, threads, m_userID>>
        /\ (screen = "editor" \/ waits = "none")
    BY DEF OpenLevel, PlaceObject, DeleteObject, RemoteObject, MenuIsClean, MainRuns
  <1>2. FlagTypes' /\ ServesAsHost'
    BY <1>1 DEF FlagTypes, ServesAsHost, flags, network, threads
  <1>3. GuestHasPeer' /\ MenuIsClean' /\ IdsAgree'
    BY <1>1 DEF GuestHasPeer, MenuIsClean, IdsAgree, flags, network
  <1>4. ThreadsOwned'
    BY <1>1 DEF OpenLevel, PlaceObject, DeleteObject, RemoteObject, MenuIsClean,
                ThreadsOwned, network, threads
  <1> QED
    BY <1>2, <1>3, <1>4

\* A thread of DiscoveryManager ends on its flag, and is joined then.
LEMMA ThreadsKeep == ASSUME IInv, Threads PROVE IInv'
  <1> USE DEF IInv, FlagsAgree
  <1>1. /\ UNCHANGED <<screen, flags, network, m_userID, maps>>
        /\ UNCHANGED <<m_isBroadcasting, m_isListening>>
    BY DEF Threads, Joined, broadcastLoop, listenLoop
  <1>2. ServesAsHost' /\ GuestHasPeer' /\ MenuIsClean' /\ IdsAgree'
    BY <1>1 DEF ServesAsHost, GuestHasPeer, MenuIsClean, IdsAgree, flags, network, maps
  <1>3. FlagTypes' /\ ThreadsOwned'
    <2>1. CASE Joined
      BY <1>1, <2>1 DEF Joined, FlagTypes, ThreadsOwned, flags, network
    <2>2. CASE broadcastLoop
      BY <1>1, <2>2 DEF broadcastLoop, Loop, FlagTypes, ThreadsOwned, flags, network
    <2>3. CASE listenLoop
      BY <1>1, <2>3 DEF listenLoop, Loop, FlagTypes, ThreadsOwned, flags, network
    <2> QED
      BY <2>1, <2>2, <2>3 DEF Threads
  <1> QED
    BY <1>2, <1>3

\* Every step keeps the invariant.
LEMMA NextIInv == IInv /\ [Next]_vars => IInv'
  <1> SUFFICES ASSUME IInv, [Next]_vars PROVE IInv'
    OBVIOUS
  <1>1. CASE UNCHANGED vars
    BY <1>1 DEF vars, flags, network, maps, threads, IInv, FlagTypes, ServesAsHost, FlagsAgree,
                GuestHasPeer, MenuIsClean, IdsAgree, ThreadsOwned
  <1>2. CASE Next
    BY <1>2, StartHostKeeps, FailToHostKeeps, StopHostKeeps, JoinPopupKeeps, OnJoinKeeps,
       LoseHostKeeps, ExitKeeps, EditsKeep, ThreadsKeep DEF Next
  <1> QED
    BY <1>1, <1>2

\* g_isHost, g_isInSession, m_isHost, m_peer, m_host, the user ID and what is
\* left of a session agree in every state of a process.
THEOREM FlagsAlwaysAgree == Spec => []FlagsAgree
  <1>1. IInv => FlagsAgree
    BY DEF IInv
  <1> QED
    BY <1>1, InitIInv, NextIInv, PTL DEF Spec

\* No thread of DiscoveryManager is assigned over, or runs on without a flag,
\* a server or a popup that it is for, unless it is being joined.
THEOREM ThreadsAlwaysOwned == Spec => []ThreadsOwned
  <1>1. IInv => ThreadsOwned
    BY DEF IInv
  <1> QED
    BY <1>1, InitIInv, NextIInv, PTL DEF Spec

-----------------------------------------------------------------------------
(* Types                                                                   *)

\* A process in a session has a user ID, also when it has stopped hosting.
HasId == g_isInSession => m_userID \in {1, 2}

MapTypes ==
    /\ m_objectCounter \in 0 .. MaxCount /\ objects \subseteq Obj
    /\ DOMAIN synced \subseteq Uid /\ Range(synced) \subseteq Obj
    /\ DOMAIN o2u \subseteq Obj /\ Range(o2u) \subseteq Uid

OtherTypes ==
    /\ m_broadcastThread \in ThreadState /\ m_listenThread \in ThreadState
    /\ m_userID \in {0, 1, 2}

TInv == FlagTypes /\ OtherTypes /\ HasId /\ MapTypes

\* An entry more, and an entry less.
LEMMA WithTypes ==
    ASSUME NEW D, NEW R, NEW f, DOMAIN f \subseteq D, Range(f) \subseteq R, NEW x \in D, NEW y \in R
    PROVE  DOMAIN With(f, x, y) \subseteq D /\ Range(With(f, x, y)) \subseteq R
  BY DEF With, Range

LEMMA WithoutTypes ==
    ASSUME NEW D, NEW R, NEW f, DOMAIN f \subseteq D, Range(f) \subseteq R, NEW x
    PROVE  DOMAIN Without(f, x) \subseteq D /\ Range(Without(f, x)) \subseteq R
  BY DEF Without, Range

\* Empty maps.
LEMMA NoMapTypes == ASSUME NEW D, NEW R PROVE DOMAIN NoMap \subseteq D /\ Range(NoMap) \subseteq R
  BY DEF NoMap, Range

\* The new objects get UIDs that are left.
LEMMA TrackTypes ==
    ASSUME MapTypes, NEW user \in {1, 2}, trackExistingObjects(user), UNCHANGED objects
    PROVE  MapTypes'
  <1> DEFINE new == objects \ DOMAIN o2u
             last == m_objectCounter + Cardinality(new)
  <1>1. new \subseteq Obj /\ IsFiniteSet(new) /\ Cardinality(new) \in Nat
    <2>1. new \subseteq Obj
      BY DEF MapTypes
    <2> HIDE DEF new
    <2> QED
      BY <2>1, SessionAssumption, FS_Subset, FS_CardinalityType
  <1>2. PICK num \in Bijection(new, m_objectCounter .. (last - 1)) :
          /\ o2u' = [o \in DOMAIN o2u \cup new |-> IF o \in new THEN <<user, num[o]>> ELSE o2u[o]]
          /\ synced' = [u \in DOMAIN synced \cup {<<user, num[o]>> : o \in new} |->
                          IF \E o \in new : u = <<user, num[o]>>
                          THEN CHOOSE o \in new : u = <<user, num[o]>>
                          ELSE synced[u]]
    BY DEF trackExistingObjects
  <1>3. last <= MaxCount /\ m_objectCounter' = last
    BY DEF trackExistingObjects
  <1>4. m_objectCounter' \in 0 .. MaxCount
    <2>1. last \in Nat
      <3> HIDE DEF new
      <3> QED BY <1>1, SessionAssumption DEF MapTypes
    <2> HIDE DEF new, last
    <2> QED BY <1>3, <2>1, SessionAssumption
  <1>5. \A o \in new : <<user, num[o]>> \in Uid
    <2>1. \A o \in new : num[o] \in m_objectCounter .. (last - 1)
      BY <1>2 DEF Bijection, Injection
    <2> HIDE DEF new, last
    <2>2. \A k \in m_objectCounter .. (last - 1) : k \in 0 .. MaxCount - 1
      BY <1>3, <1>4, SessionAssumption DEF MapTypes
    <2> QED
      BY <2>1, <2>2 DEF Uid
  <1> HIDE DEF new, last
  <1>6. DOMAIN o2u' \subseteq Obj /\ Range(o2u') \subseteq Uid
    <2>1. DOMAIN o2u' \subseteq Obj
      BY <1>1, <1>2 DEF MapTypes
    <2>2. ASSUME NEW o \in DOMAIN o2u' PROVE o2u'[o] \in Uid
      <3>1. CASE o \in new
        BY <1>2, <1>5, <3>1
      <3>2. CASE o \notin new
        <4>1. o \in DOMAIN o2u /\ o2u'[o] = o2u[o]
          BY <1>2, <3>2
        <4> QED
          BY <4>1 DEF MapTypes, Range
      <3> QED
        BY <3>1, <3>2
    <2> QED
      BY <2>1, <2>2 DEF Range
  <1>7. DOMAIN synced' \subseteq Uid /\ Range(synced') \subseteq Obj
    <2>1. DOMAIN synced' \subseteq Uid
      BY <1>2, <1>5 DEF MapTypes
    <2>2. ASSUME NEW u \in DOMAIN synced' PROVE synced'[u] \in Obj
      <3>1. CASE \E o \in new : u = <<user, num[o]>>
        BY <1>1, <1>2, <3>1
      <3>2. CASE ~ \E o \in new : u = <<user, num[o]>>
        <4>1. u \in DOMAIN synced /\ synced'[u] = synced[u]
          BY <1>2, <3>2
        <4> QED
          BY <4>1 DEF MapTypes, Range
      <3> QED
        BY <3>1, <3>2
    <2> QED
      BY <2>1, <2>2 DEF Range
  <1> QED
    BY <1>4, <1>6, <1>7 DEF MapTypes

\* Only handlers of the editor change the maps, and clearAll empties them.
LEMMA MapTypesKept == ASSUME IInv, TInv, [Next]_vars PROVE MapTypes'
  <1>1. CASE StartHost
    <2>1. getPeerID(m_peer, TRUE) \in {1, 2}
      BY DEF getPeerID
    <2> QED
      BY <1>1, <2>1, TrackTypes DEF StartHost, TInv
  <1>2. CASE handleExit
    <2>1. /\ objects' = {} /\ m_objectCounter' = 0 /\ synced' = NoMap /\ o2u' = NoMap
      BY <1>2 DEF handleExit, clearAll
    <2>2. 0 \in 0 .. MaxCount
      BY SessionAssumption
    <2> QED
      BY <2>1, <2>2, NoMapTypes DEF MapTypes
  <1>3. CASE PlaceObject
    <2>1. PICK o \in Obj \ objects :
            /\ objects' = objects \cup {o}
            /\ IF g_isInSession
               THEN /\ m_objectCounter < MaxCount /\ m_objectCounter' = m_objectCounter + 1
                    /\ synced' = With(synced, <<m_userID, m_objectCounter>>, o)
                    /\ o2u' = With(o2u, o, <<m_userID, m_objectCounter>>)
               ELSE UNCHANGED maps
      BY <1>3 DEF PlaceObject, trackObject
    <2>2. CASE g_isInSession
      <3>1. /\ m_objectCounter' \in 0 .. MaxCount /\ m_objectCounter \in 0 .. MaxCount - 1
        BY <2>1, <2>2, SessionAssumption DEF TInv, MapTypes
      <3>2. <<m_userID, m_objectCounter>> \in Uid
        BY <2>2, <3>1 DEF TInv, HasId, Uid
      <3>3. /\ DOMAIN synced' \subseteq Uid /\ Range(synced') \subseteq Obj
            /\ DOMAIN o2u' \subseteq Obj /\ Range(o2u') \subseteq Uid
        <4> DEFINE u == <<m_userID, m_objectCounter>>
        <4>1. /\ synced' = With(synced, u, o) /\ o2u' = With(o2u, o, u) /\ u \in Uid /\ o \in Obj
          BY <2>1, <2>2, <3>2
        <4> HIDE DEF u
        <4> QED
          BY <4>1, WithTypes DEF TInv, MapTypes
      <3> QED
        BY <2>1, <3>1, <3>3 DEF TInv, MapTypes
    <2>3. CASE ~g_isInSession
      BY <2>1, <2>3 DEF TInv, MapTypes, maps
    <2> QED
      BY <2>2, <2>3
  <1>4. CASE DeleteObject
    <2>1. /\ objects' \subseteq objects /\ m_objectCounter' = m_objectCounter
          /\ \/ UNCHANGED <<o2u, synced>>
             \/ \E x, u : o2u' = Without(o2u, x) /\ synced' = Without(synced, u)
      BY <1>4 DEF DeleteObject
    <2> QED
      BY <2>1, WithoutTypes DEF TInv, MapTypes
  <1>5. CASE RemoteObject
    <2>1. PICK u \in Uid, o \in Obj : /\ objects' = objects \cup {o}
                                      /\ synced' = With(synced, u, o) /\ o2u' = With(o2u, o, u)
      BY <1>5 DEF RemoteObject, trackObject
    <2>2. m_objectCounter' = m_objectCounter
      BY <1>5 DEF RemoteObject
    <2> QED
      BY <2>1, <2>2, WithTypes DEF TInv, MapTypes
  <1>6. CASE OpenLevel \/ OnJoin
    BY <1>6 DEF OpenLevel, OnJoin, TInv, MapTypes, maps
  <1>7. CASE FailToHost \/ StopHost \/ OpenJoinPopup \/ CloseJoinPopup \/ FailToJoin \/ LoseHost
             \/ Threads \/ UNCHANGED vars
    <2>1. UNCHANGED <<objects, maps>>
      BY <1>7 DEF FailToHost, StopHost, OpenJoinPopup, CloseJoinPopup, FailToJoin, LoseHost, Threads, vars
    <2> QED
      BY <2>1 DEF TInv, MapTypes, maps
  <1> QED
    BY <1>1, <1>2, <1>3, <1>4, <1>5, <1>6, <1>7 DEF Next

\* Who enters a session gets a user ID, and nothing takes it.
LEMMA OtherTypesKept == ASSUME IInv, TInv, [Next]_vars PROVE OtherTypes' /\ HasId'
  <1>1. CASE StartHost \/ OnJoin
    BY <1>1 DEF StartHost, OnJoin, getPeerID, startBroadcasting, stopListening, TInv, OtherTypes,
                HasId, ThreadState
  <1>2. CASE handleExit \/ StopHost
    <2>1. /\ UNCHANGED m_userID /\ (g_isInSession' => g_isInSession)
      BY <1>2 DEF handleExit, StopHost, flags, network
    <2>2. UNCHANGED <<m_broadcastThread, m_listenThread>>
      BY <1>2 DEF handleExit, StopHost, disconnect, stopHosting, stopBroadcasting, threads
    <2> QED
      BY <2>1, <2>2 DEF TInv, OtherTypes, HasId
  <1>3. CASE Threads
    <2>1. UNCHANGED <<m_userID, g_isInSession>>
      BY <1>3 DEF Threads, flags
    <2>2. m_broadcastThread' \in ThreadState /\ m_listenThread' \in ThreadState
      BY <1>3 DEF Threads, Joined, broadcastLoop, listenLoop, TInv, OtherTypes, ThreadState
    <2> QED
      BY <2>1, <2>2 DEF TInv, OtherTypes, HasId
  <1>4. CASE OpenJoinPopup \/ CloseJoinPopup
    BY <1>4 DEF OpenJoinPopup, CloseJoinPopup, startListening, stopListening, flags, TInv, OtherTypes,
                HasId, ThreadState
  <1>5. CASE \/ OpenLevel \/ FailToHost \/ FailToJoin \/ LoseHost
             \/ PlaceObject \/ DeleteObject \/ RemoteObject \/ UNCHANGED vars
    <2>1. UNCHANGED <<m_userID, threads>> /\ (g_isInSession' => g_isInSession)
      BY <1>5 DEF OpenLevel, FailToHost, FailToJoin, LoseHost, PlaceObject, DeleteObject,
                  RemoteObject, vars, flags
    <2> QED
      BY <2>1 DEF TInv, OtherTypes, HasId, threads
  <1> QED
    BY <1>1, <1>2, <1>3, <1>4, <1>5 DEF Next

\* Every variable keeps its type: a UID of a map has a user ID and a number
\* within its bound, also when the process stopped hosting and goes on
\* placing objects.
THEOREM TypesAlwaysHold == Spec => []TypeOK
  <1>1. Init => TInv
    <2>1. Init => MapTypes
      <3>1. 0 \in 0 .. MaxCount
        BY SessionAssumption
      <3> QED
        BY <3>1, NoMapTypes DEF Init, MapTypes
    <2> QED
      BY <2>1, InitIInv DEF Init, ThreadsInit, ThreadState, TInv, IInv, OtherTypes, HasId
  <1>2. IInv /\ TInv /\ [Next]_vars => TInv'
    BY NextIInv, MapTypesKept, OtherTypesKept DEF TInv, IInv
  <1>3. TInv => TypeOK
    BY DEF TInv, FlagTypes, OtherTypes, MapTypes, TypeOK, ThreadsTypeOK
  <1> QED
    BY <1>1, <1>2, <1>3, InitIInv, NextIInv, PTL DEF Spec
=============================================================================
