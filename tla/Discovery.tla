----------------------------- MODULE Discovery -----------------------------
(***************************************************************************)
(* DiscoveryManager: a thread that announces the session the process hosts *)
(* and a thread that listens for the sessions of others.  The main thread  *)
(* starts them, and joins them when it stops them: it does nothing else    *)
(* until the thread has seen its flag, which it looks at between sleeps.   *)
(*                                                                         *)
(* start and stop are parts of the main thread's actions; SessionLifecycle *)
(* composes them.  The list of sessions found is not kept here.            *)
(***************************************************************************)
VARIABLES
    m_isBroadcasting, m_isListening,    \* the atomic flags
    m_broadcastThread, m_listenThread,  \* "none": not joinable
    waits           \* the thread the main thread joins, or "none"

threads == <<m_isBroadcasting, m_isListening, m_broadcastThread, m_listenThread, waits>>

\* "begin": no socket yet; "check": looks at the flag next.
ThreadState == {"none", "begin", "check", "sleep", "ended"}

ThreadsTypeOK ==
    /\ m_isBroadcasting \in BOOLEAN /\ m_isListening \in BOOLEAN
    /\ m_broadcastThread \in ThreadState /\ m_listenThread \in ThreadState
    /\ waits \in {"none", "broadcaster", "listener"}

ThreadsInit ==
    /\ m_isBroadcasting = FALSE /\ m_isListening = FALSE
    /\ m_broadcastThread = "none" /\ m_listenThread = "none"
    /\ waits = "none"

-----------------------------------------------------------------------------
(* Called by the main thread                                               *)

MainRuns == waits = "none"

startBroadcasting ==
    /\ m_isBroadcasting' = TRUE
    /\ m_broadcastThread' = IF m_isBroadcasting THEN m_broadcastThread ELSE "begin"
    /\ UNCHANGED <<m_isListening, m_listenThread, waits>>

\* Mutant: the thread is joined before it is told.
stopBroadcasting_JoinsFirst ==
    /\ m_isBroadcasting' = (m_isBroadcasting /\ m_broadcastThread # "none")
    /\ waits' = IF m_broadcastThread = "none" THEN waits ELSE "broadcaster"
    /\ UNCHANGED <<m_isListening, m_broadcastThread, m_listenThread>>

stopBroadcasting ==
    /\ m_isBroadcasting' = FALSE
    /\ waits' = IF m_broadcastThread = "none" THEN waits ELSE "broadcaster"
    /\ UNCHANGED <<m_isListening, m_broadcastThread, m_listenThread>>

startListening ==
    /\ m_isListening' = TRUE
    /\ m_listenThread' = IF m_isListening THEN m_listenThread ELSE "begin"
    /\ UNCHANGED <<m_isBroadcasting, m_broadcastThread, waits>>

\* Mutant: the thread is left to end by itself.
stopListening_NoJoin ==
    /\ m_isListening' = FALSE
    /\ UNCHANGED <<m_isBroadcasting, m_broadcastThread, m_listenThread, waits>>

stopListening ==
    /\ m_isListening' = FALSE
    /\ waits' = IF m_listenThread = "none" THEN waits ELSE "listener"
    /\ UNCHANGED <<m_isBroadcasting, m_broadcastThread, m_listenThread>>

\* join returns.
Joined ==
    \/ /\ waits = "broadcaster" /\ m_broadcastThread = "ended"
       /\ waits' = "none" /\ m_broadcastThread' = "none"
       /\ UNCHANGED <<m_isBroadcasting, m_isListening, m_listenThread>>
    \/ /\ waits = "listener" /\ m_listenThread = "ended"
       /\ waits' = "none" /\ m_listenThread' = "none"
       /\ UNCHANGED <<m_isBroadcasting, m_isListening, m_broadcastThread>>

-----------------------------------------------------------------------------
(* The threads                                                             *)

\* One step of a loop whose flag is given.  It ends at once without a socket,
\* and then its flag stays.
Loop(from, flag, to) ==
    \/ from = "begin" /\ to \in {"check", "ended"}
    \/ from = "check" /\ to = IF flag THEN "sleep" ELSE "ended"
    \/ from = "sleep" /\ to = "check"

\* Sends an announcement whenever it finds its flag set.
broadcastLoop ==
    /\ m_broadcastThread' \in ThreadState
    /\ Loop(m_broadcastThread, m_isBroadcasting, m_broadcastThread')
    /\ UNCHANGED <<m_isBroadcasting, m_isListening, m_listenThread, waits>>

\* Port 7778 may be bound already: the thread ends as without a socket.
listenLoop ==
    /\ m_listenThread' \in ThreadState
    /\ Loop(m_listenThread, m_isListening, m_listenThread')
    /\ UNCHANGED <<m_isBroadcasting, m_isListening, m_broadcastThread, waits>>

\* The scheduler runs each thread.
ThreadsRun == WF_threads(broadcastLoop) /\ WF_threads(listenLoop) /\ WF_threads(Joined)
=============================================================================
