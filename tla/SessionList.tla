----------------------------- MODULE SessionList -----------------------------
(***************************************************************************)
(* The sessions a JoinPopup shows: hosts announce themselves in broadcasts *)
(* that may be lost, the listening thread of DiscoveryManager keeps those  *)
(* it has heard of for ten seconds, the popup reads the list once a        *)
(* second.                                                                 *)
(*                                                                         *)
(* Discovery has the thread and how it is started and joined; here its     *)
(* passes do their work.  Time goes in the whole seconds of time(nullptr). *)
(* A pass takes 0.1 s, so in each second there is one that finds nothing   *)
(* more to read.  m_sessionsMutex makes a pass and a read atomic: the list *)
(* a read finds between the two halves of a pass is one that it could have *)
(* found before or after.                                                  *)
(***************************************************************************)
EXTENDS Discovery, Naturals, Sequences, Functions

CONSTANTS
    Hosts,      \* IP addresses of processes that may host
    Period,     \* seconds between two announcements (2)
    TimeToLive, \* seconds a session is kept (10)
    Oversleep   \* bound: seconds that a sleep of Period may take longer

ASSUME ListAssumption ==
    /\ Period \in Nat \ {0} /\ Oversleep \in Nat
    /\ TimeToLive \in Nat /\ TimeToLive >= Period + Oversleep

VARIABLES
    popup,      \* the JoinPopup is open
    refresh,    \* seconds until its onUpdateSessions
    shown,      \* the sessions it shows
    m_availableSessions,    \* IP |-> seconds since lastSeen
    socket,     \* announcements at the listener's socket
    passed,     \* the thread has made a pass in this second
    announcing, \* per host: its broadcastLoop runs
    wake,       \* seconds until it sends again
    quiet,      \* ghost: seconds since it last sent
    missed      \* ghost: announcements since the last that got here

list == <<shown, m_availableSessions>>
hosts == <<announcing, wake, quiet>>
vars == <<threads, popup, refresh, list, socket, passed, hosts, missed>>

Old == TimeToLive + 1       \* that and older is all alike
Silent == TimeToLive + 3

\* Announcements in a row that may be lost before a session is dropped.
Tolerated == (TimeToLive \div (Period + Oversleep)) - 1
Never == Tolerated + 1      \* none since it started, or as good as none

TypeOK ==
    /\ ThreadsTypeOK
    /\ popup \in BOOLEAN /\ refresh \in 0 .. 1 /\ passed \in BOOLEAN
    /\ shown \subseteq Hosts
    /\ DOMAIN m_availableSessions \subseteq Hosts
    /\ Range(m_availableSessions) \subseteq 0 .. Old
    /\ socket \in Seq(Hosts)
    /\ announcing \in [Hosts -> BOOLEAN]
    /\ wake \in [Hosts -> 0 .. Period + Oversleep]
    /\ quiet \in [Hosts -> 0 .. Silent]
    /\ missed \in [Hosts -> 0 .. Never]

Init ==
    /\ ThreadsInit
    /\ popup = FALSE /\ refresh = 0 /\ shown = {} /\ passed = FALSE
    /\ m_availableSessions = [h \in {} |-> 0] /\ socket = <<>>
    /\ announcing = [h \in Hosts |-> FALSE] /\ wake = [h \in Hosts |-> 0]
    /\ quiet = [h \in Hosts |-> Silent] /\ missed = [h \in Hosts |-> Never]

Least(m, n) == IF m <= n THEN m ELSE n

-----------------------------------------------------------------------------
(* The hosts                                                               *)

\* The one before has been joined, that is, has slept its time.
StartAnnouncing(h) ==
    /\ ~announcing[h] /\ quiet[h] >= Period
    /\ announcing' = [announcing EXCEPT ![h] = TRUE]
    /\ wake' = [wake EXCEPT ![h] = 0]
    /\ missed' = [missed EXCEPT ![h] = Never]
    /\ UNCHANGED <<threads, popup, refresh, list, socket, passed, quiet>>

\* It sends nothing more, whether it stops hosting or ends.
StopAnnouncing(h) ==
    /\ announcing[h]
    /\ announcing' = [announcing EXCEPT ![h] = FALSE]
    /\ wake' = [wake EXCEPT ![h] = 0]
    /\ UNCHANGED <<threads, popup, refresh, list, socket, passed, quiet, missed>>

\* The listener's socket is bound.
Bound == m_listenThread \in {"check", "sleep"}

\* One turn of h's broadcastLoop.
Send(h) ==
    /\ announcing[h] /\ wake[h] = 0
    /\ \E sleep \in Period .. Period + Oversleep : wake' = [wake EXCEPT ![h] = sleep]
    /\ quiet' = [quiet EXCEPT ![h] = 0]
    /\ UNCHANGED <<threads, popup, refresh, list, passed, announcing>>

Announce(h) ==
    /\ Bound
    /\ Send(h)
    /\ socket' = Append(socket, h)
    /\ missed' = [missed EXCEPT ![h] = 0]

\* The broadcast is lost, or nobody listens.
AnnounceInVain(h) ==
    /\ Send(h)
    /\ missed' = [missed EXCEPT ![h] = Least(@ + 1, Never)]
    /\ UNCHANGED socket

-----------------------------------------------------------------------------
(* The listener                                                            *)

\* JoinPopup::init; the schedule calls onUpdateSessions every second.
OpenPopup ==
    /\ MainRuns /\ ~popup
    /\ popup' = TRUE /\ refresh' = 1 /\ shown' = {}
    /\ startListening
    /\ UNCHANGED <<m_availableSessions, socket, passed, hosts, missed>>

\* JoinPopup::onClose, also when the user joins.  The list stays.
ClosePopup ==
    /\ MainRuns /\ popup
    /\ popup' = FALSE /\ refresh' = 0 /\ shown' = {}
    /\ stopListening
    /\ UNCHANGED <<m_availableSessions, socket, passed, hosts, missed>>

\* Mutant: the popup is filled once.
onUpdateSessions_Once ==
    /\ MainRuns /\ popup /\ refresh = 0
    /\ shown' = IF shown = {} THEN DOMAIN m_availableSessions ELSE shown
    /\ refresh' = 1
    /\ UNCHANGED <<threads, popup, m_availableSessions, socket, passed, hosts, missed>>

onUpdateSessions ==
    /\ MainRuns /\ popup /\ refresh = 0
    /\ shown' = DOMAIN m_availableSessions
    /\ refresh' = 1
    /\ UNCHANGED <<threads, popup, m_availableSessions, socket, passed, hosts, missed>>

Heard == IF socket = <<>> THEN {} ELSE {Head(socket)}
Updated(h) == IF h \in Heard THEN 0 ELSE m_availableSessions[h]

\* Mutants: sessions are kept; a session goes at ten seconds.
cleanup_Nothing(known) == known
cleanup_Early(known) == {h \in known : Updated(h) < TimeToLive}

cleanup(known) == {h \in known : Updated(h) <= TimeToLive}

\* A pass of listenLoop: at most one announcement is read, then the old
\* sessions go.
pass ==
    /\ LET known == DOMAIN m_availableSessions \cup Heard IN
       m_availableSessions' = [h \in cleanup(known) |-> Updated(h)]
    /\ socket' = IF socket = <<>> THEN <<>> ELSE Tail(socket)
    /\ passed' = TRUE
    /\ UNCHANGED missed

\* What is left at the socket is lost when the thread closes it.
close ==
    /\ socket' = <<>>
    /\ missed' = [h \in Hosts |-> IF h \in Range(socket) THEN Never ELSE missed[h]]
    /\ UNCHANGED <<m_availableSessions, passed>>

Listen ==
    /\ listenLoop
    /\ CASE m_listenThread' = "sleep" -> pass
         [] m_listenThread' = "ended" -> close
         [] OTHER -> UNCHANGED <<m_availableSessions, socket, passed, missed>>
    /\ UNCHANGED <<popup, refresh, shown, hosts>>

Join == Joined /\ UNCHANGED <<popup, refresh, list, socket, passed, hosts, missed>>

\* A second goes by when what is due in it has happened.
Tick ==
    /\ waits = "none" /\ m_listenThread # "begin"
    /\ Bound => m_listenThread = "sleep" /\ passed /\ socket = <<>>
    /\ popup => refresh > 0
    /\ \A h \in Hosts : announcing[h] => wake[h] > 0
    /\ refresh' = 0
    /\ m_availableSessions' = [h \in DOMAIN m_availableSessions |->
                                 Least(m_availableSessions[h] + 1, Old)]
    /\ wake' = [h \in Hosts |-> IF announcing[h] THEN wake[h] - 1 ELSE 0]
    /\ quiet' = [h \in Hosts |-> Least(quiet[h] + 1, Silent)]
    /\ passed' = FALSE
    /\ UNCHANGED <<threads, popup, shown, socket, announcing, missed>>

Next ==
    \/ \E h \in Hosts : \/ StartAnnouncing(h) \/ StopAnnouncing(h)
                        \/ Announce(h) \/ AnnounceInVain(h)
    \/ OpenPopup \/ ClosePopup \/ onUpdateSessions
    \/ Listen \/ Join \/ Tick

Spec == Init /\ [][Next]_vars

\* Threads and the frame's schedule run, time goes on, and a host that goes
\* on announcing is heard now and then.
Fairness ==
    /\ WF_vars(onUpdateSessions) /\ WF_vars(Listen) /\ WF_vars(Join)
    /\ SF_vars(Tick)
    /\ \A h \in Hosts : SF_vars(Announce(h))

FairSpec == Spec /\ Fairness

-----------------------------------------------------------------------------
(* Properties                                                              *)

\* A session that the popup shows was announced within the time it is kept
\* and the two seconds the popup may be behind, also when it was opened
\* again with the list of the time before.
ShownIsLive == Bound => \A h \in shown : quiet[h] <= TimeToLive + 2

\* Every variable keeps its type, and a session that goes on is not dropped
\* for a few lost announcements.
FewLossesKeep ==
    TypeOK /\ \A h \in Hosts :
        Bound /\ announcing[h] /\ missed[h] <= Tolerated /\ h \notin Range(socket) =>
            h \in DOMAIN m_availableSessions

\* A session that goes on comes to be shown.
SessionIsFound ==
    \A h \in Hosts :
        popup /\ Bound /\ announcing[h] ~> h \in shown \/ ~announcing[h] \/ ~popup
=============================================================================
