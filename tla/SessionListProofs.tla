-------------------------- MODULE SessionListProofs --------------------------
(***************************************************************************)
(* Proofs about SessionList, for any number of hosts, any period and       *)
(* oversleep of a broadcastLoop and any time to live: the popup shows no   *)
(* session that has long been silent, and drops none for a few lost        *)
(* announcements.                                                          *)
(*                                                                         *)
(* Neither property is inductive.  What is shown depends on what the list  *)
(* was when the popup last read it, and that on the thread having passed   *)
(* through it in every second that the popup was open; the age of a        *)
(* session in the list bounds the silence of its host from above, and is   *)
(* bounded itself by the announcements missed and the sleep that is left.  *)
(***************************************************************************)
EXTENDS SessionList, TLAPS

\* The popup is open while the thread is to listen; before the thread has a
\* socket it has not read the list.
Listener ==
    /\ waits # "broadcaster"
    /\ popup => m_isListening /\ waits = "none" /\ m_listenThread # "none"
    /\ ~popup => /\ shown = {} /\ ~m_isListening
                 /\ waits = "none" => m_listenThread = "none"
    /\ m_listenThread = "begin" => shown = {} /\ (popup => refresh = 1)
    /\ ~Bound => socket = <<>>

\* Nothing is read later than in the second in which it was sent.
Fresh == \A h \in Range(socket) : quiet[h] = 0

\* Who has not been heard of for some seconds has been silent for no more.
Ages ==
    \A h \in DOMAIN m_availableSessions :
        /\ m_availableSessions[h] <= TimeToLive => quiet[h] <= m_availableSessions[h]
        /\ passed => m_availableSessions[h] <= TimeToLive

\* The popup reads the list, and shows it, one second later at the most.
Reads ==
    Bound => /\ popup /\ refresh = 0 =>
                   \A h \in DOMAIN m_availableSessions : quiet[h] <= TimeToLive + 1
             /\ \A h \in shown : quiet[h] <= TimeToLive + 2 - refresh

\* The time since h was last heard of is that of the sleeps it has begun
\* since, but for what is left of the last.
Kept ==
    \A h \in Hosts : announcing[h] /\ missed[h] <= Tolerated /\ h \notin Range(socket) =>
        /\ h \in DOMAIN m_availableSessions
        /\ m_availableSessions[h] + wake[h] <= (missed[h] + 1) * (Period + Oversleep)

IInv == TypeOK /\ Listener /\ Fresh /\ Ages /\ Reads /\ Kept
-----------------------------------------------------------------------------
(* Numbers and queues                                                      *)

\* The announcements that may be missed take no longer than a session is kept.
LEMMA ToleratedFits ==
    /\ Tolerated \in Nat
    /\ \A m \in Nat : m <= Tolerated => (m + 1) * (Period + Oversleep) <= TimeToLive
<1> DEFINE C == Period + Oversleep
           d == TimeToLive \div C
<1>1. C \in Nat /\ C > 0 /\ TimeToLive \in Nat /\ TimeToLive >= C
  BY ListAssumption
<1> HIDE DEF C
<1>2. d \in Nat /\ d * C <= TimeToLive /\ d >= 1
  BY <1>1, Z3
<1> HIDE DEF d
<1>3. \A m \in Nat : m + 1 <= d => (m + 1) * C <= TimeToLive
  <2> SUFFICES ASSUME NEW m \in Nat, m + 1 <= d PROVE (m + 1) * C <= TimeToLive
    OBVIOUS
  <2>1. (m + 1) * C <= d * C
    BY <1>1, <1>2
  <2>2. (m + 1) * C \in Nat /\ d * C \in Nat
    BY <1>1, <1>2
  <2> QED BY <1>1, <1>2, <2>1, <2>2
<1>4. Tolerated = d - 1
  BY DEF Tolerated, d, C
<1> QED BY <1>2, <1>3, <1>4 DEF C

\* What the type invariant says, part by part.
LEMMA Types ==
    ASSUME TypeOK
    PROVE  /\ \A h \in DOMAIN m_availableSessions : h \in Hosts /\ m_availableSessions[h] \in 0 .. Old
           /\ \A h \in Hosts : /\ wake[h] \in 0 .. Period + Oversleep /\ quiet[h] \in 0 .. Silent
                               /\ missed[h] \in 0 .. Never /\ announcing[h] \in BOOLEAN
           /\ Range(socket) \subseteq Hosts
           /\ TimeToLive \in Nat /\ Old = TimeToLive + 1 /\ Silent = TimeToLive + 3
           /\ Period + Oversleep \in Nat /\ Period \in Nat /\ Period > 0 /\ Never = Tolerated + 1 /\ Tolerated \in Nat
<1>1. Range(socket) \subseteq Hosts
  BY DEF TypeOK, Range
<1>2. \A h \in DOMAIN m_availableSessions : h \in Hosts /\ m_availableSessions[h] \in 0 .. Old
  BY DEF TypeOK, Range
<1> QED BY <1>1, <1>2, ListAssumption, ToleratedFits DEF TypeOK, Old, Silent, Never

\* What is in a queue that gets one more at its end, or loses its first.
LEMMA RangeAppend ==
    ASSUME NEW S, NEW q \in Seq(S), NEW e
    PROVE  Range(Append(q, e)) = Range(q) \cup {e}
<1> DEFINE r == Append(q, e)
<1>1. /\ \A i \in DOMAIN q : i \in DOMAIN r /\ r[i] = q[i]
      /\ Len(q) + 1 \in DOMAIN r /\ r[Len(q) + 1] = e
      /\ \A i \in DOMAIN r : i \in DOMAIN q \/ i = Len(q) + 1
  OBVIOUS
<1> HIDE DEF r
<1>2. Range(r) = Range(q) \cup {e}
  BY <1>1 DEF Range
<1> QED BY <1>2 DEF r

\* Who is in the rest of a queue.
LEMMA RangeTail ==
    ASSUME NEW S, NEW q \in Seq(S), q # <<>>
    PROVE  Range(q) = Range(Tail(q)) \cup {Head(q)}
<1> DEFINE r == Tail(q)
<1>1. /\ \A i \in DOMAIN r : i + 1 \in DOMAIN q /\ q[i + 1] = r[i]
      /\ 1 \in DOMAIN q /\ q[1] = Head(q)
      /\ \A i \in DOMAIN q : i # 1 => i - 1 \in DOMAIN r /\ r[i - 1] = q[i]
  OBVIOUS
<1> HIDE DEF r
<1>2. Range(q) = Range(r) \cup {Head(q)}
  BY <1>1 DEF Range
<1> QED BY <1>2 DEF r

\* Nobody is in an empty queue.
LEMMA RangeEmpty == Range(<<>>) = {}
BY DEF Range

-----------------------------------------------------------------------------
(* The hosts                                                               *)

\* Nothing is announced or heard at first.
LEMMA InitIInv == Init => IInv
<1> SUFFICES ASSUME Init PROVE IInv
  OBVIOUS
<1>1. /\ DOMAIN m_availableSessions = {} /\ Range(m_availableSessions) = {}
      /\ Range(socket) = {} /\ shown = {} /\ socket = <<>>
      /\ waits = "none" /\ ~popup /\ ~m_isListening /\ m_listenThread = "none"
  BY RangeEmpty DEF Init, ThreadsInit, Range
<1>2. \A h \in Hosts : ~announcing[h]
  BY DEF Init
<1>3. TypeOK
  <2>1. /\ announcing \in [Hosts -> BOOLEAN] /\ wake \in [Hosts -> 0 .. Period + Oversleep]
        /\ quiet \in [Hosts -> 0 .. Silent] /\ missed \in [Hosts -> 0 .. Never]
    BY ListAssumption, ToleratedFits DEF Init, Silent, Never
  <2>2. ThreadsTypeOK /\ popup \in BOOLEAN /\ passed \in BOOLEAN
    BY DEF Init, ThreadsInit, ThreadsTypeOK, ThreadState
  <2>3. refresh \in 0 .. 1
    BY DEF Init
  <2> QED BY <1>1, <2>1, <2>2, <2>3 DEF TypeOK
<1>4. Listener /\ Fresh /\ Ages /\ Reads
  BY <1>1 DEF Listener, Fresh, Ages, Reads, Bound
<1>5. Kept
  BY <1>2 DEF Kept
<1> QED BY <1>3, <1>4, <1>5 DEF IInv

\* A host starts.
LEMMA StartAnnouncingKeeps ==
    ASSUME IInv, NEW h \in Hosts, StartAnnouncing(h) PROVE IInv'
<1>1. /\ announcing' = [announcing EXCEPT ![h] = TRUE]
      /\ wake' = [wake EXCEPT ![h] = 0]
      /\ missed' = [missed EXCEPT ![h] = Never]
      /\ UNCHANGED <<threads, popup, refresh, list, socket, passed, quiet>>
  BY DEF StartAnnouncing
<1>2. UNCHANGED <<m_isListening, m_listenThread, waits, m_isBroadcasting, m_broadcastThread,
                  shown, m_availableSessions>>
  BY <1>1 DEF threads, list
<1>3. TypeOK'
  <2>1. announcing' \in [Hosts -> BOOLEAN]
    BY <1>1 DEF IInv, TypeOK
  <2>2. wake' \in [Hosts -> 0 .. Period + Oversleep]
    BY <1>1, Types DEF IInv, TypeOK
  <2>3. missed' \in [Hosts -> 0 .. Never]
    <3>1. Never \in 0 .. Never
      BY Types DEF IInv
    <3> QED BY <1>1, <3>1 DEF IInv, TypeOK
  <2> QED BY <1>1, <1>2, <2>1, <2>2, <2>3 DEF IInv, TypeOK, ThreadsTypeOK
<1>4. Listener' /\ Fresh' /\ Ages' /\ Reads'
  BY <1>1, <1>2 DEF IInv, Listener, Fresh, Ages, Reads, Bound
<1>5. Kept'
  <2>1. missed \in [Hosts -> 0 .. Never]
    BY DEF IInv, TypeOK
  <2> QED BY <1>1, <1>2, <2>1, Types DEF IInv, Kept
<1> QED BY <1>3, <1>4, <1>5 DEF IInv

\* A host stops.
LEMMA StopAnnouncingKeeps ==
    ASSUME IInv, NEW h \in Hosts, StopAnnouncing(h) PROVE IInv'
<1>1. /\ announcing' = [announcing EXCEPT ![h] = FALSE]
      /\ wake' = [wake EXCEPT ![h] = 0]
      /\ UNCHANGED <<threads, popup, refresh, list, socket, passed, quiet, missed>>
  BY DEF StopAnnouncing
<1>2. UNCHANGED <<m_isListening, m_listenThread, waits, m_isBroadcasting, m_broadcastThread,
                  shown, m_availableSessions>>
  BY <1>1 DEF threads, list
<1>3. TypeOK'
  <2>1. announcing' \in [Hosts -> BOOLEAN]
    BY <1>1 DEF IInv, TypeOK
  <2>2. wake' \in [Hosts -> 0 .. Period + Oversleep]
    BY <1>1, Types DEF IInv, TypeOK
  <2>3. missed' \in [Hosts -> 0 .. Never]
    BY <1>1 DEF IInv, TypeOK
  <2> QED BY <1>1, <1>2, <2>1, <2>2, <2>3 DEF IInv, TypeOK, ThreadsTypeOK
<1>4. Listener' /\ Fresh' /\ Ages' /\ Reads'
  BY <1>1, <1>2 DEF IInv, Listener, Fresh, Ages, Reads, Bound
<1>5. Kept'
  BY <1>1, <1>2, Types DEF IInv, TypeOK, Kept
<1> QED BY <1>3, <1>4, <1>5 DEF IInv

\* What is common to an announcement that is heard and one that is not.
LEMMA SendKeeps ==
    ASSUME IInv, NEW h \in Hosts, Send(h)
    PROVE  /\ wake' \in [Hosts -> 0 .. Period + Oversleep] /\ quiet' \in [Hosts -> 0 .. Silent]
           /\ wake[h] = 0 /\ wake'[h] <= Period + Oversleep /\ quiet'[h] = 0
           /\ \A k \in Hosts : k # h => wake'[k] = wake[k] /\ quiet'[k] = quiet[k]
           /\ UNCHANGED <<m_isListening, m_listenThread, waits, m_isBroadcasting, m_broadcastThread,
                          popup, refresh, shown, m_availableSessions, passed, announcing>>
           /\ Ages' /\ Reads'
<1>1. PICK sleep \in Period .. Period + Oversleep : wake' = [wake EXCEPT ![h] = sleep]
  BY DEF Send
<1>2. quiet' = [quiet EXCEPT ![h] = 0] /\ wake[h] = 0
  BY DEF Send
<1>3. UNCHANGED <<m_isListening, m_listenThread, waits, m_isBroadcasting, m_broadcastThread,
                  popup, refresh, shown, m_availableSessions, passed, announcing>>
  BY DEF Send, threads, list
<1>4. sleep \in 0 .. Period + Oversleep
  BY Types DEF IInv
<1>5. /\ wake' \in [Hosts -> 0 .. Period + Oversleep] /\ quiet' \in [Hosts -> 0 .. Silent]
      /\ wake'[h] <= Period + Oversleep /\ quiet'[h] = 0
      /\ \A k \in Hosts : k # h => wake'[k] = wake[k] /\ quiet'[k] = quiet[k]
  <2>1. wake \in [Hosts -> 0 .. Period + Oversleep] /\ quiet \in [Hosts -> 0 .. Silent]
    BY DEF IInv, TypeOK
  <2>2. 0 \in 0 .. Silent /\ Period + Oversleep \in Nat
    BY Types DEF IInv
  <2>3. sleep <= Period + Oversleep
    BY <1>4, <2>2
  <2> QED BY <1>1, <1>2, <1>4, <2>1, <2>2, <2>3
<1>6. \A k \in Hosts : quiet'[k] <= quiet[k]
  BY <1>5, Types DEF IInv
<1>7. Ages'
  <2> SUFFICES ASSUME NEW k \in DOMAIN m_availableSessions
               PROVE  /\ m_availableSessions[k] <= TimeToLive => quiet'[k] <= m_availableSessions[k]
                      /\ passed => m_availableSessions[k] <= TimeToLive
    BY <1>3 DEF Ages
  <2>1. k \in Hosts /\ m_availableSessions[k] \in Nat /\ quiet[k] \in Nat /\ quiet'[k] \in Nat
    BY <1>5, Types DEF IInv
  <2> QED BY <1>6, <2>1, Types DEF IInv, Ages
<1>8. Reads'
  <2>1. \A k \in Hosts : \A n \in Nat : quiet[k] <= n => quiet'[k] <= n
    BY <1>5, <1>6, Types DEF IInv
  <2>2. refresh \in 0 .. 1 /\ shown \subseteq Hosts /\ TimeToLive \in Nat
    BY Types DEF IInv, TypeOK
  <2>3. TimeToLive + 1 \in Nat /\ TimeToLive + 2 - refresh \in Nat
    BY <2>2
  <2> QED BY <1>3, <2>1, <2>2, <2>3, Types DEF IInv, Reads, Bound
<1> QED BY <1>2, <1>3, <1>5, <1>7, <1>8

\* An announcement arrives or is lost.
LEMMA AnnounceKeeps ==
    ASSUME IInv, NEW h \in Hosts, Announce(h) PROVE IInv'
<1>1. Bound /\ Send(h) /\ socket' = Append(socket, h) /\ missed' = [missed EXCEPT ![h] = 0]
  BY DEF Announce
<1>2. /\ wake' \in [Hosts -> 0 .. Period + Oversleep] /\ quiet' \in [Hosts -> 0 .. Silent]
      /\ quiet'[h] = 0
      /\ \A k \in Hosts : k # h => wake'[k] = wake[k] /\ quiet'[k] = quiet[k]
      /\ UNCHANGED <<m_isListening, m_listenThread, waits, m_isBroadcasting, m_broadcastThread,
                     popup, refresh, shown, m_availableSessions, passed, announcing>>
      /\ Ages' /\ Reads'
  BY <1>1, SendKeeps
<1>3. /\ socket \in Seq(Hosts) /\ socket' \in Seq(Hosts)
      /\ Range(socket') = Range(socket) \cup {h} /\ Range(socket) \subseteq Hosts
  BY <1>1, RangeAppend, Types DEF IInv, TypeOK
<1>4. TypeOK'
  <2>1. missed' \in [Hosts -> 0 .. Never]
    <3>1. missed \in [Hosts -> 0 .. Never] /\ 0 \in 0 .. Never
      BY Types DEF IInv, TypeOK
    <3> QED BY <1>1, <3>1
  <2> QED BY <1>2, <1>3, <2>1 DEF IInv, TypeOK, ThreadsTypeOK
<1>5. Listener'
  BY <1>1, <1>2 DEF IInv, Listener, Bound
<1>6. Fresh'
  BY <1>2, <1>3 DEF IInv, Fresh
<1>7. Kept'
  BY <1>1, <1>2, <1>3, Types DEF IInv, TypeOK, Kept
<1> QED BY <1>2, <1>4, <1>5, <1>6, <1>7 DEF IInv

\* One more that is missed is one more sleep begun.
LEMMA AnnounceInVainKeeps ==
    ASSUME IInv, NEW h \in Hosts, AnnounceInVain(h) PROVE IInv'
<1>1. Send(h) /\ missed' = [missed EXCEPT ![h] = Least(@ + 1, Never)] /\ socket' = socket
  BY DEF AnnounceInVain
<1>2. /\ wake' \in [Hosts -> 0 .. Period + Oversleep] /\ quiet' \in [Hosts -> 0 .. Silent]
      /\ wake[h] = 0 /\ wake'[h] <= Period + Oversleep /\ quiet'[h] = 0
      /\ \A k \in Hosts : k # h => wake'[k] = wake[k] /\ quiet'[k] = quiet[k]
      /\ UNCHANGED <<m_isListening, m_listenThread, waits, m_isBroadcasting, m_broadcastThread,
                     popup, refresh, shown, m_availableSessions, passed, announcing>>
      /\ Ages' /\ Reads'
  BY <1>1, SendKeeps
<1>3. /\ missed' \in [Hosts -> 0 .. Never]
      /\ \A k \in Hosts : k # h => missed'[k] = missed[k]
      /\ missed'[h] <= Tolerated => missed'[h] = missed[h] + 1
  <2>1. missed \in [Hosts -> 0 .. Never] /\ missed[h] \in 0 .. Never /\ Never = Tolerated + 1
        /\ Tolerated \in Nat
    BY Types DEF IInv, TypeOK
  <2>2. /\ Least(missed[h] + 1, Never) \in 0 .. Never
        /\ Least(missed[h] + 1, Never) <= Tolerated => Least(missed[h] + 1, Never) = missed[h] + 1
    BY <2>1 DEF Least
  <2> QED BY <1>1, <2>1, <2>2
<1>4. TypeOK'
  BY <1>1, <1>2, <1>3 DEF IInv, TypeOK, ThreadsTypeOK
<1>5. Listener' 
  BY <1>1, <1>2 DEF IInv, Listener, Bound
<1>6. Fresh'
  BY <1>1, <1>2, Types DEF IInv, Fresh
<1>7. Kept'
  <2> SUFFICES ASSUME NEW k \in Hosts, announcing[k], missed'[k] <= Tolerated, k \notin Range(socket)
               PROVE  /\ k \in DOMAIN m_availableSessions
                      /\ m_availableSessions[k] + wake'[k] <= (missed'[k] + 1) * (Period + Oversleep)
    BY <1>1, <1>2 DEF Kept
  <2>1. CASE k # h
    BY <1>2, <1>3, <2>1 DEF IInv, Kept
  <2>2. CASE k = h
    <3>1. missed'[h] = missed[h] + 1 /\ missed[h] \in Nat /\ missed[h] <= Tolerated
      BY <1>3, <2>2, Types DEF IInv
    <3>2. /\ h \in DOMAIN m_availableSessions
          /\ m_availableSessions[h] <= (missed[h] + 1) * (Period + Oversleep)
      BY <1>2, <2>2, <3>1, Types DEF IInv, Kept
    <3>3. m_availableSessions[h] \in Nat /\ wake'[h] \in Nat /\ Period + Oversleep \in Nat
      BY <1>2, <3>2, Types DEF IInv
    <3>4. (missed[h] + 1 + 1) * (Period + Oversleep)
            = (missed[h] + 1) * (Period + Oversleep) + (Period + Oversleep)
      BY <3>1, <3>3
    <3> QED BY <1>2, <2>2, <3>1, <3>2, <3>3, <3>4
  <2> QED BY <2>1, <2>2
<1> QED BY <1>2, <1>4, <1>5, <1>6, <1>7 DEF IInv
-----------------------------------------------------------------------------
(* The popup                                                               *)

\* The popup opens with the list of the time before.
LEMMA OpenPopupKeeps == ASSUME IInv, OpenPopup PROVE IInv'
<1>1. /\ waits = "none" /\ ~popup /\ popup' = TRUE /\ refresh' = 1 /\ shown' = {}
      /\ m_isListening' = TRUE
      /\ m_listenThread' = IF m_isListening THEN m_listenThread ELSE "begin"
      /\ UNCHANGED <<m_isBroadcasting, m_broadcastThread, waits, m_availableSessions, socket, passed,
                     announcing, wake, quiet, missed>>
  BY DEF OpenPopup, MainRuns, startListening, hosts
<1>2. ~m_isListening /\ m_listenThread = "none" /\ socket = <<>>
  BY <1>1 DEF IInv, Listener, Bound
<1>3. m_listenThread' = "begin"
  BY <1>1, <1>2
<1>4. TypeOK'
  <2>1. ThreadsTypeOK'
    BY <1>1, <1>3 DEF IInv, TypeOK, ThreadsTypeOK, ThreadState
  <2>2. refresh' \in 0 .. 1
    BY <1>1
  <2> QED BY <1>1, <2>1, <2>2 DEF IInv, TypeOK
<1>5. Listener'
  BY <1>1, <1>2, <1>3 DEF Listener
<1>6. Fresh' /\ Ages' /\ Reads' /\ Kept'
  BY <1>1, <1>3 DEF IInv, Fresh, Ages, Reads, Kept, Bound
<1> QED BY <1>4, <1>5, <1>6 DEF IInv

\* The popup closes.
LEMMA ClosePopupKeeps == ASSUME IInv, ClosePopup PROVE IInv'
<1>1. /\ waits = "none" /\ popup /\ popup' = FALSE /\ refresh' = 0 /\ shown' = {}
      /\ m_isListening' = FALSE
      /\ waits' = IF m_listenThread = "none" THEN waits ELSE "listener"
      /\ UNCHANGED <<m_isBroadcasting, m_broadcastThread, m_listenThread, m_availableSessions, socket,
                     passed, announcing, wake, quiet, missed>>
  BY DEF ClosePopup, MainRuns, stopListening, hosts
<1>2. TypeOK'
  <2>1. ThreadsTypeOK'
    BY <1>1 DEF IInv, TypeOK, ThreadsTypeOK
  <2>2. refresh' \in 0 .. 1
    BY <1>1
  <2> QED BY <1>1, <2>1, <2>2 DEF IInv, TypeOK
<1>3. Listener'
  BY <1>1 DEF IInv, Listener, Bound
<1>4. Fresh' /\ Ages' /\ Reads' /\ Kept'
  BY <1>1 DEF IInv, Fresh, Ages, Reads, Kept, Bound
<1> QED BY <1>2, <1>3, <1>4 DEF IInv

\* What is read now is no more than a second behind.
LEMMA OnUpdateSessionsKeeps == ASSUME IInv, onUpdateSessions PROVE IInv'
<1>1. /\ waits = "none" /\ popup /\ refresh = 0
      /\ shown' = DOMAIN m_availableSessions /\ refresh' = 1
      /\ UNCHANGED <<m_isBroadcasting, m_isListening, m_broadcastThread, m_listenThread, waits, popup,
                     m_availableSessions, socket, passed, announcing, wake, quiet, missed>>
  BY DEF onUpdateSessions, MainRuns, threads, hosts
<1>2. TypeOK'
  <2>1. shown' \subseteq Hosts
    BY <1>1 DEF IInv, TypeOK
  <2>2. refresh' \in 0 .. 1
    BY <1>1
  <2> QED BY <1>1, <2>1, <2>2 DEF IInv, TypeOK, ThreadsTypeOK
<1>3. m_listenThread # "begin"
  BY <1>1 DEF IInv, Listener
<1>4. Listener'
  BY <1>1, <1>3 DEF IInv, Listener, Bound
<1>5. Reads'
  <2>1. Bound => \A h \in DOMAIN m_availableSessions : quiet[h] <= TimeToLive + 1
    BY <1>1 DEF IInv, Reads
  <2>2. TimeToLive + 1 = TimeToLive + 2 - refresh'
    BY <1>1, Types DEF IInv
  <2> QED BY <1>1, <2>1, <2>2 DEF Reads, Bound
<1>6. Fresh' /\ Ages' /\ Kept'
  BY <1>1 DEF IInv, Fresh, Ages, Kept
<1> QED BY <1>2, <1>4, <1>5, <1>6 DEF IInv

-----------------------------------------------------------------------------
(* The listener                                                            *)

\* The sessions after a pass: who is in the list is as old as Updated says,
\* and no older than the time to live; who was young enough has stayed.
LEMMA PassList ==
    ASSUME IInv, pass
    PROVE  /\ \A h \in DOMAIN m_availableSessions' :
                 /\ h \in DOMAIN m_availableSessions \/ h \in Heard
                 /\ h \in Heard => m_availableSessions'[h] = 0
                 /\ h \notin Heard => m_availableSessions'[h] = m_availableSessions[h]
                 /\ m_availableSessions'[h] <= TimeToLive
           /\ Heard \subseteq DOMAIN m_availableSessions'
           /\ \A h \in DOMAIN m_availableSessions :
                 m_availableSessions[h] <= TimeToLive => h \in DOMAIN m_availableSessions'
<1> DEFINE known == DOMAIN m_availableSessions \cup Heard
<1>1. m_availableSessions' = [h \in cleanup(known) |-> Updated(h)]
  BY DEF pass
<1>2. cleanup(known) = {h \in known : Updated(h) <= TimeToLive}
  BY DEF cleanup
<1>3. TimeToLive \in Nat
  BY Types DEF IInv
<1>4. \A h \in Heard : Updated(h) = 0
  BY DEF Updated
<1>5. \A h : h \notin Heard => Updated(h) = m_availableSessions[h]
  BY DEF Updated
<1>6. Heard \subseteq cleanup(known)
  BY <1>2, <1>3, <1>4
<1>7. \A h \in DOMAIN m_availableSessions : m_availableSessions[h] <= TimeToLive => h \in cleanup(known)
  BY <1>2, <1>5, <1>6
<1> QED BY <1>1, <1>2, <1>4, <1>5, <1>6, <1>7

\* What is heard, and what is still to be.
LEMMA PassSocket ==
    ASSUME IInv, pass
    PROVE  /\ socket' \in Seq(Hosts) /\ Range(socket) = Range(socket') \cup Heard
           /\ Heard \subseteq Range(socket) /\ Range(socket) \subseteq Hosts
           /\ socket = <<>> => socket' = <<>>
<1>1. socket \in Seq(Hosts) /\ Range(socket) \subseteq Hosts
  BY Types DEF IInv, TypeOK
<1>2. CASE socket = <<>>
  BY <1>1, <1>2, RangeEmpty DEF pass, Heard
<1>3. CASE socket # <<>>
  <2>1. socket' = Tail(socket) /\ Heard = {Head(socket)}
    BY <1>3 DEF pass, Heard
  <2>2. Range(socket) = Range(Tail(socket)) \cup {Head(socket)} /\ Tail(socket) \in Seq(Hosts)
    BY <1>1, <1>3, RangeTail
  <2> QED BY <1>1, <1>3, <2>1, <2>2
<1> QED BY <1>2, <1>3

\* A second passes.
LEMMA PassKeeps ==
    ASSUME IInv, Listen, pass, m_listenThread = "check", m_listenThread' = "sleep" PROVE IInv'
<1>1. /\ passed' = TRUE /\ missed' = missed
      /\ UNCHANGED <<m_isBroadcasting, m_isListening, m_broadcastThread, waits,
                     popup, refresh, shown, announcing, wake, quiet>>
  BY DEF pass, Listen, listenLoop, hosts
<1>2. \A h \in DOMAIN m_availableSessions' :
         /\ h \in DOMAIN m_availableSessions \/ h \in Heard
         /\ h \in Heard => m_availableSessions'[h] = 0
         /\ h \notin Heard => m_availableSessions'[h] = m_availableSessions[h]
         /\ m_availableSessions'[h] <= TimeToLive
  BY PassList
<1>3. /\ Heard \subseteq DOMAIN m_availableSessions'
      /\ \A h \in DOMAIN m_availableSessions :
            m_availableSessions[h] <= TimeToLive => h \in DOMAIN m_availableSessions'
  BY PassList
<1>4. /\ socket' \in Seq(Hosts) /\ Range(socket) = Range(socket') \cup Heard
      /\ Heard \subseteq Range(socket) /\ Range(socket) \subseteq Hosts
  BY PassSocket
<1>5. \A h \in Heard : h \in Hosts /\ quiet[h] = 0
  BY <1>4 DEF IInv, Fresh
<1>6. TypeOK'
  <2>1. DOMAIN m_availableSessions' \subseteq Hosts
    BY <1>2, <1>5, Types DEF IInv
  <2>2. \A h \in DOMAIN m_availableSessions' : m_availableSessions'[h] \in 0 .. Old
    BY <1>2, Types DEF IInv
  <2>3. Range(m_availableSessions') \subseteq 0 .. Old
    BY <2>2 DEF Range
  <2>4. ThreadsTypeOK'
    BY <1>1 DEF IInv, TypeOK, ThreadsTypeOK, ThreadState
  <2> QED BY <1>1, <1>4, <2>1, <2>3, <2>4 DEF IInv, TypeOK
<1>7. Listener'
  BY <1>1 DEF IInv, Listener, Bound
<1>8. Fresh'
  BY <1>1, <1>4 DEF IInv, Fresh
<1>9. Ages'
  BY <1>1, <1>2, <1>5, Types DEF IInv, Ages
<1>10. Reads'
  <2>1. /\ popup /\ refresh = 0 =>
             \A h \in DOMAIN m_availableSessions : quiet[h] <= TimeToLive + 1
        /\ \A h \in shown : quiet[h] <= TimeToLive + 2 - refresh
    BY DEF IInv, Reads, Bound
  <2>2. 0 <= TimeToLive + 1
    BY Types DEF IInv
  <2> QED BY <1>1, <1>2, <1>5, <2>1, <2>2 DEF Reads
<1>11. Kept'
  <2> SUFFICES ASSUME NEW h \in Hosts, announcing[h], missed[h] <= Tolerated, h \notin Range(socket')
               PROVE  /\ h \in DOMAIN m_availableSessions'
                      /\ m_availableSessions'[h] + wake[h] <= (missed[h] + 1) * (Period + Oversleep)
    BY <1>1 DEF Kept
  <2>1. /\ missed[h] \in Nat /\ wake[h] \in Nat /\ wake[h] <= Period + Oversleep
        /\ Period + Oversleep \in Nat /\ TimeToLive \in Nat
    BY Types DEF IInv
  <2>2. CASE h \in Heard
    <3>1. h \in DOMAIN m_availableSessions' /\ m_availableSessions'[h] = 0
      BY <1>2, <1>3, <2>2
    <3>2. Period + Oversleep <= (missed[h] + 1) * (Period + Oversleep)
      BY <2>1
    <3>3. (missed[h] + 1) * (Period + Oversleep) \in Nat
      BY <2>1
    <3> QED BY <2>1, <3>1, <3>2, <3>3
  <2>3. CASE h \notin Heard
    <3>1. h \notin Range(socket)
      BY <1>4, <2>3
    <3>2. /\ h \in DOMAIN m_availableSessions
          /\ m_availableSessions[h] + wake[h] <= (missed[h] + 1) * (Period + Oversleep)
      BY <3>1 DEF IInv, Kept
    <3>3. /\ (missed[h] + 1) * (Period + Oversleep) <= TimeToLive
          /\ (missed[h] + 1) * (Period + Oversleep) \in Nat
      BY <2>1, ToleratedFits
    <3>4. m_availableSessions[h] \in Nat
      BY <3>2, Types DEF IInv
    <3>5. m_availableSessions[h] <= TimeToLive
      BY <2>1, <3>2, <3>3, <3>4
    <3>6. h \in DOMAIN m_availableSessions' /\ m_availableSessions'[h] = m_availableSessions[h]
      BY <1>2, <1>3, <2>3, <3>2, <3>5
    <3> QED BY <3>2, <3>6
  <2> QED BY <2>2, <2>3
<1> QED BY <1>6, <1>7, <1>8, <1>9, <1>10, <1>11 DEF IInv

\* What the thread closes with its socket counts as missed.
LEMMA CloseKeeps ==
    ASSUME IInv, Listen, close, m_listenThread' = "ended" PROVE IInv'
<1>1. /\ socket' = <<>>
      /\ missed' = [h \in Hosts |-> IF h \in Range(socket) THEN Never ELSE missed[h]]
      /\ UNCHANGED <<m_isBroadcasting, m_isListening, m_broadcastThread, waits, popup, refresh, shown,
                     m_availableSessions, passed, announcing, wake, quiet>>
  BY DEF close, Listen, listenLoop, hosts
<1>2. m_listenThread # "none"
  BY DEF Listen, listenLoop, Loop
<1>3. TypeOK'
  <2>1. missed' \in [Hosts -> 0 .. Never]
    BY <1>1, Types DEF IInv, TypeOK
  <2>2. ThreadsTypeOK'
    BY <1>1 DEF IInv, TypeOK, ThreadsTypeOK, ThreadState
  <2>3. socket' \in Seq(Hosts)
    BY <1>1
  <2> QED BY <1>1, <2>1, <2>2, <2>3 DEF IInv, TypeOK
<1>4. Listener'
  BY <1>1, <1>2 DEF IInv, Listener
<1>5. Fresh' /\ Ages' /\ Reads'
  BY <1>1, RangeEmpty DEF IInv, Fresh, Ages, Reads, Bound
<1>6. Kept'
  <2> SUFFICES ASSUME NEW h \in Hosts, announcing[h], missed'[h] <= Tolerated
               PROVE  /\ h \in DOMAIN m_availableSessions
                      /\ m_availableSessions[h] + wake[h] <= (missed'[h] + 1) * (Period + Oversleep)
    BY <1>1 DEF Kept
  <2>1. h \notin Range(socket) /\ missed'[h] = missed[h]
    BY <1>1, Types DEF IInv
  <2> QED BY <2>1 DEF IInv, Kept
<1> QED BY <1>3, <1>4, <1>5, <1>6 DEF IInv

\* The thread hears an announcement.
LEMMA ListenKeeps == ASSUME IInv, Listen PROVE IInv'
<1>1. CASE m_listenThread' = "sleep"
  <2>1. pass /\ m_listenThread = "check"
    BY <1>1 DEF Listen, listenLoop, Loop
  <2> QED BY <1>1, <2>1, PassKeeps
<1>2. CASE m_listenThread' = "ended"
  BY <1>2, CloseKeeps DEF Listen
<1>3. CASE m_listenThread' \notin {"sleep", "ended"}
  <2>1. /\ m_listenThread \in {"begin", "sleep"} /\ m_listenThread' = "check"
        /\ UNCHANGED <<m_isBroadcasting, m_isListening, m_broadcastThread, waits, popup, refresh, shown,
                       m_availableSessions, socket, passed, missed, announcing, wake, quiet>>
    BY <1>3 DEF Listen, listenLoop, Loop, hosts, ThreadState
  <2>2. TypeOK'
    BY <2>1 DEF IInv, TypeOK, ThreadsTypeOK, ThreadState
  <2>3. Listener'
    BY <2>1 DEF IInv, Listener, Bound
  <2>4. Reads'
    BY <2>1 DEF IInv, Listener, Reads, Bound
  <2>5. Fresh' /\ Ages' /\ Kept'
    BY <2>1 DEF IInv, Fresh, Ages, Kept
  <2> QED BY <2>2, <2>3, <2>4, <2>5 DEF IInv
<1> QED BY <1>1, <1>2, <1>3

\* The thread has ended.
LEMMA JoinKeeps == ASSUME IInv, Join PROVE IInv'
<1>1. /\ waits = "listener" /\ m_listenThread = "ended" /\ waits' = "none" /\ m_listenThread' = "none"
      /\ UNCHANGED <<m_isBroadcasting, m_isListening, m_broadcastThread, popup, refresh, shown,
                     m_availableSessions, socket, passed, missed, announcing, wake, quiet>>
  BY DEF Join, Joined, IInv, Listener, list, hosts
<1>2. ~popup
  BY <1>1 DEF IInv, Listener
<1>3. TypeOK'
  BY <1>1 DEF IInv, TypeOK, ThreadsTypeOK, ThreadState
<1>4. Listener'
  BY <1>1, <1>2 DEF IInv, Listener, Bound
<1>5. Fresh' /\ Ages' /\ Reads' /\ Kept'
  BY <1>1 DEF IInv, Fresh, Ages, Reads, Kept, Bound
<1> QED BY <1>3, <1>4, <1>5 DEF IInv

-----------------------------------------------------------------------------
(* Time                                                                    *)

\* The list has been read through in the second that ends, so that nothing
\* in it has been silent for more than the time to live.
LEMMA TickKeeps == ASSUME IInv, Tick PROVE IInv'
<1>1. /\ refresh' = 0 /\ passed' = FALSE
      /\ popup => refresh > 0
      /\ m_listenThread # "begin"
      /\ Bound => passed
      /\ \A h \in Hosts : announcing[h] => wake[h] > 0
      /\ m_availableSessions' = [h \in DOMAIN m_availableSessions |->
                                   Least(m_availableSessions[h] + 1, Old)]
      /\ wake' = [h \in Hosts |-> IF announcing[h] THEN wake[h] - 1 ELSE 0]
      /\ quiet' = [h \in Hosts |-> Least(quiet[h] + 1, Silent)]
      /\ UNCHANGED <<m_isBroadcasting, m_isListening, m_broadcastThread, m_listenThread, waits,
                     popup, shown, socket, announcing, missed>>
  BY DEF Tick, threads
<1>2. socket = <<>>
  BY DEF Tick, IInv, Listener
<1>3. /\ DOMAIN m_availableSessions' = DOMAIN m_availableSessions
      /\ \A h \in DOMAIN m_availableSessions :
            /\ h \in Hosts /\ m_availableSessions[h] \in Nat /\ m_availableSessions'[h] \in 0 .. Old
            /\ m_availableSessions'[h] <= m_availableSessions[h] + 1
            /\ m_availableSessions'[h] <= TimeToLive => m_availableSessions'[h] = m_availableSessions[h] + 1
  <2>1. DOMAIN m_availableSessions' = DOMAIN m_availableSessions
    BY <1>1
  <2> SUFFICES ASSUME NEW h \in DOMAIN m_availableSessions
               PROVE  /\ h \in Hosts /\ m_availableSessions[h] \in Nat /\ m_availableSessions'[h] \in 0 .. Old
                      /\ m_availableSessions'[h] <= m_availableSessions[h] + 1
                      /\ m_availableSessions'[h] <= TimeToLive =>
                            m_availableSessions'[h] = m_availableSessions[h] + 1
    BY <2>1
  <2>2. m_availableSessions'[h] = Least(m_availableSessions[h] + 1, Old)
    BY <1>1
  <2> QED BY <2>2, Types DEF IInv, Least
<1>4. \A h \in Hosts : /\ quiet[h] \in Nat /\ quiet'[h] \in 0 .. Silent
                       /\ quiet'[h] <= quiet[h] + 1
  <2> SUFFICES ASSUME NEW h \in Hosts
               PROVE  quiet[h] \in Nat /\ quiet'[h] \in 0 .. Silent /\ quiet'[h] <= quiet[h] + 1
    OBVIOUS
  <2>1. quiet'[h] = Least(quiet[h] + 1, Silent)
    BY <1>1
  <2> QED BY <2>1, Types DEF IInv, Least
<1>5. \A h \in Hosts : /\ wake'[h] \in 0 .. Period + Oversleep /\ wake[h] \in Nat
                       /\ announcing[h] => wake'[h] = wake[h] - 1
  BY <1>1, Types DEF IInv
<1>6. TypeOK'
  <2>1. Range(m_availableSessions') \subseteq 0 .. Old /\ DOMAIN m_availableSessions' \subseteq Hosts
    BY <1>3 DEF Range
  <2>2. wake' \in [Hosts -> 0 .. Period + Oversleep] /\ quiet' \in [Hosts -> 0 .. Silent]
    BY <1>1, <1>4, <1>5
  <2>3. refresh' \in 0 .. 1
    BY <1>1
  <2>4. passed' \in BOOLEAN
    BY <1>1
  <2> QED BY <1>1, <2>1, <2>2, <2>3, <2>4 DEF IInv, TypeOK, ThreadsTypeOK
<1>7. Listener'
  BY <1>1 DEF IInv, Listener, Bound
<1>8. Fresh'
  BY <1>1, <1>2, RangeEmpty DEF Fresh
<1>9. Ages'
  <2> SUFFICES ASSUME NEW h \in DOMAIN m_availableSessions, m_availableSessions'[h] <= TimeToLive
               PROVE  quiet'[h] <= m_availableSessions'[h]
    BY <1>1, <1>3 DEF Ages
  <2>1. m_availableSessions[h] <= TimeToLive
    BY <1>3, Types DEF IInv
  <2> QED BY <1>3, <1>4, <2>1 DEF IInv, Ages
<1>10. Reads'
  <2>1. TimeToLive \in Nat
    BY Types DEF IInv
  <2>2. ASSUME Bound, NEW h \in DOMAIN m_availableSessions PROVE quiet'[h] <= TimeToLive + 1
    <3>1. quiet[h] <= m_availableSessions[h] /\ m_availableSessions[h] <= TimeToLive
      BY <1>1, <2>2 DEF IInv, Ages
    <3> QED BY <1>3, <1>4, <2>1, <3>1
  <2>3. ASSUME Bound, NEW h \in shown PROVE quiet'[h] <= TimeToLive + 2 - 0
    <3>1. popup /\ h \in Hosts
      BY DEF IInv, Listener, TypeOK
    <3>2. refresh = 1
      BY <1>1, <3>1 DEF IInv, TypeOK
    <3>3. quiet[h] <= TimeToLive + 2 - 1
      BY <2>3, <3>2 DEF IInv, Reads
    <3> QED BY <1>4, <2>1, <3>1, <3>3
  <2> QED BY <1>1, <1>3, <2>2, <2>3 DEF Reads, Bound
<1>11. Kept'
  <2> SUFFICES ASSUME NEW h \in Hosts, announcing[h], missed[h] <= Tolerated
               PROVE  /\ h \in DOMAIN m_availableSessions
                      /\ m_availableSessions'[h] + wake'[h] <= (missed[h] + 1) * (Period + Oversleep)
    BY <1>1, <1>3 DEF Kept
  <2>1. /\ h \in DOMAIN m_availableSessions
        /\ m_availableSessions[h] + wake[h] <= (missed[h] + 1) * (Period + Oversleep)
    BY <1>2, RangeEmpty DEF IInv, Kept
  <2>2. (missed[h] + 1) * (Period + Oversleep) \in Nat
    BY Types DEF IInv
  <2>3. m_availableSessions'[h] + wake'[h] <= m_availableSessions[h] + wake[h]
    BY <1>3, <1>5, <2>1
  <2>4. m_availableSessions'[h] \in Nat /\ wake'[h] \in Nat /\ m_availableSessions[h] \in Nat
        /\ wake[h] \in Nat
    BY <1>3, <1>5, <2>1
  <2> QED BY <2>1, <2>2, <2>3, <2>4
<1> QED BY <1>6, <1>7, <1>8, <1>9, <1>10, <1>11 DEF IInv

-----------------------------------------------------------------------------
(* The theorems                                                            *)

\* Every step keeps the invariant.
LEMMA NextIInv == IInv /\ [Next]_vars => IInv'
<1> SUFFICES ASSUME IInv, [Next]_vars PROVE IInv'
  OBVIOUS
<1>1. ASSUME NEW h \in Hosts,
             StartAnnouncing(h) \/ StopAnnouncing(h) \/ Announce(h) \/ AnnounceInVain(h)
      PROVE  IInv'
  BY <1>1, StartAnnouncingKeeps, StopAnnouncingKeeps, AnnounceKeeps, AnnounceInVainKeeps
<1>2. CASE OpenPopup \/ ClosePopup \/ onUpdateSessions
  BY <1>2, OpenPopupKeeps, ClosePopupKeeps, OnUpdateSessionsKeeps
<1>3. CASE Listen \/ Join \/ Tick
  BY <1>3, ListenKeeps, JoinKeeps, TickKeeps
<1>4. CASE UNCHANGED vars
  <2>1. UNCHANGED <<m_isBroadcasting, m_isListening, m_broadcastThread, m_listenThread, waits, popup,
                    refresh, shown, m_availableSessions, socket, passed, announcing, wake, quiet, missed>>
    BY <1>4 DEF vars, threads, list, hosts
  <2>2. TypeOK'
    BY <2>1 DEF IInv, TypeOK, ThreadsTypeOK
  <2>3. Listener' /\ Fresh' /\ Ages' /\ Reads' /\ Kept'
    BY <2>1 DEF IInv, Listener, Fresh, Ages, Reads, Kept, Bound
  <2> QED BY <2>2, <2>3 DEF IInv
<1> QED BY <1>1, <1>2, <1>3, <1>4 DEF Next

\* The invariant holds in every state.
LEMMA SpecIInv == Spec => []IInv
<1>1. Init => IInv
  BY InitIInv
<1>2. IInv /\ [Next]_vars => IInv'
  BY NextIInv
<1> QED BY <1>1, <1>2, PTL DEF Spec

\* While the thread listens, a session that the popup shows was announced
\* within the time that it is kept and two seconds.
THEOREM ShownAlwaysLive == Spec => []ShownIsLive
<1>1. IInv => ShownIsLive
  <2> SUFFICES ASSUME IInv, Bound, NEW h \in shown PROVE quiet[h] <= TimeToLive + 2
    BY DEF ShownIsLive
  <2>1. quiet[h] <= TimeToLive + 2 - refresh
    BY DEF IInv, Reads
  <2>2. h \in Hosts /\ refresh \in 0 .. 1
    BY DEF IInv, TypeOK
  <2> QED BY <2>1, <2>2, Types DEF IInv
<1> QED BY <1>1, SpecIInv, PTL

\* A session that goes on is not dropped for as many lost announcements in a
\* row as its time to live has room for.
THEOREM FewLossesAlwaysKeep == Spec => []FewLossesKeep
<1>1. IInv => FewLossesKeep
  BY DEF IInv, Kept, FewLossesKeep
<1> QED BY <1>1, SpecIInv, PTL
=============================================================================
