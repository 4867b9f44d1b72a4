# Verification of Devious Editor 2

TLA+ models, model-checking runs and proofs for the multiplayer editor mod in
`src/`: a Geode mod for Geometry Dash in which one player hosts a level and
others edit it at the same time, over ENet.

Everything here is translated from the C++ code. `PROJECT.json` maps every
definition to the lines it stands for.

## 1. Inventory

### How the program runs

A process has one thread that matters: `CCScheduler::update` (main.cpp:59-84)
lets the game run its frame and calls `NetworkManager::poll` while the process is
in a session. A
packet handler, an editor hook, a timer callback and a button callback are each
run to the end by that thread, so **inside a process a handler is atomic**, and
what is concurrent is the processes. Between two processes there is one ENet
connection; all packets go reliably on channel 0, so each direction is a FIFO
queue, and a lost connection loses a suffix of it. That is what the modules
about the mod take ENet for, and what `ReliableChannel` and `Connection` check
of ENet's own code. Only the discovery of sessions has threads of its own.

### Components

| Component | State | Operations | Talks to |
|---|---|---|---|
| **Object tracking and synchronisation** (`sync/SyncManager`, `hooks/EditorHooks`, `SetupTriggerPopup`) | the editor's `m_objects`; `m_syncedObjects` (UID to object), `m_objectToUID`, `m_objectOwners`, `m_objectCounter`, `m_applyingRemoteChanges` | the hooks `addSpecial`, `removeObject`, `transformObjectCall`, `scaleObjects`, `rotateObjects`, `updateButtons`; `onLocalObject*`, `onRemoteObject*`, `trackExistingObjects`, `sendFullState`, `requestFullState`, `clearAll` | sends and receives OBJECT_ADD, OBJECT_DELETE, OBJECT_UPDATE, OBJECT_BATCH, REQUEST_FULL_STATE |
| **Full state packing** (`SyncManager::sendFullState`, `onRemoteObjectsBatched`) | the packet being filled, `currentIdx` | one loop: start a packet, put an object, backtrack, send | OBJECT_BATCH |
| **Lobby and connected peers** (`network/NetworkManager`) | `m_connectedPeers`, `m_peersInLobby`, ENet's peers and connectIDs | `host`, `stopHosting`, `connect`, `disconnect`, `poll`, `sendLobbyState`, `broadcastPeerJoined`, `broadcastPeerLeft` | HANDSHAKE, LOBBY_SYNC, PEER_JOINED, PEER_LEFT |
| **Session life cycle** (`main.cpp`, `HostPopup`, `JoinPopup`, `EditorPauseLayer`) | `g_isHost`, `g_isInSession`, `m_host`, `m_peer`, `m_isHost`, `m_userID` | host, stop hosting, join, lose the host, exit | drives all of the above, starts and joins the discovery threads |
| **Selections and cursors** (`SyncManager`, `EditorHooks`) | `m_remoteSelections`, `m_remoteSelectionHighlights`, `m_remoteCursors`, `m_CursorPos` | SELECT_CHANGE in chunks of 50, MOUSE_MOVE | uses `m_syncedObjects`; highlights are children of synchronised objects |
| **Remote players** (`SyncManager`, `main.cpp`) | `m_remotePlayers`, `wasPlaytesting` | PLAYER_POSITION, `updatePlayerSync`, `cleanUpPlayers` | hooks of the playtest, the frame update |
| **Level settings** (`SyncManager`, `EditorHooks`) | the level's settings | LEVEL_SETTINGS from the host | sent with a full state and on changes |
| **Session discovery** (`network/DiscoveryManager`, `JoinPopup`) | `m_isBroadcasting`, `m_isListening`, two threads, `m_availableSessions` under a mutex | a broadcast and a listen loop, start and stop, `onUpdateSessions` | HostPopup, JoinPopup, the local network |
| **ENet reliable channel** (`libs/enet`: `peer.c`, `protocol.c`) | sequence numbers, windows, queues of commands | send, fragment, acknowledge, time out, send again, reassemble, dispatch | datagrams |
| **ENet connections** (`libs/enet`: `host.c`, `peer.c`, `protocol.c`) | peer slots with their state, connectID and session IDs | connect, verify, ping, disconnect, time out, reset | `NetworkManager`'s events |
| **Object data records** | none | `extractObjectData`, `applyObjectData`, `createObjectFromData`, `shouldApplyUpdate`: no caller | nothing |
| **Popups, menu layer, build** | labels | layout | session life cycle |
| **ENet platform and codec code** | sockets, lists, an unused compressor | I/O | kernel |

### What is hard, and what makes each part correct

* *Joining.* The host answers CONNECT with the full state at once, while the
  guest's editor is still fading in; `getEditorLayer` finds no editor in the
  running scene then and the packets are dropped. A timer asks again 0.5 s
  later, which may be in the fade still. In between everyone goes on editing.
  Correct: the guest ends up with every object, no deleted object survives, and
  the values are the host's, up to losses that can be named.
* *Recreation.* An OBJECT_UPDATE deletes and remakes the object, so the object a
  UID names changes its address, and creation may fail. Correct: the maps stay
  inverse to each other and never name an object that is gone.
* *Suppression.* Hooks fire for remote edits too and must stay silent. Correct:
  no echo, and a guest that applies the host's settings does not send them.
* *Packing.* 32 UIDs or 16 KB end a packet; the object at the edge is put back.
  Correct: none skipped, none twice, order and UIDs kept, the arrays not
  overrun, the loop ends.
* *Identity.* A connectID is the user's ID; ENet reuses its peers for new
  guests and resets them before the DISCONNECT event is seen. Correct: a
  targeted packet goes to its user, and the lobby is who is there.
* *Sessions and threads.* Flags in four places are set by different buttons and
  callbacks, and the frame's thread joins two others. Correct: the flags agree,
  nothing of a session reaches the next, no thread is left over and no join
  lasts for ever.
* *Views.* Sprites hang on objects that are recreated, on an editor that exits
  and on users that leave; a frame update races packets about them. Correct:
  what is shown is what the other has, and nothing points into a freed editor.
* *Delivery.* Datagrams are lost, doubled and overtaken, sequence numbers come
  round, buffers fill. Correct: a FIFO queue.
* *Connections.* Slots and ports are used again, and a late datagram may be
  about the connection before. Correct: both ends agree on who they talk to,
  events come in pairs, half-open connections end.
* *The session list.* Announcements get lost, and a session that is silent has
  to go. Correct: neither shown too long nor dropped too early.

The hazards, each with its line and the properties for it, are in
`PROJECT.json` under `hazards`.

## 2. Modules

| Module | Models | Source |
|---|---|---|
| `ObjectSync` | host and guests with their editors, maps and packet queues | SyncManager.cpp 23-59, 496-656, 658-733, 1185-1198, 1458-1486; EditorHooks.cpp 66-222 |
| `MCObjectSync` | `ObjectSync` with at most `MaxActs` edits and departures, for TLC | |
| `ObjectSyncProofs` | theorems about `ObjectSync`: maps and echoes, UIDs and the host's exactness, guests in step | |
| `FullStateBatch` | the loop of `sendFullState` step by step, and the guest that takes its packets | SyncManager.cpp 658-721, 1458-1486 |
| `FullStateBatchProofs` | theorems about `FullStateBatch` | |
| `Lobby` | the host's ENet peers, connectIDs, lobby lists and their packets | NetworkManager.cpp 15-270; SyncManager.cpp 741-788 |
| `LobbyProofs` | theorems about `Lobby` | |
| `Discovery` | the two threads of `DiscoveryManager`, their flags, and the main thread that starts and joins them; extended by `SessionLifecycle` and `SessionList` | DiscoveryManager.cpp 18-128 |
| `SessionLifecycle` | one process from menu to menu, composed with `Discovery` | main.cpp, HostPopup.cpp, JoinPopup.cpp, EditorPauseLayer.cpp, NetworkManager.cpp |
| `SessionLifecycleProofs` | theorems about `SessionLifecycle` | |
| `SessionList` | announcements, the list of sessions and the popup that shows it, on top of `Discovery` | DiscoveryManager.cpp 46-142; JoinPopup.cpp 64-116 |
| `SessionListProofs` | theorems about `SessionList` | |
| `Presence` | selections, cursors, players of a playtest, level settings | SyncManager.cpp 735-1183, 1200-1396; EditorHooks.cpp; main.cpp 59-84 |
| `PresenceProofs` | theorems about `Presence` | |
| `FifoChannel` | the abstract specification of a channel: a queue that empties | NetworkManager.cpp 118-189 |
| `ReliableChannel` | one direction of ENet's reliable channel; implements `FifoChannel` | peer.c 108-223, 608-1027; protocol.c 196-292, 447-645, 853-921, 1301-1522, 1602-1745 |
| `ReliableChannelProofs` | theorems about `ReliableChannel`, and that it implements `FifoChannel` | |
| `Connection` | ENet's handshake, slots, sessions, pings and disconnects | host.c 29-264; peer.c 385-575; protocol.c 47-163, 295-444, 768-1194 |
| `ConnectionProofs` | theorems about `Connection` | |

How they fit: `ReliableChannel` shows that what lies under
`NetworkManager::sendPacket` and `poll` is a `FifoChannel`; `ObjectSync`,
`Lobby` and `Presence` have such a queue for each direction of each connection.
`Connection` shows that CONNECT and DISCONNECT come in pairs and belong to one
handshake, which the same modules take for granted when a connection starts
and when it ends with a suffix of its queue lost.

### ObjectSync

`ed[m]` is the editor and `SyncManager` of member `m`: `val` gives each address
the save string of the object there (`NoVal`: no object), and `synced`, `o2u`,
`owner`, `next` are the C++ maps and counter under shorter names. An address is
free for a new object as soon as the old one is removed, so a stale pointer
would be *inherited*, as with real memory. A UID is the pair
`<<creator, counter>>` that `generateUID` prints.

The functions of `SyncManager` are operators from a member's state to a new
state and the packets sent (`Result`); where the outcome is open (the address
of a new object, a cut string that makes nothing, how many objects fit a
packet) they are sets of results. Actions are what the thread runs to the end:
one polled event, one editor call with its hooks, one timer, one button. The
editor calls take who called (`"user"` or `"packet"`), which is
`m_applyingRemoteChanges`: it is set and cleared within one handler and so has
no value between steps.

`up[g]` and `down[g]` are the queues of a connection. CONNECT and DISCONNECT
are ENet's events, in their place in the stream. `Leave` and `LoseHost` cut any
suffix of what was in flight. A player that leaves and comes back has a new
connectID and is another guest; `phase` goes from `"out"` through
`"transition"` (connected, editor still fading in) to `"editor"` and `"gone"`.
The host does not stop while guests are in; `SessionLifecycle` has that.

What is abstracted: strings are opaque values (`Val`), those longer than 4095
characters are in `Truncated` and may fail to make an object; order in
`m_objects` is dropped (`FullStateBatch` keeps it); timestamps are dropped, as
nothing reads them; owners are kept.

**The 0.5 s race.** `JoinPopup::OnJoin` pushes the editor with a fade of 0.5 s
and `MyLevelEditorLayer::init` schedules the request 0.5 s ahead. Which one
comes first is up to cocos2d and the frame times, and `requestFullState` may
run in either phase. If it runs first, the answer may come into the fade and be
dropped like the one to CONNECT, and no one asks again: the guest has nothing. If
both answers come after it, the guest has everything twice. `FullStateOnce` is
violated by either (`ObjectSync_full_state`). The half that holds is
`JoinCompletes`: who has its editor open while the request is still to be made
or answered gets every object.

**Ghosts.** The host does not relay, strings are cut, packets come into the fade,
and edits cross, so copies of a level do drift apart. Three ghosts say by which
steps, per guest and UID, and the properties say that there is no other way:

* `missed`: the guest dropped the packet that makes the object (`Dropped`), a cut
  string made nothing of it (`Handled`), or another guest made it
  (`Forwards`). A packet that makes the object takes the UID out.
* `strays`: a guest's packet took the object from the host, deleting it or making
  nothing of a cut string, while this guest had it or was sent it.
* `apart`: the last edit was told before it was made (`rotateObjects` and
  `scaleObjects`), crossed one of the other end, was another guest's, or
  was of an object that is not the one the UID names. An edit told as it is
  takes the UID out (`Tells`), and so does a full state.

No guard reads them.

### FullStateBatch

`ObjectSync` sends a full state in one step, cut into packets in any way that
`Cuts` allows. This module is the loop that cuts: `at` is the place in the code
(the `while`, the `for`, the send), `currentIdx` and `packet` the variables. An
object is its index in `m_objects` and the length of its string. The guest's
`m_objects` is a sequence here, because UIDs are paired by position.

### Lobby

`peer` is ENet's array of peers at the host. A connection takes the first free
peer and gets a new connectID; `PollDisconnect` reads the connectID *after*
`enet_peer_reset`, so it is 0 (libs/enet/peer.c:390; enet_protocol_notify_disconnect
and enet_protocol_dispatch_incoming_commands both reset before they return the
event). `connectedPeers` is `m_connectedPeers` and may keep entries
whose peer has been reused. LOBBY_SYNC carries the host's IDs; if there are
more than `SyncCap` (32 in the code) the guest reads the ones written and what
the stack held (`Junk`). Names are left out: they travel with the IDs.

### Discovery and SessionLifecycle

`Discovery` has the atomic flags, a program counter for each thread (`"begin"`
before its socket is there, `"check"`, `"sleep"`, `"ended"`) and `waits`, the
thread the main thread is joining. A loop whose socket cannot be opened ends
with its flag still set, as in the code. The operations `startBroadcasting`,
`stopBroadcasting`, `startListening` and `stopListening` are parts of the
main thread's actions; while it joins, the main thread has no other step.

`SessionLifecycle` composes them with one process: the flags are variables of
the same names, one action for each button or callback, and the maps as they
are left by the last session. Other members are the environment
(`RemoteObject`, `LoseHost`).

`FlagsAgree` is three statements: a process is a guest in a session when it has a peer
(`GuestHasPeer`), a menu has no session, server, peer or maps left
(`MenuIsClean`), and the user ID is the one of the role (`IdsAgree`).
`ThreadsOwned` says that each thread is there for a server or a popup, or being
joined. It cannot say that a server has a broadcasting thread: that thread may
have failed to get a socket.

### SessionList

Hosts announce themselves every `Period` seconds while they host; a broadcast
reaches the listener's `socket` or is lost. `Listen` is a pass of `listenLoop`
with its three parts in order: read one announcement, enter or refresh its
session, drop those not heard of for more than `TimeToLive` seconds. The popup
takes the list once a second. Time is in whole seconds, as the code's
`time(nullptr)`; a pass takes 0.1 s, so a second does not end before a pass
found the socket empty. `missed` and `quiet` are ghosts for the properties.
Ages that can no longer matter are alike.

### Presence

`link[<<from, to>>]` is a FIFO queue. A member joins (`"fade"`), has its editor
(`"editor"`), may lose the session and keep the editor (`"alone"`), and exits.
The objects are those that the host tracks when it starts, named by their UIDs;
members delete and update them, which matters because a highlight is a child of
an object: its `on` is `"object"` while it hangs on the object its UID names,
`"former"` on one the UID named before, and `"freed"` when it went with its
parent. `onRemoteSelectionChanged` then calls a
method of the freed sprite; that is undefined, and `UseFreed` lets the process
go on or end.

`onLocalSelectionChanged` cuts the selection into packets of `ChunkSize` UIDs
with `hasMore`; the receiver collects them per sender. A mouse is a position in
quarters of a unit on a line: a packet carries whole units and goes out when
the mouse is more than half a unit from where it was last sent. A player has
`dead` and `shown`; `Frame` is `CCScheduler::update` with its end-of-playtest
edge (`wasPlaytesting`), `updatePlayerSync` included. Of the level settings, some
thirty fields, there is one for each way they are treated: `gamemode` stands for
those that `extractLevelSettings` fills in and `applyLevelSettings` takes over,
`speed` for those that are taken over and never filled in, so that they come as
the zeros of the `memset`, and `startOffset` for those that are filled in and
never taken over. `told`, `chosen` and `unsaid` are ghosts.

`Topics` splits the behaviours: in one of them the users act on one topic only,
as the four share no state but the session and the links. Every handler keeps
all of its effects.

### ReliableChannel and FifoChannel

A command has a number `n` that never comes round, and every test of the code
sees only `SeqNo(n)`. The sender has the loop of
`enet_protocol_check_outgoing_commands` one command at a time, with its window
checks (`MaySend`, `windowWrap`); a call of it is not interrupted (`sending`).
The receiver decides as `enet_peer_queue_incoming_command` does: out of reach
and dropped, old and acknowledged, refused for want of room and not
acknowledged, or entered in its place. Packets of several fragments are one
entry that is filled. The network keeps, copies, drops and reorders.

`ImplementsFifo` is `FifoChannel!FairSpec` with `queue` replaced by
`Undelivered`: the packets dispatched and not yet received, as they are, then
those of which the sender still holds, or the receiver is putting together, a
command. `Send` of the queue is `enet_peer_send`, `Receive` is
`enet_peer_receive`, and every other step leaves the queue as it is. A packet
dispatched early, twice, out of order or with a fragment missing would not be
the head of the queue.

### Connection

An end is a peer slot of the host or the one peer of a guest's ENet host; both
run the same handlers. A datagram has an address, a peer ID, a session and one
command, and `Accepts` is the test with which
`enet_protocol_handle_incoming_commands` throws away what is not for the
peer's present connection. `shake` is a ghost that numbers the handshakes.
`disconnect` leaves the guest's socket bound, as the code does; `connect` gives
up after five seconds and closes it. States that begin and end inside one call
(ZOMBIE, CONNECTION_PENDING, CONNECTION_SUCCEEDED) are not states here.

## 3. Runs

All runs are of small instances with every interleaving. Ten runs pass, two
show a disagreement. "Symmetric" is the symmetry of object addresses, of
guests and of strings of one kind (cut or not), which no definition tells apart; runs with liveness do without. `CHECK_DEADLOCK FALSE` is
in every configuration but that of `ReliableChannel`, because users may stop
doing anything and because edits, connections and sessions are counted up to a
bound; that is a terminated behaviour, not a deadlock of the program.

| Run | Instance | Shows | States |
|---|---|---|---|
| `ObjectSync_two_builders` | 1 guest, both build, 3 addresses, 2 UIDs each, every string may be cut and fail, 3 acts; symmetric | the maps are inverse (`SyncedInverse`) and never dangle (`SyncedLive`); the host's maps are exact (`HostExact`); a new UID is unknown to all (`NextUidIsNew`); the guest lacks and keeps nothing, up to the ghosts (`GuestInStep`); `TypeOK` | 1 179 354 |
| `ObjectSync_third_member` | 2 guests, all three build, 2 addresses, 1 UID each, 2 values, 2 acts; symmetric | `GuestInStep`, and `HostCopyCurrent` with scaleObjects and rotateObjects, up to the ghosts and with another guest's edits, which nobody forwards | 1 029 802 |
| `ObjectSync_join` | 1 guest, both build, 4 addresses, 2 acts, fair | `JoinCompletes`; `NothingLost` also with deletions of the guest that cross the full state; handlers send nothing (`NoEcho`) | 83 894 |
| `ObjectSync_full_state` | 1 guest, nobody edits | **violation** of `FullStateOnce` | |
| `FullStateBatch_cut` | every level of up to 4 objects of lengths 1, 4, 7, 8, buffer 10, 2 UIDs a packet, 1 own object, fair | `NoneSkipped`, `InOrder`, `WithinBuffer`, `GuestAligned`; `EndsComplete` when each object fits an empty packet; `TypeOK` | 276 956 |
| `Lobby_members` | 2 guests, 2 ENet peers, 3 connections, the host hosts twice, fair | `TargetsRight` (with the types), `LobbyAgrees`, `GuestIsListed` | 286 461 |
| `Lobby_ghosts` | the same, one session | **violation** of `NoGhosts` | |
| `SessionLifecycle_flags` | 3 addresses, 2 UIDs per user, both threads at every point, fair | `FlagsAgree`, `ThreadsOwned`, `MainGoesOn` (every join returns), `TypeOK` | 45 948 |
| `SessionList_popup` | 2 hosts, period 2, time to live 4, fair | `ShownIsLive`, `FewLossesKeep` (with the types), `SessionIsFound` | 165 436 |
| `Presence_views` | host and guest, 3 objects, chunks of 2, 4 mouse positions, 3 acts, 3 packets on a link, fair | `HighlightsFollow`, `CursorNear`, `NothingLeft` (with the types), `SettingsAgree`, `AliveIsShown` | 182 201 |
| `ReliableChannel_fifo` | 6 windows of 2 numbers, 4 commands starting at number 11, so that numbers come round; fragments of 2; fair; deadlock checked | `AckedIsHeld`, `WindowsExact`, `ImplementsFifo` (safety and liveness of the queue), `TypeOK` | 56 544 |
| `Connection_restart` | 2 slots, 1 guest with 2 ports, 2 attempts, the host restarts once, 2 datagrams in flight, fair | `SameHandshake`, `EventsPaired`, `NobodyKicked` (with the types), `EndsMeet` | 677 478 |

### Why the bounds are enough

* *Addresses.* A live object at each end and a third address to recreate one at,
  so a new object may or may not take a freed address. `join` has four because
  the guest can hold two copies of each of two objects.
* *Guests.* One where the question is about two ends, as the host handles each
  guest's packets apart and answers to the one that asked. `third_member` has
  two, for the edits of one that the other is not told of. What is proved of
  `ObjectSync` is proved for any number. `Lobby`, where guests do meet, has two.
* *UIDs.* One or two per member, enough for a second object whose UID must not
  be taken for the first's. The host's level has no more objects at first than
  it can give UIDs.
* *Acts.* Edits and departures together. Two make every pair: add and delete the
  same object, delete and change it from both ends, edit before and after the full
  state, edit and leave. Three give an edit after two that crossed; with two
  guests two have to do. `MaxActs` bounds the
  queues: only edits and the two full states send.
* *BatchCap 2.* One packet that is full and one that is not; 1 with two guests.
* *Sizes 1, 4, 7, 8 in a buffer of 10.* With the test `length + size + 2 >= 10`:
  7 is the largest that fits an empty packet, 8 fits none, 1 and 4 combine.
* *Connections in `Lobby`.* Three for two guests: a peer is reused by its guest
  or by the other, with a stale entry of the first connection in the map.
* *`ReliableChannel`.* The code has 16 windows of 4096 numbers, 8 of them kept
  free. Six of two keep the ratio and let four commands cross the point
  where numbers come round. `MaxAge` says that no copy outlives more newer
  commands than half the numbers: the code has no other guard against a copy of
  the round before. `DataWindow` is two commands: with room for one only, a
  command that was sent again keeps its place at the front of the queue and a
  lost one behind it waits as long as that happens, so the liveness of the
  queue would need more of the network. A datagram has one command.
  `MaxWaiting` 4 lets an application that is slow to receive fill the receiver, so
  that commands are refused; were it smaller than what can arrive ahead of a
  missing command, the receiver could be full of packets that wait for it. In
  the code that takes windows full of large packets.
* *`Connection`.* Four session IDs per slot, as in the code; `MaxShakes` 2 keeps
  a slot from going through all four, which would let a datagram of the first
  in again. `Late = FALSE`: no datagram survives a restart of the host. With
  TRUE `SameHandshake` fails, as a new host starts its sessions anew. Pings are
  alike. An old VERIFY_CONNECT may end an attempt that uses the port again; the
  guest then tries anew.
* *`Presence`.* Three objects and chunks of two: one packet and two, a chunk that
  is exactly full, and a selection that shrinks. Quarters 0, 3, 4, 5 are a move
  below, at and above the threshold and across a unit. `NetCap` 3 is two chunks
  and one edit between them.
* *`SessionList`.* Announcements every 2 s and a life of 4 s in place of 10 s; one
  lost announcement is tolerated in place of four. `Oversleep` 0; with 1 the
  safety properties hold as well.

The mutants in `PROJECT.json` break each property inside these bounds.

### Fairness

* `ObjectSync`: `EndTransition`, `requestFullState` and `Poll` are weakly fair
  for each guest: cocos2d ends a fade and fires a scheduled timer, in an order
  that is open, and both
  processes poll in every frame of a session (main.cpp:62-64) while ENet retransmits. Users
  never have to do anything; a guest may leave instead.
* `FullStateBatch`: the host's loop runs on (it is one call), the guest polls.
* `Lobby`: the host polls, a guest handles what has arrived, and a connection
  with no other end times out (ENet's `timeoutMaximum`). Nobody has to connect.
* `Discovery`: weak fairness of both loops and of the return of a join: the
  operating system runs threads, and their sleeps and socket timeouts end.
* `SessionList`: weak fairness of the loop and the popup's schedule, strong of the
  clock, which stands still while a pass is due, and of `Announce(h)`: of
  infinitely many broadcasts of a host one gets through.
* `Presence`: every member that has a frame update gets frames and every link
  is polled (weak).
* `ReliableChannel`: both ends poll (weak: the send loop and
  `enet_peer_receive`). Strong fairness stands for a network that lets some of
  infinitely many copies through, and for time: the oldest unacknowledged
  command times out and is sent, the one that is missing arrives, its
  acknowledgement arrives. No copy of any other command has to arrive.
* `Connection`: the connection attempt, a disconnect and a silent peer come to
  their timeouts (`Finish`), and connected peers ping
  (`pingInterval`). Nothing has to arrive.

### Disagreements found

1. `FullStateOnce`: the CONNECT answer and the REQUEST_FULL_STATE answer may
   both arrive after the fade, and the guest then has every object twice; only
   the second copy is tracked by UID. `SyncedInverse` and `SyncedLive` hold
   none the less, because the older copy keeps its `m_objectToUID` entry and
   nothing looks it up by UID. TLC's trace is this one. When the timer fires in
   the fade both answers may be dropped, and the property fails the other way:
   the guest stays without the level.
2. `NoGhosts`: a user that has left stays in every lobby, because connectID is
   0 by the time `poll` reads it.

Met while modelling, kept in the models, and not the subject of a run:

* The host does not relay a guest's edits, so a third member never sees them.
* `scaleObjects` and `rotateObjects` send an object before the editor changes it,
  so the others keep the old value until another call sends it again; two users
  who change one object at once swap its values. No document says otherwise.
* An object of 16382 characters or more makes `sendFullState` loop for ever;
  `EndsComplete` excludes such levels.
* Stop Hosting leaves `g_isHost` and `g_isInSession` set.
* `sendLobbyState` counts all members and writes at most 32; with `SyncCap = 2`
  and `Junk = {0}` in `Lobby`, `LobbyAgrees` is violated. As entries are never
  removed, a long session with few users gets there too.
* A guest that loses its host keeps the maps; if it then hosts in the same
  editor its user ID becomes 1 and it may give a new object the UID of one of
  the old host's, for which `SyncedInverse` would not hold.
* An update makes its sender the owner whom the inspector shows as "Placed by".
* The stop-playtest packet hides the player and the rest of the handler shows it
  again; a player first heard of dead is made visible; `wasPlaytesting` is
  never reset by a session's end. `AliveIsShown` is the half that holds.
* `applyLevelSettings` sets two-player mode and the start speed (lines 1137, 1139)
  from fields that `extractLevelSettings` clears (1049) and never fills in, so a
  guest gets zeros; the song offset and whether the level is a platformer are
  sent (1074, 1091) and never applied, so it keeps its own. `settings` in
  `Presence` has a field of each kind; `SettingsAgree` is about those that are
  both filled in and applied.
* What departed users left (cursor, player, highlights) stays at the host until
  its editor exits; who joins late is not told of selections and cursors; a
  selection that arrives in the fade gets no highlights.
* `m_CursorPos` survives a session, so the first small moves of the next may send
  nothing.
* `disconnect` does not destroy a client's ENet host.
* When the listener cannot bind its socket its flag stays set and the list of the
  time before stays as it is; the properties of `SessionList` are about a bound
  socket (`Bound`).

## 4. Proofs

`tlapm` checks the eight modules named `...Proofs` to the last leaf, for every
value of the constants that satisfies the modules' assumptions. These say that
the sentinels (`NoObj`, `NoUid`, `NoVal`, `Nobody`) are outside the sets they
mark, that `Host` is not a guest, that bounds are naturals, and that sets of
which a list or a number of elements is made (`Obj` in `SessionLifecycle` and in
`Presence`) are finite, as a level's objects are. In `Connection` the slots are not
guests, `HostPort` is not a guest's port and `None` is no port or number. Those
of `ReliableChannel` are discussed with its proofs.

**ObjectSyncProofs** proves `TypeOK`, `SyncedInverse`, `SyncedLive` and `NoEcho`
for any number of guests, objects, values and UIDs, any failures of creation and
either order of timer and fade. The inductive invariant `IInv` is that every
member's state is `Good` (typed, and each tracked object is live and carries
the UID it is tracked under) and the queues are typed. `SyncedInverse` alone is
not inductive: `onRemoteObjectModified` removes the object a UID names, and
that keeps `SyncedInverse` only when the freed address is no other UID's, and
a new object takes a free address, which must be named by no UID. That
is `SyncedLive`, so the two are proved together. The lemmas are about one
member's operators and do not mention queues or other members; one lemma per
action lifts them. A packet needs nothing but its type: a handler keeps the
maps consistent *whatever* packet it gets, so no argument about what is in
flight is needed. `NoEcho` follows from the results of the handlers having no
packets.

Then it proves `NextUidIsNew` and `HostExact`, which depend on what
is in flight. `UInv` adds to `IInv` that a UID a member has yet to give out is
heard of nowhere (`FutureUnheard`): in no map, not in the entries of
`m_objectToUID` that outlive their UID, and in no packet. The property alone
is not inductive, as such an entry is sent again with the next full state or
update. For the operators of one member the lemmas say which UIDs they can learn and which
they can name in a packet; for each action, that it teaches a member only what
its packet named. `HInv` adds that an OBJECT_ADD on its way to the host names a
UID the host does not track (`AddsAreNew`), which needs `UInv`, and that the
host's editor and maps agree exactly (`Exact`): without the former the host would
make a second object under a UID and leave the first untracked.

Last come `NothingLost`, `NothingKept`, `GuestInStep` and `HostCopyCurrent`, which
relate two editors by the queues between them. They are proved of the
specification as it is: any number of guests, all of whom build, every kind of
edit, strings that are cut, and either order of timer and fade. They are proved
of one UID at one guest at a time. `View` is all that matters of it: the host's
copy and the guest's, both queues, where the guest is, and what the ghosts say
(section 2). Each action of any member changes this record in one of nine ways
(`StepMoves`, `Moves`): it stays or another guest changes the host's copy, one
end tells its edit, one end gets or drops a packet, the host answers with a full
state, the guest comes, asks or is away. `Explained` is kept by each way, and its
parts need each other:

* `DeletedIsGone`: if a deletion of the UID is on its way to the guest, the host has
  no such object and will be told of none. So nothing follows it, as a UID is never
  given out again (`FutureUnheard`).
* `AddedIsHere`: what the guest has told of and not deleted since, it has, unless a
  cut update took it.
* `Reaches` is `NothingLost`: the host comes to have an object that the guest made,
  or has told the guest of it. A deletion arriving at the guest is the point
  at which it could fail, and there `DeletedIsGone` says that the host has none.
* `MadeIsThere` and `GoesToo` are `NothingKept`: what is on its way to be made, and
  not to be deleted after, the host has, or has let go of for a guest's packet.
* `AddIsFirst`: an OBJECT_ADD to the guest is the first it hears of the UID, and so
  finds nothing there that would hide a cut string.
* `NewsIsCurrent`, `OwnIsTold` and `CopyIsCurrent` are `HostCopyCurrent`: the last
  packet about the UID says what its sender has, and where there is none both ends
  have the same, as long as the UID is not in `apart`.

`Link` is what they need of the connection: who hears nothing has nothing coming,
the CONNECT is polled first, nobody in the session has left it, and a guest whose
editor is not open has nothing. `AddsUnsaid` is what a second guest adds: no
OBJECT_ADD is on its way to the host for a UID of which the host has something on
its way to any guest. Otherwise another guest's packet could make an object that
this guest is just being told to delete. The theorem `DifferencesExplained` is all of
it, and the other four follow.

A ghost never weakens a property for longer than the code does: `missed` is left
when a packet makes the object, `apart` when an edit is told as it is or a full
state goes out. What is in `strays` stays there, as nothing in the code takes such
an object from the guest.

**FullStateBatchProofs** proves `NoneSkipped`, `InOrder`, `WithinBuffer` and
`UidsMatch` (each UID sent is that of the object at its place; stated with the
proofs, and in no run) for every level, every length, every buffer size and UID
limit. The
invariant says of each packet that its objects are in order, among those
passed, and carry their own UIDs (`PacketGood`), that packets follow each other
(`Behind`), and that the counter is above every UID given (`UidsFresh`): without
it a fresh UID could be one already sent. `PacketGood` says too that
each object sent *is* tracked, so that giving out a UID later cannot change one
that has been sent.

It also proves `TypeOK` and, if `Rejected` is empty, `GuestAligned`. The guest's
invariant is `Named`: a UID it tracks names the place of the copy of the host's
object with that UID. It follows from `UidsMatch` and from the copies being
made in the order of the packet, after whatever the user has placed. With a
string that makes no object the UIDs after it shift by one: the property is
false then, and the hypothesis is what the code rests on, an object of the
host's save string being one that the guest can make.

**SessionLifecycleProofs** proves `FlagsAgree` and `ThreadsOwned` for every
interleaving of buttons, events and both threads. `IInv` adds the types of the
flags and `ServesAsHost`, that a server belongs to a host in a session:
`FlagsAgree` alone allows a server behind an editor that is in no session,
which an exit would leave running in the menu. The proof has one step per action and one
per part. `TypeOK` has an invariant of its own, as it needs that who is in a
session has a user ID.

**LobbyProofs** proves `TargetsRight` for any number of users, peers and
connections, with `IInv`: a peer without a connectID is free and has no queue,
and a connectID belongs to one peer. Entries of `m_connectedPeers` that outlive their
connection do no harm, since connectIDs are never given out twice. `LobbyAgrees`
needs `MaxConns + 1 <= SyncCap`: the host never removes a user, so its list is as
long as the connections it has seen, and a LOBBY_SYNC has room for 32. Beyond
that the property is false (section 3). `LInv` does not say what a guest *will*
have after the packets under way, which would be induction over the queue.
`Told` says of one ID at a time that some packet brings it and no LOBBY_SYNC
behind that packet is without it; `AllTrue` says that no packet brings an ID the
host has not. `Shape` says where CONNECT and HANDSHAKE can be in a queue, and
`Users` that two users never have the same connection.

**SessionListProofs** proves `ShownIsLive` and `FewLossesKeep` for any period, any
oversleep and any time to live. Neither is inductive. What is shown goes back to
the list one second before (`Reads`), and that list to the pass before it
(`Ages`, `Fresh`). The other way round, `Kept` bounds the age of a session
by the sleeps its host has begun since, so that the number of announcements that
may be missed is a division (`ToleratedFits`).

**PresenceProofs** proves `NothingLeft`, `CursorNear`, `SettingsAgree` and the action
property `HighlightsFollow` for any
number of members, objects and packets. `CursorNear` needs `Moves`: the last move
under way, or the cursor if there is none, is where the mouse was last sent
from, and the mouse is less than half a unit from there. `Said` is the same for
the settings, of which what arrives at a guest is the host's `gamemode`, whatever
becomes of the other fields. `LastIs` is how both speak of a queue: of the packets of
one kind only the last matters, so a handler that takes the first and appends
others keeps it. `Strangers` says that who has not joined has heard nothing.
Of a selection every chunk matters. `Follows` says that there is an account of what
the receiver will have collected after each packet under way, which begins with
what it has and is the selection last sent at the last chunk, where `hasMore` is
false. Taking a packet drops the first entry of the account, sending a selection adds
its chunks (`ChunksCollect`), so no induction over the queue is needed. `NextIs` sorts the
steps by what they do to a link, and the invariant and the property follow from it.

**ReliableChannelProofs** proves `TypeOK`, `AckedIsHeld`, `WindowsExact` and that
the channel is a queue, for every number and size of windows, any number of
commands and any loss, copy and delay within `MaxAge`. The properties are about
numbers that never come round; the code sees 16 bits of them. So what has to be
shown is that no test ever confuses two numbers. `IInv` is that for some `h`, the
highest number sent once:

* `SInv(h)`, the sender: types; the numbers waiting are those after `h`, and those
  to be sent again are at the front (`Queue`); no number is held twice
  (`Distinct`); the windows' counters and the data in transit are exact
  (`Counters`, which is `WindowsExact`); and a number still held lies in one of
  the last `FreeWindows - 1` windows up to that of `h` (`Flow`). `windowWrap`
  keeps `Flow`, because it reads counters that are exact.
* `Flight`: what is in flight has been sent, and is not older than `MaxAge`.
* `Receiver(h)`: `in` is at most `h`, the packets being put together are ahead of it
  and in order, the first is not yet due, and what has been dispatched is whole.
* `Packets`: two packets known at either end or in flight are the same or do not
  overlap, and `in` has passed none by half.
* `AckedIsHeld` itself: what is not held by the sender any more is at the receiver.
  So `in` cannot be far behind `h` (`Reach`): otherwise the command after `in`
  would still be held, against `Flow`.

All numbers that meet in a test are then less than a round apart, and `SeqNo` tells
them apart (`NearSame`). Each part needs the others: an acknowledgement taken for
that of another command would break `AckedIsHeld`, then `Reach`, then
the receiver's tests.

`ImplementsQueue` is `Spec => Fifo!Spec`, the safety part of `ImplementsFifo`.
`Undelivered` lists packets that are dispatched and then those pending, by their
first number. There is exactly one such list (`ListUnique`, `ListExists`), so each
action is shown by what it does to the *set*: a release takes no packet out of it,
as the receiver has the command (`AckQueues`); a command that enters belongs to a
packet still held, since otherwise the receiver would have it (`StillHeld`); and
dispatching takes a prefix without a gap (`Chained`, `Passed`), which joins on to what was
dispatched before.

The assumptions on its constants are those of the code: 16 windows of which 8 are
kept free (`ENET_PEER_RELIABLE_WINDOWS`, `ENET_PEER_FREE_RELIABLE_WINDOWS`), of
4096 numbers each, which is more than the fragments of any packet the mod sends
(the largest, OBJECT_BATCH, has about a dozen). Only `MaxAge` is about the network.

**ConnectionProofs** proves `EventsPaired`, `SameHandshake` and `NobodyKicked`, with
the types, for any number of slots, guests, ports, attempts and datagrams. The handlers
compare port, slot and session ID, the properties are about connectIDs, so the
invariant `CInv` is about who may still speak: a port speaks to at most one slot
under one session ID (`OneVoice`), not before its CONNECT has been answered
(`CallersSilent`); a connectID has one port (`OnePort`) and one slot (`OneSlot`); the
port of a connected slot speaks to that slot only (`OnlyHere`); and a slot that an attempt
gets after it has been reported is never confirmed (`NotAgain`), which is why a
repeated CONNECT makes no second CONNECT event.

All of it rests on one thing that the code does not ensure: that no slot is given
out under a session ID under which its port still speaks or a VERIFY_CONNECT is
alive (`NotRound`). A session ID has two bits and comes round after four
connections of a slot, and nothing waits for old datagrams to die. The theorems are
`Spec /\ []NotRound => ...`, a statement about the network that is true when datagrams
die before a slot has been used four more times; nothing here shows that they do.
Where a slot begins or ends the lemmas are about `peer`, `net` and `reported` as
parameters.

Model-checked only:

* All liveness (`JoinCompletes`, `EndsComplete`, `GuestIsListed`, `MainGoesOn`,
  `SessionIsFound`, `AliveIsShown`, `EndsMeet`, and the fairness in
  `ImplementsFifo`), which is out of the prover's reach.

Every invariant and action property that a passing run checks is stated by a theorem.
The theorems about `Connection` say nothing of session IDs that come round while
old datagrams live, and that hypothesis is not shown otherwise.

The provers have no induction over data. Where the proofs need a least element (the
first free peer, the place at which a packet enters a list) they take it from the
well-foundedness of `<` on the naturals (`NatMin` and its like).

## 5. Plan

What is left, in this order:

1. `ReplicatedLevel`, an abstract specification of host and guest copies (a set
   of named objects and changes to it), implemented by `ObjectSync`; and
   `FullStateBatch` implementing the `Cuts` of `ObjectSync`.
2. `Lobby` on top of `Connection` in one instance, in place of its own account of
   peers and connectIDs.

No module uses a RECURSIVE operator, so each can be proved about.

## 6. Not modelled, and why

* `extractObjectData`, `applyObjectData`, `createObjectFromData` and
  `shouldApplyUpdate` have no caller: objects travel as save strings.
* Popups, the menu layer and the inspector's label are layout; the state their
  buttons change is in `SessionLifecycle`, `SessionList` and `ObjectSync`.
* ENet's sockets, memory, lists, range coder and checksum are platform and
  codec code, and the mod sets neither a compressor nor a checksum. Of the
  protocol, unreliable and unsequenced packets, `enet_peer_disconnect_later` and
  `enet_peer_disconnect_now` are not used by the mod; throttling, bandwidth and
  round-trip estimates decide only when something is sent.
* Names, coordinates, icons, wording and timestamps: no property depends on
  them, and no code reads the timestamps.
