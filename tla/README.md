# A TLA+ model of the Helicopter server

Helicopter is a WebSocket server for multiplayer games: a *game host* creates a
session, *clients* join it, and the server relays their messages. This
directory holds a model of the server, from start-up to the frames on one
socket, TLC runs over small instances, and TLAPS proofs for all instances. Paths
below are relative to the repository's `src/src/` unless they name the README.

## 1. The system

### Components

| Component | State | Operations | What makes it correct |
|---|---|---|---|
| `App`, `Runner`, `APIServer`, configuration | `m_servers`; `GamesConfig::m_games` | `run`, `Runner::Runner`, `assertServerConfig`, `start`; `putGameConfig`, `getGameConfig` | each API is served at its address by one server, or nothing is served |
| `HostController`, `ClientController` | none | the handshakes `create-game` and `join-game` | sessions are created through one API and joined through the other |
| `Registry` | `m_games` | `getGameById`; `onAfterCreate_NonBlocking` (find or create the session, make the peer, add it, or refuse the request); `onBeforeDestroy_NonBlocking` (invalidate, remove the peer, delete the empty session) | one `Game` per id; a refused request is told why; whatever way a connection ends, its peer leaves; an empty session leaves the map, one in use does not |
| `Game` | `sessions`, `isPingerActive` (one mutex) | `createNewSession`, `findSession`, `deleteSession`, the `Pinger` coroutine | one session per id; one pinger while there is a session, none after |
| `Session` | `m_peers`, `m_host`, `m_synchronizedEventId` (`m_peersMutex`); `m_pingCurrentTimestamp`, best ping (`m_pingMutex`); `m_peerIdCounter` (atomic) | `addPeer`, `removePeerById`, `getPeers`, `broadcastSynchronizedEvent`, `checkAllPeersPings`, `pingAllPeers`, `reportPeerPong` | peer ids unique; the host knows who is there; one order of events; late pongs do not count |
| `Peer`, outgoing | `queue`, `active` (queue mutex); `m_socket` (`m_socketMutex`); `m_writeLock` | `queueMessage` and its `SendMessageCoroutine`, `sendErrorAsync`, `ping`, `kick`, `invalidateSocket` | order, no loss while connected, no forgotten message, whole frames |
| `Peer`, incoming | `m_messageBuffer`; `m_failedPings`, `m_lastPingTimestamp` (`m_pingMutex`) | `readMessage`, `handleMessage` and a handler per code | messages are handled whole; a sender's messages keep their order; only the host kicks; only silent peers are dropped |
| DTOs | none | `MessageDto` and the type selector of its payload | each message is served or refused as the table of message codes says |

### How they interact

- `run` puts the game configs, `Runner` builds one server or two, and each
  accepted handshake hands a socket and its parameters to the `Registry`.
- Each socket is served by one coroutine of the executor: `onAfterCreate`, then
  one `readMessage` after another, then `onBeforeDestroy`. Handlers run on that
  thread; different sockets run in parallel. `readMessage` returns a coroutine
  for the error it answers with, and the reader waits for it.
- A handler reaches other peers through the session: it takes a snapshot of
  `m_peers` under `m_peersMutex` and then calls `queueMessage` or `kick` of each
  *without* it. Only `addPeer`, `removePeerById` and
  `broadcastSynchronizedEvent` post while they hold the mutex.
- `queueMessage` never writes; it starts at most one `SendMessageCoroutine` per
  peer, which shares the socket with pings, kicks and errors under `m_writeLock`.
- The `Pinger` of a game visits the sessions of its map under the game's mutex:
  first `checkAllPeersPings` for all, then `pingAllPeers` for all. A peer it
  drops loses `m_socket`; the socket's own coroutine notices and cleans up.

### What is hard

Interleavings of several sockets, the pinger and the executor at the
granularity of critical sections; decisions taken under one lock and acted upon
later (`isEmptySession`, snapshots, the kick check, the two halves of
`handlePong` and `invalidateSocket`); objects that outlive their map entry;
nested mutexes; full queues; clients that send in pieces, stop reading or
vanish at any time. Nothing is persisted, so there is no crash recovery. The list,
each with its line and its properties, is under `hazards` in `PROJECT.json`.

## 2. The modules

| Module | Models | State and actions against the code |
|---|---|---|
| `LossyChannel` | nothing in the code: the abstract promise of a peer's outgoing path | a bounded FIFO channel that loses only when the link is down |
| `Room` | nothing in the code: the abstract promise of a session | peers enter and leave once, there is at most one host, and the host inside is told of exactly who enters and leaves, or its queue refuses that notice |
| `MessageQueue` | `Peer.cpp` `queueMessage`, `SendMessageCoroutine`, `invalidateSocket` | `queue`, `active`, `socket` are the fields; `pc` is where each coroutine stands. One action per critical section. `Channel` is the refinement mapping to `LossyChannel` |
| `Protocol` | `DTOs.hpp`, and the checks of `handleMessage` and its handlers | no state: `HandleMessage(m, host)` is what a message comes to, `Unreadable` what the mapper rejects, `Documented` the table of README.md:75-90 |
| `Connection` | `Peer.cpp` `readMessage`, `sendErrorAsync`, `onPing`, `ping`, `kick`, and who holds `m_writeLock` | EXTENDS `Protocol`. One `pc` per coroutine that writes; `buffer` is `m_messageBuffer`; a frame is two steps, begin and end |
| `Lobby` | `Registry.cpp`, `Game.cpp`, `addPeer`/`removePeerById` of `Session.cpp` | per socket a `pc` through `onAfterCreate` and `onBeforeDestroy`; per session *object* its fields. The map `sessions` holds objects, named by the socket that created them, because an object may outlive its entry. `notices` is what the host's queue took, `refused` what it did not. `TheRoom` maps each object to a room, ids to the peers they name |
| `LobbyPromises` | EXTENDS `Lobby` | statements of the documentation that do not hold |
| `Messages` | the message handlers of `Peer.cpp`, `getPeers`, `broadcastSynchronizedEvent` of `Session.cpp` | per peer a `pc`, the targets its handler still has (`todo`) and what it posts; `log` is what each queue accepted, in order, `lost` what it refused. `TheRoom` maps the host's queue to the notices of a room |
| `Ping` | the ping rules of `Session.cpp` and `Peer.cpp` | the pinger's four critical sections, and the two of `handlePong` |
| `Server` | `App.cpp`, `Runner.cpp`, `AppComponent.hpp` as far as it configures, `GamesConfig`, the controllers, `Registry` for several games | `stage` is how far `run` is; per socket a `pc` from the handshake to `onBeforeDestroy`. A `Game` is a number, `games` is `m_games` |
| `LockOrder` | every mutex section of every callback, in all files of `game/` and `GamesConfig.cpp` | a function is the set of its sections, each with the mutexes it lies inside of; threads run callbacks |
| `MCMessageQueue`, `MCConnection`, `MCLobby`, `MCMessages`, `MCPing`, `MCServer`, `MCLockOrder` | | constants and symmetry for TLC |
| `MessageQueueProofs`, `ConnectionProofs`, `LobbyProofs`, `NoticeProofs`, `MessagesProofs`, `PingProofs`, `ServerProofs`, `LockOrderProofs` | | theorems and their proofs |

How they compose. Every module takes of the others only what it can rely on.
`MessageQueue` implements `LossyChannel`: in order, no duplicates, no loss
while connected. `Lobby` and `Messages` therefore model a peer's queue by the
messages it accepted. Both implement `Room`: `Lobby` in how
sessions are found, created and deleted, where peers go by their ids; `Messages` in
all that is relayed and refused while peers come and go. Both let `queueMessage` refuse at any
time, because a queue's length depends on how fast its client reads. `Lobby` lets
the pinger drop any peer it visits; `Ping` says which ones it may. `Messages`
repeats joining and leaving of one session in short form, as `Lobby` has them;
`Server` has them as one step each, because it is about several games and the
requests that never get into a session. `Connection` uses `Protocol` for what
the reader does with a whole message, and lets the writers of other threads
start at any time; when they may is the subject of `MessageQueue`, `Ping` and
`Messages`. `LockOrder` has no data: it only says which mutex is locked inside
of which.

Atomicity. A step is one critical section with what precedes the next one.
`queueMessage` runs under the queue mutex throughout and takes `m_socketMutex`
inside it for one read, so it is one step; likewise each pass of a coroutine
until it suspends. `addPeer` posts the host's notice inside `m_peersMutex`, HELLO
outside: two steps in `Messages`. `createNewSession` holds the game's mutex over
`startPinger`: one step. That nested sections may be one step rests on
`LockOrder`: they cannot block each other for good.

Data. A message is its number of acceptance (`MessageQueue`), its kind,
sender and number (`Messages`), or its code and the shape of its payload
(`Protocol`); a timestamp is the number of its round (`Ping`); a message that comes in
pieces is their lengths (`Connection`). Texts and the JSON form are left out.
Error frames go to the sender alone: `Connection` has them, the others do not.

## 3. The runs

Passing runs; each property is stated in words above its definition.

| Run | Instance | What it shows |
|---|---|---|
| `MessageQueue` | room for 2, 5 messages, 2 coroutine identities, 2 invalidating threads | the `active` flag admits one sender and strands no message; order; no loss while connected; refinement of `LossyChannel`; waiting messages leave; the sender of a dead connection ends |
| `Connection` | a message limit of 3, pieces of 1 or 2, 3 inputs, 3 starts of other writers, every code and shape | frames under `m_writeLock` do not mix, and no coroutine keeps the lock; what is handled is what was sent; answers precede reading on; the documented table; a kick cuts off; a dead connection is let go of |
| `Lobby` | 2 creators, 2 joiners, 1 session id | pinger unique; ids never shadow each other; entries do not leak; the host's notices, some of which its queue may refuse, are sound and in order; the host never changes; each session object implements `Room`; every ended connection is cleaned up; in an empty game no entry and no pinger is left |
| `Messages` | a host, 2 clients, 2 messages, queues never full | per-sender order; in every queue what a peer causes lies within its visit: the host hears a client only between "joined" and "left", and what a peer sends does not come back to it before HELLO; only the host kicks |
| `Events` | 2 peers, 3 messages, 1 refused | one order of events, gaps only by overflow; a kicked peer leaves; the session implements `Room` although a queue refuses a message |
| `Ping` | one answering and one mute peer, limit 3, 6 rounds, pongs late, repeated or made up | only a pong with the latest timestamp counts, whoever it comes from; a drop is earned; the mute peer is dropped; the best ping is right |
| `Server` | 2 sockets; 7 sections and a missing one for each API; 2 configured games and 1 unknown | each API with its route at its address, or nothing; hosts and clients by their API; one `Game` per id; every request gets in or is told why |
| `LockOrder` | 3 threads, 1 game, 1 session, 2 peers | no circle of waiting threads |

Runs that show a disagreement between the documentation and the code (`findings`):

| Run | Statement | Why it fails |
|---|---|---|
| `LobbyTwoSessions` | a session id identifies one session (README.md:33, `Game.hpp:60`) | emptiness is decided in `removePeerById`, the entry is erased by id in `deleteSession`; a client that joins in between keeps a session that is no longer in the map, and the id can be used again |
| `LobbyUnknownClient` | the host is told of every new client (`DTOs.hpp:105`) | a session can be found before its host's `addPeer` |
| `PingFailures` | a failed ping is a ping without response (`GamesConfig.hpp:78`) | a peer that joined after the last ping is charged for it |
| `CloseFrame` | `m_writeLock` synchronizes writes to the socket (`Peer.hpp:65`) | the close frame of a fatal error is written after the lock was released |

`DropIsEarned` is what does hold in place of the third: all but one of the
failures are real. `OneFrameAtATime` is what holds in place of the last: frames
other than the close frame do not mix.

Disagreements met on the way for which a run would show nothing more:

- A session whose entry was erased (`LobbyTwoSessions`) is not pinged any more,
  against `GamesConfig.hpp:73`.
- `staticHost` (`GamesConfig.hpp:52`) and `maxPeers` (`GamesConfig.hpp:57`) are
  read by nothing.
- `GamesConfig.hpp:62` limits the size of a message; after a piece was refused the
  pieces that still fit are taken, and what is left is handled as a message.
- The TLS part of the client API's section is ignored when both APIs share an
  address.
- `NEW_HOST` is never sent; `ocid` is never echoed; `CLIENT_KICKED`, documented
  with the payload `null` (README.md:89), is sent with a text.

### Bounds

Two coroutine identities suffice because `SingleSender` says that a third could
never be used, and a second identity is what breaks it. Five messages fill
a queue of two, drain it and start a coroutine again. In `Lobby` both creators use
the same session id, as different ids share only the pinger; two of each make a session
that is deleted and created again while a joiner still holds the first, and one that
outlives its host. In `Messages` two messages let two handlers overlap and
one sender send twice; id lists name the sender, absentees and, in `Events`, a peer twice. In
`Ping` six rounds let a peer miss, answer, and miss until it is dropped. In
`Connection` three inputs reach the end of a message of which a piece was refused (its successor
takes a fourth; `MessagesWhole` is proved for any number), and with three starts all other writers wait while the
reader answers. In `Server` the sections share host, port, both or
neither, and each of the others lacks one thing; `AppComponent` ships one pair of
addresses and one game, but `Runner` and `Registry` are written for any. In
`LockOrder` three threads can close a circle of three. Runs that
must not use symmetry (liveness) do not. Deadlock is checked where a system
never stops (`MessageQueue`, `LockOrder`); the others end when all sockets are
gone or a bound is reached, so their configurations say `CHECK_DEADLOCK FALSE`.

### Fairness

Weak fairness, only for what the executor and the kernel do by themselves: a
started coroutine is run, a thread inside a handler goes on, `waitRepeat` calls the
pinger again, a closed connection is noticed by its reader. In
`Messages` a `KickCoroutine` that was started ends the connection. In
`Connection` the lock is taken under strong fairness, because
`oatpp::async::Lock` wakes those that wait for it in turn; a client
that takes no data answers no ping either, and the pinger drops it, which is
`SilentPeerIsDropped` of `Ping`. No client has to connect, send, answer or leave,
and no connection has to fail. `MessageQueue` takes it for granted that a write
ends in success or error; that a write on a dead or stalled connection does is
`DeadConnectionIsReleased` of `Connection`.

## 4. What is proved

All theorems hold for every value of the constants that satisfies the named
assumption of its module. These ask for bounds that are naturals, for sets that
contain what they must (`Host` is a peer, id lists are not empty sequences of
peers, texts are messages, a mutex has a kind) and that `None` is nothing else;
`PingAssumption` also that at least one failed ping is allowed.

- `MessageQueueProofs`: `TypeCorrect`, `OneSender`, `NothingStranded`, `InOrder`,
  `NoLoss` and `Refinement` (every step of `MessageQueue` is a step of
  `LossyChannel` or a stutter). `IInv` adds to the properties `FlagInv`, that
  the flag is up while a coroutine is alive and, while the socket is set, a coroutine
  is alive while the flag is up; `SocketInv`, that the connection is broken
  before the queue is cleared; and `OrderInv`, that everything delivered is older
  than the message on the wire, and that older than the queue. Without
  `FlagInv` a state with the flag up and nobody to pop satisfies all the
  properties but not their next step.
- `ConnectionProofs`: `TypeCorrect`, `FramesApart`, `MessagesWhole`,
  `ReaderKeepsUp`, `Served`. `AttachedInv` says that a connection without `m_socket` is dead,
  `OwedInv` what the reader still owes at each of its steps; without it the reader could
  be in the middle of an answer with a close frame that nothing leads to. `MessagesWhole` says nothing of a message
  of which a piece was refused: what is left of it is handled (section 3). `Served` follows the handlers
  code by code against the documented table (`DocumentedIsServed`, `ServedHasRole`).
- `LobbyProofs`: `TypeCorrect`, `MembersAreOpen`, `HostNeverChanges`,
  `PingerMatchesFlag` and `NoLeakedEntry`. `IInv` is the conjunction of the type, of
  `SessionInv` (who holds which session object), `EntryInv` (the map holds an object
  under its own id), `IdInv` (peer ids below the counter and unique per session) and
  `MemberInv` (`m_peers` is exactly the peers between `addPeer` and
  `removePeerById`, and `m_host` is the creator among them). `IdInv` is what makes
  `removePeerById`, which erases by id, erase its own peer and no other;
  `EntryInv` is what makes the erasure by id in `deleteSession` harmless for leaks,
  though not for sessions in use (`LobbyTwoSessions`).
- `NoticeProofs`, on top of it: `NoticesAreOrdered` and `NoGhosts`, the latter but for
  departures the host's full queue refused. `EarlyInv`
  says that nothing is told before the host is a member, `ToldInv` that nothing is told, or refused, of
  ids not given yet and no departure of a peer that is still there. What a step tells or
  withholds is one notice at most (`NotifyEither`, `NotifyTells`, `NotifyLoses`). Both theorems
  need that ids are unique. `SessionsAreRooms` shows each step of `Lobby` to be a step
  of `Room` or a stutter. It needs more: `AgeInv` says that the ids of *all* peers that
  ever were in a session differ. Were an id given again after its owner left, the
  members would still be unique, but a new notice could not be told from an old one.
- `MessagesProofs`: `EventOrder`, `SenderOrdered`, `VisitBracketed`, `Gaps`,
  `TypeCorrect`, `HostKicks`, `SessionIsRoom`.
  `LogInv` relates every message in a queue to its sender's thread and the counters (`Sound`),
  and any two messages of a queue to each other (`Follows`); `GapInv` says what events
  each peer was told of. A step that posts nothing keeps them because threads
  only move forward (`Threads`); one that posts keeps them if its message follows on
  what is sound now (`PostedLog`). The handlers' targets play no part: the orders
  hold whatever snapshot they work on. For HELLO, `LogInv` says that of a peer that has
  not got it yet only "joined" is in any queue. `RestInv` has the other types, for which
  `getPeers` must return peers: were it otherwise, there would be a first id at which
  it goes wrong (`Least`, from the library's fact that the natural numbers are well
  founded, in place of an induction). It also has `KickInv`, that a handler that was allowed to kick is still the
  host's, from which `HostKicks` follows. `PresentInv`, that a peer is in `m_peers` from
  `addPeer` to `removePeerById` wherever its handler is, makes `SessionIsRoom` a matter of
  these two steps: no other posts notices (`OthersStay`).
- `PingProofs`: `TypeCorrect`, `BestIsRight`, `DropsAreEarned`, `AnswersCount`,
  `NotCharged`. `RoundInv` is what the pinger knows between its sections, `PongInv`
  what the reader knows between its two, that the pong it holds is neither older than what
  the peer was credited with nor newer than the latest ping (a client may name any
  timestamp, also one it was not sent: `reportPeerPong` compares it with the latest only), `SparedInv` that who answered has no
  failures, and `ChargeInv` that a peer has at most one failure more than pings it
  left unanswered: the one it may be charged with when it joins between two rounds.
- `ServerProofs`: `TypeCorrect`, `ServedWhereConfigured`, `RolesByApi`, `OneGame`.
  `RunnerInv` says what `Runner` has built at each stage, with all its routes, `RequestInv` which API a request came
  by and which parameters it has, `SessionInv` that a socket's session is its own exactly
  if it asked to create one.
- `LockOrderProofs`: `TypeCorrect` and `DeadlockFree`, for any number of threads,
  sessions and peers. The kinds of mutexes have an order (`Rank`), every function locks
  inside a section only kinds that come later. Who holds what another thread waits for
  waits itself for a later kind, so that a circle of waiting threads would have no last kind.

Some of these results are properties of no run: that `MessageQueue` delivers in
order (`InOrder`), which is part of `ImplementsChannel` there, that an answered ping is
not charged (`NotCharged`), and the types of `Lobby`, `Messages`, `Server` and
`LockOrder`.

Only model-checked: all liveness (`QueuedMessageLeaves`,
`SenderEndsAfterDisconnect`, `PeerLeaves`, `EverythingEnds`, `KickedPeerLeaves`,
`SilentPeerIsDropped`, `DeadConnectionIsReleased`, `KickCutsOff`,
`RequestIsAnswered`), which is out of reach of this prover. Every invariant, every
action property and every refinement that a passing run checks is also proved.

## 5. Running

    tlc -workers 2 -config MCLobby.cfg MCLobby
    tlapm LobbyProofs.tla

`PROJECT.json` names the module and the configuration of each run, the mutants of
the code each property detects, and the source lines behind each definition.

## 6. Plan

Done, in this order: the outgoing queue, the session life cycle, the handlers, the
ping rules; then the frames on one socket and the protocol, the lock order, the
server around the sessions, and the proofs of all of them. Then
what `getPeers` returns, the place of HELLO in the queues, and `Room`, the
abstract session that `Lobby` and `Messages` implement. What is left:

1. What `Room` promises, proved of `Room` alone: who was told of a peer that left was
   told that it came, or missed it; the view of a host that misses nothing is who is
   present since it came. `Lobby` and `Messages` then have it by refinement.
2. An abstract reader for `Connection`, that takes messages one by one and serves or
   refuses each as a whole, which the pieces, the buffer and the lock would implement.

## 7. Not modelled

- `Session::setHost`, `Session::isHostPeer`, `Peer::sendMessageAsync`: never called.
- Loading and saving of `GamesConfig`: the program gives it no file. What follows `join` in
  `run`: never reached.
- The executor, object mappers and connection handler that `AppComponent` creates:
  library objects without state of this code.
- A message without a code but with a payload, and the JSON document `null`: what the
  library makes of them is not in this repository.
- oatpp itself: the executor, `oatpp::async::Lock` and the WebSocket appear only
  through the assumptions stated under fairness.
