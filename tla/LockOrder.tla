------------------------------ MODULE LockOrder ------------------------------
(***************************************************************************)
(* The mutexes of the server and the order in which its threads take them. *)
(*                                                                         *)
(* All locking is scoped (lock_guard), so what a function locks is a set   *)
(* of sections: a section names the kind of a mutex and the kinds that are *)
(* held around it. The sections of a function are put together from those  *)
(* of the functions it calls. A thread of the executor runs one callback   *)
(* at a time; between two callbacks it holds nothing, and waiting for      *)
(* m_writeLock (module Connection) does not block a thread.                *)
(***************************************************************************)
EXTENDS Naturals, FiniteSets

CONSTANTS
  Threads,
  Mutexes,       \* records [kind, of]: of is the object that has the mutex
  None

Kinds ==
  {"registry",   \* Registry::m_mutex
   "configs",    \* GamesConfig::m_mutex
   "game",       \* Game::State::mutex
   "pings",      \* Session::m_pingMutex
   "peers",      \* Session::m_peersMutex
   "ping",       \* Peer::m_pingMutex
   "queue",      \* Peer::MessageQueue::mutex
   "socket"}     \* Peer::m_socketMutex

KindsOfPeer == {"ping", "queue", "socket"}

ASSUME LockOrderAssumption ==
  /\ \A m \in Mutexes : m.kind \in Kinds
  /\ None \notin Threads \union Mutexes

-----------------------------------------------------------------------------
(* Sections                                                                *)

Lock(kind) == {[inside |-> {}, kind |-> kind]}

\* The sections of a function that locks kind and then does the rest.
Under(kind, rest) ==
  Lock(kind) \union
    {[inside |-> s.inside \union {kind}, kind |-> s.kind] : s \in rest}

\* Peer.cpp
SocketSection == Lock("socket")        \* ping, kick, sendErrorAsync

QueueMessage == Under("queue", Lock("socket"))

SendQueued == Lock("queue")

\* Mutant of InvalidateSocket: one section, with m_socket locked throughout.
InvalidateInOneSection == Under("socket", Lock("queue"))

InvalidateSocket == Lock("socket") \union Lock("queue")

CheckPingsRules == Under("ping", InvalidateSocket)

\* Session.cpp
AddPeer == Under("peers", QueueMessage) \union QueueMessage

RemovePeerById == Under("peers", QueueMessage)

BroadcastSynchronizedEvent == Under("peers", QueueMessage)

FindPeers == Lock("peers")             \* getHost, getPeers, getAllPeers

CheckAllPeersPings == Lock("pings") \union Under("peers", CheckPingsRules)

PingAllPeers == Lock("pings") \union Under("peers", SocketSection)

ReportPeerPong == Lock("pings")

\* Game.cpp: createNewSession, findSession, deleteSession.
GameSection == Lock("game")

PingerAct == Under("game", CheckAllPeersPings \union PingAllPeers)

\* Registry.cpp, GamesConfig.cpp
GetGameById == Under("registry", Lock("configs"))

OnAfterCreate == GetGameById \union GameSection \union AddPeer

OnBeforeDestroy ==
  InvalidateSocket \union RemovePeerById \union GetGameById \union GameSection

\* handleMessage with all its handlers, and the errors it answers with.
ReadMessage ==
  UNION {FindPeers, QueueMessage, SocketSection, BroadcastSynchronizedEvent,
         ReportPeerPong, Lock("ping")}

\* What a thread of the executor is called upon to run.
Callbacks ==
  {OnAfterCreate, OnBeforeDestroy, ReadMessage, SendQueued, PingerAct}

-----------------------------------------------------------------------------
VARIABLES
  callback,      \* per thread: the sections of what it runs
  owner,         \* per mutex: the thread that holds it
  wants          \* per thread: the mutex it waits for

vars == <<callback, owner, wants>>

Init ==
  /\ callback = [t \in Threads |-> {}]
  /\ owner = [m \in Mutexes |-> None]
  /\ wants = [t \in Threads |-> None]

Held(t) == {m \in Mutexes : owner[m] = t}

HeldKinds(t) == {m.kind : m \in Held(t)}

Running(t) == wants[t] = None

\* The executor gives a thread something to run.
Call(t) ==
  /\ Running(t) /\ Held(t) = {}
  /\ \E c \in Callbacks : callback' = [callback EXCEPT ![t] = c]
  /\ UNCHANGED <<owner, wants>>

\* A function that holds a mutex of a peer locks others of that peer only.
SamePeer(t, m) ==
  \A n \in Held(t) : {m.kind, n.kind} \subseteq KindsOfPeer => m.of = n.of

\* The thread comes to the beginning of a section.
Request(t, m) ==
  /\ Running(t)
  /\ [inside |-> HeldKinds(t), kind |-> m.kind] \in callback[t]
  /\ SamePeer(t, m)
  /\ wants' = [wants EXCEPT ![t] = m]
  /\ UNCHANGED <<callback, owner>>

\* mutex::lock returns.
Acquire(t) ==
  /\ ~Running(t)
  /\ owner[wants[t]] = None
  /\ owner' = [owner EXCEPT ![wants[t]] = t]
  /\ wants' = [wants EXCEPT ![t] = None]
  /\ UNCHANGED callback

\* The end of the innermost section.
Release(t, m) ==
  /\ Running(t)
  /\ m \in Held(t)
  /\ [inside |-> HeldKinds(t) \ {m.kind}, kind |-> m.kind] \in callback[t]
  /\ owner' = [owner EXCEPT ![m] = None]
  /\ UNCHANGED <<callback, wants>>

Next ==
  \E t \in Threads :
    \/ Call(t)
    \/ Acquire(t)
    \/ \E m \in Mutexes : Request(t, m) \/ Release(t, m)

Spec == Init /\ [][Next]_vars

-----------------------------------------------------------------------------
\* The mutex a thread waits for is one that its callback locks inside of
\* exactly those the thread holds.
WantsSection ==
  \A t \in Threads :
    ~Running(t) =>
      [inside |-> HeldKinds(t), kind |-> wants[t].kind] \in callback[t]

TypeOK ==
  /\ callback \in [Threads -> Callbacks \union {{}}]
  /\ owner \in [Mutexes -> Threads \union {None}]
  /\ wants \in [Threads -> Mutexes \union {None}]
  /\ WantsSection

\* No threads wait for each other, nor one for itself: whatever callbacks run
\* at the same time, on whichever game, session and peers.
NoDeadlock ==
  ~ \E S \in (SUBSET Threads) \ {{}} :
      \A t \in S : ~Running(t) /\ owner[wants[t]] \in S
=============================================================================
