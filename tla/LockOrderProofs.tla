--------------------------- MODULE LockOrderProofs ---------------------------
(***************************************************************************)
(* Why the threads of LockOrder cannot wait for each other in a circle:    *)
(* the kinds of mutexes have an order, every function locks inside a       *)
(* section only kinds that come later, and so among threads that wait for  *)
(* each other there would be one that waits for a kind beyond the last.    *)
(***************************************************************************)
EXTENDS LockOrder, TLAPS

Rank(kind) ==
  CASE kind = "registry" -> 1
    [] kind = "configs"  -> 2
    [] kind = "game"     -> 3
    [] kind = "pings"    -> 4
    [] kind = "peers"    -> 5
    [] kind = "ping"     -> 6
    [] kind = "queue"    -> 7
    [] kind = "socket"   -> 8

\* All sections of a function lie inside of lower kinds only.
Ordered(sections) ==
  \A s \in sections :
    /\ s.kind \in Kinds
    /\ s.inside \subseteq Kinds
    /\ \A k \in s.inside : Rank(k) < Rank(s.kind)

\* ... and it locks nothing below a kind.
Above(kind, sections) == \A s \in sections : Rank(kind) < Rank(s.kind)

LEMMA RankType == \A k \in Kinds : Rank(k) \in 1 .. 8
  BY DEF Kinds, Rank

LEMMA LockOrdered ==
  ASSUME NEW k \in Kinds
  PROVE  Ordered(Lock(k))
  BY DEF Ordered, Lock

LEMMA UnderOrdered ==
  ASSUME NEW k \in Kinds, NEW rest, Ordered(rest), Above(k, rest)
  PROVE  Ordered(Under(k, rest))
<1> SUFFICES ASSUME NEW s \in Under(k, rest)
             PROVE  /\ s.kind \in Kinds
                    /\ s.inside \subseteq Kinds
                    /\ \A j \in s.inside : Rank(j) < Rank(s.kind)
  BY DEF Ordered
<1>1. CASE s \in Lock(k)
  BY <1>1 DEF Lock
<1>2. CASE s \in {[inside |-> r.inside \union {k}, kind |-> r.kind] :
                    r \in rest}
  <2> PICK r \in rest :
        s = [inside |-> r.inside \union {k}, kind |-> r.kind]
    BY <1>2
  <2> QED
    BY DEF Ordered, Above
<1> QED
  BY <1>1, <1>2 DEF Under

LEMMA UnionOrdered ==
  ASSUME NEW A, NEW B, Ordered(A), Ordered(B)
  PROVE  Ordered(A \union B)
  BY DEF Ordered

LEMMA AboveLock ==
  ASSUME NEW k \in Kinds, NEW j, Rank(j) < Rank(k)
  PROVE  Above(j, Lock(k))
  BY DEF Above, Lock

LEMMA AboveUnder ==
  ASSUME NEW k \in Kinds, NEW j, NEW rest, Rank(j) < Rank(k), Above(j, rest)
  PROVE  Above(j, Under(k, rest))
  BY DEF Above, Under, Lock

LEMMA AboveUnion ==
  ASSUME NEW j, NEW A, NEW B, Above(j, A), Above(j, B)
  PROVE  Above(j, A \union B)
  BY DEF Above

\* The functions of Peer, from the inside out.
LEMMA PeerOrdered ==
  /\ Ordered(SocketSection) /\ Above("peers", SocketSection)
                            /\ Above("game", SocketSection)
  /\ Ordered(QueueMessage)  /\ Above("peers", QueueMessage)
  /\ Ordered(SendQueued)
  /\ Ordered(InvalidateSocket)
  /\ Ordered(CheckPingsRules) /\ Above("peers", CheckPingsRules)
                              /\ Above("game", CheckPingsRules)
<1> DEFINE ranks == /\ Rank("game") = 3
                    /\ Rank("peers") = 5
                    /\ Rank("ping") = 6
                    /\ Rank("queue") = 7
                    /\ Rank("socket") = 8
<1>0. /\ {"game", "peers", "ping", "queue", "socket"} \subseteq Kinds
      /\ ranks
  BY DEF Kinds, Rank
<1>1. /\ Ordered(Lock("socket")) /\ Ordered(Lock("queue"))
      /\ \A j \in {"game", "peers", "ping"} :
           Above(j, Lock("socket")) /\ Above(j, Lock("queue"))
      /\ Above("queue", Lock("socket"))
  <2> USE <1>0
  <2>1. Ordered(Lock("socket")) /\ Ordered(Lock("queue"))
    BY LockOrdered
  <2>2. \A j \in {"game", "peers", "ping", "queue"} : Above(j, Lock("socket"))
    BY AboveLock
  <2>3. \A j \in {"game", "peers", "ping"} : Above(j, Lock("queue"))
    BY AboveLock
  <2> QED
    BY <2>1, <2>2, <2>3
<1>2. /\ Ordered(QueueMessage)
      /\ Above("peers", QueueMessage)
  BY <1>0, <1>1, UnderOrdered, AboveUnder DEF QueueMessage
<1>3. /\ Ordered(InvalidateSocket)
      /\ \A j \in {"game", "peers", "ping"} : Above(j, InvalidateSocket)
  BY <1>1, UnionOrdered, AboveUnion DEF InvalidateSocket
<1>4. /\ Ordered(CheckPingsRules)
      /\ Above("peers", CheckPingsRules)
      /\ Above("game", CheckPingsRules)
  BY <1>0, <1>3, UnderOrdered, AboveUnder DEF CheckPingsRules
<1> QED
  BY <1>1, <1>2, <1>3, <1>4 DEF SocketSection, SendQueued

\* The functions of Session, Game and Registry.
LEMMA CallbacksOrdered == \A c \in Callbacks : Ordered(c)
<1>0. /\ {"registry", "configs", "game", "pings", "peers", "ping"}
           \subseteq Kinds
      /\ Rank("registry") = 1 /\ Rank("configs") = 2 /\ Rank("game") = 3
      /\ Rank("pings") = 4 /\ Rank("peers") = 5
  BY DEF Kinds, Rank
<1>1. /\ Ordered(AddPeer) /\ Ordered(RemovePeerById)
      /\ Ordered(BroadcastSynchronizedEvent)
  BY <1>0, PeerOrdered, UnderOrdered, UnionOrdered
     DEF AddPeer, RemovePeerById, BroadcastSynchronizedEvent
<1>2. /\ Ordered(Lock("pings")) /\ Above("game", Lock("pings"))
      /\ Ordered(FindPeers) /\ Ordered(ReportPeerPong)
      /\ Ordered(GameSection) /\ Ordered(Lock("ping"))
  BY <1>0, LockOrdered, AboveLock DEF FindPeers, ReportPeerPong, GameSection
<1>3. Ordered(CheckAllPeersPings) /\ Above("game", CheckAllPeersPings)
  <2>1. /\ Ordered(Under("peers", CheckPingsRules))
        /\ Above("game", Under("peers", CheckPingsRules))
    BY <1>0, PeerOrdered, UnderOrdered, AboveUnder
  <2> QED
    BY <1>2, <2>1, UnionOrdered, AboveUnion DEF CheckAllPeersPings
<1>4. Ordered(PingAllPeers) /\ Above("game", PingAllPeers)
  <2>1. /\ Ordered(Under("peers", SocketSection))
        /\ Above("game", Under("peers", SocketSection))
    BY <1>0, PeerOrdered, UnderOrdered, AboveUnder
  <2> QED
    BY <1>2, <2>1, UnionOrdered, AboveUnion DEF PingAllPeers
<1>5. Ordered(PingerAct)
  <2>1. /\ Ordered(CheckAllPeersPings \union PingAllPeers)
        /\ Above("game", CheckAllPeersPings \union PingAllPeers)
    BY <1>3, <1>4, UnionOrdered, AboveUnion
  <2> QED
    BY <1>0, <2>1, UnderOrdered DEF PingerAct
<1>6. Ordered(GetGameById)
  BY <1>0, LockOrdered, AboveLock, UnderOrdered DEF GetGameById
<1>7. Ordered(OnAfterCreate) /\ Ordered(OnBeforeDestroy)
  BY <1>1, <1>2, <1>6, PeerOrdered, UnionOrdered
     DEF OnAfterCreate, OnBeforeDestroy
<1>8. Ordered(ReadMessage)
  BY <1>1, <1>2, PeerOrdered DEF ReadMessage, Ordered
<1> QED
  BY <1>5, <1>7, <1>8, PeerOrdered DEF Callbacks

-----------------------------------------------------------------------------
LEMMA TypeInit == Init => TypeOK
  BY LockOrderAssumption DEF Init, TypeOK, WantsSection, Running

\* A step of one thread changes what that thread holds and no other.
LEMMA HeldStep ==
  ASSUME TypeOK, NEW t \in Threads, NEW m \in Mutexes,
         \/ owner[m] = None /\ owner' = [owner EXCEPT ![m] = t]
         \/ owner[m] = t /\ owner' = [owner EXCEPT ![m] = None]
  PROVE  \A u \in Threads \ {t} : HeldKinds(u)' = HeldKinds(u)
  BY LockOrderAssumption DEF TypeOK, HeldKinds, Held

LEMMA TypeStep == TypeOK /\ [Next]_vars => TypeOK'
<1> SUFFICES ASSUME TypeOK, [Next]_vars
             PROVE  TypeOK'
  OBVIOUS
<1> USE LockOrderAssumption DEF TypeOK
<1>1. ASSUME NEW t \in Threads, Call(t)
      PROVE  TypeOK'
  BY <1>1 DEF Call, WantsSection, Running, HeldKinds, Held
<1>2. ASSUME NEW t \in Threads, Acquire(t)
      PROVE  TypeOK'
  <2>1. wants[t] \in Mutexes
    BY <1>2 DEF Acquire, Running
  <2>2. \A u \in Threads \ {t} : HeldKinds(u)' = HeldKinds(u)
    BY <1>2, <2>1, HeldStep DEF Acquire
  <2> QED
    BY <1>2, <2>1, <2>2 DEF Acquire, WantsSection, Running
<1>3. ASSUME NEW t \in Threads, NEW m \in Mutexes, Request(t, m)
      PROVE  TypeOK'
  BY <1>3 DEF Request, WantsSection, Running, HeldKinds, Held
<1>4. ASSUME NEW t \in Threads, NEW m \in Mutexes, Release(t, m)
      PROVE  TypeOK'
  <2>1. owner[m] = t
    BY <1>4 DEF Release, Held
  <2>2. \A u \in Threads \ {t} : HeldKinds(u)' = HeldKinds(u)
    BY <1>4, <2>1, HeldStep DEF Release
  <2> QED
    BY <1>4, <2>2 DEF Release, WantsSection, Running
<1>5. CASE UNCHANGED vars
  BY <1>5 DEF vars, WantsSection, Running, HeldKinds, Held
<1> QED
  BY <1>1, <1>2, <1>3, <1>4, <1>5 DEF Next

\* All variables keep their types, and a thread waits for a mutex only where
\* the code of its callback locks it.
THEOREM TypeCorrect == Spec => []TypeOK
  BY TypeInit, TypeStep, PTL DEF Spec

\* What a waiting thread holds ranks below what it waits for.
LEMMA HeldBelow ==
  ASSUME TypeOK, NEW t \in Threads, ~Running(t), NEW m \in Held(t)
  PROVE  /\ m.kind \in Kinds
         /\ wants[t] \in Mutexes
         /\ wants[t].kind \in Kinds
         /\ Rank(m.kind) < Rank(wants[t].kind)
<1> DEFINE s == [inside |-> HeldKinds(t), kind |-> wants[t].kind]
<1>1. s \in callback[t] /\ m.kind \in s.inside
  BY DEF TypeOK, WantsSection, HeldKinds
<1>2. Ordered(callback[t])
  BY CallbacksOrdered DEF TypeOK, Ordered
<1>3. Rank(m.kind) < Rank(s.kind)
  BY <1>1, <1>2 DEF Ordered
<1> QED
  BY <1>3, LockOrderAssumption DEF TypeOK, Running, Held

\* In a circle every thread that waits for a mutex waits for another thread
\* that waits for a mutex of a higher kind.
LEMMA CircleClimbs ==
  ASSUME TypeOK, NEW S \in SUBSET Threads,
         \A t \in S : ~Running(t) /\ owner[wants[t]] \in S,
         NEW t \in S
  PROVE  /\ Rank(wants[t].kind) \in 1 .. 8
         /\ \E u \in S : Rank(wants[t].kind) < Rank(wants[u].kind)
<1> DEFINE u == owner[wants[t]]
<1>1. wants[t] \in Mutexes
  BY DEF TypeOK, Running
<1>2. u \in S /\ wants[t] \in Held(u)
  BY <1>1 DEF Held
<1>3. Rank(wants[t].kind) < Rank(wants[u].kind)
  BY <1>2, HeldBelow
<1> QED
  BY <1>1, <1>2, <1>3, RankType, LockOrderAssumption

LEMMA NoCircle == TypeOK => NoDeadlock
<1> SUFFICES ASSUME TypeOK,
                    NEW S \in SUBSET Threads,
                    S # {},
                    \A t \in S : ~Running(t) /\ owner[wants[t]] \in S
             PROVE  FALSE
  BY DEF NoDeadlock
<1> DEFINE R(t) == Rank(wants[t].kind)
<1>0. \A t \in S : R(t) \in 1 .. 8 /\ \E u \in S : R(t) < R(u)
  BY CircleClimbs
<1> HIDE DEF R
<1>1. \E t \in S : R(t) >= 1
  BY <1>0
<1>2. \E t \in S : R(t) >= 2
  BY <1>0, <1>1
<1>3. \E t \in S : R(t) >= 3
  BY <1>0, <1>2
<1>4. \E t \in S : R(t) >= 4
  BY <1>0, <1>3
<1>5. \E t \in S : R(t) >= 5
  BY <1>0, <1>4
<1>6. \E t \in S : R(t) >= 6
  BY <1>0, <1>5
<1>7. \E t \in S : R(t) >= 7
  BY <1>0, <1>6
<1>8. \E t \in S : R(t) >= 8
  BY <1>0, <1>7
<1> QED
  BY <1>0, <1>8

\* Whatever the threads run, and on however many games, sessions and peers,
\* no set of them waits for each other.
THEOREM DeadlockFree == Spec => []NoDeadlock
  BY TypeCorrect, NoCircle, PTL
=============================================================================
