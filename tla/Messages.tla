------------------------------ MODULE Messages ------------------------------
(***************************************************************************)
(* Messages between the peers of one Session: the handlers of Peer that a  *)
(* client's message reaches, interleaved with peers that join and leave.   *)
(*                                                                         *)
(* A handler takes a snapshot of its targets under m_peersMutex and then   *)
(* works through it without the lock, one target per step. Only            *)
(* addPeer, removePeerById and broadcastSynchronizedEvent post while they  *)
(* hold the lock. One socket handles one message at a time, and starts     *)
(* only after onAfterCreate_NonBlocking returned.                          *)
(*                                                                         *)
(* MessageQueue says how the queue of a peer gets to the client. Here log  *)
(* is what the queue accepted, in order; as that depends on the speed of   *)
(* the client, any queue may be full at any time and refuse a message.     *)
(***************************************************************************)
EXTENDS Integers, SequencesExt

CONSTANTS
  Peers,
  Host,          \* the peer that joins with isHost
  None,
  IdLists,       \* lists of peer ids in payloads: repeated, own, absent ones
  MaxSends,      \* bound on the number of messages peers send in all
  MaxLost        \* bound on the number of messages full queues refuse

ASSUME MessagesAssumption ==
  /\ Host \in Peers
  /\ None \notin Peers
  /\ IdLists \subseteq Seq(Peers) \ {<<>>}
  /\ MaxLost \in Nat
  /\ MaxSends \in Nat

VARIABLES
  members,       \* Session::m_peers
  host,          \* Session::m_host
  nextEvent,     \* Session::m_synchronizedEventId
  log,           \* per peer: the messages queueMessage accepted, in order
  lost,          \* per peer: the messages it refused for want of room
  sockets,       \* peers whose m_socket is set
  kicked,        \* peers whose KickCoroutine was started
  pc,            \* per peer: what its thread does
  todo,          \* per peer: targets its handler has not dealt with
  carried,       \* per peer: the message its handler posts to them
  sends          \* number of messages handled so far

sessionVars == <<members, host, nextEvent>>
queueVars   == <<log, lost>>
kickVars    == <<sockets, kicked>>
threadVars  == <<pc, todo, carried>>
vars == <<sessionVars, queueVars, kickVars, threadVars, sends>>

Message(kind, from, n) == [kind |-> kind, from |-> from, n |-> n]

NoMessage == Message("none", None, 0)

Init ==
  /\ members = {}
  /\ host = None
  /\ nextEvent = 0
  /\ log = [p \in Peers |-> <<>>]
  /\ lost = [p \in Peers |-> {}]
  /\ sockets = Peers
  /\ kicked = {}
  /\ pc = [p \in Peers |-> "out"]
  /\ todo = [p \in Peers |-> <<>>]
  /\ carried = [p \in Peers |-> NoMessage]
  /\ sends = 0

Go(p, label) == pc' = [pc EXCEPT ![p] = label]

\* Mutant of Accept: pushes at the end at which the queue is popped.
AcceptFirst(q, m) == <<m>> \o log[q]

Accept(q, m) == Append(log[q], m)

\* queueMessage of each peer in a set.
Post(targets, m) ==
  \E full \in SUBSET targets :
    /\ log' = [q \in Peers |-> IF q \in targets \ full
                                THEN Accept(q, m) ELSE log[q]]
    /\ lost' = [q \in Peers |-> IF q \in full
                                 THEN lost[q] \union {m} ELSE lost[q]]
    /\ Cardinality(UNION {lost'[q] : q \in Peers}) <= MaxLost

-----------------------------------------------------------------------------
(* Joining and leaving                                                     *)

\* Mutant of IsHost: whoever joins is the host.
IsHostAlways(p) == TRUE

IsHost(p) == p = Host

HostIfAny == IF host = None THEN {} ELSE {host}

\* Session::addPeer, the section under m_peersMutex.
AddPeer(p) ==
  /\ pc[p] = "out"
  /\ members' = members \union {p}
  /\ \/ /\ IsHost(p)
        /\ host' = p
        /\ UNCHANGED queueVars
     \/ /\ ~IsHost(p)
        /\ Post(HostIfAny, Message("joined", p, 0))
        /\ UNCHANGED host
  /\ Go(p, "hello")
  /\ UNCHANGED <<nextEvent, kickVars, todo, carried, sends>>

\* Session::addPeer, the rest.
SayHello(p) ==
  /\ pc[p] = "hello"
  /\ Post({p}, Message("hello", p, 0))
  /\ Go(p, "ready")
  /\ UNCHANGED <<sessionVars, kickVars, todo, carried, sends>>

\* The pinger calls invalidateSocket of a member, whatever its thread does.
DropPeer(p) ==
  /\ p \in members \intersect sockets
  /\ sockets' = sockets \ {p}
  /\ UNCHANGED <<sessionVars, queueVars, kicked, threadVars, sends>>

\* The connection has ended, at the client's will, by the pinger or by a
\* KickCoroutine, and onBeforeDestroy_NonBlocking calls invalidateSocket.
\* The handler of the last message has returned.
Close(p) ==
  /\ pc[p] = "ready"
  /\ sockets' = sockets \ {p}
  /\ Go(p, "closing")
  /\ UNCHANGED <<sessionVars, queueVars, kicked, todo, carried, sends>>

\* Mutant of Others: the peer is not erased.
OthersAndSelf(p) == members

Others(p) == members \ {p}

\* Session::removePeerById
RemovePeer(p) ==
  /\ pc[p] = "closing"
  /\ members' = Others(p)
  /\ \/ /\ host = p
        /\ host' = None
        /\ UNCHANGED queueVars
     \/ /\ host # p
        /\ Post(HostIfAny, Message("left", p, 0))
        /\ UNCHANGED host
  /\ Go(p, "left")
  /\ UNCHANGED <<nextEvent, kickVars, todo, carried, sends>>

-----------------------------------------------------------------------------
(* Handlers                                                                *)

\* readMessage calls handleMessage: the thread is in no other handler.
Handle(p) ==
  /\ pc[p] = "ready"
  /\ sends < MaxSends
  /\ sends' = sends + 1

\* Session::getPeers: the loop over the ids, those of no member left out.
GetPeers(ids) ==
  LET result[i \in 0 .. Len(ids)] ==
        IF i = 0 THEN <<>>
        ELSE IF ids[i] \in members THEN Append(result[i - 1], ids[i])
        ELSE result[i - 1]
  IN  result[Len(ids)]

Relay(p, label, targets, m) ==
  /\ todo' = [todo EXCEPT ![p] = targets]
  /\ carried' = [carried EXCEPT ![p] = m]
  /\ Go(p, label)

\* Session::getAllPeers, in the order of a hash map.
GetAllPeers == SetToSeqs(members)

\* handleMessage and the handlers it calls: the code is missing or unknown,
\* or the payload is not what it should be. The sender alone gets an error.
\* A pong is the subject of Ping.
HandleOther(p) ==
  /\ Handle(p)
  /\ UNCHANGED <<sessionVars, queueVars, kickVars, threadVars>>

\* handleBroadcast
HandleBroadcast(p) ==
  /\ Handle(p)
  /\ \E order \in GetAllPeers :
       Relay(p, "relay", order, Message("msg", p, sends'))
  /\ UNCHANGED <<sessionVars, queueVars, kickVars>>

\* handleDirectMessage
HandleDirectMessage(p) ==
  /\ Handle(p)
  /\ \E ids \in IdLists :
       Relay(p, "relay", GetPeers(ids), Message("msg", p, sends'))
  /\ UNCHANGED <<sessionVars, queueVars, kickVars>>

\* handleClientMessage. Without a host, and from the host, it is an error.
HandleClientMessage(p) ==
  /\ Handle(p)
  /\ \/ /\ host \notin {None, p}
        /\ Relay(p, "relay", <<host>>, Message("msg", p, sends'))
     \/ /\ host \in {None, p}
        /\ UNCHANGED threadVars
  /\ UNCHANGED <<sessionVars, queueVars, kickVars>>

\* Mutant of NextEvent: the id is not counted up.
SameEvent == nextEvent

NextEvent == nextEvent + 1

\* Mutant of EventTargets: the sender is left out, as in a broadcast.
EventTargetsButSender(p) == members \ {p}

EventTargets(p) == members

\* handleSynchronizedEvent: broadcastSynchronizedEvent under m_peersMutex.
HandleSynchronizedEvent(p) ==
  /\ Handle(p)
  /\ nextEvent' = NextEvent
  /\ Post(EventTargets(p), Message("event", p, nextEvent))
  /\ UNCHANGED <<members, host, kickVars, threadVars>>

\* Mutant of MayKick: it is enough that there is a host.
MayKickIfHosted(p) == host # None

MayKick(p) == host = p

\* handleKickMessage, getHost and the checks. Anybody else gets an error.
HandleKickMessage(p) ==
  /\ Handle(p)
  /\ \/ /\ MayKick(p)
        /\ Go(p, "mayKick")
     \/ /\ ~MayKick(p)
        /\ UNCHANGED pc
  /\ UNCHANGED <<sessionVars, queueVars, kickVars, todo, carried>>

\* handleKickMessage, getPeers, unless the payload is no list of ids.
ChooseKicked(p) ==
  /\ pc[p] = "mayKick"
  /\ \/ \E ids \in IdLists :
          Relay(p, "kick", GetPeers(ids), Message("kicked", p, 0))
     \/ /\ Go(p, "ready")
        /\ UNCHANGED <<todo, carried>>
  /\ UNCHANGED <<sessionVars, queueVars, kickVars, sends>>

Return(p) ==
  /\ carried' = [carried EXCEPT ![p] = NoMessage]
  /\ Go(p, "ready")

\* The loop goes on, or the handler returns.
NextTarget(p) ==
  /\ todo' = [todo EXCEPT ![p] = Tail(todo[p])]
  /\ IF Len(todo[p]) > 1 THEN UNCHANGED <<carried, pc>> ELSE Return(p)

\* The loop body of handleBroadcast, handleDirectMessage and
\* handleClientMessage.
RelayNext(p) ==
  /\ pc[p] = "relay"
  /\ todo[p] # <<>>
  /\ IF Head(todo[p]) = p THEN UNCHANGED queueVars
                          ELSE Post({Head(todo[p])}, carried[p])
  /\ NextTarget(p)
  /\ UNCHANGED <<sessionVars, kickVars, sends>>

\* The loop body of handleKickMessage: kick() of a peer that has a socket.
KickNext(p) ==
  LET q == Head(todo[p])
  IN  /\ pc[p] = "kick"
      /\ todo[p] # <<>>
      /\ kicked' = kicked \union (({q} \ {p}) \intersect sockets)
      /\ NextTarget(p)
      /\ UNCHANGED <<sessionVars, queueVars, sockets, sends>>

\* The loop has nothing to do from the start.
NoTarget(p) ==
  /\ pc[p] \in {"relay", "kick"}
  /\ todo[p] = <<>>
  /\ Return(p)
  /\ UNCHANGED <<sessionVars, queueVars, kickVars, todo, sends>>

-----------------------------------------------------------------------------
HandleMessage(p) ==
  \/ HandleOther(p)
  \/ HandleBroadcast(p)
  \/ HandleDirectMessage(p)
  \/ HandleClientMessage(p)
  \/ HandleSynchronizedEvent(p)
  \/ HandleKickMessage(p)

\* The steps a thread takes by itself.
Continue(p) ==
  \/ SayHello(p)
  \/ ChooseKicked(p)
  \/ RelayNext(p)
  \/ KickNext(p)
  \/ NoTarget(p)
  \/ RemovePeer(p)

Next ==
  \E p \in Peers :
    \/ AddPeer(p)
    \/ HandleMessage(p)
    \/ Continue(p)
    \/ DropPeer(p)
    \/ Close(p)

\* Handlers and coroutines that were started are run to their end; that of a
\* kick ends the connection. Clients need not join, send or leave.
Fairness ==
  \A p \in Peers : WF_vars(Continue(p)) /\ WF_vars(p \in kicked /\ Close(p))

Spec == Init /\ [][Next]_vars

FairSpec == Spec /\ Fairness

-----------------------------------------------------------------------------
Kinds == {"hello", "joined", "left", "msg", "event", "kicked", "none"}

AnyMessage == [kind : Kinds, from : Peers \union {None}, n : Nat]

TypeOK ==
  /\ members \subseteq Peers
  /\ host \in {Host, None}
  /\ nextEvent \in Nat
  /\ log \in [Peers -> Seq(AnyMessage)]
  /\ lost \in [Peers -> SUBSET AnyMessage]
  /\ sockets \subseteq Peers
  /\ kicked \subseteq Peers
  /\ pc \in [Peers -> {"out", "hello", "ready", "relay", "mayKick", "kick",
                       "closing", "left"}]
  /\ todo \in [Peers -> Seq(Peers)]
  /\ carried \in [Peers -> AnyMessage]
  /\ sends \in Nat

\* "All peers are guaranteed to receive synchronized events in the same order"
\* (DTOs.hpp:91): events are numbered alike at all peers, and every peer gets
\* them by rising number.
EventsInSameOrder ==
  \A p, q \in Peers : \A i \in DOMAIN log[p], j \in DOMAIN log[q] :
    LET e == log[p][i]
        f == log[q][j]
    IN  e.kind = "event" /\ f.kind = "event" =>
          /\ e.n = f.n => e = f
          /\ p = q /\ i < j => e.n < f.n

\* "except for cases where peer's messages were discarded due to poor
\* connection (message queue overflow)": a member misses no event from its
\* first one to the latest but those its full queue refused.
EventGapsAreOverflows ==
  \A p \in members :
    LET seen == {m.n : m \in {x \in Range(log[p]) \union lost[p] :
                                x.kind = "event"}}
    IN  \A k \in seen : k .. nextEvent - 1 \subseteq seen

\* A peer's messages arrive at every other one in the order in which its
\* handlers took them up, though each handler works without a lock.
SenderOrder ==
  \A q \in Peers : \A i, j \in DOMAIN log[q] :
    /\ i < j
    /\ log[q][i].kind = "msg"
    /\ log[q][j].kind = "msg"
    /\ log[q][i].from = log[q][j].from
    => log[q][i].n <= log[q][j].n

\* In every queue, what a peer causes lies within its visit, whatever handler
\* of it is slow. The host gets nothing of a client before the notice that it
\* joined, and nothing after the notice that it left; a peer gets HELLO, which
\* tells it its id, before what comes back to it of its own, although addPeer
\* posts HELLO without the lock and others may post before it.
VisitIsBracketed ==
  \A q \in Peers : \A i, j \in DOMAIN log[q] :
    i < j /\ log[q][i].from = log[q][j].from
      => log[q][i].kind # "left" /\ log[q][j].kind \notin {"joined", "hello"}

\* The check of handleKickMessage is still true when the last peer of its
\* snapshot is kicked: only the host kicks, and never itself.
OnlyHostKicks ==
  [][\A q \in kicked' \ kicked :
       host \notin {None, q} /\ todo'[host] # todo[host]]_vars

\* Kicking takes effect: the peer leaves the session.
KickedPeerLeaves == \A p \in Peers : p \in kicked ~> p \notin members

-----------------------------------------------------------------------------
(* The promise: the session is a room, named for its host.                 *)

NoticesIn(messages) ==
  {[code |-> m.kind, peer |-> m.from] :
     m \in {x \in messages : x.kind \in {"joined", "left"}}}

TheRoom == INSTANCE Room WITH
  Rooms   <- {Host},
  NoHost  <- None,
  present <- [r \in {Host} |-> members],
  entered <- [r \in {Host} |-> {p \in Peers : pc[p] # "out"}],
  host    <- [r \in {Host} |-> host],
  hosted  <- [r \in {Host} |-> pc[r] # "out"],
  told    <- [r \in {Host} |-> NoticesIn(Range(log[r]))],
  missed  <- [r \in {Host} |-> NoticesIn(lost[r])]

\* Among all that is relayed to it and that its queue refuses, the host is
\* told of those who come and go as in a room.
ImplementsRoom == TheRoom!Spec
=============================================================================
