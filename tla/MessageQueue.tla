---------------------------- MODULE MessageQueue ----------------------------
(***************************************************************************)
(* The outgoing message queue of one Peer: queueMessage, the               *)
(* SendMessageCoroutine it starts, and invalidateSocket, interleaved at    *)
(* the granularity of their critical sections.                             *)
(*                                                                         *)
(* queueMessage runs under m_messageQueue->mutex and takes m_socketMutex   *)
(* inside it only to read m_socket, so it is one step. One step is also    *)
(* each act() of the coroutine up to the point where it starts to write,   *)
(* and each of the two critical sections of invalidateSocket.              *)
(* A message is represented by its number in the order of acceptance.      *)
(***************************************************************************)
EXTENDS Integers, Sequences

CONSTANTS
  Capacity,      \* GameConfigDto::maxQueuedMessages
  Coroutines,    \* identities for instances of SendMessageCoroutine
  Invalidators,  \* threads that call invalidateSocket: pinger, socket owner
  MaxAccepted    \* bound on the number of accepted messages

ASSUME QueueAssumption ==
  /\ Capacity \in Nat
  /\ MaxAccepted \in Nat
  /\ Coroutines # {}

VARIABLES
  queue,         \* MessageQueue::queue, oldest message first
  active,        \* MessageQueue::active
  socket,        \* m_socket is set
  connected,     \* the connection of the socket accepts writes
  pc,            \* per coroutine: "none", "act" or "send"
  sending,       \* per coroutine: the message it popped last
  clearing,      \* invalidators between the two parts of invalidateSocket
  accepted,      \* history: number of messages queueMessage accepted
  delivered      \* history: messages written to the connection, in order

vars == <<queue, active, socket, connected, pc, sending, clearing,
          accepted, delivered>>

Alive == {c \in Coroutines : pc[c] # "none"}

Init ==
  /\ queue = <<>>
  /\ active = FALSE
  /\ socket = TRUE
  /\ connected = TRUE
  /\ pc = [c \in Coroutines |-> "none"]
  /\ sending = [c \in Coroutines |-> 0]
  /\ clearing = {}
  /\ accepted = 0
  /\ delivered = <<>>

-----------------------------------------------------------------------------
\* m_asyncExecutor->execute<SendMessageCoroutine>(...)
StartCoroutine ==
  \E c \in Coroutines \ Alive : pc' = [pc EXCEPT ![c] = "act"]

\* Mutant of HasRoom: the bound is off by one.
HasRoomForOneMore == Len(queue) <= Capacity

HasRoom == Len(queue) < Capacity

\* Mutant of MustStart: the flag is not looked at.
MustStartAlways == socket

\* A coroutine is started unless one is active, and only on a socket.
MustStart == ~active /\ socket

\* queueMessage, called by any thread with a non-null message. On a full
\* queue it returns false and changes nothing.
QueueMessage ==
  /\ accepted < MaxAccepted
  /\ HasRoom
  /\ accepted' = accepted + 1
  /\ queue' = Append(queue, accepted')
  /\ active' = TRUE
  /\ IF MustStart THEN StartCoroutine ELSE UNCHANGED pc
  /\ UNCHANGED <<socket, connected, sending, clearing, delivered>>

\* Mutant of FinishWhenEmpty: the flag stays up.
FinishStillActive(c) ==
  /\ pc[c] = "act"
  /\ queue = <<>>
  /\ pc' = [pc EXCEPT ![c] = "none"]
  /\ UNCHANGED <<queue, active, socket, connected, sending, clearing, accepted,
                 delivered>>

\* act() finds the queue empty: the coroutine finishes.
FinishWhenEmpty(c) ==
  /\ pc[c] = "act"
  /\ queue = <<>>
  /\ active' = FALSE
  /\ pc' = [pc EXCEPT ![c] = "none"]
  /\ UNCHANGED <<queue, socket, connected, sending, clearing, accepted,
                 delivered>>

\* act() pops the oldest message and starts to write it.
PopMessage(c) ==
  /\ pc[c] = "act"
  /\ queue # <<>>
  /\ sending' = [sending EXCEPT ![c] = Head(queue)]
  /\ queue' = Tail(queue)
  /\ pc' = [pc EXCEPT ![c] = "send"]
  /\ UNCHANGED <<active, socket, connected, clearing, accepted, delivered>>

\* sendOneFrameTextAsync completes; next(repeat()).
SendDone(c) ==
  /\ pc[c] = "send"
  /\ connected
  /\ delivered' = Append(delivered, sending[c])
  /\ pc' = [pc EXCEPT ![c] = "act"]
  /\ UNCHANGED <<queue, active, socket, connected, sending, clearing,
                 accepted>>

\* Mutant of SendError: the message is put back instead of dropped.
SendErrorRequeue(c) ==
  /\ pc[c] = "send"
  /\ ~connected
  /\ queue' = Append(queue, sending[c])
  /\ pc' = [pc EXCEPT ![c] = "act"]
  /\ UNCHANGED <<active, socket, connected, sending, clearing, accepted,
                 delivered>>

\* The write fails: handleError drops the message and yields to act().
SendError(c) ==
  /\ pc[c] = "send"
  /\ ~connected
  /\ pc' = [pc EXCEPT ![c] = "act"]
  /\ UNCHANGED <<queue, active, socket, connected, sending, clearing,
                 accepted, delivered>>

\* The remote side goes away, or a KickCoroutine invalidates the connection
\* without resetting m_socket.
LoseConnection ==
  /\ connected
  /\ connected' = FALSE
  /\ UNCHANGED <<queue, active, socket, pc, sending, clearing, accepted,
                 delivered>>

\* Mutant of ResetSocket: the connection is not invalidated.
ResetSocketOnly(i) ==
  /\ i \notin clearing
  /\ socket' = FALSE
  /\ clearing' = clearing \union {i}
  /\ UNCHANGED <<queue, active, connected, pc, sending, accepted, delivered>>

\* invalidateSocket, first critical section (m_socketMutex).
ResetSocket(i) ==
  /\ i \notin clearing
  /\ connected' = (connected /\ ~socket)
  /\ socket' = FALSE
  /\ clearing' = clearing \union {i}
  /\ UNCHANGED <<queue, active, pc, sending, accepted, delivered>>

\* invalidateSocket, second critical section (m_messageQueue->mutex).
ClearQueue(i) ==
  /\ i \in clearing
  /\ queue' = <<>>
  /\ clearing' = clearing \ {i}
  /\ UNCHANGED <<active, socket, connected, pc, sending, accepted, delivered>>

Sender(c) ==
  FinishWhenEmpty(c) \/ PopMessage(c) \/ SendDone(c) \/ SendError(c)

Next ==
  \/ QueueMessage
  \/ \E c \in Coroutines : Sender(c)
  \/ LoseConnection
  \/ \E i \in Invalidators : ResetSocket(i) \/ ClearQueue(i)

\* The executor runs every scheduled coroutine, a write on the connection
\* ends in success or in an error, and a thread inside invalidateSocket
\* reaches its second half. Nobody has to queue, and nothing has to fail.
Fairness ==
  /\ \A c \in Coroutines : WF_vars(Sender(c))
  /\ \A i \in Invalidators : WF_vars(ClearQueue(i))

Spec == Init /\ [][Next]_vars

FairSpec == Spec /\ Fairness

-----------------------------------------------------------------------------
TypeOK ==
  /\ queue \in Seq(Nat)
  /\ Len(queue) <= Capacity
  /\ active \in BOOLEAN
  /\ socket \in BOOLEAN
  /\ connected \in BOOLEAN
  /\ pc \in [Coroutines -> {"none", "act", "send"}]
  /\ sending \in [Coroutines -> Nat]
  /\ clearing \subseteq Invalidators
  /\ accepted \in Nat
  /\ delivered \in Seq(Nat)

\* The message on the wire, as a sequence of length 0 or 1.
InFlight ==
  IF \E c \in Coroutines : pc[c] = "send"
  THEN <<sending[CHOOSE c \in Coroutines : pc[c] = "send"]>>
  ELSE <<>>

\* The active flag admits one SendMessageCoroutine at a time, whatever the
\* interleaving of queueMessage with the end of the previous coroutine.
SingleSender == \A c, d \in Alive : c = d

\* No lost wakeup: while the socket is set, waiting messages have a
\* coroutine that will send them (queueMessage starts none if active).
NoStrandedMessage ==
  socket /\ queue # <<>> => Alive # {}

\* push_front with back/pop_back: the peer gets messages in the order in
\* which they were accepted, none of them twice, and never one that is
\* younger than a message still waiting.
DeliveredInOrder ==
  LET wire == delivered \o InFlight \o queue
  IN  \A i, j \in DOMAIN wire : i < j => wire[i] < wire[j]

\* A message queueMessage accepted is lost only after the connection broke:
\* until then every accepted message is delivered, on the wire or waiting.
NoLossWhileConnected ==
  connected => Len(delivered) + Len(InFlight) + Len(queue) = accepted

\* Abstraction: the channel holds the message on the wire and the queue.
Channel ==
  INSTANCE LossyChannel WITH chan <- InFlight \o queue,
                             received <- delivered,
                             up <- connected

\* The queue, its coroutine and its invalidation implement the channel.
ImplementsChannel == Channel!Spec

\* A message that waits at a peer with a socket leaves the queue: it is sent,
\* or the peer is invalidated and invalidateSocket clears it.
QueuedMessageLeaves ==
  \A m \in 1 .. MaxAccepted :
    socket /\ (\E k \in DOMAIN queue : queue[k] = m)
      ~> ~ \E k \in DOMAIN queue : queue[k] = m

\* handleError goes back to act() on a dead connection, but each round drops
\* a message: the coroutine (which holds the socket, hence the peer) ends.
SenderEndsAfterDisconnect == ~connected ~> Alive = {}
=============================================================================
