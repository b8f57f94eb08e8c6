------------------------- MODULE MessageQueueProofs -------------------------
(***************************************************************************)
(* Proofs about MessageQueue for every capacity, every number of messages, *)
(* every set of coroutine identities and of invalidating threads.          *)
(***************************************************************************)
EXTENDS MessageQueue, TLAPS

-----------------------------------------------------------------------------
(* The inductive invariant.                                                *)

\* The flag covers the coroutine, and a coroutine covers the queue.
FlagInv ==
  /\ Alive # {} => active
  /\ socket /\ active => Alive # {}
  /\ socket /\ queue # <<>> => active

\* invalidateSocket breaks the connection before it clears the queue.
SocketInv ==
  /\ ~socket => ~connected
  /\ clearing # {} => ~socket

\* delivered < message on the wire < queue <= accepted, each one increasing.
QueueOrder ==
  /\ \A i \in 1 .. Len(queue) : queue[i] \in 1 .. accepted
  /\ \A i, j \in 1 .. Len(queue) : i < j => queue[i] < queue[j]

DeliveredOrder ==
  /\ \A i \in 1 .. Len(delivered) : delivered[i] \in 1 .. accepted
  /\ \A i, j \in 1 .. Len(delivered) : i < j => delivered[i] < delivered[j]
  /\ \A i \in 1 .. Len(delivered), j \in 1 .. Len(queue) :
        delivered[i] < queue[j]

WireOrder ==
  \A c \in Coroutines : pc[c] = "send" =>
    /\ sending[c] \in 1 .. accepted
    /\ \A i \in 1 .. Len(queue) : sending[c] < queue[i]
    /\ \A i \in 1 .. Len(delivered) : delivered[i] < sending[c]

OrderInv == QueueOrder /\ DeliveredOrder /\ WireOrder

IInv == TypeOK /\ SingleSender /\ FlagInv /\ SocketInv /\ OrderInv

-----------------------------------------------------------------------------
(* Type correctness.                                                       *)

LEMMA InitType == Init => TypeOK
<1> SUFFICES ASSUME Init PROVE TypeOK
  OBVIOUS
<1>1. queue \in Seq(Nat) /\ delivered \in Seq(Nat)
  BY DEF Init
<1>2. Len(queue) <= Capacity
  BY QueueAssumption DEF Init
<1>3. pc \in [Coroutines -> {"none", "act", "send"}]
  BY DEF Init
<1> QED
  BY <1>1, <1>2, <1>3 DEF Init, TypeOK

LEMMA NextType == TypeOK /\ [Next]_vars => TypeOK'
<1> SUFFICES ASSUME TypeOK, [Next]_vars PROVE TypeOK'
  OBVIOUS
<1> USE QueueAssumption DEF TypeOK
<1>1. CASE QueueMessage
  BY <1>1 DEF QueueMessage, MustStart, HasRoom, StartCoroutine, Alive
<1>2. ASSUME NEW c \in Coroutines, FinishWhenEmpty(c) PROVE TypeOK'
  BY <1>2 DEF FinishWhenEmpty
<1>3. ASSUME NEW c \in Coroutines, PopMessage(c) PROVE TypeOK'
  BY <1>3 DEF PopMessage
<1>4. ASSUME NEW c \in Coroutines, SendDone(c) PROVE TypeOK'
  BY <1>4 DEF SendDone
<1>5. ASSUME NEW c \in Coroutines, SendError(c) PROVE TypeOK'
  BY <1>5 DEF SendError
<1>6. CASE LoseConnection
  BY <1>6 DEF LoseConnection
<1>7. ASSUME NEW i \in Invalidators, ResetSocket(i) PROVE TypeOK'
  BY <1>7 DEF ResetSocket
<1>8. ASSUME NEW i \in Invalidators, ClearQueue(i) PROVE TypeOK'
  BY <1>8 DEF ClearQueue
<1>9. CASE UNCHANGED vars
  BY <1>9 DEF vars
<1> QED
  BY <1>1, <1>2, <1>3, <1>4, <1>5, <1>6, <1>7, <1>8, <1>9 DEF Next, Sender

\* Every reachable state has the types of the code, and the queue never
\* exceeds maxQueuedMessages (Peer.cpp:170).
THEOREM TypeCorrect == Spec => []TypeOK
  BY InitType, NextType, PTL DEF Spec

-----------------------------------------------------------------------------
(* The inductive invariant holds initially and is preserved.               *)

LEMMA InitIInv == Init => IInv
<1> SUFFICES ASSUME Init PROVE IInv
  OBVIOUS
<1>1. Alive = {}
  BY DEF Init, Alive
<1>2. Len(queue) = 0 /\ Len(delivered) = 0
  BY DEF Init
<1>3. SingleSender /\ FlagInv /\ SocketInv
  BY <1>1 DEF Init, SingleSender, FlagInv, SocketInv
<1>4. OrderInv
  BY <1>2 DEF Init, OrderInv, QueueOrder, DeliveredOrder, WireOrder
<1> QED
  BY InitType, <1>3, <1>4 DEF IInv

\* One coroutine at a time: started only while the flag is down.
LEMMA NextSender ==
  ASSUME IInv, [Next]_vars
  PROVE  SingleSender' /\ FlagInv'
<1> USE QueueAssumption DEF IInv, TypeOK, SingleSender, FlagInv, Alive
<1>1. CASE QueueMessage
  <2>1. CASE MustStart
    <3>1. Alive = {}
      BY <2>1 DEF MustStart
    <3>2. PICK c \in Coroutines : pc' = [pc EXCEPT ![c] = "act"]
      BY <1>1, <2>1 DEF QueueMessage, MustStart, HasRoom, StartCoroutine
    <3>3. Alive' = {c}
      BY <3>1, <3>2
    <3> QED
      BY <1>1, <2>1, <3>3 DEF QueueMessage
  <2>2. CASE ~MustStart
    <3>1. Alive' = Alive
      BY <1>1, <2>2 DEF QueueMessage
    <3> QED
      BY <1>1, <2>2, <3>1 DEF QueueMessage, MustStart
  <2> QED
    BY <2>1, <2>2
<1>2. ASSUME NEW c \in Coroutines, FinishWhenEmpty(c)
      PROVE  SingleSender' /\ FlagInv'
  <2>1. Alive = {c}
    BY <1>2 DEF FinishWhenEmpty
  <2>2. Alive' = {}
    BY <1>2, <2>1 DEF FinishWhenEmpty
  <2> QED
    BY <1>2, <2>2 DEF FinishWhenEmpty
<1>3. ASSUME NEW c \in Coroutines, PopMessage(c)
      PROVE  SingleSender' /\ FlagInv'
  <2>1. Alive' = Alive
    BY <1>3 DEF PopMessage
  <2> QED
    BY <1>3, <2>1 DEF PopMessage
<1>4. ASSUME NEW c \in Coroutines, SendDone(c)
      PROVE  SingleSender' /\ FlagInv'
  <2>1. Alive' = Alive
    BY <1>4 DEF SendDone
  <2> QED
    BY <1>4, <2>1 DEF SendDone
<1>5. ASSUME NEW c \in Coroutines, SendError(c)
      PROVE  SingleSender' /\ FlagInv'
  <2>1. Alive' = Alive
    BY <1>5 DEF SendError
  <2> QED
    BY <1>5, <2>1 DEF SendError
<1>6. CASE LoseConnection
  BY <1>6 DEF LoseConnection
<1>7. ASSUME NEW i \in Invalidators, ResetSocket(i)
      PROVE  SingleSender' /\ FlagInv'
  BY <1>7 DEF ResetSocket
<1>8. ASSUME NEW i \in Invalidators, ClearQueue(i)
      PROVE  SingleSender' /\ FlagInv'
  BY <1>8 DEF ClearQueue
<1>9. CASE UNCHANGED vars
  BY <1>9 DEF vars
<1> QED
  BY <1>1, <1>2, <1>3, <1>4, <1>5, <1>6, <1>7, <1>8, <1>9 DEF Next, Sender

\* Only invalidateSocket resets the socket, and it breaks the connection.
LEMMA NextSocket ==
  ASSUME IInv, [Next]_vars
  PROVE  SocketInv'
<1> USE DEF IInv, TypeOK, SocketInv
<1>1. CASE QueueMessage
  BY <1>1 DEF QueueMessage
<1>2. ASSUME NEW c \in Coroutines, Sender(c) PROVE SocketInv'
  BY <1>2 DEF Sender, FinishWhenEmpty, PopMessage, SendDone, SendError
<1>3. CASE LoseConnection
  BY <1>3 DEF LoseConnection
<1>4. ASSUME NEW i \in Invalidators, ResetSocket(i) PROVE SocketInv'
  BY <1>4 DEF ResetSocket
<1>5. ASSUME NEW i \in Invalidators, ClearQueue(i) PROVE SocketInv'
  BY <1>5 DEF ClearQueue
<1>6. CASE UNCHANGED vars
  BY <1>6 DEF vars
<1> QED
  BY <1>1, <1>2, <1>3, <1>4, <1>5, <1>6 DEF Next

\* A coroutine that pops is the only one, so nothing is on the wire, and
\* what it pops is older than the rest of the queue.
LEMMA NextOrder ==
  ASSUME IInv, [Next]_vars
  PROVE  OrderInv'
<1> USE DEF OrderInv
<1>0. /\ TypeOK /\ SingleSender
      /\ QueueOrder /\ DeliveredOrder /\ WireOrder
      /\ accepted \in Nat /\ Len(queue) \in Nat /\ Len(delivered) \in Nat
  BY DEF IInv, TypeOK
<1>1. CASE QueueMessage
  <2>1. \A c \in Coroutines : pc'[c] = "send" => pc[c] = "send"
    BY <1>0, <1>1 DEF TypeOK, QueueMessage, MustStart, HasRoom, StartCoroutine
  <2>2. /\ Len(queue') = Len(queue) + 1
        /\ \A i \in 1 .. Len(queue) : queue'[i] = queue[i]
        /\ queue'[Len(queue) + 1] = accepted + 1
    BY <1>0, <1>1 DEF TypeOK, QueueMessage
  <2>3. accepted' = accepted + 1 /\ sending' = sending /\ delivered' = delivered
    BY <1>1 DEF QueueMessage
  <2>4. ASSUME NEW i \in 1 .. Len(queue')
        PROVE  \/ i \in 1 .. Len(queue) /\ queue'[i] = queue[i]
               \/ i = Len(queue) + 1 /\ queue'[i] = accepted + 1
    BY <1>0, <2>2
  <2>5. QueueOrder'
    <3>1. ASSUME NEW i \in 1 .. Len(queue') PROVE queue'[i] \in 1 .. accepted'
      BY <1>0, <2>3, <2>4 DEF QueueOrder
    <3>2. ASSUME NEW i \in 1 .. Len(queue'), NEW j \in 1 .. Len(queue'), i < j
          PROVE  queue'[i] < queue'[j]
      <4>1. i \in 1 .. Len(queue)
        BY <1>0, <2>2, <3>2
      <4> QED
        BY <1>0, <2>2, <2>4, <3>2, <4>1 DEF QueueOrder
    <3> QED
      BY <3>1, <3>2 DEF QueueOrder
  <2>6. DeliveredOrder'
    <3>1. ASSUME NEW i \in 1 .. Len(delivered), NEW j \in 1 .. Len(queue')
          PROVE  delivered[i] < queue'[j]
      BY <1>0, <2>4 DEF DeliveredOrder
    <3> QED
      BY <1>0, <2>3, <3>1 DEF DeliveredOrder
  <2>7. WireOrder'
    <3> SUFFICES ASSUME NEW c \in Coroutines, pc'[c] = "send"
                 PROVE  /\ sending[c] \in 1 .. accepted + 1
                        /\ \A i \in 1 .. Len(queue') : sending[c] < queue'[i]
                        /\ \A i \in 1 .. Len(delivered) :
                              delivered[i] < sending[c]
      BY <2>3 DEF WireOrder
    <3>1. sending[c] \in 1 .. accepted
      BY <1>0, <2>1 DEF WireOrder
    <3>2. ASSUME NEW i \in 1 .. Len(queue') PROVE sending[c] < queue'[i]
      BY <1>0, <2>1, <2>4, <3>1 DEF WireOrder
    <3> QED
      BY <1>0, <2>1, <3>1, <3>2 DEF WireOrder
  <2> QED
    BY <2>5, <2>6, <2>7
<1>2. ASSUME NEW c \in Coroutines, FinishWhenEmpty(c) PROVE OrderInv'
  BY <1>0, <1>2
     DEF TypeOK, FinishWhenEmpty, QueueOrder, DeliveredOrder, WireOrder
<1>3. ASSUME NEW c \in Coroutines, PopMessage(c) PROVE OrderInv'
  <2>1. \A d \in Coroutines : pc'[d] = "send" => d = c
    BY <1>0, <1>3 DEF TypeOK, PopMessage, SingleSender, Alive
  <2>2. /\ Len(queue) > 0
        /\ Len(queue') = Len(queue) - 1
        /\ \A i \in 1 .. Len(queue') : queue'[i] = queue[i + 1]
        /\ sending'[c] = queue[1]
    BY <1>0, <1>3 DEF TypeOK, PopMessage
  <2>3. accepted' = accepted /\ delivered' = delivered
    BY <1>3 DEF PopMessage
  <2>4. \A i \in 1 .. Len(queue') : i + 1 \in 1 .. Len(queue) /\ 1 < i + 1
    BY <1>0, <2>2
  <2>5. QueueOrder'
    <3>1. ASSUME NEW i \in 1 .. Len(queue'), NEW j \in 1 .. Len(queue'), i < j
          PROVE  queue'[i] < queue'[j]
      <4>1. i + 1 < j + 1
        BY <1>0, <2>2, <3>1
      <4> QED
        BY <1>0, <2>2, <2>4, <4>1 DEF QueueOrder
    <3> QED
      BY <1>0, <2>2, <2>3, <2>4, <3>1 DEF QueueOrder
  <2>6. DeliveredOrder'
    BY <1>0, <2>2, <2>3, <2>4 DEF DeliveredOrder
  <2>7. WireOrder'
    <3>1. sending'[c] \in 1 .. accepted'
      BY <1>0, <2>2, <2>3 DEF QueueOrder
    <3>2. \A i \in 1 .. Len(queue') : sending'[c] < queue'[i]
      BY <1>0, <2>2, <2>4 DEF QueueOrder
    <3>3. \A i \in 1 .. Len(delivered') : delivered'[i] < sending'[c]
      BY <1>0, <2>2, <2>3 DEF DeliveredOrder
    <3> QED
      BY <2>1, <3>1, <3>2, <3>3 DEF WireOrder
  <2> QED
    BY <2>5, <2>6, <2>7
<1>4. ASSUME NEW c \in Coroutines, SendDone(c) PROVE OrderInv'
  <2>1. ASSUME NEW d \in Coroutines PROVE pc'[d] # "send"
    <3>1. pc[d] = "send" => d = c
      BY <1>0, <1>4 DEF SendDone, SingleSender, Alive
    <3> QED
      BY <1>0, <1>4, <3>1 DEF TypeOK, SendDone
  <2>2. /\ Len(delivered') = Len(delivered) + 1
        /\ \A i \in 1 .. Len(delivered) : delivered'[i] = delivered[i]
        /\ delivered'[Len(delivered) + 1] = sending[c]
    BY <1>0, <1>4 DEF TypeOK, SendDone
  <2>3. queue' = queue /\ accepted' = accepted /\ pc[c] = "send"
    BY <1>4 DEF SendDone
  <2>4. ASSUME NEW i \in 1 .. Len(delivered')
        PROVE  \/ i \in 1 .. Len(delivered) /\ delivered'[i] = delivered[i]
               \/ i = Len(delivered) + 1 /\ delivered'[i] = sending[c]
    BY <1>0, <2>2
  <2>5. QueueOrder' /\ WireOrder'
    BY <1>0, <2>1, <2>3 DEF QueueOrder, WireOrder
  <2>6. ASSUME NEW i \in 1 .. Len(delivered')
        PROVE  /\ delivered'[i] \in 1 .. accepted'
               /\ \A j \in 1 .. Len(queue') : delivered'[i] < queue'[j]
    BY <1>0, <2>3, <2>4 DEF DeliveredOrder, WireOrder
  <2>7. ASSUME NEW i \in 1 .. Len(delivered'), NEW j \in 1 .. Len(delivered'),
               i < j
        PROVE  delivered'[i] < delivered'[j]
    <3>1. i \in 1 .. Len(delivered)
      BY <1>0, <2>2, <2>7
    <3> QED
      BY <1>0, <2>2, <2>3, <2>4, <2>7, <3>1 DEF DeliveredOrder, WireOrder
  <2>8. DeliveredOrder'
    BY <2>6, <2>7 DEF DeliveredOrder
  <2> QED
    BY <2>5, <2>8
<1>5. ASSUME NEW c \in Coroutines, SendError(c) PROVE OrderInv'
  BY <1>0, <1>5 DEF TypeOK, SendError, QueueOrder, DeliveredOrder, WireOrder
<1>6. CASE LoseConnection
  BY <1>0, <1>6 DEF LoseConnection, QueueOrder, DeliveredOrder, WireOrder
<1>7. ASSUME NEW i \in Invalidators, ResetSocket(i) PROVE OrderInv'
  BY <1>0, <1>7 DEF ResetSocket, QueueOrder, DeliveredOrder, WireOrder
<1>8. ASSUME NEW i \in Invalidators, ClearQueue(i) PROVE OrderInv'
  BY <1>0, <1>8 DEF ClearQueue, QueueOrder, DeliveredOrder, WireOrder
<1>9. CASE UNCHANGED vars
  BY <1>0, <1>9 DEF vars, QueueOrder, DeliveredOrder, WireOrder
<1> QED
  BY <1>1, <1>2, <1>3, <1>4, <1>5, <1>6, <1>7, <1>8, <1>9 DEF Next, Sender

LEMMA Inductive == Spec => []IInv
<1>1. IInv /\ [Next]_vars => IInv'
  BY NextType, NextSender, NextSocket, NextOrder DEF IInv
<1> QED
  BY InitIInv, <1>1, PTL DEF Spec

\* At most one SendMessageCoroutine per peer is alive (Peer.cpp:172-173).
THEOREM OneSender == Spec => []SingleSender
  BY Inductive, PTL DEF IInv

\* No lost wakeup between queueMessage and a coroutine that is about to
\* finish (Peer.cpp:148-152 against Peer.cpp:169-178).
THEOREM NothingStranded == Spec => []NoStrandedMessage
<1>1. IInv => NoStrandedMessage
  BY DEF IInv, FlagInv, NoStrandedMessage
<1> QED
  BY Inductive, <1>1, PTL

-----------------------------------------------------------------------------
(* The message on the wire.                                                *)

LEMMA ChooseOnly ==
  ASSUME NEW f, NEW S, NEW c \in S, f[c] = "send",
         \A d \in S : f[d] = "send" => d = c
  PROVE  (CHOOSE d \in S : f[d] = "send") = c
  OBVIOUS

LEMMA WireBusy ==
  ASSUME SingleSender, NEW c \in Coroutines, pc[c] = "send"
  PROVE  InFlight = <<sending[c]>>
<1>1. \A d \in Coroutines : pc[d] = "send" => d = c
  BY DEF SingleSender, Alive
<1>2. (CHOOSE d \in Coroutines : pc[d] = "send") = c
  BY <1>1, ChooseOnly
<1> QED
  BY <1>2 DEF InFlight

LEMMA WireIdle ==
  ASSUME \A c \in Coroutines : pc[c] # "send"
  PROVE  InFlight = <<>>
  BY DEF InFlight

LEMMA InFlightType ==
  ASSUME IInv
  PROVE  InFlight \in Seq(Nat) /\ Len(InFlight) \in 0 .. 1
<1>1. CASE \E c \in Coroutines : pc[c] = "send"
  <2>1. PICK c \in Coroutines : pc[c] = "send"
    BY <1>1
  <2>2. InFlight = <<sending[c]>>
    BY <2>1, WireBusy DEF IInv
  <2> QED
    BY <2>2 DEF IInv, TypeOK
<1>2. CASE ~ \E c \in Coroutines : pc[c] = "send"
  <2>1. InFlight = <<>>
    BY <1>2, WireIdle
  <2> QED
    BY <2>1
<1> QED
  BY <1>1, <1>2

\* A step that keeps who is sending and what keeps the message on the wire.
LEMMA WireKept ==
  ASSUME IInv, sending' = sending,
         \A c \in Coroutines : pc'[c] = "send" <=> pc[c] = "send"
  PROVE  InFlight' = InFlight
<1>1. CASE \E c \in Coroutines : pc[c] = "send"
  <2>1. PICK c \in Coroutines : pc[c] = "send"
    BY <1>1
  <2>2. InFlight = <<sending[c]>>
    BY <2>1, WireBusy DEF IInv
  <2>3. \A d \in Coroutines : pc'[d] = "send" => d = c
    BY <2>1 DEF IInv, SingleSender, Alive
  <2>4. (CHOOSE d \in Coroutines : pc'[d] = "send") = c
    BY <2>1, <2>3, ChooseOnly
  <2> QED
    BY <2>1, <2>2, <2>4 DEF InFlight
<1>2. CASE ~ \E c \in Coroutines : pc[c] = "send"
  BY <1>2 DEF InFlight
<1> QED
  BY <1>1, <1>2

\* What each coroutine step does to the message on the wire.
LEMMA WireOnPop ==
  ASSUME IInv, NEW c \in Coroutines, PopMessage(c)
  PROVE  InFlight = <<>> /\ InFlight' = <<Head(queue)>>
<1>1. \A d \in Coroutines : pc[d] # "send"
  BY DEF IInv, SingleSender, Alive, PopMessage
<1>2. \A d \in Coroutines : pc'[d] = IF d = c THEN "send" ELSE pc[d]
  BY DEF IInv, TypeOK, PopMessage
<1>3. (CHOOSE d \in Coroutines : pc'[d] = "send") = c
  BY <1>1, <1>2, ChooseOnly
<1>4. sending'[c] = Head(queue)
  BY DEF IInv, TypeOK, PopMessage
<1> QED
  BY <1>1, <1>2, <1>3, <1>4 DEF InFlight

LEMMA WireOnSent ==
  ASSUME IInv, NEW c \in Coroutines, SendDone(c) \/ SendError(c)
  PROVE  InFlight = <<sending[c]>> /\ InFlight' = <<>>
<1>1. pc[c] = "send" /\ pc' = [pc EXCEPT ![c] = "act"]
  BY DEF SendDone, SendError
<1>2. \A d \in Coroutines : pc[d] = "send" => d = c
  BY <1>1 DEF IInv, SingleSender, Alive
<1>3. \A d \in Coroutines : pc'[d] # "send"
  BY <1>1, <1>2 DEF IInv, TypeOK
<1> QED
  BY <1>1, <1>3, WireBusy DEF IInv, InFlight

-----------------------------------------------------------------------------
(* No loss while the connection is up.                                     *)

LEMMA NextNoLoss ==
  ASSUME IInv, NoLossWhileConnected, [Next]_vars
  PROVE  NoLossWhileConnected'
<1> USE DEF NoLossWhileConnected
<1>0. /\ TypeOK /\ SocketInv
      /\ accepted \in Nat /\ Len(queue) \in Nat /\ Len(delivered) \in Nat
      /\ Len(InFlight) \in Nat
  BY InFlightType DEF IInv, TypeOK
<1>1. CASE QueueMessage
  <2>1. InFlight' = InFlight
    <3>1. \A c \in Coroutines : pc'[c] = "send" <=> pc[c] = "send"
      BY <1>0, <1>1 DEF TypeOK, QueueMessage, MustStart, HasRoom, StartCoroutine, Alive
    <3> QED
      BY <1>1, <3>1, WireKept DEF QueueMessage
  <2>2. /\ Len(queue') = Len(queue) + 1 /\ accepted' = accepted + 1
        /\ UNCHANGED <<connected, delivered>>
    BY <1>0, <1>1 DEF TypeOK, QueueMessage
  <2> QED
    BY <1>0, <2>1, <2>2
<1>2. ASSUME NEW c \in Coroutines, FinishWhenEmpty(c)
      PROVE  NoLossWhileConnected'
  <2>1. InFlight' = InFlight
    <3>1. \A d \in Coroutines : pc'[d] = "send" <=> pc[d] = "send"
      BY <1>0, <1>2 DEF TypeOK, FinishWhenEmpty
    <3> QED
      BY <1>2, <3>1, WireKept DEF FinishWhenEmpty
  <2> QED
    BY <1>2, <2>1 DEF FinishWhenEmpty
<1>3. ASSUME NEW c \in Coroutines, PopMessage(c)
      PROVE  NoLossWhileConnected'
  <2>1. Len(InFlight) = 0 /\ Len(InFlight') = 1
    BY <1>3, WireOnPop
  <2>2. /\ Len(queue') = Len(queue) - 1
        /\ UNCHANGED <<connected, delivered, accepted>>
    BY <1>0, <1>3 DEF TypeOK, PopMessage
  <2> QED
    BY <1>0, <2>1, <2>2
<1>4. ASSUME NEW c \in Coroutines, SendDone(c)
      PROVE  NoLossWhileConnected'
  <2>1. Len(InFlight) = 1 /\ Len(InFlight') = 0
    BY <1>4, WireOnSent
  <2>2. /\ Len(delivered') = Len(delivered) + 1
        /\ UNCHANGED <<connected, queue, accepted>>
    BY <1>0, <1>4 DEF TypeOK, SendDone
  <2> QED
    BY <1>0, <2>1, <2>2
<1>5. ASSUME NEW c \in Coroutines, SendError(c)
      PROVE  NoLossWhileConnected'
  BY <1>5 DEF SendError
<1>6. CASE LoseConnection
  BY <1>6 DEF LoseConnection
<1>7. ASSUME NEW i \in Invalidators, ResetSocket(i)
      PROVE  NoLossWhileConnected'
  <2>1. InFlight' = InFlight
    BY <1>7, WireKept DEF ResetSocket
  <2> QED
    BY <1>0, <1>7, <2>1 DEF ResetSocket
<1>8. ASSUME NEW i \in Invalidators, ClearQueue(i)
      PROVE  NoLossWhileConnected'
  BY <1>0, <1>8 DEF ClearQueue, SocketInv
<1>9. CASE UNCHANGED vars
  BY <1>9, WireKept DEF vars
<1> QED
  BY <1>1, <1>2, <1>3, <1>4, <1>5, <1>6, <1>7, <1>8, <1>9 DEF Next, Sender

\* An accepted message is lost only after the connection broke: on a live
\* connection every accepted message is delivered, on the wire or queued.
THEOREM NoLoss == Spec => []NoLossWhileConnected
<1>1. Init => NoLossWhileConnected
  <2> SUFFICES ASSUME Init PROVE NoLossWhileConnected
    OBVIOUS
  <2>1. InFlight = <<>>
    BY WireIdle DEF Init
  <2> QED
    BY <2>1 DEF Init, NoLossWhileConnected
<1>2. IInv /\ NoLossWhileConnected /\ [Next]_vars => NoLossWhileConnected'
  BY NextNoLoss
<1> QED
  BY Inductive, <1>1, <1>2, PTL DEF Spec

-----------------------------------------------------------------------------
(* Order of delivery.                                                      *)

\* FIFO: what a peer has received, then the message on the wire, then the
\* queue are in the order in which queueMessage accepted them.
THEOREM InOrder == Spec => []DeliveredInOrder
<1>1. ASSUME IInv PROVE DeliveredInOrder
  <2> DEFINE wire == delivered \o InFlight \o queue
             n == Len(delivered)
             k == Len(InFlight)
  <2>0. /\ delivered \in Seq(Nat) /\ InFlight \in Seq(Nat) /\ queue \in Seq(Nat)
        /\ n \in Nat /\ k \in 0 .. 1 /\ Len(queue) \in Nat
        /\ QueueOrder /\ DeliveredOrder /\ WireOrder
    BY <1>1, InFlightType DEF IInv, TypeOK, OrderInv
  <2>1. /\ DOMAIN wire = 1 .. n + k + Len(queue)
        /\ \A i \in 1 .. n : wire[i] = delivered[i]
        /\ \A i \in 1 .. k : wire[n + i] = InFlight[i]
        /\ \A i \in 1 .. Len(queue) : wire[n + k + i] = queue[i]
    BY <2>0
  <2> HIDE DEF wire, n, k
  <2>2. ASSUME NEW i \in DOMAIN wire
        PROVE  \/ i \in 1 .. n /\ wire[i] = delivered[i]
               \/ k = 1 /\ i = n + 1 /\ wire[i] = InFlight[1]
               \/ i - n - k \in 1 .. Len(queue) /\ wire[i] = queue[i - n - k]
    <3>1. CASE i \in 1 .. n
      BY <2>1, <3>1
    <3>2. CASE i \in n + 1 .. n + k
      <4>1. k = 1 /\ i = n + 1 /\ 1 \in 1 .. k
        BY <2>0, <3>2
      <4> QED
        BY <2>1, <4>1
    <3>3. CASE i \in n + k + 1 .. n + k + Len(queue)
      <4>1. /\ i \in Int /\ n \in Nat /\ k \in Int /\ Len(queue) \in Nat
            /\ n + k + 1 <= i /\ i <= n + k + Len(queue)
        BY <2>0, <3>3
      <4>2. i - n - k \in 1 .. Len(queue) /\ n + k + (i - n - k) = i
        BY <4>1
      <4> QED
        BY <2>1, <4>2
    <3> QED
      BY <2>0, <2>1, <3>1, <3>2, <3>3
  <2>3. ASSUME k = 1
        PROVE  /\ InFlight[1] \in Nat
               /\ \A i \in 1 .. Len(queue) : InFlight[1] < queue[i]
               /\ \A i \in 1 .. n : delivered[i] < InFlight[1]
    <3>1. PICK c \in Coroutines : pc[c] = "send"
      BY <2>3, WireIdle DEF k
    <3>2. InFlight[1] = sending[c]
      BY <1>1, <3>1, WireBusy DEF IInv
    <3> QED
      BY <2>0, <2>3, <3>1, <3>2 DEF WireOrder, n
  <2>4. ASSUME NEW i \in DOMAIN wire, NEW j \in DOMAIN wire, i < j
        PROVE  wire[i] < wire[j]
    <3> DEFINE q(m) == m - n - k
    <3>1. CASE i \in 1 .. n /\ wire[i] = delivered[i]
      <4>1. CASE j \in 1 .. n /\ wire[j] = delivered[j]
        BY <2>4, <3>1, <4>1, <2>0 DEF DeliveredOrder, n
      <4>2. CASE k = 1 /\ j = n + 1 /\ wire[j] = InFlight[1]
        BY <2>3, <3>1, <4>2
      <4>3. CASE q(j) \in 1 .. Len(queue) /\ wire[j] = queue[q(j)]
        BY <3>1, <4>3, <2>0 DEF DeliveredOrder, n
      <4> QED
        BY <2>2, <4>1, <4>2, <4>3
    <3>2. CASE k = 1 /\ i = n + 1 /\ wire[i] = InFlight[1]
      <4>1. q(j) \in 1 .. Len(queue) /\ wire[j] = queue[q(j)]
        <5>1. j > n + 1 /\ n \in Nat
          BY <2>0, <2>1, <2>4, <3>2
        <5>2. ~ (j \in 1 .. n) /\ ~ (k = 1 /\ j = n + 1)
          BY <5>1
        <5> QED
          BY <2>2, <5>2
      <4> HIDE DEF q
      <4> QED
        BY <2>3, <3>2, <4>1
    <3>3. CASE q(i) \in 1 .. Len(queue) /\ wire[i] = queue[q(i)]
      <4>1. q(j) \in 1 .. Len(queue) /\ wire[j] = queue[q(j)]
        <5>1. i > n + k
          BY <2>0, <2>1, <3>3
        <5>2. ~ (j \in 1 .. n) /\ ~ (k = 1 /\ j = n + 1)
          BY <2>0, <2>1, <2>4, <5>1
        <5> QED
          BY <2>2, <5>2
      <4>2. q(i) < q(j)
        BY <2>0, <2>1, <2>4
      <4> QED
        BY <2>0, <3>3, <4>1, <4>2 DEF QueueOrder
    <3> QED
      BY <2>2, <3>1, <3>2, <3>3
  <2> QED
    BY <2>4 DEF DeliveredInOrder, wire
<1>2. IInv => DeliveredInOrder
  BY <1>1
<1> QED
  BY Inductive, <1>2, PTL

-----------------------------------------------------------------------------
(* MessageQueue implements LossyChannel.                                   *)

LEMMA RefineInit == Init => Channel!Init
<1> SUFFICES ASSUME Init PROVE Channel!Init
  OBVIOUS
<1>1. InFlight = <<>>
  BY WireIdle DEF Init
<1> QED
  BY <1>1 DEF Init, Channel!Init

\* Losing the queue behind the wire, and losing the message on the wire.
LEMMA LoseSuffix ==
  ASSUME NEW s \in Seq(Nat), NEW t \in Seq(Nat)
  PROVE  \E i \in 0 .. Len(s \o t) : \E j \in i + 1 .. Len(s \o t) + 1 :
           s = SubSeq(s \o t, 1, i) \o SubSeq(s \o t, j, Len(s \o t))
<1> DEFINE u == s \o t
           i == Len(s)
           j == Len(u) + 1
<1>1. i \in 0 .. Len(u) /\ j \in i + 1 .. Len(u) + 1
  OBVIOUS
<1>2. SubSeq(u, 1, i) = s
  OBVIOUS
<1>3. SubSeq(u, j, Len(u)) = <<>>
  OBVIOUS
<1>4. s = SubSeq(u, 1, i) \o SubSeq(u, j, Len(u))
  BY <1>2, <1>3
<1> QED
  BY <1>1, <1>4

LEMMA LoseFirst ==
  ASSUME NEW m \in Nat, NEW t \in Seq(Nat)
  PROVE  \E i \in 0 .. Len(<<m>> \o t) : \E j \in i + 1 .. Len(<<m>> \o t) + 1 :
           t = SubSeq(<<m>> \o t, 1, i) \o SubSeq(<<m>> \o t, j, Len(<<m>> \o t))
<1> DEFINE u == <<m>> \o t
<1>1. /\ u \in Seq(Nat) /\ Len(u) = Len(t) + 1
      /\ 0 \in 0 .. Len(u) /\ 2 \in 0 + 1 .. Len(u) + 1
  OBVIOUS
<1>2. SubSeq(u, 1, 0) = <<>>
  OBVIOUS
<1>3. SubSeq(u, 2, Len(u)) = t
  OBVIOUS
<1>4. t = SubSeq(u, 1, 0) \o SubSeq(u, 2, Len(u))
  BY <1>2, <1>3
<1> QED
  BY <1>1, <1>4

LEMMA OneMoreFits ==
  ASSUME NEW k \in 0 .. 1, NEW n \in Nat, NEW m \in Nat, n < m
  PROVE  k + n <= m
  OBVIOUS

LEMMA RefineNext ==
  ASSUME IInv, [Next]_vars
  PROVE  [Channel!Next]_Channel!chanVars
<1>0. /\ TypeOK /\ SocketInv
      /\ queue \in Seq(Nat) /\ InFlight \in Seq(Nat) /\ delivered \in Seq(Nat)
      /\ Len(queue) \in Nat /\ Len(InFlight) \in 0 .. 1
      /\ accepted \in Nat /\ Capacity \in Nat
  BY InFlightType, QueueAssumption DEF IInv, TypeOK
<1>1. CASE QueueMessage
  <2>1. InFlight' = InFlight
    <3>1. \A c \in Coroutines : pc'[c] = "send" <=> pc[c] = "send"
      BY <1>0, <1>1 DEF TypeOK, QueueMessage, MustStart, HasRoom, StartCoroutine, Alive
    <3> QED
      BY <1>1, <3>1, WireKept DEF QueueMessage
  <2>2. Len(InFlight \o queue) <= Capacity
    <3>1. Len(InFlight \o queue) = Len(InFlight) + Len(queue)
      <4>1. InFlight \in Seq(Nat) /\ queue \in Seq(Nat)
        BY <1>0
      <4> QED
        BY <4>1
    <3>2. Len(queue) < Capacity
      BY <1>1 DEF QueueMessage, HasRoom
    <3>3. Len(InFlight) + Len(queue) <= Capacity
      <4>1. Len(InFlight) \in 0 .. 1
        BY <1>0
      <4>2. Len(queue) \in Nat /\ Capacity \in Nat
        BY <1>0
      <4> QED
        BY <3>2, <4>1, <4>2, OneMoreFits
    <3> QED
      BY <3>1, <3>3
  <2>3. InFlight \o Append(queue, accepted + 1)
          = Append(InFlight \o queue, accepted + 1)
    BY <1>0
  <2>4. (InFlight \o queue)' = Append(InFlight \o queue, accepted')
    BY <1>1, <2>1, <2>3 DEF QueueMessage
  <2> QED
    BY <1>1, <2>2, <2>4 DEF QueueMessage, Channel!Next, Channel!Put
<1>2. ASSUME NEW c \in Coroutines, FinishWhenEmpty(c)
      PROVE  UNCHANGED Channel!chanVars
  <2>1. InFlight' = InFlight
    <3>1. \A d \in Coroutines : pc'[d] = "send" <=> pc[d] = "send"
      BY <1>0, <1>2 DEF TypeOK, FinishWhenEmpty
    <3> QED
      BY <1>2, <3>1, WireKept DEF FinishWhenEmpty
  <2> QED
    BY <1>2, <2>1 DEF FinishWhenEmpty, Channel!chanVars
<1>3. ASSUME NEW c \in Coroutines, PopMessage(c)
      PROVE  UNCHANGED Channel!chanVars
  <2>1. InFlight = <<>> /\ InFlight' = <<Head(queue)>>
    BY <1>3, WireOnPop
  <2>2. queue' = Tail(queue) /\ queue # <<>>
    BY <1>3 DEF PopMessage
  <2>3. <<Head(queue)>> \o Tail(queue) = <<>> \o queue
    BY <1>0, <2>2
  <2> QED
    BY <1>3, <2>1, <2>2, <2>3 DEF PopMessage, Channel!chanVars
<1>4. ASSUME NEW c \in Coroutines, SendDone(c)
      PROVE  Channel!Get
  <2>1. InFlight = <<sending[c]>> /\ InFlight' = <<>>
    BY <1>4, WireOnSent
  <2>2. sending[c] \in Nat
    BY <1>0 DEF TypeOK
  <2>3. /\ <<sending[c]>> \o queue # <<>>
        /\ Head(<<sending[c]>> \o queue) = sending[c]
        /\ Tail(<<sending[c]>> \o queue) = <<>> \o queue
    BY <1>0, <2>2
  <2> QED
    BY <1>4, <2>1, <2>3 DEF SendDone, Channel!Get
<1>5. ASSUME NEW c \in Coroutines, SendError(c)
      PROVE  Channel!Lose
  <2>1. InFlight = <<sending[c]>> /\ InFlight' = <<>>
    BY <1>5, WireOnSent
  <2>2. sending[c] \in Nat
    BY <1>0 DEF TypeOK
  <2>3. (InFlight \o queue)' = queue
    BY <1>0, <1>5, <2>1 DEF SendError
  <2>4. \E i \in 0 .. Len(InFlight \o queue) :
          \E j \in i + 1 .. Len(InFlight \o queue) + 1 :
            queue = SubSeq(InFlight \o queue, 1, i)
                      \o SubSeq(InFlight \o queue, j, Len(InFlight \o queue))
    <3>1. \E i \in 0 .. Len(<<sending[c]>> \o queue) :
            \E j \in i + 1 .. Len(<<sending[c]>> \o queue) + 1 :
              queue = SubSeq(<<sending[c]>> \o queue, 1, i)
                        \o SubSeq(<<sending[c]>> \o queue, j,
                                   Len(<<sending[c]>> \o queue))
      BY <1>0, <2>2, LoseFirst
    <3> QED
      BY <2>1, <3>1
  <2>5. ~connected /\ UNCHANGED <<delivered, accepted, connected>>
    BY <1>5 DEF SendError
  <2> QED
    BY <2>3, <2>4, <2>5 DEF Channel!Lose
<1>6. CASE LoseConnection
  <2>1. InFlight' = InFlight
    BY <1>6, WireKept DEF LoseConnection
  <2> QED
    BY <1>6, <2>1 DEF LoseConnection, Channel!Next, Channel!Fail
<1>7. ASSUME NEW i \in Invalidators, ResetSocket(i)
      PROVE  [Channel!Next]_Channel!chanVars
  <2>1. InFlight' = InFlight
    BY <1>7, WireKept DEF ResetSocket
  <2>2. connected' = connected \/ connected' = FALSE
    BY <1>7, <1>0 DEF ResetSocket, TypeOK
  <2> QED
    BY <1>7, <2>1, <2>2
       DEF ResetSocket, Channel!Next, Channel!Fail, Channel!chanVars
<1>8. ASSUME NEW t \in Invalidators, ClearQueue(t)
      PROVE  Channel!Lose
  <2>1. InFlight' = InFlight
    BY <1>8, WireKept DEF ClearQueue
  <2>2. (InFlight \o queue)' = InFlight
    BY <1>0, <1>8, <2>1 DEF ClearQueue
  <2>3. ~connected
    BY <1>0, <1>8 DEF ClearQueue, SocketInv
  <2>4. \E i \in 0 .. Len(InFlight \o queue) :
          \E j \in i + 1 .. Len(InFlight \o queue) + 1 :
            InFlight = SubSeq(InFlight \o queue, 1, i)
                      \o SubSeq(InFlight \o queue, j, Len(InFlight \o queue))
    BY <1>0, LoseSuffix
  <2>5. UNCHANGED <<delivered, accepted, connected>>
    BY <1>8 DEF ClearQueue
  <2> QED
    BY <2>2, <2>3, <2>4, <2>5 DEF Channel!Lose
<1>9. CASE UNCHANGED vars
  <2>1. InFlight' = InFlight
    BY <1>9, WireKept DEF vars
  <2> QED
    BY <1>9, <2>1 DEF vars, Channel!chanVars
<1> QED
  BY <1>1, <1>2, <1>3, <1>4, <1>5, <1>6, <1>7, <1>8, <1>9
     DEF Next, Sender, Channel!Next

\* For every capacity and every number of coroutines and invalidators, the
\* message queue of a peer is a bounded FIFO channel that loses messages only
\* once its connection broke.
THEOREM Refinement == Spec => ImplementsChannel
<1>1. IInv /\ [Next]_vars => [Channel!Next]_Channel!chanVars
  BY RefineNext
<1> QED
  BY Inductive, RefineInit, <1>1, PTL DEF Spec, ImplementsChannel, Channel!Spec
=============================================================================
