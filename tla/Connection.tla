----------------------------- MODULE Connection -----------------------------
(***************************************************************************)
(* One WebSocket as its Peer uses it: the coroutine that reads it, with    *)
(* readMessage's buffer and the answers it writes itself, and the          *)
(* coroutines of queueMessage, ping and kick, which write on other threads *)
(* of the executor. Writes of a frame take time and are serialised by      *)
(* m_writeLock, but for the close frame.                                   *)
(*                                                                         *)
(* The reader does not read on before its answer is written. What the      *)
(* queue holds is the subject of MessageQueue, which messages do to other  *)
(* peers that of Messages.                                                 *)
(***************************************************************************)
EXTENDS Integers, Protocol

CONSTANTS
  None,
  Texts,         \* the messages the client sends
  Pieces,        \* sizes of the pieces in which a message can come
  MaxMessageSize, \* GameConfigDto::maxMessageSizeBytes
  MaxInputs,     \* bound on what the client sends: pieces, ends, pings
  MaxStarts      \* bound on the writers that other threads start

ASSUME ConnectionAssumption ==
  /\ Texts \subseteq MessageDto
  /\ Pieces \subseteq Nat \ {0}
  /\ {MaxMessageSize, MaxInputs, MaxStarts} \subseteq Nat
  /\ None \notin {"reader", "sender", "pinger", "kicker"}

Others == {"sender", "pinger", "kicker"}
Writers == Others \union {"reader"}

VARIABLES
  alive,         \* the connection is neither lost nor invalidated
  attached,      \* m_socket is set
  stalled,       \* the client takes no more data
  lock,          \* m_writeLock: the coroutine that holds it
  pc,            \* per coroutine: what it does next
  reply,         \* what the reader is writing
  request,       \* the message it is about to handle, and who is host
  buffer,        \* m_messageBuffer, its length
  sent,          \* bytes the client has sent of the current message
  cut,           \* some of them were refused
  owed,          \* what the client must still be sent
  inputs, starts \* used up so far of the two bounds

connectionVars == <<alive, attached, stalled>>
messageVars    == <<request, buffer, sent, cut>>
boundVars      == <<inputs, starts>>
vars == <<connectionVars, lock, pc, reply, messageVars, owed, boundVars>>

NoRequest == [message |-> None, host |-> "nobody"]

Init ==
  /\ alive = TRUE
  /\ attached = TRUE
  /\ stalled = FALSE
  /\ lock = None
  /\ pc = [w \in Writers |-> IF w = "reader" THEN "read" ELSE "idle"]
  /\ reply = "nothing"
  /\ request = NoRequest
  /\ buffer = 0
  /\ sent = 0
  /\ cut = FALSE
  /\ owed = {}
  /\ inputs = 0
  /\ starts = 0

Go(w, label) == pc' = [pc EXCEPT ![w] = label]

-----------------------------------------------------------------------------
(* The reader                                                              *)

Input ==
  /\ pc["reader"] = "read"
  /\ alive
  /\ inputs < MaxInputs
  /\ inputs' = inputs + 1

\* sendErrorAsync. Without a socket it starts nothing, and the reader reads
\* on; with a fatal error the client is owed a close frame too.
SendError(fatal) ==
  /\ \/ /\ attached
        /\ Go("reader", "lock")
        /\ reply' = IF fatal THEN "fatal" ELSE "error"
     \/ /\ ~attached
        /\ Go("reader", "read")
        /\ UNCHANGED reply
  /\ owed' = owed \union {"error"} \union (IF fatal THEN {"close"} ELSE {})

\* Mutant of Fits: what is in the buffer already is forgotten.
FitsAlone(size) == size <= MaxMessageSize

Fits(size) == buffer + size <= MaxMessageSize

\* readMessage with data.
ReadPiece(size) ==
  /\ Input
  /\ sent' = sent + size
  /\ \/ /\ Fits(size)
        /\ buffer' = buffer + size
        /\ UNCHANGED <<cut, reply, owed, pc>>
     \/ /\ ~Fits(size)
        /\ cut' = TRUE
        /\ SendError(TRUE)
        /\ UNCHANGED buffer
  /\ UNCHANGED <<connectionVars, lock, request, starts>>

\* Mutant of ResetBuffer: the next message is appended to this one.
KeepBuffer == buffer' = buffer

\* m_messageBuffer.setCurrentPosition(0)
ResetBuffer == buffer' = 0

\* Whom getHost can find, for the two handlers that ask.
HostsFor(m) ==
  IF m.code \in {"KICK_CLIENTS", "CLIENT_MESSAGE"}
  THEN {"nobody", "sender", "other"} ELSE {"nobody"}

\* readMessage at the end of a message. What is left of a message that was
\* cut may be any message.
ReadEnd ==
  /\ Input
  /\ ResetBuffer
  /\ sent' = 0
  /\ cut' = FALSE
  /\ \E m \in Texts : \E host \in HostsFor(m) :
       request' = [message |-> m, host |-> host]
  /\ Go("reader", "handle")
  /\ UNCHANGED <<connectionVars, lock, reply, owed, starts>>

\* readMessage parses the message and calls handleMessage. An exception of a
\* handler ends the coroutine.
Handle ==
  LET m      == request.message
      result == IF Unreadable(m) THEN "FATAL"
                                 ELSE HandleMessage(m, request.host)
  IN  /\ pc["reader"] = "handle"
      /\ request' = NoRequest
      /\ \/ result = "SERVED" /\ Go("reader", "read")
            /\ UNCHANGED <<reply, owed>>
         \/ result = "THROWS" /\ Go("reader", "over")
            /\ UNCHANGED <<reply, owed>>
         \/ result \in ErrorCodes /\ SendError(FALSE)
         \/ result = "FATAL" /\ SendError(TRUE)
      /\ UNCHANGED <<connectionVars, lock, buffer, sent, cut, boundVars>>

\* Mutant of SendPong: the pong is written at once.
SendPongAtOnce == Go("reader", "write")

SendPong == Go("reader", "lock")

\* onPing
OnPing ==
  /\ Input
  /\ SendPong
  /\ reply' = "pong"
  /\ owed' = owed \union {"pong"}
  /\ UNCHANGED <<connectionVars, lock, messageVars, starts>>

\* sendCloseAsync of a fatal error: no lock.
StartClose ==
  /\ pc["reader"] = "close"
  /\ Go("reader", "closing")
  /\ UNCHANGED <<connectionVars, lock, reply, messageVars, owed, boundVars>>

FinishClose ==
  /\ pc["reader"] = "closing"
  /\ reply' = "nothing"
  /\ \/ alive /\ ~stalled /\ Go("reader", "read") /\ owed' = owed \ {"close"}
     \/ ~alive /\ Go("reader", "over") /\ UNCHANGED owed
  /\ UNCHANGED <<connectionVars, lock, messageVars, boundVars>>

\* onClose after a close frame of the client, or the connection is gone: the
\* socket is not listened to any more.
EndListening ==
  /\ pc["reader"] = "read"
  /\ Go("reader", "over")
  /\ UNCHANGED <<connectionVars, lock, reply, messageVars, owed, boundVars>>

-----------------------------------------------------------------------------
(* The other writers                                                       *)

\* queueMessage, ping and kick: a coroutine starts if there is a socket.
Start(w) ==
  /\ pc[w] = "idle"
  /\ attached
  /\ starts < MaxStarts
  /\ starts' = starts + 1
  /\ Go(w, "lock")
  /\ UNCHANGED <<connectionVars, lock, reply, messageVars, owed, inputs>>

QueueMessage == Start("sender")

Ping == Start("pinger")

Kick == Start("kicker")

\* oatpp::async::synchronize takes the lock; the frame begins.
Acquire(w) ==
  /\ pc[w] = "lock"
  /\ lock = None
  /\ lock' = w
  /\ Go(w, "write")
  /\ UNCHANGED <<connectionVars, reply, messageVars, owed, boundVars>>

\* Mutant of AfterFrame: a kick only notifies.
AfterFrameOnly(w) ==
  CASE w = "reader" -> (IF reply = "fatal" THEN "close" ELSE "read")
    [] OTHER -> "idle"

\* Mutant of AfterFrame: no close frame after a fatal error.
AfterFrameNoClose(w) ==
  CASE w = "reader" -> "read"
    [] w = "kicker" -> "cut off"
    [] OTHER -> "idle"

\* The next step of each coroutine when its frame is out.
AfterFrame(w) ==
  CASE w = "reader" -> (IF reply = "fatal" THEN "close" ELSE "read")
    [] w = "kicker" -> "cut off"
    [] OTHER -> "idle"

\* The frame is out and the lock free.
FinishFrame(w) ==
  /\ pc[w] = "write"
  /\ alive /\ ~stalled
  /\ lock' = None
  /\ Go(w, AfterFrame(w))
  /\ IF w = "reader"
     THEN /\ owed' = owed \ {"error", "pong"}
          /\ reply' = IF reply = "fatal" THEN reply ELSE "nothing"
     ELSE UNCHANGED <<owed, reply>>
  /\ UNCHANGED <<connectionVars, messageVars, boundVars>>

\* Mutant of Release: a failed write keeps the lock.
KeepLock == lock' = lock

\* The guard of synchronize lets go of the lock when the coroutine fails.
Release == lock' = None

\* A write on a dead connection fails. The coroutine of the queue goes on
\* with the next message, or ends; that of the reader ends listening.
FailFrame(w) ==
  /\ pc[w] = "write"
  /\ ~alive
  /\ Release
  /\ \/ w = "reader" /\ Go(w, "over")
     \/ w # "reader" /\ Go(w, "idle")
     \/ w = "sender" /\ starts < MaxStarts /\ Go(w, "lock")
  /\ starts' = starts + (IF pc'[w] = "lock" THEN 1 ELSE 0)
  /\ reply' = IF w = "reader" THEN "nothing" ELSE reply
  /\ UNCHANGED <<connectionVars, messageVars, owed, inputs>>

\* KickCoroutine::onMessageSent
CutOff ==
  /\ pc["kicker"] = "cut off"
  /\ alive' = FALSE
  /\ Go("kicker", "idle")
  /\ UNCHANGED <<attached, stalled, lock, reply, messageVars, owed, boundVars>>

-----------------------------------------------------------------------------
(* The connection                                                          *)

InvalidateSocket ==
  /\ attached
  /\ attached' = FALSE
  /\ alive' = FALSE

\* checkPingsRules of the pinger.
Drop ==
  /\ InvalidateSocket
  /\ UNCHANGED <<stalled, lock, pc, reply, messageVars, owed, boundVars>>

\* onBeforeDestroy_NonBlocking
Destroy ==
  /\ pc["reader"] = "over"
  /\ Go("reader", "gone")
  /\ \/ InvalidateSocket
     \/ ~attached /\ UNCHANGED <<alive, attached>>
  /\ UNCHANGED <<stalled, lock, reply, messageVars, owed, boundVars>>

\* The network fails, or the client is gone.
LoseConnection ==
  /\ alive
  /\ alive' = FALSE
  /\ UNCHANGED <<attached, stalled, lock, pc, reply, messageVars, owed,
                 boundVars>>

\* The client stops taking data: writes wait.
Stall ==
  /\ alive /\ ~stalled
  /\ stalled' = TRUE
  /\ UNCHANGED <<alive, attached, lock, pc, reply, messageVars, owed,
                 boundVars>>

-----------------------------------------------------------------------------
Client == OnPing \/ ReadEnd \/ Stall \/ \E n \in Pieces : ReadPiece(n)

Server == QueueMessage \/ Ping \/ Kick \/ Drop

Reader == Handle \/ StartClose \/ FinishClose \/ Destroy

Frame(w) == FinishFrame(w) \/ FailFrame(w)

Next ==
  \/ Client
  \/ Server
  \/ Reader
  \/ EndListening
  \/ CutOff
  \/ LoseConnection
  \/ \E w \in Writers : Acquire(w) \/ Frame(w)

\* The executor runs every coroutine that can go on; oatpp::async::Lock wakes
\* those that wait in turn, so that none is passed over forever. A client
\* that takes no data answers no ping either, and the pinger drops it
\* (SilentPeerIsDropped of Ping). Nothing else need happen.
Fairness ==
  /\ WF_vars(Reader)
  /\ WF_vars(~alive /\ EndListening)
  /\ WF_vars(CutOff)
  /\ \A w \in Writers : SF_vars(Acquire(w)) /\ WF_vars(Frame(w))
  /\ WF_vars(stalled /\ Drop)

Spec == Init /\ [][Next]_vars

FairSpec == Spec /\ Fairness

-----------------------------------------------------------------------------
ReaderLabels == {"read", "handle", "lock", "write", "close", "closing",
                 "over", "gone"}

TypeOK ==
  /\ {alive, attached, stalled, cut} \subseteq BOOLEAN
  /\ lock \in Writers \union {None}
  /\ pc \in [Writers -> ReaderLabels \union {"idle", "cut off"}]
  /\ pc["reader"] \in ReaderLabels
  /\ reply \in {"nothing", "error", "fatal", "pong"}
  /\ request \in {NoRequest} \union
       [message : Texts, host : {"nobody", "sender", "other"}]
  /\ buffer \in 0 .. MaxMessageSize
  /\ sent \in Nat
  /\ owed \subseteq {"error", "close", "pong"}

\* Text and pong frames of the four coroutines do not mix on the wire, and a
\* coroutine that ended, in whichever way, does not leave the lock taken.
OneFrameAtATime == \A w \in Writers : pc[w] = "write" <=> lock = w

\* The comment of m_writeLock, "Lock for synchronization of writes to the web
\* socket" (Peer.hpp:65): no frame at all begins within another one.
FramesWhole ==
  \A v, w \in Writers :
    pc[v] \in {"write", "closing"} /\ pc[w] \in {"write", "closing"} => v = w

\* What readMessage takes for a message is the message the client sent, from
\* its first byte, unless a piece of it was refused (with a fatal error).
HandledIsWhole == cut \/ buffer = sent

\* The client is never ahead of its answers: as long as the connection lives,
\* the server reads on only after the error, the close frame or the pong it
\* owes have been written.
AnswersKeepUp == alive /\ pc["reader"] = "read" => owed = {}

\* README.md:75-90: an operation in the documented form by a peer of the
\* documented role is carried out; no peer is served outside of its role.
ServedAsDocumented ==
  [][pc["reader"] = "handle" /\ pc'["reader"] # "handle" =>
       LET m      == request.message
           h      == request.host
           served == pc'["reader"] = "read" /\ owed' = owed
       IN  /\ Documented(m, h) => served
           /\ served /\ attached => DocumentedRole(m, h)]_<<pc, request>>

\* A kicked client is cut off, although the notice may have to wait for other
\* frames and the client may not take it.
KickCutsOff == pc["kicker"] = "lock" ~> ~alive

\* However a connection dies, the reader comes to its end and lets go of the
\* socket: it is not left waiting for a lock or a write.
DeadConnectionIsReleased == ~alive ~> pc["reader"] = "gone" /\ ~attached
=============================================================================
