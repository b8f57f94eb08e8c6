-------------------------- MODULE ConnectionProofs --------------------------
(***************************************************************************)
(* Proofs about Connection for every set of messages, sizes and bounds.    *)
(***************************************************************************)
EXTENDS Connection, TLAPS

-----------------------------------------------------------------------------
(* The inductive invariant.                                                *)

\* Nothing gets through once m_socket is reset.
AttachedInv == alive => attached

\* How far the reader is with what it owes. What it owes it writes before it
\* reads on, the close frame after the error.
OwedInv ==
  alive =>
    /\ pc["reader"] \in {"read", "handle"} => owed = {}
    /\ pc["reader"] \in {"lock", "write"} =>
         owed \subseteq {"error", "pong"}
           \union (IF reply = "fatal" THEN {"close"} ELSE {})
    /\ pc["reader"] \in {"close", "closing"} => owed \subseteq {"close"}

IInv ==
  /\ TypeOK
  /\ OneFrameAtATime
  /\ HandledIsWhole
  /\ AttachedInv
  /\ OwedInv

-----------------------------------------------------------------------------
(* The initial states.                                                     *)

LEMMA InitIInv == Init => IInv
<1> SUFFICES ASSUME Init PROVE IInv
  OBVIOUS
<1>1. TypeOK
  <2>1. buffer \in 0 .. MaxMessageSize /\ sent \in Nat
    BY ConnectionAssumption DEF Init
  <2>2. /\ pc \in [Writers -> ReaderLabels \union {"idle", "cut off"}]
        /\ pc["reader"] \in ReaderLabels
    BY DEF Init, Writers, ReaderLabels
  <2>3. request \in {NoRequest}
    BY DEF Init
  <2> QED
    BY <2>1, <2>2, <2>3 DEF Init, TypeOK
<1>2. OneFrameAtATime
  BY ConnectionAssumption DEF Init, OneFrameAtATime, Writers, Others
<1>3. HandledIsWhole /\ AttachedInv /\ OwedInv
  BY DEF Init, HandledIsWhole, AttachedInv, OwedInv, Writers
<1> QED
  BY <1>1, <1>2, <1>3 DEF IInv

-----------------------------------------------------------------------------
(* One lemma per conjunct. The reader's handlers share SendError.          *)

LEMMA SendErrorType ==
  ASSUME TypeOK, NEW fatal \in BOOLEAN, SendError(fatal)
  PROVE  /\ pc' \in [Writers -> ReaderLabels \union {"idle", "cut off"}]
         /\ pc'["reader"] \in ReaderLabels
         /\ reply' \in {"nothing", "error", "fatal", "pong"}
         /\ owed' \subseteq {"error", "close", "pong"}
<1> USE DEF TypeOK, Writers, ReaderLabels
<1>1. pc'["reader"] \in {"lock", "read"} /\ pc' = [pc EXCEPT !["reader"] = pc'["reader"]]
  BY DEF SendError, Go
<1>2. reply' \in {"nothing", "error", "fatal", "pong"}
  BY DEF SendError
<1>3. owed' \subseteq {"error", "close", "pong"}
  BY DEF SendError
<1> QED
  BY <1>1, <1>2, <1>3

LEMMA NextType ==
  ASSUME TypeOK, [Next]_vars
  PROVE  TypeOK'
<1> USE DEF Go, Writers, Others, connectionVars, messageVars, boundVars
<1>1. ASSUME NEW n \in Pieces, ReadPiece(n) PROVE TypeOK'
  <2>1. n \in Nat /\ sent \in Nat /\ buffer \in Nat /\ MaxMessageSize \in Nat
    <3>1. n \in Nat /\ MaxMessageSize \in Nat
      BY ConnectionAssumption
    <3>2. sent \in Nat /\ buffer \in 0 .. MaxMessageSize
      BY DEF TypeOK
    <3> QED
      BY <3>1, <3>2
  <2>a. sent' = sent + n /\ sent' \in Nat
    <3>1. sent' = sent + n
      BY <1>1 DEF ReadPiece
    <3> QED
      BY <2>1, <3>1
  <2>2. CASE Fits(n) /\ buffer' = buffer + n /\ UNCHANGED <<cut, reply, owed, pc>>
    <3>1. buffer' \in 0 .. MaxMessageSize
      <4>1. buffer + n <= MaxMessageSize /\ buffer' = buffer + n
        BY <2>2 DEF Fits
      <4> QED
        BY <2>1, <4>1
    <3> QED
      BY <1>1, <2>a, <2>2, <3>1 DEF ReadPiece, TypeOK
  <2>3. CASE cut' = TRUE /\ SendError(TRUE) /\ UNCHANGED buffer
    <3> QED
      BY <1>1, <2>a, <2>3, SendErrorType DEF ReadPiece, TypeOK
  <2> QED
    BY <1>1, <2>2, <2>3 DEF ReadPiece
<1>2. CASE ReadEnd
  <2>1. /\ request' \in [message : Texts, host : {"nobody", "sender", "other"}]
    BY <1>2 DEF ReadEnd, HostsFor
  <2>2. 0 \in 0 .. MaxMessageSize
    BY ConnectionAssumption
  <2> QED
    BY <1>2, <2>1, <2>2 DEF ReadEnd, ResetBuffer, TypeOK, ReaderLabels
<1>3. CASE Handle
  <2>1. \/ pc' = [pc EXCEPT !["reader"] = "read"] /\ UNCHANGED <<reply, owed>>
        \/ pc' = [pc EXCEPT !["reader"] = "over"] /\ UNCHANGED <<reply, owed>>
        \/ SendError(FALSE) \/ SendError(TRUE)
    BY <1>3 DEF Handle
  <2>2. /\ request' = NoRequest
        /\ UNCHANGED <<connectionVars, lock, buffer, sent, cut, boundVars>>
    BY <1>3 DEF Handle
  <2>3. CASE SendError(FALSE) \/ SendError(TRUE)
    BY <2>2, <2>3, SendErrorType DEF TypeOK
  <2>4. CASE \/ pc' = [pc EXCEPT !["reader"] = "read"] /\ UNCHANGED <<reply, owed>>
             \/ pc' = [pc EXCEPT !["reader"] = "over"] /\ UNCHANGED <<reply, owed>>
    BY <2>2, <2>4 DEF TypeOK, ReaderLabels
  <2> QED
    BY <2>1, <2>3, <2>4
<1>4. CASE OnPing \/ Stall
  BY <1>4 DEF OnPing, SendPong, Stall, TypeOK, ReaderLabels
<1>5. CASE StartClose \/ FinishClose \/ EndListening
  BY <1>5 DEF StartClose, FinishClose, EndListening, TypeOK, ReaderLabels
<1>6. CASE QueueMessage \/ Ping \/ Kick
  BY <1>6 DEF QueueMessage, Ping, Kick, Start, TypeOK, ReaderLabels
<1>7. ASSUME NEW w \in Writers, Acquire(w) PROVE TypeOK'
  BY <1>7 DEF Acquire, TypeOK, ReaderLabels
<1>8. ASSUME NEW w \in Writers, FinishFrame(w) PROVE TypeOK'
  <2>1. /\ AfterFrame(w) \in ReaderLabels \union {"idle", "cut off"}
        /\ w = "reader" => AfterFrame(w) \in ReaderLabels
    BY DEF AfterFrame, ReaderLabels
  <2>2. /\ reply' \in {"nothing", "error", "fatal", "pong"}
        /\ owed' \subseteq {"error", "close", "pong"}
    BY <1>8 DEF FinishFrame, TypeOK
  <2> QED
    BY <1>8, <2>1, <2>2 DEF FinishFrame, TypeOK
<1>9. ASSUME NEW w \in Writers, FailFrame(w) PROVE TypeOK'
  <2>1. \/ w = "reader" /\ pc' = [pc EXCEPT ![w] = "over"]
        \/ w # "reader" /\ pc' = [pc EXCEPT ![w] = "idle"]
        \/ w = "sender" /\ pc' = [pc EXCEPT ![w] = "lock"]
    BY <1>9 DEF FailFrame
  <2> QED
    BY <1>9, <2>1 DEF FailFrame, Release, TypeOK, ReaderLabels
<1>10. CASE CutOff \/ Drop \/ LoseConnection
  BY <1>10 DEF CutOff, Drop, InvalidateSocket, LoseConnection, TypeOK, ReaderLabels
<1>11. CASE Destroy
  BY <1>11 DEF Destroy, InvalidateSocket, TypeOK, ReaderLabels
<1>12. CASE UNCHANGED vars
  BY <1>12 DEF vars, TypeOK
<1> QED
  BY <1>1, <1>2, <1>3, <1>4, <1>5, <1>6, <1>7, <1>8, <1>9, <1>10, <1>11, <1>12
     DEF Next, Client, Server, Reader, Frame
-----------------------------------------------------------------------------
(* Frames.                                                                 *)

LEMMA NextFrame ==
  ASSUME TypeOK, OneFrameAtATime, [Next]_vars
  PROVE  OneFrameAtATime'
<1> USE ConnectionAssumption DEF OneFrameAtATime, TypeOK, Go, Writers, Others,
        connectionVars, messageVars, boundVars
\* A step of w that neither takes nor frees the lock.
<1>0. ASSUME NEW w \in Writers, NEW label, pc' = [pc EXCEPT ![w] = label],
             pc[w] # "write", label # "write", UNCHANGED lock
      PROVE  OneFrameAtATime'
  BY <1>0
<1>s. ASSUME NEW fatal \in BOOLEAN, SendError(fatal), UNCHANGED lock,
             pc["reader"] # "write"
      PROVE  OneFrameAtATime'
  BY <1>0, <1>s DEF SendError
<1>1. ASSUME NEW n \in Pieces, ReadPiece(n) PROVE OneFrameAtATime'
  <2>1. pc["reader"] = "read" /\ UNCHANGED lock
    BY <1>1 DEF ReadPiece, Input
  <2>2. UNCHANGED pc \/ SendError(TRUE)
    BY <1>1 DEF ReadPiece
  <2> QED
    BY <1>s, <2>1, <2>2
<1>2. CASE Handle
  <2>1. pc["reader"] = "handle" /\ UNCHANGED lock
    BY <1>2 DEF Handle
  <2>2. \/ Go("reader", "read") \/ Go("reader", "over")
        \/ SendError(TRUE) \/ SendError(FALSE)
    BY <1>2 DEF Handle
  <2> QED
    BY <1>0, <1>s, <2>1, <2>2
<1>3. CASE \/ ReadEnd \/ OnPing \/ StartClose \/ FinishClose \/ EndListening
           \/ Destroy \/ CutOff
  <2>1. CASE ReadEnd \/ OnPing
    BY <1>0, <2>1 DEF ReadEnd, OnPing, SendPong, Input
  <2>2. CASE StartClose \/ FinishClose \/ EndListening \/ Destroy
    BY <1>0, <2>2 DEF StartClose, FinishClose, EndListening, Destroy
  <2>3. CASE CutOff
    BY <1>0, <2>3 DEF CutOff
  <2> QED
    BY <1>3, <2>1, <2>2, <2>3
<1>4. CASE Stall \/ Drop \/ LoseConnection \/ UNCHANGED vars
  BY <1>4 DEF Stall, Drop, LoseConnection, vars
<1>5. CASE QueueMessage \/ Ping \/ Kick
  BY <1>5 DEF QueueMessage, Ping, Kick, Start
<1>6. ASSUME NEW w \in Writers, Acquire(w) PROVE OneFrameAtATime'
  BY <1>6 DEF Acquire
<1>7. ASSUME NEW w \in Writers, FinishFrame(w) PROVE OneFrameAtATime'
  <2>1. AfterFrame(w) # "write"
    BY DEF AfterFrame
  <2>2. /\ pc[w] = "write" /\ lock' = None
        /\ pc' = [pc EXCEPT ![w] = AfterFrame(w)]
    BY <1>7 DEF FinishFrame
  <2> QED
    BY <2>1, <2>2
<1>8. ASSUME NEW w \in Writers, FailFrame(w) PROVE OneFrameAtATime'
  <2>1. /\ pc[w] = "write" /\ lock' = None
        /\ \E l \in {"over", "idle", "lock"} : pc' = [pc EXCEPT ![w] = l]
    BY <1>8 DEF FailFrame, Release
  <2>2. pc'[w] # "write" /\ \A v \in Writers \ {w} : pc'[v] # "write"
    BY <2>1
  <2> QED
    BY <2>1, <2>2
<1> QED
  BY <1>1, <1>2, <1>3, <1>4, <1>5, <1>6, <1>7, <1>8
     DEF Next, Client, Server, Reader, Frame

-----------------------------------------------------------------------------
(* The buffer.                                                             *)

LEMMA NextBuffer ==
  ASSUME HandledIsWhole, [Next]_vars
  PROVE  HandledIsWhole'
<1> USE DEF HandledIsWhole, messageVars
<1>1. ASSUME NEW n \in Pieces, ReadPiece(n) PROVE HandledIsWhole'
  <2>1. CASE buffer' = buffer + n /\ UNCHANGED cut
    <3>1. sent' = sent + n
      BY <1>1 DEF ReadPiece
    <3>2. buffer = sent => buffer' = sent'
      BY <2>1, <3>1
    <3> QED
      BY <2>1, <3>2
  <2>2. CASE cut' = TRUE
    BY <2>2
  <2> QED
    BY <1>1, <2>1, <2>2 DEF ReadPiece
<1>2. CASE ReadEnd
  BY <1>2 DEF ReadEnd, ResetBuffer
<1>3. UNCHANGED <<buffer, sent, cut>> => HandledIsWhole'
  OBVIOUS
<1>4. CASE \/ Handle \/ OnPing \/ StartClose \/ FinishClose \/ EndListening
           \/ Destroy \/ CutOff \/ Stall \/ Drop \/ LoseConnection
           \/ QueueMessage \/ Ping \/ Kick \/ UNCHANGED vars
           \/ \E w \in Writers : Acquire(w) \/ Frame(w)
  <2>1. UNCHANGED <<buffer, sent, cut>>
    BY <1>4 DEF Handle, OnPing, StartClose, FinishClose, EndListening, Destroy,
      CutOff, Stall, Drop, LoseConnection, QueueMessage, Ping, Kick, Start,
      vars, Acquire, Frame, FinishFrame, FailFrame
  <2> QED
    BY <1>3, <2>1
<1> QED
  BY <1>1, <1>2, <1>4 DEF Next, Client, Server, Reader

-----------------------------------------------------------------------------
(* What the reader owes.                                                   *)

LEMMA NextAttached ==
  ASSUME AttachedInv, [Next]_vars
  PROVE  AttachedInv'
<1> USE DEF AttachedInv, connectionVars
<1>1. UNCHANGED connectionVars => AttachedInv'
  OBVIOUS
<1>2. CASE Drop \/ LoseConnection \/ Stall \/ CutOff \/ UNCHANGED vars
  BY <1>2 DEF Drop, InvalidateSocket, LoseConnection, Stall, CutOff, vars
<1>3. CASE Destroy
  BY <1>3 DEF Destroy, InvalidateSocket
<1>4. CASE \/ Handle \/ OnPing \/ StartClose \/ FinishClose \/ EndListening
           \/ QueueMessage \/ Ping \/ Kick \/ ReadEnd
           \/ (\E n \in Pieces : ReadPiece(n))
           \/ (\E w \in Writers : Acquire(w) \/ Frame(w))
  <2>1. UNCHANGED connectionVars
    BY <1>4 DEF Handle, OnPing, StartClose, FinishClose, EndListening,
      QueueMessage, Ping, Kick, Start, ReadEnd, ReadPiece, Acquire, Frame,
      FinishFrame, FailFrame
  <2> QED
    BY <1>1, <2>1
<1> QED
  BY <1>2, <1>3, <1>4 DEF Next, Client, Server, Reader

LEMMA NextOwed ==
  ASSUME TypeOK, AttachedInv, OwedInv, [Next]_vars
  PROVE  OwedInv'
<1> USE DEF OwedInv, TypeOK, Go, Writers, Others, connectionVars, messageVars,
        boundVars
<1>s. ASSUME NEW fatal \in BOOLEAN, SendError(fatal), alive' = alive,
             pc["reader"] \in {"read", "handle"}
      PROVE  OwedInv'
  BY <1>s DEF SendError, AttachedInv
<1>1. ASSUME NEW n \in Pieces, ReadPiece(n) PROVE OwedInv'
  <2>1. pc["reader"] = "read" /\ alive' = alive
    BY <1>1 DEF ReadPiece, Input
  <2>2. UNCHANGED <<reply, owed, pc>> \/ SendError(TRUE)
    BY <1>1 DEF ReadPiece
  <2> QED
    BY <1>s, <2>1, <2>2
<1>2. CASE Handle
  <2>1. pc["reader"] = "handle" /\ alive' = alive
    BY <1>2 DEF Handle
  <2>2. \/ Go("reader", "read") /\ UNCHANGED <<reply, owed>>
        \/ Go("reader", "over") /\ UNCHANGED <<reply, owed>>
        \/ SendError(TRUE) \/ SendError(FALSE)
    BY <1>2 DEF Handle
  <2> QED
    BY <1>s, <2>1, <2>2
<1>3. CASE ReadEnd \/ OnPing \/ EndListening
  BY <1>3 DEF ReadEnd, OnPing, SendPong, Input, EndListening
<1>4. CASE StartClose \/ FinishClose
  BY <1>4 DEF StartClose, FinishClose
<1>5. CASE Stall \/ Drop \/ LoseConnection \/ CutOff \/ UNCHANGED vars
  BY <1>5 DEF Stall, Drop, InvalidateSocket, LoseConnection, CutOff, vars
<1>6. CASE Destroy
  BY <1>6 DEF Destroy, InvalidateSocket
<1>7. CASE QueueMessage \/ Ping \/ Kick
  BY <1>7 DEF QueueMessage, Ping, Kick, Start
<1>8. ASSUME NEW w \in Writers, Acquire(w) PROVE OwedInv'
  BY <1>8 DEF Acquire
<1>9. ASSUME NEW w \in Writers, FinishFrame(w) PROVE OwedInv'
  BY <1>9 DEF FinishFrame, AfterFrame
<1>10. ASSUME NEW w \in Writers, FailFrame(w) PROVE OwedInv'
  BY <1>10 DEF FailFrame
<1> QED
  BY <1>1, <1>2, <1>3, <1>4, <1>5, <1>6, <1>7, <1>8, <1>9, <1>10
     DEF Next, Client, Server, Reader, Frame

-----------------------------------------------------------------------------
LEMMA Inductive == Spec => []IInv
<1>1. IInv /\ [Next]_vars => IInv'
  BY NextType, NextFrame, NextBuffer, NextAttached, NextOwed DEF IInv
<1> QED
  BY InitIInv, <1>1, PTL DEF Spec

\* Whatever comes in whatever pieces, m_messageBuffer stays within
\* maxMessageSizeBytes, and all variables keep their types.
THEOREM TypeCorrect == Spec => []TypeOK
  BY Inductive, PTL DEF IInv

\* m_writeLock keeps the frames that are written under it apart, and no
\* coroutine that fails keeps it.
THEOREM FramesApart == Spec => []OneFrameAtATime
  BY Inductive, PTL DEF IInv

\* readMessage handles what was sent, unless it refused a part of it.
THEOREM MessagesWhole == Spec => []HandledIsWhole
  BY Inductive, PTL DEF IInv

\* While the connection lives, the server does not read on before it has
\* written every error, close frame and pong it owes the client.
THEOREM ReaderKeepsUp == Spec => []AnswersKeepUp
<1>1. IInv => AnswersKeepUp
  BY DEF IInv, OwedInv, AnswersKeepUp
<1> QED
  BY Inductive, <1>1, PTL

-----------------------------------------------------------------------------
(* What is served: the codes of Protocol, one after the other.             *)

Roles == {"nobody", "sender", "other"}

\* The payload the table names for a code is of the type the selector gives
\* for it and the handler retrieves, and the checks before let its sender
\* through.
LEMMA DocumentedIsServed ==
  ASSUME NEW m \in MessageDto, NEW h \in Roles, Documented(m, h)
  PROVE  ~Unreadable(m) /\ HandleMessage(m, h) = "SERVED"
<1> USE DEF Documented, DocumentedRole, DocumentedPayload, Incoming, Outgoing,
            Unreadable, PayloadType, Accepts, HandleMessage, Retrieve, NoPayload
<1>1. CASE m.code = "PONG"
  BY <1>1 DEF HandlePong
<1>2. CASE m.code \in {"BROADCAST", "SYNC_EVENT"}
  BY <1>2 DEF HandleBroadcast
<1>3. CASE m.code = "DIRECT_MESSAGE"
  BY <1>3 DEF HandleDirectMessage
<1>4. CASE m.code = "KICK_CLIENTS"
  BY <1>4 DEF HandleKickMessage
<1>5. CASE m.code = "CLIENT_MESSAGE"
  BY <1>5 DEF HandleClientMessage
<1> QED
  BY <1>1, <1>2, <1>3, <1>4, <1>5

\* Whatever the payload, nobody is served out of its role.
LEMMA ServedHasRole ==
  ASSUME NEW m \in MessageDto, NEW h \in Roles, HandleMessage(m, h) = "SERVED"
  PROVE  DocumentedRole(m, h)
<1> USE DEF DocumentedRole, Incoming, HandleMessage, Retrieve
<1>1. CASE m.code = "KICK_CLIENTS"
  BY <1>1 DEF HandleKickMessage, Roles
<1>2. CASE m.code = "CLIENT_MESSAGE"
  BY <1>2 DEF HandleClientMessage, Roles
<1>3. CASE m.code \notin {"KICK_CLIENTS", "CLIENT_MESSAGE"}
  BY <1>3
<1> QED
  BY <1>1, <1>2, <1>3

\* The reader is about to handle a message that the client can have sent.
RequestInv ==
  pc["reader"] = "handle" =>
    request.message \in MessageDto /\ request.host \in Roles

LEMMA NextRequest ==
  ASSUME TypeOK, RequestInv, [Next]_vars
  PROVE  RequestInv'
<1> USE DEF RequestInv, TypeOK, Go, Writers, Others, connectionVars, messageVars,
        boundVars
<1>1. ASSUME NEW n \in Pieces, ReadPiece(n) PROVE RequestInv'
  BY <1>1 DEF ReadPiece, Input, SendError
<1>2. CASE ReadEnd
  <2>1. \A m : HostsFor(m) \subseteq Roles
    BY DEF HostsFor, Roles
  <2>2. PICK m \in Texts, h \in Roles : request' = [message |-> m, host |-> h]
    BY <1>2, <2>1 DEF ReadEnd
  <2>3. m \in MessageDto
    BY ConnectionAssumption
  <2> QED
    BY <2>2, <2>3
<1>3. CASE OnPing \/ Handle \/ StartClose \/ FinishClose \/ Destroy \/ EndListening
  BY <1>3 DEF OnPing, Input, SendPong, Handle, SendError, StartClose, FinishClose,
              Destroy, EndListening
<1>4. CASE QueueMessage \/ Ping \/ Kick \/ CutOff
  BY <1>4 DEF QueueMessage, Ping, Kick, Start, CutOff
<1>5. CASE Drop \/ LoseConnection \/ Stall \/ UNCHANGED vars
  BY <1>5 DEF Drop, LoseConnection, Stall, vars
<1>6. ASSUME NEW w \in Writers, Acquire(w) \/ FinishFrame(w) \/ FailFrame(w)
      PROVE  RequestInv'
  BY <1>6 DEF Acquire, FinishFrame, AfterFrame, FailFrame
<1> QED
  BY <1>1, <1>2, <1>3, <1>4, <1>5, <1>6 DEF Next, Client, Server, Reader, Frame

\* Only Handle takes the reader from a message.
LEMMA OnlyHandleHandles ==
  ASSUME TypeOK, [Next]_vars, pc["reader"] = "handle", pc'["reader"] # "handle"
  PROVE  Handle
<1> USE DEF TypeOK, Go, Writers, Others, connectionVars, messageVars, boundVars
<1>1. ~ \E n \in Pieces : ReadPiece(n)
  BY DEF ReadPiece, Input
<1>2. ~(OnPing \/ ReadEnd \/ StartClose \/ FinishClose \/ Destroy \/ EndListening)
  BY DEF OnPing, ReadEnd, Input, StartClose, FinishClose, Destroy, EndListening
<1>3. ~(QueueMessage \/ Ping \/ Kick \/ CutOff)
  BY DEF QueueMessage, Ping, Kick, Start, CutOff
<1>4. ~(Drop \/ LoseConnection \/ Stall \/ UNCHANGED vars)
  BY DEF Drop, LoseConnection, Stall, vars
<1>5. ~ \E w \in Writers : Acquire(w) \/ FinishFrame(w) \/ FailFrame(w)
  BY DEF Acquire, FinishFrame, FailFrame
<1> QED
  BY <1>1, <1>2, <1>3, <1>4, <1>5 DEF Next, Client, Server, Reader, Frame

LEMMA HandledAsDocumented ==
  ASSUME TypeOK, RequestInv, Handle
  PROVE  LET m      == request.message
             h      == request.host
             served == pc'["reader"] = "read" /\ owed' = owed
         IN  /\ Documented(m, h) => served
             /\ served /\ attached => DocumentedRole(m, h)
<1> DEFINE m      == request.message
           h      == request.host
           result == IF Unreadable(m) THEN "FATAL" ELSE HandleMessage(m, h)
<1>1. m \in MessageDto /\ h \in Roles /\ "reader" \in DOMAIN pc
  BY DEF Handle, RequestInv, TypeOK, Writers
<1>2. \/ result = "SERVED" /\ pc'["reader"] = "read" /\ owed' = owed
      \/ result = "THROWS" /\ pc'["reader"] = "over"
      \/ /\ result \in ErrorCodes \union {"FATAL"}
         /\ attached => pc'["reader"] = "lock"
  BY <1>1 DEF Handle, Go, SendError
<1>3. Documented(m, h) => result = "SERVED"
  BY <1>1, DocumentedIsServed
<1>4. result = "SERVED" => DocumentedRole(m, h)
  BY <1>1, ServedHasRole
<1> HIDE DEF m, h, result
<1>5. /\ Documented(m, h) => pc'["reader"] = "read" /\ owed' = owed
      /\ pc'["reader"] = "read" /\ owed' = owed /\ attached => DocumentedRole(m, h)
  BY <1>2, <1>3, <1>4 DEF ErrorCodes
<1> QED
  BY <1>5 DEF m, h

\* Whatever the messages: a documented operation of a peer in the documented
\* role is carried out, and no peer is served outside of its role.
THEOREM Served == Spec => ServedAsDocumented
<1>1. Init => RequestInv
  BY DEF Init, RequestInv, Writers
<1>2. IInv /\ RequestInv /\ [Next]_vars => RequestInv'
  BY NextRequest DEF IInv
<1>3. ASSUME IInv, RequestInv, [Next]_vars
      PROVE  [pc["reader"] = "handle" /\ pc'["reader"] # "handle" =>
                LET m      == request.message
                    h      == request.host
                    served == pc'["reader"] = "read" /\ owed' = owed
                IN  /\ Documented(m, h) => served
                    /\ served /\ attached => DocumentedRole(m, h)]_<<pc, request>>
  BY <1>3, OnlyHandleHandles, HandledAsDocumented DEF IInv
<1> QED
  BY Inductive, <1>1, <1>2, <1>3, PTL DEF Spec, ServedAsDocumented
=============================================================================
