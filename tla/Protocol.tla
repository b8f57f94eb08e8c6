------------------------------ MODULE Protocol ------------------------------
(***************************************************************************)
(* What a client may send and what a peer makes of it: MessageDto with the *)
(* type selector of its payload, and the checks of Peer::handleMessage and *)
(* the handlers. A payload counts by its shape only:                       *)
(*   absent, null, int, string, ids (a list of peer ids), empty (a list),  *)
(*   direct (an object that names recipients), object (any other one).     *)
(* What a handler does to other peers is the subject of Messages.          *)
(***************************************************************************)
\* enum MessageCodes
Outgoing == {"HELLO", "PING", "ERROR", "NEW_HOST", "MESSAGE", "SYNC_EVENT_OUT",
             "CLIENT_JOINED", "CLIENT_LEFT", "CLIENT_KICKED"}
Incoming == {"PONG", "BROADCAST", "DIRECT_MESSAGE", "SYNC_EVENT",
             "KICK_CLIENTS", "CLIENT_MESSAGE"}
MessageCodes == Outgoing \union Incoming

ErrorCodes == {"BAD_REQUEST", "GAME_NOT_FOUND", "SESSION_NOT_FOUND",
               "OPERATION_NOT_PERMITTED", "BAD_MESSAGE", "INVALID_STATE"}

\* The fields of a DTO as the JSON text of a client can fill them.
Shapes == {"absent", "null", "int", "string", "ids", "empty", "direct",
           "object"}

\* MessageDto: a text that is no JSON or has a code outside of the enum is
\* "unknown". A message without a code ("none") has no payload here: what the
\* mapper does with a payload of type Void is not in this repository.
MessageDto ==
  [code : MessageCodes \union {"unknown"}, payload : Shapes]
    \union {[code |-> "none", payload |-> "absent"]}

\* The type selector of MessageDto::payload. An object has a type of its own
\* for every code; NEW_HOST has none, and the selector throws.
PayloadType(code) ==
  CASE code \in {"PING", "PONG", "CLIENT_JOINED", "CLIENT_LEFT"} -> "Int64"
    [] code \in {"BROADCAST", "SYNC_EVENT", "CLIENT_KICKED",
                 "CLIENT_MESSAGE"} -> "String"
    [] code \in {"HELLO", "ERROR", "MESSAGE", "SYNC_EVENT_OUT",
                 "DIRECT_MESSAGE"} -> code
    [] code = "KICK_CLIENTS" -> "Vector"
    [] OTHER -> "not implemented"

\* What the JSON mapper reads into a field of a type. Fields of an object
\* that its DTO does not know are skipped.
Accepts(type) ==
  CASE type = "Int64" -> {"null", "int"}
    [] type = "String" -> {"null", "string"}
    [] type = "Vector" -> {"null", "ids", "empty"}
    [] type = "not implemented" -> {}
    [] OTHER -> {"null", "direct", "object"}

\* readFromString throws: Peer::readMessage answers with a fatal error.
Unreadable(m) ==
  \/ m.code = "unknown"
  \/ m.payload # "absent" /\ m.payload \notin Accepts(PayloadType(m.code))

NoPayload(m) == m.payload \in {"absent", "null"}

\* payload.retrieve<type>() gives null, or throws if the mapper stored
\* something of another type.
Retrieve(m, type, result) ==
  IF ~NoPayload(m) /\ PayloadType(m.code) # type THEN "THROWS" ELSE result

HandlePong(m) ==
  Retrieve(m, "Int64", IF NoPayload(m) THEN "BAD_MESSAGE" ELSE "SERVED")

\* handleBroadcast; handleSynchronizedEvent makes as little of its payload.
HandleBroadcast(m) == Retrieve(m, "String", "SERVED")

HandleDirectMessage(m) ==
  Retrieve(m, "DIRECT_MESSAGE",
           IF m.payload = "direct" THEN "SERVED" ELSE "BAD_MESSAGE")

\* Mutant of HandleKickMessage: the roles are mixed up.
HandleKickFromClient(m, host) ==
  CASE host = "nobody" -> "INVALID_STATE"
    [] host = "sender" -> "OPERATION_NOT_PERMITTED"
    [] OTHER -> Retrieve(m, "Vector", IF m.payload = "ids" THEN "SERVED"
                                                           ELSE "BAD_MESSAGE")

\* host says who getHost finds: nobody, the sender, or another peer.
HandleKickMessage(m, host) ==
  CASE host = "nobody" -> "INVALID_STATE"
    [] host = "other" -> "OPERATION_NOT_PERMITTED"
    [] OTHER -> Retrieve(m, "Vector", IF m.payload = "ids" THEN "SERVED"
                                                           ELSE "BAD_MESSAGE")

HandleClientMessage(m, host) ==
  CASE host = "nobody" -> "INVALID_STATE"
    [] host = "sender" -> "OPERATION_NOT_PERMITTED"
    [] OTHER -> Retrieve(m, "String", "SERVED")

\* Peer::handleMessage: "SERVED", or the code of the error it answers with.
HandleMessage(m, host) ==
  CASE m.code = "none" -> "BAD_MESSAGE"
    [] m.code = "PONG" -> HandlePong(m)
    [] m.code \in {"BROADCAST", "SYNC_EVENT"} -> HandleBroadcast(m)
    [] m.code = "DIRECT_MESSAGE" -> HandleDirectMessage(m)
    [] m.code = "KICK_CLIENTS" -> HandleKickMessage(m, host)
    [] m.code = "CLIENT_MESSAGE" -> HandleClientMessage(m, host)
    [] OTHER -> "OPERATION_NOT_PERMITTED"

-----------------------------------------------------------------------------
(* The table of message codes in README.md:75-90, for what a peer sends.   *)

DocumentedRole(m, host) ==
  CASE m.code = "KICK_CLIENTS" -> host = "sender"
    [] m.code = "CLIENT_MESSAGE" -> host = "other"
    [] OTHER -> m.code \in Incoming

DocumentedPayload(code) ==
  CASE code = "PONG" -> "int"
    [] code = "DIRECT_MESSAGE" -> "direct"
    [] code = "KICK_CLIENTS" -> "ids"
    [] code \in {"BROADCAST", "SYNC_EVENT", "CLIENT_MESSAGE"} -> "string"

Documented(m, host) ==
  /\ DocumentedRole(m, host)
  /\ m.payload = DocumentedPayload(m.code)
=============================================================================
