---------------------------- MODULE MCConnection ----------------------------
(***************************************************************************)
(* Connection for TLC. Messages of up to 3 units in pieces of 1 or 2: a    *)
(* message can fit, end at the limit, or pass it in its second piece and   *)
(* go on. Three inputs reach the end of a message of which a piece was     *)
(* refused, and the start of a second message; with three starts all other *)
(* writers can wait for the lock while the reader answers.                 *)
(* Of the codes that clients are not to send, one with a type of payload   *)
(* and the one without stand for all; of the others, every shape is sent.  *)
(***************************************************************************)
EXTENDS Connection

MCTexts ==
  {m \in MessageDto : m.code \notin Outgoing \ {"ERROR", "NEW_HOST"}}
=============================================================================
