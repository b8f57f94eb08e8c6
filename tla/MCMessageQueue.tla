--------------------------- MODULE MCMessageQueue ---------------------------
(***************************************************************************)
(* MessageQueue for TLC: a queue of two messages, five messages in all     *)
(* (enough to fill the queue, drain it, and start a second coroutine), two *)
(* coroutine identities (a second live one would violate SingleSender),    *)
(* and the two threads that call invalidateSocket.                         *)
(***************************************************************************)
EXTENDS MessageQueue
=============================================================================
