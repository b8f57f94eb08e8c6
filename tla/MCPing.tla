------------------------------- MODULE MCPing -------------------------------
(***************************************************************************)
(* Ping for TLC: a client that may answer, one that never does, two or     *)
(* three failures until a peer is dropped, and as many rounds as it takes  *)
(* for a peer to miss some, answer again and miss more.                    *)
(***************************************************************************)
EXTENDS Ping
=============================================================================
