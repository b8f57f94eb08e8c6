------------------------------ MODULE MCLobby ------------------------------
(***************************************************************************)
(* Lobby for TLC. Two creators and two joiners that use one session id     *)
(* meet every race of createNewSession, findSession, addPeer and           *)
(* deleteSession: a session can be deleted and created again while a       *)
(* joiner still holds the first one, and outlive its host.                 *)
(***************************************************************************)
EXTENDS Lobby
=============================================================================
