------------------------------ MODULE MCServer ------------------------------
(***************************************************************************)
(* Server for TLC. Three addresses: two share the host, two the port. The  *)
(* other sections each lack one thing. Two games are configured and one is *)
(* not; of two sockets one can create a session and the other join it,     *)
(* collide with it, or come when it is about to be deleted.                *)
(***************************************************************************)
EXTENDS Server

Section(host, port, tls) == [host |-> host, port |-> port, tls |-> tls]

MCSections ==
  {Section("all", 8000, None), Section("all", 8001, None),
   Section("lan", 8001, {"pkFile", "chainFile"}),
   Section("all", 8000, {"pkFile"}), Section("lan", 8001, {"chainFile"}),
   Section(None, 8000, None), Section("all", None, None)}
=============================================================================
