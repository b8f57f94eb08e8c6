-------------------------------- MODULE Room --------------------------------
(***************************************************************************)
(* What a session promises to those who play in it, as one step per event: *)
(* a peer enters once and leaves once, there is at most one host in the    *)
(* life of the session, and the host that is in the session when another   *)
(* peer enters or leaves is told of it, or misses the notice because its   *)
(* queue cannot take it. Nothing is ever told that did not happen, and     *)
(* nobody but the host is told.                                            *)
(* Lobby and Messages implement this specification.                        *)
(***************************************************************************)
CONSTANTS
  Rooms,        \* the sessions
  Peers,        \* who may enter one
  NoHost        \* the host of a room that has none

VARIABLES
  present,      \* per room: the peers inside
  entered,      \* per room: the peers that are or have been inside
  host,         \* per room: its host, one of those present
  hosted,       \* per room: its host has come
  told,         \* per room: the notices the host has got
  missed        \* per room: the notices the host's queue did not take

roomVars == <<present, entered, host, hosted, told, missed>>

Notices == [code : {"joined", "left"}, peer : Peers]

Init ==
  /\ present = [r \in Rooms |-> {}]
  /\ entered = [r \in Rooms |-> {}]
  /\ host = [r \in Rooms |-> NoHost]
  /\ hosted = [r \in Rooms |-> FALSE]
  /\ told = [r \in Rooms |-> {}]
  /\ missed = [r \in Rooms |-> {}]

\* What h, the host or nobody, learns of p.
Tell(r, h, code, p) ==
  LET n == [code |-> code, peer |-> p]
  IN  \/ /\ h # NoHost
         /\ told' = [told EXCEPT ![r] = told[r] \union {n}]
         /\ UNCHANGED missed
      \/ /\ h # NoHost
         /\ missed' = [missed EXCEPT ![r] = missed[r] \union {n}]
         /\ UNCHANGED told
      \/ /\ h = NoHost
         /\ UNCHANGED <<told, missed>>

GoIn(r, p) ==
  /\ p \notin entered[r]
  /\ entered' = [entered EXCEPT ![r] = entered[r] \union {p}]
  /\ present' = [present EXCEPT ![r] = present[r] \union {p}]

\* The creator of the session comes: guests may be there already.
Open(r, p) ==
  /\ ~hosted[r]
  /\ GoIn(r, p)
  /\ host' = [host EXCEPT ![r] = p]
  /\ hosted' = [hosted EXCEPT ![r] = TRUE]
  /\ UNCHANGED <<told, missed>>

Enter(r, p) ==
  /\ GoIn(r, p)
  /\ Tell(r, host[r], "joined", p)
  /\ UNCHANGED <<host, hosted>>

Leave(r, p) ==
  LET listener == IF host[r] = p THEN NoHost ELSE host[r]
  IN  /\ p \in present[r]
      /\ present' = [present EXCEPT ![r] = present[r] \ {p}]
      /\ host' = [host EXCEPT ![r] = listener]
      /\ Tell(r, listener, "left", p)
      /\ UNCHANGED <<entered, hosted>>

Next == \E r \in Rooms, p \in Peers : Open(r, p) \/ Enter(r, p) \/ Leave(r, p)

Spec == Init /\ [][Next]_roomVars
=============================================================================
