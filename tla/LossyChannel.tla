---------------------------- MODULE LossyChannel ----------------------------
(***************************************************************************)
(* What the outgoing path of one peer promises to the rest of the server:  *)
(* a bounded FIFO channel. Messages are numbered in the order in which     *)
(* they were accepted. While the link is up nothing is lost; once it is    *)
(* down any contiguous part of the channel may be lost, but what arrives   *)
(* still arrives in the order of acceptance and at most once.              *)
(* MessageQueue implements this specification.                             *)
(***************************************************************************)
EXTENDS Integers, Sequences

CONSTANTS
  Capacity,     \* how many messages may wait besides the one on the wire
  MaxAccepted   \* bound on the number of accepted messages

VARIABLES
  chan,         \* accepted, neither received nor lost
  received,     \* what the far end got, in order
  accepted,     \* how many messages were accepted so far
  up            \* the link has not failed

chanVars == <<chan, received, accepted, up>>

Init ==
  /\ chan = <<>>
  /\ received = <<>>
  /\ accepted = 0
  /\ up = TRUE

Put ==
  /\ accepted < MaxAccepted
  /\ Len(chan) <= Capacity
  /\ accepted' = accepted + 1
  /\ chan' = Append(chan, accepted')
  /\ UNCHANGED <<received, up>>

Get ==
  /\ up
  /\ chan # <<>>
  /\ chan' = Tail(chan)
  /\ received' = Append(received, Head(chan))
  /\ UNCHANGED <<accepted, up>>

Fail ==
  /\ up' = FALSE
  /\ UNCHANGED <<chan, received, accepted>>

\* Messages i+1 .. j-1 of the channel are lost.
Lose ==
  /\ ~up
  /\ \E i \in 0 .. Len(chan) : \E j \in i+1 .. Len(chan)+1 :
       chan' = SubSeq(chan, 1, i) \o SubSeq(chan, j, Len(chan))
  /\ UNCHANGED <<received, accepted, up>>

Next == Put \/ Get \/ Fail \/ Lose

Spec == Init /\ [][Next]_chanVars
=============================================================================
