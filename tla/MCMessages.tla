----------------------------- MODULE MCMessages -----------------------------
(***************************************************************************)
(* Messages for TLC: a host and two clients. Two messages are enough for   *)
(* two handlers to overlap, for a second message of the same sender, and   *)
(* for two synchronized events; one refused message makes a gap. A payload *)
(* may repeat an id or name a peer that is not there.                      *)
(***************************************************************************)
EXTENDS Messages, TLC

CONSTANTS h, c, d

\* For the two peers h and c: a list may repeat an id.
TwoIdLists == {<<h>>, <<c>>, <<c, c>>}

\* For h, c and d: a list may name the sender, and peers that are not there.
MCIdLists == {<<h>>, <<c>>, <<d>>, <<c, d>>, <<d, c>>}

Symmetry == Permutations({c, d})
=============================================================================
