----------------------------- MODULE MCLockOrder -----------------------------
(***************************************************************************)
(* LockOrder for TLC: one registry, one game, one session with two peers,  *)
(* and three threads, so that a circle of three could close.               *)
(***************************************************************************)
EXTENDS LockOrder, TLC

CONSTANTS
  p, q,        \* peers
  t1, t2, t3   \* threads

MCMutexes ==
  {[kind |-> k, of |-> "server"] : k \in Kinds \ KindsOfPeer}
    \union [kind : KindsOfPeer, of : {p, q}]

Symmetry == Permutations(Threads) \union Permutations({p, q})
=============================================================================
