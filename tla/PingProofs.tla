----------------------------- MODULE PingProofs -----------------------------
(***************************************************************************)
(* Proofs about Ping for any peers, delays, limit and number of rounds.    *)
(***************************************************************************)
EXTENDS Ping, FiniteSetTheorems, TLAPS

-----------------------------------------------------------------------------
(* The inductive invariant.                                                *)

\* What the Pinger knows in each of its phases.
RoundInv ==
  /\ phase \in {"check", "stamp"} => checked = current /\ current < MaxRounds
  /\ phase = "ping" => current \in Rounds

\* Pings are sent with the timestamps of rounds that have come, and the last
\* a peer has answered is not after the one it is about to have answered.
PongInv ==
  \A p \in Peers :
    /\ \A t \in pinged[p] : t <= current
    /\ last[p] <= current
    /\ pong[p] # None => pong[p] <= current /\ last[p] <= pong[p]

\* The unanswered pings for which a peer has been charged if it was there.
Charged(p) == {t \in Unanswered(p) : t < current \/ phase = "stamp"}

\* A peer is charged for the pings it did not answer, and once without
\* reason: when it joined after the ping it is charged for. A peer whose
\* socket is gone is charged on, but cannot be dropped again.
ChargeInv ==
  \A p \in Peers : hasSocket[p] =>
    /\ p \notin members => failed[p] = 0
    /\ p \in members /\ phase \in {"read", "check"} =>
         \/ current \in pinged[p]
         \/ current = -1
         \/ failed[p] = 0
    /\ failed[p] <= Cardinality(Charged(p)) + 1

\* Who has answered the latest ping has no failures.
SparedInv ==
  \A p \in Peers : last[p] = current => failed[p] = 0

IInv ==
  /\ TypeOK
  /\ RoundInv
  /\ PongInv
  /\ SparedInv
  /\ BestIsFastest
  /\ ChargeInv

-----------------------------------------------------------------------------
(* Types and rounds.                                                       *)

LEMMA Constants ==
  /\ Mute \subseteq Peers /\ None \notin Peers /\ None \notin Int
  /\ MaxFailedPings \in Nat /\ MaxFailedPings > 0
  /\ MaxRounds \in Nat /\ MaxRounds > 0
  /\ Delays \subseteq Nat
  /\ Rounds = 1 .. MaxRounds /\ Timestamps = Rounds \union {-1}
  /\ \A t \in Rounds \union {-1} : t \in Int /\ t <= MaxRounds
  BY PingAssumption DEF Rounds, Timestamps

LEMMA InitIInv == Init => IInv
<1> SUFFICES ASSUME Init PROVE IInv
  OBVIOUS
<1>1. TypeOK
  BY Constants DEF Init, TypeOK
<1>2. RoundInv /\ PongInv /\ SparedInv /\ BestIsFastest
  BY Constants DEF Init, RoundInv, PongInv, SparedInv, BestIsFastest
<1>3. ChargeInv
  <2>1. \A p \in Peers : Charged(p) = {}
    BY DEF Init, Charged, Unanswered
  <2> QED
    BY <2>1, FS_EmptySet DEF Init, ChargeInv
<1> QED
  BY <1>1, <1>2, <1>3 DEF IInv

LEMMA NextType == IInv /\ [Next]_vars => TypeOK' /\ RoundInv'
<1> SUFFICES ASSUME IInv, [Next]_vars PROVE TypeOK' /\ RoundInv'
  OBVIOUS
<1> USE Constants DEF IInv, TypeOK, RoundInv, sessionVars, pingerVars, peerVars
<1>1. CASE ReadCurrent
  BY <1>1 DEF ReadCurrent
<1>2. CASE CheckPeers
  <2>1. failed' \in [Peers -> Nat]
    BY <1>2 DEF CheckPeers
  <2>2. hasSocket' \in [Peers -> BOOLEAN]
    BY <1>2 DEF CheckPeers
  <2> QED
    BY <1>2, <2>1, <2>2 DEF CheckPeers
<1>3. CASE SetCurrent
  <2>1. current' \in Rounds
    BY <1>3 DEF SetCurrent
  <2> QED
    BY <1>3, <2>1 DEF SetCurrent
<1>4. CASE PingPeers
  <2>1. \A p \in Peers : Sent(p) \subseteq Rounds
    BY <1>4 DEF PingPeers, Sent
  <2>2. pinged' \in [Peers -> SUBSET Rounds]
    BY <1>4, <2>1 DEF PingPeers
  <2> QED
    BY <1>4, <2>2 DEF PingPeers
<1>5. ASSUME NEW p \in Peers, Join(p) \/ Leave(p) PROVE TypeOK' /\ RoundInv'
  BY <1>5 DEF Join, Leave
<1>6. ASSUME NEW p \in Peers, AcceptPong(p) PROVE TypeOK' /\ RoundInv'
  BY <1>6 DEF AcceptPong
<1>7. ASSUME NEW p \in Peers, NEW d \in Delays, NEW t \in Timestamps,
             ReportPong(p, t, d)
      PROVE  TypeOK' /\ RoundInv'
  <2>1. /\ bestTime' \in Delays \union {-1} /\ bestPeer' \in Peers \union {None}
        /\ bestSince' \in Rounds \union {-1}
    BY <1>7 DEF ReportPong
  <2>2. reports' \subseteq [peer : Peers, time : Delays]
    BY <1>7 DEF ReportPong
  <2>3. pong' \in [Peers -> Timestamps \union {None}]
    <3>1. t \in Timestamps /\ pong \in [Peers -> Timestamps \union {None}]
      OBVIOUS
    <3>2. pong' = [pong EXCEPT ![p] = t] \/ pong' = pong
      BY <1>7 DEF ReportPong
    <3> QED
      BY <3>1, <3>2
  <2>4. UNCHANGED <<current, pingerVars, members, hasSocket, failed, last, pinged>>
    BY <1>7 DEF ReportPong
  <2>5. TypeOK'
    BY <2>1, <2>2, <2>3, <2>4
  <2>6. RoundInv'
    BY <2>4
  <2> QED
    BY <2>5, <2>6
<1>8. CASE UNCHANGED vars
  BY <1>8 DEF vars
<1> QED
  BY <1>1, <1>2, <1>3, <1>4, <1>5, <1>6, <1>7, <1>8 DEF Next, Pinger

LEMMA NextPong == IInv /\ [Next]_vars => PongInv'
<1> SUFFICES ASSUME IInv, [Next]_vars PROVE PongInv'
  OBVIOUS
<1> USE Constants DEF IInv, TypeOK, RoundInv, PongInv, sessionVars, pingerVars,
                      peerVars
<1>1. CASE ReadCurrent \/ CheckPeers \/ UNCHANGED vars
  BY <1>1 DEF ReadCurrent, CheckPeers, vars
<1>2. CASE SetCurrent
  <2>1. current' \in Int /\ current' >= current
    BY <1>2 DEF SetCurrent
  <2> QED
    BY <1>2, <2>1 DEF SetCurrent
<1>3. CASE PingPeers
  BY <1>3 DEF PingPeers, Sent
<1>4. ASSUME NEW p \in Peers, Join(p) \/ Leave(p) PROVE PongInv'
  BY <1>4 DEF Join, Leave
<1>5. ASSUME NEW p \in Peers, AcceptPong(p) PROVE PongInv'
  BY <1>5 DEF AcceptPong
<1>6. ASSUME NEW p \in Peers, NEW d \in Delays, NEW t \in Timestamps,
             ReportPong(p, t, d)
      PROVE  PongInv'
  BY <1>6 DEF ReportPong, IsLatest
<1> QED
  BY <1>1, <1>2, <1>3, <1>4, <1>5, <1>6 DEF Next, Pinger

LEMMA NextSpared == IInv /\ [Next]_vars => SparedInv'
<1> SUFFICES ASSUME IInv, [Next]_vars PROVE SparedInv'
  OBVIOUS
<1> USE Constants DEF IInv, TypeOK, RoundInv, PongInv, SparedInv, sessionVars,
                      pingerVars, peerVars
<1>1. CASE ReadCurrent \/ PingPeers \/ UNCHANGED vars
  BY <1>1 DEF ReadCurrent, PingPeers, vars
<1>2. CASE CheckPeers
  BY <1>2 DEF CheckPeers, Missed
<1>3. CASE SetCurrent
  <2>1. current' > current /\ current' \in Int /\ last' = last
    BY <1>3 DEF SetCurrent
  <2> QED
    BY <2>1
<1>4. ASSUME NEW p \in Peers, Join(p) \/ Leave(p) PROVE SparedInv'
  BY <1>4 DEF Join, Leave
<1>5. ASSUME NEW p \in Peers, AcceptPong(p) PROVE SparedInv'
  BY <1>5 DEF AcceptPong
<1>6. ASSUME NEW p \in Peers, NEW d \in Delays, NEW t \in Timestamps,
             ReportPong(p, t, d)
      PROVE  SparedInv'
  BY <1>6 DEF ReportPong
<1> QED
  BY <1>1, <1>2, <1>3, <1>4, <1>5, <1>6 DEF Next, Pinger

LEMMA NextBest == IInv /\ [Next]_vars => BestIsFastest'
<1> SUFFICES ASSUME IInv, [Next]_vars PROVE BestIsFastest'
  OBVIOUS
<1>1. CASE UNCHANGED <<bestTime, bestPeer, reports>>
  BY <1>1 DEF IInv, BestIsFastest
<1>2. ASSUME NEW p \in Peers, NEW d \in Delays, NEW t \in Timestamps,
             ReportPong(p, t, d), IsLatest(t)
      PROVE  BestIsFastest'
  <2>0. d \in Nat /\ bestTime \in Nat \union {-1}
    BY Constants DEF IInv, TypeOK
  <2> DEFINE r == [peer |-> p, time |-> d]
  <2>1. reports' = reports \union {r} /\ r.time = d
    BY <1>2 DEF ReportPong
  <2>2. \A s \in reports : s.time \in Nat
    BY Constants DEF IInv, TypeOK
  <2>3. CASE IsFaster(d)
    <3>1. bestTime' = d /\ bestPeer' = p
      BY <1>2, <2>3 DEF ReportPong
    <3>2. \A s \in reports : d <= s.time
      <4>1. CASE reports = {}
        BY <4>1
      <4>2. CASE reports # {}
        BY <2>0, <2>2, <2>3, <4>2 DEF IInv, BestIsFastest, IsFaster
      <4> QED
        BY <4>1, <4>2
    <3>3. [peer |-> bestPeer', time |-> bestTime'] = r
      BY <3>1
    <3> HIDE DEF r
    <3> QED
      BY <2>0, <2>1, <3>1, <3>2, <3>3 DEF BestIsFastest
  <2>4. CASE ~IsFaster(d)
    <3>1. bestTime' = bestTime /\ bestPeer' = bestPeer
      BY <1>2, <2>4 DEF ReportPong
    <3>2. bestTime >= 0 /\ bestTime <= d
      BY <2>0, <2>4 DEF IsFaster
    <3> HIDE DEF r
    <3> QED
      BY <2>1, <3>1, <3>2 DEF IInv, BestIsFastest
  <2> QED
    BY <2>3, <2>4
<1>3. ASSUME NEW p \in Peers, NEW d \in Delays, NEW t \in Timestamps,
             ReportPong(p, t, d), ~IsLatest(t)
      PROVE  UNCHANGED <<bestTime, bestPeer, reports>>
  BY <1>3 DEF ReportPong
<1>4. ASSUME NEW p \in Peers, Join(p) \/ Leave(p) \/ AcceptPong(p)
      PROVE  UNCHANGED <<bestTime, bestPeer, reports>>
  BY <1>4 DEF Join, Leave, AcceptPong, sessionVars
<1> QED
  BY <1>1, <1>2, <1>3, <1>4
     DEF Next, Pinger, ReadCurrent, CheckPeers, SetCurrent, PingPeers,
         sessionVars, vars

-----------------------------------------------------------------------------
(* What a peer is charged for.                                             *)

LEMMA Counted ==
  ASSUME TypeOK, NEW p \in Peers
  PROVE  /\ pinged[p] \subseteq Rounds /\ IsFiniteSet(Rounds)
         /\ IsFiniteSet(Unanswered(p)) /\ IsFiniteSet(Charged(p))
         /\ Cardinality(Charged(p)) \in Nat
         /\ failed[p] \in Nat
<1>1. pinged[p] \subseteq Rounds /\ IsFiniteSet(Rounds) /\ failed[p] \in Nat
  BY FS_Interval, Constants DEF TypeOK
<1>2. Unanswered(p) \subseteq Rounds /\ Charged(p) \subseteq Rounds
  BY <1>1 DEF Unanswered, Charged
<1>3. IsFiniteSet(Unanswered(p)) /\ IsFiniteSet(Charged(p))
  BY <1>1, <1>2, FS_Subset
<1> QED
  BY <1>1, <1>3, FS_CardinalityType

LEMMA CountedNext ==
  ASSUME TypeOK', NEW p \in Peers
  PROVE  IsFiniteSet(Charged(p)') /\ Cardinality(Charged(p)') \in Nat
<1>1. Charged(p)' \subseteq Rounds
  BY DEF TypeOK, Charged, Unanswered
<1>2. IsFiniteSet(Charged(p)')
  BY <1>1, FS_Interval, FS_Subset, Constants
<1> QED
  BY <1>2, FS_CardinalityType

\* More charged pings allow for the failures there were.
LEMMA StillCharged ==
  ASSUME IInv, TypeOK', NEW p \in Peers, hasSocket[p],
         failed'[p] = failed[p], Charged(p) \subseteq Charged(p)'
  PROVE  failed'[p] <= Cardinality(Charged(p)') + 1
<1>1. TypeOK /\ failed[p] <= Cardinality(Charged(p)) + 1
  BY DEF IInv, ChargeInv
<1>2. IsFiniteSet(Charged(p)') /\ Cardinality(Charged(p)') \in Nat
  BY CountedNext
<1>3. Cardinality(Charged(p)) <= Cardinality(Charged(p)')
  BY <1>2, FS_Subset
<1>4. Cardinality(Charged(p)) \in Nat /\ failed[p] \in Nat
  BY <1>1, Counted
<1> QED
  BY <1>1, <1>2, <1>3, <1>4

\* A check finds at most one failure more than there are unanswered pings.
LEMMA CheckCounts ==
  ASSUME IInv, phase = "check", NEW p \in members, hasSocket[p]
  PROVE  failed[p] + (IF Missed(p) THEN 1 ELSE 0) <= Cardinality(Unanswered(p)) + 1
<1>0. /\ p \in Peers /\ TypeOK /\ checked = current /\ last[p] <= current
      /\ failed[p] <= Cardinality(Charged(p)) + 1
      /\ current \in pinged[p] \/ current = -1 \/ failed[p] = 0
  BY DEF IInv, TypeOK, RoundInv, PongInv, ChargeInv
<1>1. /\ failed[p] \in Nat /\ Cardinality(Charged(p)) \in Nat
      /\ IsFiniteSet(Unanswered(p)) /\ IsFiniteSet(Charged(p))
  BY <1>0, Counted
<1>2. Charged(p) \subseteq Unanswered(p)
  BY DEF Charged
<1>3. /\ Cardinality(Unanswered(p)) \in Nat
      /\ Cardinality(Charged(p)) <= Cardinality(Unanswered(p))
  BY <1>1, <1>2, FS_Subset, FS_CardinalityType
<1>4. CASE ~Missed(p)
  BY <1>0, <1>1, <1>3, <1>4
<1>5. CASE Missed(p) /\ failed[p] = 0
  BY <1>3, <1>5
<1>6. CASE Missed(p) /\ failed[p] # 0
  <2>1. last[p] \in Int /\ last[p] >= -1 /\ current \in Int
    BY <1>0, Constants DEF TypeOK
  <2>2. last[p] < current /\ current # -1
    BY <1>0, <1>6, <2>1 DEF Missed
  <2>3. current \in Unanswered(p) /\ current \notin Charged(p)
    BY <1>0, <1>6, <2>1, <2>2 DEF Unanswered, Charged
  <2>4. Cardinality(Charged(p) \union {current}) = Cardinality(Charged(p)) + 1
    BY <1>1, <2>3, FS_AddElement
  <2>5. Cardinality(Charged(p) \union {current}) <= Cardinality(Unanswered(p))
    BY <1>1, <1>2, <2>3, FS_Subset
  <2> QED
    BY <1>0, <1>1, <1>3, <2>4, <2>5
<1> QED
  BY <1>4, <1>5, <1>6

LEMMA NextCharge == IInv /\ [Next]_vars => ChargeInv'
<1> SUFFICES ASSUME IInv, [Next]_vars PROVE ChargeInv'
  OBVIOUS
<1>0. TypeOK /\ TypeOK' /\ RoundInv /\ PongInv /\ ChargeInv
  BY NextType DEF IInv
<1>a. /\ current \in Int /\ failed \in [Peers -> Nat]
      /\ hasSocket \in [Peers -> BOOLEAN] /\ members \subseteq Peers
      /\ \A p \in Peers : pinged[p] \subseteq Int /\ last[p] \in Int
  BY <1>0, Constants DEF TypeOK
<1> USE DEF sessionVars, pingerVars, peerVars
<1>1. CASE ReadCurrent \/ UNCHANGED vars
  <2>1. UNCHANGED <<current, peerVars>>
    BY <1>1 DEF ReadCurrent, vars
  <2>2. \A p \in Peers : Charged(p)' = Charged(p)
    BY <1>1, <2>1 DEF Charged, Unanswered, ReadCurrent, vars
  <2>3. phase' \in {"read", "check"} => phase \in {"read", "check"}
    BY <1>1 DEF ReadCurrent, vars
  <2>4. ASSUME NEW p \in Peers, hasSocket'[p]
        PROVE  failed'[p] <= Cardinality(Charged(p)') + 1
    BY <1>0, <2>1, <2>2, <2>4, StillCharged
  <2> QED
    BY <1>0, <2>1, <2>3, <2>4 DEF ChargeInv
<1>2. CASE CheckPeers
  <2>1. /\ UNCHANGED <<current, members, last, pong, pinged>>
        /\ phase = "check" /\ phase' = "stamp"
    BY <1>2 DEF CheckPeers
  <2>2. \A p \in Peers : Charged(p)' = Unanswered(p)
    BY <2>1 DEF Charged, Unanswered
  <2>3. ASSUME NEW p \in Peers, hasSocket'[p]
        PROVE  /\ failed'[p] <= Cardinality(Charged(p)') + 1
               /\ p \notin members => failed'[p] = 0
    <3>1. hasSocket[p]
      BY <1>2, <2>3 DEF CheckPeers
    <3>2. CASE p \in members
      <4>1. failed'[p] = failed[p] + (IF Missed(p) THEN 1 ELSE 0)
        BY <1>2, <3>2 DEF CheckPeers
      <4> QED
        BY <2>1, <2>2, <3>1, <3>2, <4>1, CheckCounts
    <3>3. CASE p \notin members
      <4>1. failed'[p] = failed[p]
        BY <1>2, <3>3 DEF CheckPeers
      <4>2. Charged(p) \subseteq Charged(p)'
        BY <2>2 DEF Charged
      <4>3. failed[p] = 0
        BY <1>0, <3>1, <3>3 DEF ChargeInv
      <4> QED
        BY <1>0, <3>1, <4>1, <4>2, <4>3, StillCharged
    <3> QED
      BY <3>2, <3>3
  <2> QED
    BY <2>1, <2>3 DEF ChargeInv
<1>3. CASE SetCurrent
  <2>1. /\ UNCHANGED peerVars
        /\ phase = "stamp" /\ phase' = "ping" /\ current' > current
        /\ current' \in Int
    BY <1>3, <1>a DEF SetCurrent
  <2>2. \A p \in Peers : Charged(p) \subseteq Charged(p)'
    BY <1>0, <1>a, <2>1 DEF Charged, Unanswered, PongInv
  <2>3. ASSUME NEW p \in Peers, hasSocket'[p]
        PROVE  failed'[p] <= Cardinality(Charged(p)') + 1
    BY <1>0, <2>1, <2>2, <2>3, StillCharged
  <2> QED
    BY <1>0, <2>1, <2>3 DEF ChargeInv
<1>4. CASE PingPeers
  <2>1. /\ UNCHANGED <<current, members, hasSocket, failed, last>>
        /\ phase = "ping" /\ phase' = "read"
        /\ \A p \in Peers : pinged'[p] = pinged[p] \union Sent(p)
    BY <1>4 DEF PingPeers
  <2>2. \A p \in Peers : Charged(p) \subseteq Charged(p)'
    BY <2>1 DEF Charged, Unanswered
  <2>3. ASSUME NEW p \in Peers, hasSocket'[p]
        PROVE  /\ failed'[p] <= Cardinality(Charged(p)') + 1
               /\ p \in members => current \in pinged'[p]
    <3>1. p \in members => current \in pinged'[p]
      BY <2>1, <2>3 DEF Sent
    <3> QED
      BY <1>0, <2>1, <2>2, <2>3, <3>1, StillCharged
  <2> QED
    BY <1>0, <2>1, <2>3 DEF ChargeInv
<1>5. ASSUME NEW q \in Peers, Join(q) \/ Leave(q) PROVE ChargeInv'
  <2>1. UNCHANGED <<current, phase, failed, last, pinged>>
    BY <1>5 DEF Join, Leave
  <2>2. \A p \in Peers : Charged(p)' = Charged(p)
    BY <2>1 DEF Charged, Unanswered
  <2>3. ASSUME NEW p \in Peers, hasSocket'[p]
        PROVE  /\ hasSocket[p]
               /\ failed'[p] <= Cardinality(Charged(p)') + 1
               /\ \/ p \in members' <=> p \in members
                  \/ p \notin members /\ p \in members'
    <3>1. hasSocket[p]
      BY <1>5, <1>a, <2>3 DEF Join, Leave
    <3>2. \/ p \in members' <=> p \in members
          \/ p \notin members /\ p \in members'
      BY <1>5, <1>a, <2>3 DEF Join, Leave
    <3> QED
      BY <1>0, <2>1, <2>2, <3>1, <3>2, StillCharged
  <2> QED
    BY <1>0, <2>1, <2>3 DEF ChargeInv
<1>6. ASSUME NEW q \in Peers, AcceptPong(q) PROVE ChargeInv'
  <2>1. /\ UNCHANGED <<current, phase, members, hasSocket, pinged>>
        /\ failed' = [failed EXCEPT ![q] = 0]
        /\ \A p \in Peers : p # q => last'[p] = last[p]
    BY <1>6, <1>0 DEF AcceptPong, TypeOK
  <2>2. ASSUME NEW p \in Peers, hasSocket'[p]
        PROVE  /\ failed'[p] <= Cardinality(Charged(p)') + 1
               /\ failed'[p] = 0 \/ failed'[p] = failed[p]
    <3>1. CASE p = q
      <4>1. failed'[p] = 0
        BY <1>a, <2>1, <3>1
      <4>2. Cardinality(Charged(p)') \in Nat
        BY <1>0, CountedNext
      <4> QED
        BY <4>1, <4>2
    <3>2. CASE p # q
      <4>1. failed'[p] = failed[p] /\ Charged(p)' = Charged(p)
        BY <1>a, <2>1, <3>2 DEF Charged, Unanswered
      <4> QED
        BY <1>0, <2>1, <2>2, <4>1, StillCharged
    <3> QED
      BY <3>1, <3>2
  <2> QED
    BY <1>0, <2>1, <2>2 DEF ChargeInv
<1>7. ASSUME NEW q \in Peers, NEW d \in Delays, NEW t \in Timestamps,
             ReportPong(q, t, d)
      PROVE  ChargeInv'
  <2>1. UNCHANGED <<current, phase, members, hasSocket, failed, last, pinged>>
    BY <1>7 DEF ReportPong
  <2>2. \A p \in Peers : Charged(p)' = Charged(p)
    BY <2>1 DEF Charged, Unanswered
  <2> QED
    BY <1>0, <2>1, <2>2 DEF ChargeInv
<1> QED
  BY <1>1, <1>2, <1>3, <1>4, <1>5, <1>6, <1>7 DEF Next, Pinger

-----------------------------------------------------------------------------
LEMMA Inductive == Spec => []IInv
<1>1. IInv /\ [Next]_vars => IInv'
  BY NextType, NextPong, NextSpared, NextBest, NextCharge DEF IInv
<1> QED
  BY InitIInv, <1>1, PTL DEF Spec

\* Timestamps, counters and the two halves of a pong keep their types.
THEOREM TypeCorrect == Spec => []TypeOK
  BY Inductive, PTL DEF IInv

\* reportPeerPong keeps the best time and a peer that had it, whatever number
\* of peers report from their own threads.
THEOREM BestIsRight == Spec => []BestIsFastest
  BY Inductive, PTL DEF IInv

\* A drop for failed pings is earned but for one ping, for any limit and
\* any number of peers.
THEOREM DropsAreEarned == Spec => DropIsEarned
<1> DEFINE Earned ==
      \A p \in Peers :
        phase = "check" /\ phase' = "stamp" /\ hasSocket[p] /\ ~hasSocket'[p]
          => Cardinality(Unanswered(p)) >= MaxFailedPings - 1
<1>1. IInv /\ [Next]_vars => [Earned]_vars
  <2> SUFFICES ASSUME IInv, [Next]_vars, NEW p \in Peers,
                      phase = "check", phase' = "stamp",
                      hasSocket[p], ~hasSocket'[p]
               PROVE  Cardinality(Unanswered(p)) >= MaxFailedPings - 1
    OBVIOUS
  <2>0. TypeOK
    BY DEF IInv
  <2>1. CheckPeers
    BY DEF Next, Pinger, ReadCurrent, CheckPeers, SetCurrent, PingPeers,
           Join, Leave, AcceptPong, ReportPong, pingerVars, vars
  <2>2. /\ p \in members
        /\ failed[p] + (IF Missed(p) THEN 1 ELSE 0) >= MaxFailedPings
    <3>1. failed[p] \in Nat
      BY <2>0, Counted
    <3>2. hasSocket' = [q \in Peers |-> hasSocket[q] /\
            (q \in members => failed[q] + (IF Missed(q) THEN 1 ELSE 0)
                                < MaxFailedPings)]
      BY <2>1 DEF CheckPeers
    <3>3. /\ p \in members
          /\ ~(failed[p] + (IF Missed(p) THEN 1 ELSE 0) < MaxFailedPings)
      BY <3>2
    <3> QED
      BY <3>1, <3>3, Constants
  <2>3. failed[p] + (IF Missed(p) THEN 1 ELSE 0) <= Cardinality(Unanswered(p)) + 1
    BY <2>2, CheckCounts
  <2>4. Cardinality(Unanswered(p)) \in Nat /\ failed[p] \in Nat
    BY <2>0, Counted, FS_CardinalityType
  <2> QED
    BY <2>2, <2>3, <2>4, Constants
<1> QED
  BY Inductive, <1>1, PTL DEF Spec, DropIsEarned

\* Whatever timestamps clients put into their pongs and however handlePong
\* and the Pinger interleave, the last one a peer answered only advances.
THEOREM AnswersCount == Spec => AnswersAdvance
<1> DEFINE Advance ==
      \A p \in Peers : last'[p] # last[p] =>
        last'[p] > last[p] /\ last'[p] <= current
<1>1. IInv /\ [Next]_vars => [Advance]_vars
  <2> SUFFICES ASSUME IInv, [Next]_vars, NEW p \in Peers, last'[p] # last[p]
               PROVE  last'[p] > last[p] /\ last'[p] <= current
    OBVIOUS
  <2>1. PICK q \in Peers : AcceptPong(q)
    BY DEF Next, Pinger, ReadCurrent, CheckPeers, SetCurrent, PingPeers,
           Join, Leave, ReportPong, peerVars, vars
  <2>2. /\ p = q /\ last'[p] = pong[p] /\ pong[p] # None
    BY <2>1 DEF AcceptPong, IInv, TypeOK
  <2>3. last[p] \in Int /\ last[p] <= pong[p] /\ pong[p] <= current
        /\ pong[p] \in Int
    BY <2>2, Constants DEF IInv, TypeOK, PongInv
  <2> QED
    BY <2>2, <2>3
<1> QED
  BY Inductive, <1>1, PTL DEF Spec, AnswersAdvance

\* Whoever answered the latest ping before the Pinger looks is not charged.
THEOREM NotCharged == Spec => AnsweredIsNotCharged
<1> DEFINE Spared ==
      \A p \in Peers :
        phase = "check" /\ last[p] = current => failed'[p] = failed[p]
<1>1. IInv /\ [Next]_vars => [Spared]_vars
  <2> SUFFICES ASSUME IInv, [Next]_vars, NEW p \in Peers,
                      phase = "check", last[p] = current
               PROVE  failed'[p] = failed[p]
    OBVIOUS
  <2>1. failed[p] = 0 /\ checked = current /\ failed \in [Peers -> Nat]
    BY DEF IInv, TypeOK, RoundInv, SparedInv
  <2>2. CASE CheckPeers
    BY <2>1, <2>2 DEF CheckPeers, Missed
  <2>3. CASE \E q \in Peers : AcceptPong(q)
    BY <2>1, <2>3 DEF AcceptPong
  <2>4. CASE UNCHANGED failed
    BY <2>4
  <2> QED
    BY <2>2, <2>3, <2>4
       DEF Next, Pinger, ReadCurrent, SetCurrent, PingPeers, Join, Leave,
           ReportPong, peerVars, vars
<1> QED
  BY Inductive, <1>1, PTL DEF Spec, AnsweredIsNotCharged
=============================================================================
