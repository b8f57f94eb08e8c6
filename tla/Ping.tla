-------------------------------- MODULE Ping --------------------------------
(***************************************************************************)
(* How one Session finds out which peers still answer. The Pinger calls    *)
(* checkAllPeersPings and then pingAllPeers, again and again; each of them *)
(* reads or writes m_pingCurrentTimestamp under m_pingMutex and then works *)
(* through m_peers under m_peersMutex. A pong is handled in two steps:     *)
(* reportPeerPong under the m_pingMutex of the Session, then the rest of   *)
(* handlePong under that of the Peer. Peers come and go in between.        *)
(*                                                                         *)
(* A timestamp is the number of its round. Time is what a pong took, any   *)
(* value of Delays.                                                        *)
(***************************************************************************)
EXTENDS Integers, FiniteSets

CONSTANTS
  Peers,
  Mute,          \* peers whose clients never answer a ping
  None,
  MaxFailedPings,
  Delays,        \* how long an answered ping may take
  MaxRounds      \* bound on the number of rounds

ASSUME PingAssumption ==
  /\ Mute \subseteq Peers
  /\ None \notin Peers \union Int
  /\ MaxFailedPings \in Nat \ {0}
  /\ Delays \subseteq Nat
  /\ MaxRounds \in Nat \ {0}

VARIABLES
  current,       \* Session::m_pingCurrentTimestamp
  bestTime,      \* Session::m_pingBestTime
  bestPeer,      \* Session::m_pingBestPeerId
  bestSince,     \* Session::m_pingBestPeerSinceTimestamp
  phase,         \* what the Pinger does next
  checked,       \* currentTimestamp, the local of checkAllPeersPings
  members,       \* Session::m_peers
  hasSocket,     \* per peer: m_socket is set
  failed,        \* per peer: m_failedPings
  last,          \* per peer: m_lastPingTimestamp
  pong,          \* per peer: the pong handlePong has reported, or None
  pinged,        \* per peer: the pings its client was sent
  reports        \* history: who answered, and how fast

sessionVars == <<current, bestTime, bestPeer, bestSince>>
pingerVars  == <<phase, checked>>
peerVars    == <<members, hasSocket, failed, last, pong, pinged>>
vars == <<sessionVars, pingerVars, peerVars, reports>>

Init ==
  /\ current = -1
  /\ bestTime = -1
  /\ bestPeer = None
  /\ bestSince = -1
  /\ phase = "read"
  /\ checked = -1
  /\ members = {}
  /\ hasSocket = [p \in Peers |-> TRUE]
  /\ failed = [p \in Peers |-> 0]
  /\ last = [p \in Peers |-> -1]
  /\ pong = [p \in Peers |-> None]
  /\ pinged = [p \in Peers |-> {}]
  /\ reports = {}

-----------------------------------------------------------------------------
(* The Pinger                                                              *)

\* checkAllPeersPings, the section under m_pingMutex.
ReadCurrent ==
  /\ phase = "read"
  /\ current < MaxRounds
  /\ checked' = current
  /\ phase' = "check"
  /\ UNCHANGED <<sessionVars, peerVars, reports>>

\* Mutant of Missed: a peer that never answered counts as one that was never
\* asked.
MissedAgain(p) == last[p] \notin {-1, checked}

\* m_lastPingTimestamp != currentPingSessionTimestamp
Missed(p) == last[p] # checked

\* checkAllPeersPings, the section under m_peersMutex: checkPingsRules of
\* each peer. A peer that has failed too often loses its socket.
CheckPeers ==
  LET count(p) == failed[p] + (IF Missed(p) THEN 1 ELSE 0)
  IN  /\ phase = "check"
      /\ failed' = [p \in Peers |-> IF p \in members THEN count(p)
                                                     ELSE failed[p]]
      /\ hasSocket' = [p \in Peers |-> hasSocket[p] /\
                         (p \in members => count(p) < MaxFailedPings)]
      /\ phase' = "stamp"
      /\ UNCHANGED <<sessionVars, checked, members, last, pong, pinged,
                     reports>>

\* pingAllPeers, the section under m_pingMutex.
SetCurrent ==
  /\ phase = "stamp"
  /\ current' = IF current = -1 THEN 1 ELSE current + 1
  /\ phase' = "ping"
  /\ UNCHANGED <<bestTime, bestPeer, bestSince, checked, peerVars, reports>>

\* Peer::ping: a PingCoroutine, if there is a socket to write to.
Sent(p) == IF p \in members /\ hasSocket[p] THEN {current} ELSE {}

\* pingAllPeers, the section under m_peersMutex: ping of each peer, then
\* waitRepeat.
PingPeers ==
  /\ phase = "ping"
  /\ pinged' = [p \in Peers |-> pinged[p] \union Sent(p)]
  /\ phase' = "read"
  /\ UNCHANGED <<sessionVars, checked, members, hasSocket, failed, last, pong,
                 reports>>

Pinger == ReadCurrent \/ CheckPeers \/ SetCurrent \/ PingPeers

-----------------------------------------------------------------------------
(* Peers                                                                   *)

\* addPeer
Join(p) ==
  /\ p \notin members
  /\ hasSocket[p]
  /\ members' = members \union {p}
  /\ UNCHANGED <<sessionVars, pingerVars, hasSocket, failed, last, pong,
                 pinged, reports>>

\* onBeforeDestroy_NonBlocking: invalidateSocket and removePeerById.
Leave(p) ==
  /\ p \in members
  /\ pong[p] = None
  /\ members' = members \ {p}
  /\ hasSocket' = [hasSocket EXCEPT ![p] = FALSE]
  /\ UNCHANGED <<sessionVars, pingerVars, failed, last, pong, pinged,
                 reports>>

\* Mutant of IsLatest: an old ping may be answered too.
IsAnyPing(t) == t <= current

IsLatest(t) == t = current

\* Mutant of IsFaster: there is never a first best time.
IsFasterOnly(delay) == bestTime > delay

IsFaster(delay) == bestTime < 0 \/ bestTime > delay

\* What m_pingCurrentTimestamp can be. Any other number a pong may hold is
\* never the latest.
Timestamps == (1 .. MaxRounds) \union {-1}

\* handlePong, reportPeerPong: a pong for anything but the latest timestamp
\* fails. A client may answer a ping late, more than once, or name one that it
\* was not sent: only the number is looked at.
ReportPong(p, t, delay) ==
  /\ p \in members
  /\ pong[p] = None
  /\ \/ /\ IsLatest(t)
        /\ IF IsFaster(delay)
           THEN /\ bestTime' = delay
                /\ bestPeer' = p
                /\ bestSince' = IF bestPeer = p THEN bestSince ELSE t
           ELSE UNCHANGED <<bestTime, bestPeer, bestSince>>
        /\ pong' = [pong EXCEPT ![p] = t]
        /\ reports' = reports \union {[peer |-> p, time |-> delay]}
     \/ /\ ~IsLatest(t)
        /\ UNCHANGED <<bestTime, bestPeer, bestSince, pong, reports>>
  /\ UNCHANGED <<current, pingerVars, members, hasSocket, failed, last, pinged>>

\* Mutant of AcceptPong: the result of reportPeerPong is not looked at.
AcceptAnyPong(p) ==
  /\ p \in members
  /\ failed' = [failed EXCEPT ![p] = 0]
  /\ last' = [last EXCEPT ![p] = pong[p]]
  /\ pong' = [pong EXCEPT ![p] = None]
  /\ UNCHANGED <<sessionVars, pingerVars, members, hasSocket, pinged,
                 reports>>

\* Mutant of AcceptPong: the failures are not forgotten.
AcceptKeepFailed(p) ==
  /\ pong[p] # None
  /\ last' = [last EXCEPT ![p] = pong[p]]
  /\ pong' = [pong EXCEPT ![p] = None]
  /\ UNCHANGED <<sessionVars, pingerVars, members, hasSocket, failed, pinged,
                reports>>

\* handlePong, the section under the m_pingMutex of the Peer.
AcceptPong(p) ==
  /\ pong[p] # None
  /\ failed' = [failed EXCEPT ![p] = 0]
  /\ last' = [last EXCEPT ![p] = pong[p]]
  /\ pong' = [pong EXCEPT ![p] = None]
  /\ UNCHANGED <<sessionVars, pingerVars, members, hasSocket, pinged,
                 reports>>

Next ==
  \/ Pinger
  \/ \E p \in Peers : Join(p) \/ Leave(p) \/ AcceptPong(p)
  \/ \E p \in Peers \ Mute, d \in Delays, t \in Timestamps :
       ReportPong(p, t, d)

\* The executor calls the Pinger again every pingIntervalMillis. Clients need
\* not join, leave or answer.
Fairness == WF_vars(Pinger)

Spec == Init /\ [][Next]_vars

FairSpec == Spec /\ Fairness

-----------------------------------------------------------------------------
Rounds == 1 .. MaxRounds

TypeOK ==
  /\ current \in Rounds \union {-1}
  /\ bestTime \in Delays \union {-1}
  /\ bestPeer \in Peers \union {None}
  /\ bestSince \in Rounds \union {-1}
  /\ phase \in {"read", "check", "stamp", "ping"}
  /\ checked \in Rounds \union {-1}
  /\ members \subseteq Peers
  /\ hasSocket \in [Peers -> BOOLEAN]
  /\ failed \in [Peers -> Nat]
  /\ last \in [Peers -> Rounds \union {-1}]
  /\ pong \in [Peers -> Timestamps \union {None}]
  /\ pinged \in [Peers -> SUBSET Rounds]
  /\ reports \subseteq [peer : Peers, time : Delays]

\* The pings a peer was sent since the one it answered last.
Unanswered(p) == {t \in pinged[p] : t > last[p]}

\* A peer that is dropped for failed pings has left unanswered in a row as
\* many as that but for one, however its joining and its pongs fall between
\* the steps of the Pinger.
DropIsEarned ==
  [][\A p \in Peers :
       phase = "check" /\ phase' = "stamp" /\ hasSocket[p] /\ ~hasSocket'[p]
         => Cardinality(Unanswered(p)) >= MaxFailedPings - 1]_vars

\* "A failed ping is ping to which server receives no response"
\* (GamesConfig.hpp:78): a peer is not dropped before it has left
\* 'maxFailedPings' pings unanswered.
EveryFailureIsAPing ==
  [][\A p \in Peers :
       phase = "check" /\ phase' = "stamp" /\ hasSocket[p] /\ ~hasSocket'[p]
         => Cardinality(Unanswered(p)) >= MaxFailedPings]_vars

\* A peer that has answered the latest ping by the time the Pinger looks
\* is not charged for it.
AnsweredIsNotCharged ==
  [][\A p \in Peers :
       phase = "check" /\ last[p] = current => failed'[p] = failed[p]]_vars

\* Between the two sections of handlePong the Pinger may stamp the next ping,
\* and pongs may be late, repeated or made up: still the timestamp a peer is
\* credited with only advances, and not beyond the latest ping.
AnswersAdvance ==
  [][\A p \in Peers : last'[p] # last[p] =>
       last'[p] > last[p] /\ last'[p] <= current]_vars

\* The best peer of a session is one that answered in the best time, and
\* nobody was ever faster.
BestIsFastest ==
  /\ bestTime >= 0 <=> reports # {}
  /\ reports # {} => /\ [peer |-> bestPeer, time |-> bestTime] \in reports
                     /\ \A r \in reports : bestTime <= r.time

\* A peer that stays in the session and never answers loses its socket, if
\* the rounds that are left suffice.
SilentPeerIsDropped ==
  \A p \in Mute :
    p \in members /\ current + MaxFailedPings + 1 < MaxRounds
      ~> ~hasSocket[p]
=============================================================================
