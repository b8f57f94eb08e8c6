------------------------------- MODULE Lobby -------------------------------
(***************************************************************************)
(* The life of the sessions of one Game, as Registry drives it.            *)
(*                                                                         *)
(* Each socket has a thread of its own in the server:                      *)
(*   onAfterCreate_NonBlocking   getSessionForPeer; new Peer; addPeer      *)
(*   (the socket is served until its connection ends)                      *)
(*   onBeforeDestroy_NonBlocking removePeerById; deleteSession if empty    *)
(* One step is one critical section: of m_state->mutex of the Game or of   *)
(* m_peersMutex of the Session. Between two of them every other thread and *)
(* the pinger may run. The Game's map holds session ids, the peers hold    *)
(* Session objects, and an object can outlive its entry in the map: so     *)
(* objects have an identity here, that of the socket that created them.    *)
(*                                                                         *)
(* Messages posted to a peer are recorded, not stored: MessageQueue says   *)
(* how they get to the client. Whether the queue of a host is full depends *)
(* on how fast its client reads, and on what else it is sent: it may       *)
(* refuse any notice.                                                      *)
(***************************************************************************)
EXTENDS Integers, Sequences, FiniteSets

CONSTANTS
  Hosts,         \* sockets that ask to create a session
  Clients,       \* sockets that ask to join one
  SessionIds,    \* the values of the parameter sessionId
  None           \* null pointer, missing entry

ASSUME LobbyAssumption ==
  /\ Hosts \cap Clients = {}
  /\ None \notin Hosts \union SessionIds

Sockets == Hosts \union Clients

VARIABLES
  sessions,      \* Game::State::sessions: session id -> object
  isPingerActive,
  pingers,       \* Pinger coroutines that have not finished
  sid,           \* per session object: m_id
  counter,       \* per session object: m_peerIdCounter
  members,       \* per session object: m_peers, as a set of sockets
  host,          \* per session object: m_host, as a socket
  notices,       \* per session object: what m_host's queue took, in order
  refused,       \* per session object: the notices it did not take
  session,       \* per socket: the m_gameSession of its peer
  peerId,        \* per socket: the m_peerId of its peer
  connected,     \* per socket: nobody has ended its connection yet
  pc             \* per socket: the next critical section of its thread

gameVars    == <<sessions, isPingerActive, pingers>>
sessionVars == <<sid, counter, members, host, notices, refused>>
socketVars  == <<session, peerId, connected, pc>>
vars        == <<gameVars, sessionVars, socketVars>>

Init ==
  /\ sessions = [i \in SessionIds |-> None]
  /\ isPingerActive = FALSE
  /\ pingers = 0
  /\ sid = [o \in Hosts |-> None]
  /\ counter = [o \in Hosts |-> 0]
  /\ members = [o \in Hosts |-> {}]
  /\ host = [o \in Hosts |-> None]
  /\ notices = [o \in Hosts |-> <<>>]
  /\ refused = [o \in Hosts |-> {}]
  /\ session = [s \in Sockets |-> None]
  /\ peerId = [s \in Sockets |-> -1]
  /\ connected = [s \in Sockets |-> FALSE]
  /\ pc = [s \in Sockets |-> "idle"]

Go(s, label) == pc' = [pc EXCEPT ![s] = label]

Registered == {sessions[i] : i \in SessionIds} \ {None}

-----------------------------------------------------------------------------
(* onAfterCreate_NonBlocking                                               *)

\* Mutant of StartPinger: the flag is not looked at.
StartPingerAlways ==
  /\ isPingerActive' = TRUE
  /\ pingers' = pingers + 1

\* Game::startPinger
StartPinger ==
  /\ isPingerActive' = TRUE
  /\ pingers' = pingers + (IF isPingerActive THEN 0 ELSE 1)

\* getSessionForPeer: a parameter is missing, or the game is not known.
RejectRequest(s) ==
  /\ pc[s] = "idle"
  /\ connected' = [connected EXCEPT ![s] = TRUE]
  /\ Go(s, "rejected")
  /\ UNCHANGED <<gameVars, sessionVars, session, peerId>>

\* getSessionForPeer for a host: createNewSession.
CreateSession(s, i) ==
  /\ pc[s] = "idle"
  /\ connected' = [connected EXCEPT ![s] = TRUE]
  /\ \/ /\ sessions[i] = None
        /\ sessions' = [sessions EXCEPT ![i] = s]
        /\ sid' = [sid EXCEPT ![s] = i]
        /\ session' = [session EXCEPT ![s] = s]
        /\ StartPinger
        /\ Go(s, "found")
     \/ /\ sessions[i] # None
        /\ Go(s, "rejected")
        /\ UNCHANGED <<gameVars, sid, session>>
  /\ UNCHANGED <<counter, members, host, notices, refused, peerId>>

\* getSessionForPeer for a client: findSession.
FindSession(s, i) ==
  /\ pc[s] = "idle"
  /\ connected' = [connected EXCEPT ![s] = TRUE]
  /\ \/ /\ sessions[i] # None
        /\ session' = [session EXCEPT ![s] = sessions[i]]
        /\ Go(s, "found")
     \/ /\ sessions[i] = None
        /\ Go(s, "rejected")
        /\ UNCHANGED session
  /\ UNCHANGED <<gameVars, sessionVars, peerId>>

\* Mutant of NextId: two peers get the same id.
SameId(n) == n

\* m_peerIdCounter ++
NextId(n) == n + 1

\* std::make_shared<Peer>(socket, session, session->generateNewPeerId())
MakePeer(s) ==
  LET o == session[s]
  IN  /\ pc[s] = "found"
      /\ peerId' = [peerId EXCEPT ![s] = counter[o]]
      /\ counter' = [counter EXCEPT ![o] = NextId(counter[o])]
      /\ Go(s, "made")
      /\ UNCHANGED <<gameVars, sid, members, host, notices, refused, session,
                     connected>>

\* Mutant of Notify: nobody is told who left.
NotifyJoined(o, h, code, id) ==
  /\ notices' = IF h = None \/ code = "left" THEN notices
                ELSE [notices EXCEPT ![o] =
                        Append(notices[o], [code |-> code, peerId |-> id])]
  /\ UNCHANGED refused

\* host->queueMessage(...) if there is a host. Nobody looks whether the queue
\* took the message.
Notify(o, h, code, id) ==
  LET n == [code |-> code, peerId |-> id]
  IN  \/ /\ h # None
         /\ notices' = [notices EXCEPT ![o] = Append(notices[o], n)]
         /\ UNCHANGED refused
      \/ /\ h # None
         /\ refused' = [refused EXCEPT ![o] = refused[o] \union {n}]
         /\ UNCHANGED notices
      \/ /\ h = None
         /\ UNCHANGED <<notices, refused>>

\* Mutant of HostAfterAdd: a session without a host takes any peer.
AnyHostAfterAdd(o, s) == IF host[o] = None THEN s ELSE host[o]

\* m_host after addPeer(s, isHost)
HostAfterAdd(o, s) == IF s \in Hosts THEN s ELSE host[o]

\* Session::addPeer. The HELLO that follows goes to the new peer alone.
AddPeer(s) ==
  LET o == session[s]
  IN  /\ pc[s] = "made"
      /\ members' = IF \E m \in members[o] : peerId[m] = peerId[s]
                    THEN members
                    ELSE [members EXCEPT ![o] = members[o] \union {s}]
      /\ host' = [host EXCEPT ![o] = HostAfterAdd(o, s)]
      /\ IF s \in Hosts THEN UNCHANGED <<notices, refused>>
                        ELSE Notify(o, host[o], "joined", peerId[s])
      /\ Go(s, "open")
      /\ UNCHANGED <<gameVars, sid, counter, session, peerId, connected>>

-----------------------------------------------------------------------------
(* The end of a connection                                                 *)

\* The client leaves, is kicked, or is sent a close frame.
LoseConnection(s) ==
  /\ connected[s]
  /\ connected' = [connected EXCEPT ![s] = FALSE]
  /\ UNCHANGED <<gameVars, sessionVars, session, peerId, pc>>

\* onBeforeDestroy_NonBlocking of a socket that never got a peer.
DestroyRejected(s) ==
  /\ pc[s] = "rejected"
  /\ ~connected[s]
  /\ Go(s, "gone")
  /\ UNCHANGED <<gameVars, sessionVars, session, peerId, connected>>

\* Mutant of IsEmpty: m_peers is looked at before the peer is erased.
WasEmpty(o, rest) == members[o] = {}

\* isEmpty of removePeerById
IsEmpty(o, rest) == rest = {}

\* onBeforeDestroy_NonBlocking: invalidateSocket, which has nothing left to
\* invalidate, then removePeerById.
RemovePeer(s) ==
  LET o    == session[s]
      h    == IF host[o] # None /\ peerId[host[o]] = peerId[s]
              THEN None ELSE host[o]
      rest == {m \in members[o] : peerId[m] # peerId[s]}
  IN  /\ pc[s] = "open"
      /\ ~connected[s]
      /\ host' = [host EXCEPT ![o] = h]
      /\ members' = [members EXCEPT ![o] = rest]
      /\ Notify(o, h, "left", peerId[s])
      /\ Go(s, IF IsEmpty(o, rest) THEN "deleting" ELSE "gone")
      /\ UNCHANGED <<gameVars, sid, counter, session, peerId, connected>>

\* Mutant of DeleteSession: waits until the entry is that of its own session.
DeleteOwnSession(s) ==
  /\ pc[s] = "deleting"
  /\ sessions[sid[session[s]]] = session[s]
  /\ sessions' = [sessions EXCEPT ![sid[session[s]]] = None]
  /\ Go(s, "gone")
  /\ UNCHANGED <<isPingerActive, pingers, sessionVars, session, peerId,
                 connected>>

\* onBeforeDestroy_NonBlocking, isEmptySession: Game::deleteSession, by id.
DeleteSession(s) ==
  /\ pc[s] = "deleting"
  /\ sessions' = [sessions EXCEPT ![sid[session[s]]] = None]
  /\ Go(s, "gone")
  /\ UNCHANGED <<isPingerActive, pingers, sessionVars, session, peerId,
                 connected>>

-----------------------------------------------------------------------------
(* Pinger::act, under the mutex of the Game. Which peers are dropped for   *)
(* failed pings depends on timestamps; any peer it visits may be one.      *)

PingAll ==
  /\ pingers > 0
  /\ Registered # {}
  /\ \E dropped \in SUBSET UNION {members[o] : o \in Registered} :
       connected' = [s \in Sockets |-> connected[s] /\ s \notin dropped]
  /\ UNCHANGED <<gameVars, sessionVars, session, peerId, pc>>

StopPinger ==
  /\ pingers > 0
  /\ Registered = {}
  /\ isPingerActive' = FALSE
  /\ pingers' = pingers - 1
  /\ UNCHANGED <<sessions, sessionVars, socketVars>>

-----------------------------------------------------------------------------
Connect(s) ==
  \/ RejectRequest(s)
  \/ \E i \in SessionIds : IF s \in Hosts THEN CreateSession(s, i)
                                          ELSE FindSession(s, i)

\* The steps a socket's thread takes by itself once it is running.
Serve(s) ==
  \/ MakePeer(s)
  \/ AddPeer(s)
  \/ DestroyRejected(s)
  \/ RemovePeer(s)
  \/ DeleteSession(s)

Next ==
  \/ \E s \in Sockets : Connect(s) \/ Serve(s) \/ LoseConnection(s)
  \/ PingAll
  \/ StopPinger

\* Threads run to the end of their handlers, a closed connection is noticed,
\* and a Pinger is called again by waitRepeat. Nobody has to connect, and no
\* connection has to end.
Fairness ==
  /\ \A s \in Sockets : WF_vars(Serve(s))
  /\ WF_vars(StopPinger)

Spec == Init /\ [][Next]_vars

FairSpec == Spec /\ Fairness

-----------------------------------------------------------------------------
Labels == {"idle", "found", "rejected", "made", "open", "deleting", "gone"}

Notice == [code : {"joined", "left"}, peerId : Nat]

TypeOK ==
  /\ sessions \in [SessionIds -> Hosts \union {None}]
  /\ isPingerActive \in BOOLEAN
  /\ pingers \in Nat
  /\ sid \in [Hosts -> SessionIds \union {None}]
  /\ counter \in [Hosts -> Nat]
  /\ members \in [Hosts -> SUBSET Sockets]
  /\ host \in [Hosts -> Hosts \union {None}]
  /\ notices \in [Hosts -> Seq(Notice)]
  /\ refused \in [Hosts -> SUBSET Notice]
  /\ session \in [Sockets -> Hosts \union {None}]
  /\ peerId \in [Sockets -> Nat \union {-1}]
  /\ connected \in [Sockets -> BOOLEAN]
  /\ pc \in [Sockets -> Labels]

\* The flag counts the Pinger coroutines: never two, and never none while a
\* session is registered, whichever way createNewSession, deleteSession and
\* the last round of a Pinger interleave.
OnePinger ==
  /\ pingers = IF isPingerActive THEN 1 ELSE 0
  /\ Registered # {} => isPingerActive

\* m_peers is keyed by peer id, and kicks and direct messages name peers by
\* it: a peer inside its session is never shadowed by another one, from
\* addPeer until it removes itself.
MemberWhileOpen ==
  \A s \in Sockets :
    pc[s] = "open" <=> \E o \in Hosts : s \in members[o]

\* An entry of the session map does not leak: somebody is still on the way in
\* or inside, and will find the session empty when the last one leaves.
EntryHasOwner ==
  \A i \in SessionIds :
    sessions[i] # None =>
      \E s \in Sockets : /\ session[s] = sessions[i]
                         /\ pc[s] \in {"found", "made", "open", "deleting"}

\* Each client is announced to its host at most once, and so is its
\* departure, which comes later.
NoticesInOrder ==
  \A o \in Hosts : \A i, j \in DOMAIN notices[o] :
    i < j /\ notices[o][i].peerId = notices[o][j].peerId
      => notices[o][i].code = "joined" /\ notices[o][j].code = "left"

Announced(o, code) ==
  {notices[o][i].peerId : i \in {j \in DOMAIN notices[o] :
                                   notices[o][j].code = code}}

Refused(o, code) == {n.peerId : n \in {m \in refused[o] : m.code = code}}

\* The host takes a client for present that is not only if its own queue was
\* too full for the notice that the client left: who else was announced and
\* not signed off is a member of the session.
HostSeesNoGhosts ==
  \A o \in Hosts :
    host[o] # None =>
      Announced(o, "joined") \ (Announced(o, "left") \union Refused(o, "left"))
        \subseteq {peerId[m] : m \in members[o]}

\* A session has one host in its life: only its creator, which once gone is
\* never followed by another, although the session may live on.
HostIsForever ==
  [][\A o \in Hosts :
       host'[o] # host[o] =>
         \/ host[o] = None /\ host'[o] = o /\ pc[o] = "made"
         \/ host[o] = o /\ host'[o] = None /\ pc'[o] # "open"]_vars

\* A connection that ended, for whatever reason, is cleaned up: the peer
\* leaves its session.
PeerLeaves ==
  \A s \in Sockets :
    pc[s] \in {"found", "made", "open"} /\ ~connected[s] ~> pc[s] = "gone"

\* When everybody has gone no entry is left and the Pinger ends.
EverythingEnds ==
  (\A s \in Sockets : pc[s] \in {"idle", "gone"})
    ~> \/ ~isPingerActive /\ Registered = {}
       \/ \E s \in Sockets : pc[s] \notin {"idle", "gone"}

-----------------------------------------------------------------------------
(* The promise: every session is a room.                                   *)

\* The sockets whose peers addPeer has put into m_peers of o.
Entered(o) ==
  {s \in Sockets : session[s] = o /\ peerId[s] # -1 /\ pc[s] # "made"}

\* The notices of the host of o, with the peers instead of their ids.
Heard(o) ==
  {n \in [code : {"joined", "left"}, peer : Sockets] :
     session[n.peer] = o /\ peerId[n.peer] \in Announced(o, n.code)}

\* The notices the queue of the host of o refused, likewise.
Unheard(o) ==
  {n \in [code : {"joined", "left"}, peer : Sockets] :
     session[n.peer] = o /\ peerId[n.peer] \in Refused(o, n.code)}

TheRoom == INSTANCE Room WITH
  Rooms   <- Hosts,
  Peers   <- Sockets,
  NoHost  <- None,
  present <- members,
  entered <- [o \in Hosts |-> Entered(o)],
  hosted  <- [o \in Hosts |-> o \in Entered(o)],
  told    <- [o \in Hosts |-> Heard(o)],
  missed  <- [o \in Hosts |-> Unheard(o)]

\* Whatever is found, erased and counted by peer id, in a map that other
\* threads change in between, amounts to a room: each peer comes in once and
\* goes out once, and the host then inside is told of exactly that, but for
\* what its queue refuses.
ImplementsRoom == TheRoom!Spec
=============================================================================
