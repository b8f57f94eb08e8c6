------------------------------- MODULE Server -------------------------------
(***************************************************************************)
(* The program around the sessions: run() with its components, Runner and  *)
(* its one or two servers, the controllers, and Registry's way from a      *)
(* request to a Game and back.                                             *)
(*                                                                         *)
(* Start-up is sequential; an exception, of assertServerConfig or of a     *)
(* server that cannot listen, ends the program. Each accepted socket then  *)
(* runs on its own. A Game is an object: its identity is a number, and it  *)
(* may matter which one a request is led to. Inside a session everything   *)
(* is the subject of Lobby; here entering and leaving are one step each.   *)
(***************************************************************************)
EXTENDS Integers, Sequences, FiniteSets

CONSTANTS
  Sockets,       \* requests, each with the socket it leads to
  Sections,      \* ServerConfigDto: records [host, port, tls]; tls is the set
                 \* of files it names
  Configured,    \* ids of the game configs that run() puts
  GameIds,       \* ids in requests
  SessionIds,
  None           \* null, missing

\* TLSConfigDto: either file may be missing.
TLSConfigDto == SUBSET {"pkFile", "chainFile"}

ASSUME ServerAssumption ==
  /\ \A x \in Sections : x.tls \in TLSConfigDto \union {None}
  /\ Configured # {}
  /\ None \notin Sockets \union Configured \union GameIds \union SessionIds
  /\ None \notin Nat

AllGameIds == Configured \union GameIds

VARIABLES
  config,        \* ConfigDto
  stage,         \* of run()
  gamesConfig,   \* GamesConfig::m_games: the ids that have a config
  servers,       \* Runner::m_servers
  running,       \* how many of them have been started
  games,         \* Registry::m_games: id -> object
  created,       \* number of Game objects made so far
  sessions,      \* entries of the games' session maps
  request,       \* per socket: address, path and parameters
  game,          \* per socket: the Game it was led to
  session,       \* per socket: its session, named after the creator
  error,         \* per socket: code of the error it gets
  pc             \* per socket: its next step

runVars    == <<config, stage, gamesConfig, servers, running>>
gameVars   == <<games, created, sessions>>
socketVars == <<request, game, session, error, pc>>
vars == <<runVars, gameVars, socketVars>>

NoRequest == [address |-> None, role |-> None, gameId |-> None, id |-> None]

Init ==
  /\ config \in [hostAPI : Sections \union {None},
                 clientAPI : Sections \union {None}]
  /\ stage = "components"
  /\ gamesConfig = {}
  /\ servers = <<>>
  /\ running = 0
  /\ games = [g \in AllGameIds |-> None]
  /\ created = 0
  /\ sessions = {}
  /\ request = [s \in Sockets |-> NoRequest]
  /\ game = [s \in Sockets |-> None]
  /\ session = [s \in Sockets |-> None]
  /\ error = [s \in Sockets |-> None]
  /\ pc = [s \in Sockets |-> "idle"]

Go(s, label) == pc' = [pc EXCEPT ![s] = label]

-----------------------------------------------------------------------------
(* Start-up                                                                *)

\* AppComponent puts the configs of its games, GamesConfig::putGameConfig.
PutGameConfig(g) ==
  /\ stage = "components"
  /\ gamesConfig' = gamesConfig \union {g}
  /\ stage' = IF gamesConfig' = Configured THEN "host" ELSE stage
  /\ UNCHANGED <<config, servers, running, gameVars, socketVars>>

\* Runner::assertServerConfig does not throw.
AssertServerConfig(section, checkTls) ==
  /\ section # None
  /\ section.host # None
  /\ section.port # None
  /\ checkTls /\ section.tls # None => section.tls = {"pkFile", "chainFile"}

Address(section) == <<section.host, section.port>>

\* APIServer::APIServer. A connection provider listens at the address.
APIServer(section, routes) ==
  [address |-> Address(section), tls |-> section.tls # None, routes |-> routes]

Fail ==
  /\ stage' = "failed"
  /\ UNCHANGED servers

\* Runner::Runner, the host API.
BuildHostServer ==
  /\ stage = "host"
  /\ \/ Fail
     \/ /\ AssertServerConfig(config.hostAPI, TRUE)
        /\ servers' = <<APIServer(config.hostAPI, {"create-game"})>>
        /\ stage' = "client"
  /\ UNCHANGED <<config, gamesConfig, running, gameVars, socketVars>>

SameAddress == Address(config.clientAPI) = Address(config.hostAPI)

\* Mutant of BuildClientServer: the server of the host API gets no second
\* controller.
BuildClientServerAlone ==
  /\ stage = "client"
  /\ \/ Fail
     \/ /\ AssertServerConfig(config.clientAPI, ~SameAddress)
        /\ servers' = IF SameAddress THEN servers
                      ELSE Append(servers,
                                  APIServer(config.clientAPI, {"join-game"}))
        /\ stage' = "start"
  /\ UNCHANGED <<config, gamesConfig, running, gameVars, socketVars>>

\* Runner::Runner, the client API: on the server of the host API if the
\* addresses are the same, whatever its section says of TLS.
BuildClientServer ==
  /\ stage = "client"
  /\ \/ Fail
     \/ /\ AssertServerConfig(config.clientAPI, ~SameAddress)
        /\ servers' =
             IF SameAddress
             THEN [servers EXCEPT ![1].routes = @ \union {"join-game"}]
             ELSE Append(servers, APIServer(config.clientAPI, {"join-game"}))
        /\ stage' = "start"
  /\ UNCHANGED <<config, gamesConfig, running, gameVars, socketVars>>

MayStart == stage = "start"

\* Runner::start, APIServer::start: one thread after the other.
StartServer ==
  /\ MayStart
  /\ running < Len(servers)
  /\ running' = running + 1
  /\ UNCHANGED <<config, stage, gamesConfig, servers, gameVars, socketVars>>

-----------------------------------------------------------------------------
(* Requests                                                                *)

\* Mutant of Role: the client controller was copied from that of the host.
RoleHost(path) == "host"

\* The peer type that HostController and ClientController put in.
Role(path) == IF path = "create-game" THEN "host" ELSE "client"

\* A request reaches a server that runs. The controller whose path it names
\* takes gameId and sessionId, if they are there, and the handshake makes a
\* socket. Any other path is answered by HTTP.
Request(s) ==
  /\ pc[s] = "idle"
  /\ \E i \in 1 .. running : \E path \in servers[i].routes :
     \E g \in GameIds \union {None}, id \in SessionIds \union {None} :
       request' = [request EXCEPT ![s] =
                     [address |-> servers[i].address, role |-> Role(path),
                      gameId |-> g, id |-> id]]
  /\ Go(s, "accepted")
  /\ UNCHANGED <<runVars, gameVars, game, session, error>>

\* Mutant of Reject: the error is noted, but nobody sends it.
RejectQuietly(s, code) ==
  /\ error' = [error EXCEPT ![s] = code]
  /\ UNCHANGED pc

\* onAfterCreate_NonBlocking: sendSocketErrorAsync instead of a peer.
Reject(s, code) ==
  /\ error' = [error EXCEPT ![s] = code]
  /\ Go(s, "rejected")

\* Mutant of InsertGame: the new Game is returned, but not kept.
InsertNothing(g) == UNCHANGED games

InsertGame(g) == games' = [games EXCEPT ![g] = created + 1]

\* GamesConfig::getGameConfig
HasConfig(g) == g \in gamesConfig

\* Registry::getGameById, under m_mutex; given what it returns.
GetGameById(g, result) ==
  \/ /\ games[g] # None
     /\ result = games[g]
     /\ UNCHANGED <<games, created>>
  \/ /\ games[g] = None
     /\ HasConfig(g)
     /\ result = created + 1
     /\ created' = created + 1
     /\ InsertGame(g)

NoGame(g) == games[g] = None /\ ~HasConfig(g)

\* getSessionForPeer as far as the Game.
FindGame(s) ==
  LET g == request[s].gameId
  IN  /\ pc[s] = "accepted"
      /\ \/ /\ None \in {g, request[s].id}
            /\ Reject(s, "BAD_REQUEST")
            /\ UNCHANGED <<games, created, game>>
         \/ /\ None \notin {g, request[s].id}
            /\ NoGame(g)
            /\ Reject(s, "GAME_NOT_FOUND")
            /\ UNCHANGED <<games, created, game>>
         \/ /\ None \notin {g, request[s].id}
            /\ \E o \in 1 .. created + 1 :
                 /\ GetGameById(g, o)
                 /\ game' = [game EXCEPT ![s] = o]
            /\ Go(s, "in game")
            /\ UNCHANGED error
      /\ UNCHANGED <<runVars, sessions, request, session>>

Entries(o, id) == {e \in sessions : e.game = o /\ e.id = id}

\* createNewSession or findSession, then addPeer.
EnterSession(s) ==
  LET here == Entries(game[s], request[s].id)
  IN  /\ pc[s] = "in game"
      /\ \/ /\ request[s].role = "host"
            /\ here = {}
            /\ sessions' = sessions \union
                 {[game |-> game[s], id |-> request[s].id, by |-> s]}
            /\ session' = [session EXCEPT ![s] = s]
            /\ Go(s, "open")
            /\ UNCHANGED error
         \/ /\ request[s].role = "host"
            /\ here # {}
            /\ Reject(s, "OPERATION_NOT_PERMITTED")
            /\ UNCHANGED <<sessions, session>>
         \/ /\ request[s].role = "client"
            /\ \E e \in here : session' = [session EXCEPT ![s] = e.by]
            /\ Go(s, "open")
            /\ UNCHANGED <<sessions, error>>
         \/ /\ request[s].role = "client"
            /\ here = {}
            /\ Reject(s, "SESSION_NOT_FOUND")
            /\ UNCHANGED <<sessions, session>>
      /\ UNCHANGED <<runVars, games, created, request, game>>

\* SendErrorCoroutine of sendSocketErrorAsync: the error, then the close
\* frame. Either write may fail, and the coroutine ends.
SendError(s) ==
  /\ pc[s] = "rejected"
  /\ Go(s, "told") \/ Go(s, "closing")
  /\ UNCHANGED <<runVars, gameVars, request, game, session, error>>

SendClose(s) ==
  /\ pc[s] = "told"
  /\ Go(s, "closing")
  /\ UNCHANGED <<runVars, gameVars, request, game, session, error>>

\* The connection has ended; onBeforeDestroy_NonBlocking: without a listener
\* the connection is invalidated, otherwise the peer leaves the session.
Destroy(s) ==
  /\ \/ /\ pc[s] = "closing"
        /\ Go(s, "gone")
     \/ /\ pc[s] = "open"
        /\ IF \E t \in Sockets \ {s} : pc[t] = "open" /\ session[t] = session[s]
           THEN Go(s, "gone") ELSE Go(s, "deleting")
  /\ UNCHANGED <<runVars, gameVars, request, game, session, error>>

\* onBeforeDestroy_NonBlocking of the last peer: getGameById once more, by
\* the id in the session's config, then deleteSession.
DeleteSession(s) ==
  /\ pc[s] = "deleting"
  /\ \E o \in 1 .. created + 1 :
       /\ GetGameById(request[s].gameId, o)
       /\ sessions' = sessions \ Entries(o, request[s].id)
  /\ Go(s, "gone")
  /\ UNCHANGED <<runVars, request, game, session, error>>

-----------------------------------------------------------------------------
StartUp ==
  \/ \E g \in Configured \ gamesConfig : PutGameConfig(g)
  \/ BuildHostServer
  \/ BuildClientServer
  \/ StartServer

\* The steps that follow by themselves once a request is accepted.
Serve(s) ==
  \/ FindGame(s)
  \/ EnterSession(s)
  \/ SendError(s)
  \/ SendClose(s)
  \/ DeleteSession(s)

Next ==
  \/ StartUp
  \/ \E s \in Sockets : Request(s) \/ Serve(s) \/ Destroy(s)

\* Callbacks and coroutines run to their end. Nobody has to send a request
\* or to hang up.
Fairness == \A s \in Sockets : WF_vars(Serve(s))

Spec == Init /\ [][Next]_vars

FairSpec == Spec /\ Fairness

-----------------------------------------------------------------------------
Servers == {servers[i] : i \in DOMAIN servers}

TypeOK ==
  /\ stage \in {"components", "host", "client", "start", "failed"}
  /\ gamesConfig \subseteq Configured
  /\ \A v \in Servers : /\ None \notin {v.address[1], v.address[2]}
                        /\ v.tls \in BOOLEAN
                        /\ v.routes \subseteq {"create-game", "join-game"}
  /\ running \in 0 .. Len(servers)
  /\ created \in Nat
  /\ games \in [AllGameIds -> 1 .. created \union {None}]
  /\ sessions \subseteq [game : 1 .. created, id : SessionIds, by : Sockets]
  /\ game \in [Sockets -> 1 .. created \union {None}]
  /\ session \in [Sockets -> Sockets \union {None}]
  /\ error \in [Sockets -> {None, "BAD_REQUEST", "GAME_NOT_FOUND",
                            "SESSION_NOT_FOUND", "OPERATION_NOT_PERMITTED"}]
  /\ pc \in [Sockets -> {"idle", "accepted", "in game", "open", "rejected",
                         "told", "closing", "deleting", "gone"}]

\* "Config for Host API Server (create game functionality)", "Config for
\* Client API Server (join game functionality)" (Config.hpp:86,91): as soon as
\* anything is served, a server for each of the two has been built that has
\* its address and its route, the route is at no other address, and no two
\* servers have one address: the second could not listen. A configuration
\* that is rejected in part serves nothing.
ApisAtTheirAddresses ==
  running > 0 =>
    /\ \A i, j \in DOMAIN servers :
         servers[i].address = servers[j].address => i = j
    /\ None \notin {config.hostAPI, config.clientAPI}
    /\ {v.address : v \in {x \in Servers : "create-game" \in x.routes}}
         = {Address(config.hostAPI)}
    /\ {v.address : v \in {x \in Servers : "join-game" \in x.routes}}
         = {Address(config.clientAPI)}

\* Sessions are created through the host API only and joined through the
\* client API only, also where the two have addresses of their own.
PeersComeByTheirApi ==
  \A s \in Sockets :
    session[s] # None =>
      request[s].address = Address(IF session[s] = s THEN config.hostAPI
                                                     ELSE config.clientAPI)

\* Whoever names one game id is led to one Game, of which there is no second
\* one: a joiner to that of the creator, and the last peer of a session to
\* that which has its entry.
OneGamePerId ==
  \A s \in Sockets :
    pc[s] \in {"in game", "open", "deleting"} =>
      game[s] = games[request[s].gameId]

\* Every request that made a socket gets into a session, or it is sent the
\* reason and a close frame as far as its connection carries them.
RequestIsAnswered ==
  \A s \in Sockets : pc[s] = "accepted" ~> pc[s] \in {"open", "closing"}
=============================================================================
