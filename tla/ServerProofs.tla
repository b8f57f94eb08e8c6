---------------------------- MODULE ServerProofs ----------------------------
(***************************************************************************)
(* Proofs about Server for any number of requests, games, sections and     *)
(* session ids.                                                            *)
(***************************************************************************)
EXTENDS Server, SequenceTheorems, TLAPS

-----------------------------------------------------------------------------
(* The inductive invariant.                                                *)

HostServer == APIServer(config.hostAPI, {"create-game"})

JointServer == APIServer(config.hostAPI, {"create-game", "join-game"})

ClientServer == APIServer(config.clientAPI, {"join-game"})

Stages == {"components", "host", "client", "start", "failed"}

\* What Runner has built at each stage. Only a complete set is started.
RunnerInv ==
  /\ config \in [hostAPI : Sections \union {None},
                 clientAPI : Sections \union {None}]
  /\ stage \in {"components", "host"} => servers = <<>>
  /\ stage = "client" => servers = <<HostServer>>
  /\ stage = "start" =>
       IF SameAddress
       THEN servers = <<JointServer>>
       ELSE servers = <<HostServer, ClientServer>>
  /\ stage = "failed" => servers = <<>> \/ servers = <<HostServer>>
  /\ servers # <<>> =>
       /\ config.hostAPI # None
       /\ None \notin {config.hostAPI.host, config.hostAPI.port}
  /\ stage = "start" =>
       /\ config.clientAPI # None
       /\ None \notin {config.clientAPI.host, config.clientAPI.port}
  /\ running > 0 => stage = "start"

\* A request came by the API of its role, and one that got further than
\* getSessionForPeer's first checks has both its parameters.
RequestInv ==
  /\ DOMAIN request = Sockets
  /\ \A s \in Sockets : pc[s] # "idle" =>
       /\ running > 0
       /\ \/ /\ request[s].role = "host"
             /\ request[s].address = Address(config.hostAPI)
          \/ /\ request[s].role = "client"
             /\ request[s].address = Address(config.clientAPI)
       /\ request[s].gameId \in GameIds \union {None}
       /\ request[s].id \in SessionIds \union {None}
  /\ \A s \in Sockets : pc[s] \in {"in game", "open", "deleting"} =>
       /\ request[s].gameId \in GameIds
       /\ request[s].id \in SessionIds
       /\ game[s] # None

\* A socket has a session from EnterSession on, and it is its own exactly if
\* the request was that of a host.
SessionInv ==
  /\ \A s \in Sockets : session[s] # None =>
       /\ pc[s] # "idle"
       /\ session[s] = s <=> request[s].role = "host"
  /\ \A e \in sessions : pc[e.by] # "idle" /\ request[e.by].role = "host"

IInv ==
  /\ TypeOK
  /\ RunnerInv
  /\ RequestInv
  /\ SessionInv
  /\ OneGamePerId

-----------------------------------------------------------------------------
(* The servers.                                                            *)

LEMMA OneOrTwo ==
  ASSUME NEW a, NEW b
  PROVE  <<a>> # <<>> /\ <<a, b>> # <<>> /\ Append(<<a>>, b) = <<a, b>>
<1>1. Len(<<a>>) = 1 /\ Len(<<a, b>>) = 2 /\ Len(<<>>) = 0
  OBVIOUS
<1>2. Append(<<a>>, b) = <<a, b>>
  <2> DEFINE S == {a, b}
  <2>1. <<a>> \in Seq(S) /\ b \in S /\ <<a, b>> \in Seq(S)
    OBVIOUS
  <2>2. Append(<<a>>, b) \in Seq(S) /\ Len(Append(<<a>>, b)) = 2
    BY <1>1, <2>1
  <2>3. Append(<<a>>, b)[1] = a /\ Append(<<a>>, b)[2] = b
    BY <1>1, <2>1
  <2> QED
    <3>1. \A i \in 1 .. Len(Append(<<a>>, b)) : Append(<<a>>, b)[i] = <<a, b>>[i]
      BY <2>2, <2>3
    <3> HIDE DEF S
    <3> QED
      BY <1>1, <2>1, <2>2, <3>1, SeqEqual
<1> QED
  BY <1>1, <1>2

\* What RunnerInv says of each server.
LEMMA ServerShape ==
  ASSUME RunnerInv, stage \in Stages
  PROVE  /\ Len(servers) \in Nat
         /\ DOMAIN servers = 1 .. Len(servers)
         /\ Len(servers) > 0 => config.hostAPI # None
         /\ \A i \in DOMAIN servers :
              \/ servers[i] = HostServer
              \/ stage = "start" /\ SameAddress /\ servers[i] = JointServer
              \/ stage = "start" /\ ~SameAddress /\ servers[i] = ClientServer
<1> USE DEF RunnerInv, Stages
<1> HIDE DEF HostServer, JointServer, ClientServer, SameAddress
<1>1. CASE stage \in {"components", "host"}
  BY <1>1
<1>2. CASE stage = "client"
  <2>1. servers = <<HostServer>> /\ servers # <<>>
    BY <1>2, OneOrTwo
  <2> QED
    BY <2>1
<1>3. CASE stage = "start"
  BY <1>3
<1>4. CASE stage = "failed"
  BY <1>4
<1> QED
  BY <1>1, <1>2, <1>3, <1>4

LEMMA ServersTyped ==
  ASSUME RunnerInv, stage \in Stages
  PROVE  \A v \in Servers : /\ None \notin {v.address[1], v.address[2]}
                            /\ v.tls \in BOOLEAN
                            /\ v.routes \subseteq {"create-game", "join-game"}
<1>1. \A i \in DOMAIN servers :
        /\ None \notin {servers[i].address[1], servers[i].address[2]}
        /\ servers[i].tls \in BOOLEAN
        /\ servers[i].routes \subseteq {"create-game", "join-game"}
  <2> SUFFICES ASSUME NEW i \in DOMAIN servers
               PROVE  /\ None \notin {servers[i].address[1], servers[i].address[2]}
                      /\ servers[i].tls \in BOOLEAN
                      /\ servers[i].routes \subseteq {"create-game", "join-game"}
    OBVIOUS
  <2>1. servers # <<>>
    OBVIOUS
  <2>2. None \notin {config.hostAPI.host, config.hostAPI.port}
    BY <2>1 DEF RunnerInv
  <2>3. stage = "start" => None \notin {config.clientAPI.host, config.clientAPI.port}
    BY DEF RunnerInv
  <2> QED
    <3>1. CASE servers[i] = HostServer
      BY <2>2, <3>1 DEF HostServer, APIServer, Address
    <3>2. CASE stage = "start" /\ servers[i] = JointServer
      BY <2>2, <3>2 DEF JointServer, APIServer, Address
    <3>3. CASE stage = "start" /\ servers[i] = ClientServer
      BY <2>3, <3>3 DEF ClientServer, APIServer, Address
    <3> QED
      BY <3>1, <3>2, <3>3, ServerShape
<1> QED
  BY <1>1 DEF Servers

-----------------------------------------------------------------------------
(* Start-up.                                                               *)

LEMMA InitIInv == Init => IInv
<1> SUFFICES ASSUME Init PROVE IInv
  OBVIOUS
<1>1. \A s \in Sockets : pc[s] = "idle" /\ session[s] = None
  BY DEF Init
<1>2. RunnerInv
  BY DEF Init, RunnerInv
<1>3. TypeOK
  BY <1>2, ServersTyped DEF Init, TypeOK, Stages
<1>4. RequestInv /\ SessionInv /\ OneGamePerId
  BY <1>1 DEF Init, RequestInv, SessionInv, OneGamePerId
<1> QED
  BY <1>2, <1>3, <1>4 DEF IInv

LEMMA RunnerStep ==
  ASSUME IInv, [Next]_vars
  PROVE  /\ RunnerInv'
         /\ stage' \in Stages
         /\ gamesConfig' \subseteq Configured
         /\ running' \in 0 .. Len(servers')
         /\ config' = config /\ (running > 0 => running' > 0)
<1>0. /\ RunnerInv /\ stage \in Stages /\ gamesConfig \subseteq Configured
      /\ running \in 0 .. Len(servers)
  BY DEF IInv, TypeOK, Stages
<1> USE DEF Stages
<1>1. ASSUME NEW g \in Configured, PutGameConfig(g)
      PROVE  /\ RunnerInv' /\ stage' \in Stages
             /\ gamesConfig' \subseteq Configured
             /\ running' \in 0 .. Len(servers')
             /\ config' = config /\ (running > 0 => running' > 0)
  BY <1>0, <1>1 DEF PutGameConfig, RunnerInv, HostServer, JointServer,
                    ClientServer, SameAddress
<1>2. CASE BuildHostServer
  <2>1. stage = "host" /\ servers = <<>> /\ running = 0
    BY <1>0, <1>2 DEF BuildHostServer, RunnerInv
  <2>2. UNCHANGED <<config, gamesConfig, running>>
    BY <1>2 DEF BuildHostServer
  <2>3. CASE Fail
    BY <1>0, <2>1, <2>2, <2>3 DEF Fail, RunnerInv
  <2>4. CASE ~Fail
    <3>1. /\ AssertServerConfig(config.hostAPI, TRUE)
          /\ servers' = <<HostServer>>
          /\ stage' = "client"
      BY <1>2, <2>4 DEF BuildHostServer, HostServer
    <3>2. HostServer' = HostServer
      BY <2>2 DEF HostServer
    <3>3. RunnerInv'
      BY <1>0, <2>1, <2>2, <3>1, <3>2 DEF RunnerInv, AssertServerConfig
    <3> QED
      BY <1>0, <2>1, <2>2, <3>1, <3>3
  <2> QED
    BY <2>3, <2>4
<1>3. CASE BuildClientServer
  <2>1. stage = "client" /\ servers = <<HostServer>> /\ running = 0
    BY <1>0, <1>3 DEF BuildClientServer, RunnerInv
  <2>2. /\ UNCHANGED <<config, gamesConfig, running>>
        /\ HostServer' = HostServer /\ JointServer' = JointServer
        /\ ClientServer' = ClientServer /\ (SameAddress' <=> SameAddress)
    BY <1>3 DEF BuildClientServer, HostServer, JointServer, ClientServer,
                SameAddress
  <2>3. CASE Fail
    BY <1>0, <2>1, <2>2, <2>3 DEF Fail, RunnerInv
  <2>4. CASE ~Fail
    <3>1. /\ AssertServerConfig(config.clientAPI, ~SameAddress)
          /\ stage' = "start"
          /\ servers' = IF SameAddress
                        THEN [servers EXCEPT ![1].routes = @ \union {"join-game"}]
                        ELSE Append(servers, ClientServer)
      BY <1>3, <2>4 DEF BuildClientServer, ClientServer
    <3>2. SameAddress => servers' = <<JointServer>>
      BY <2>1, <3>1 DEF HostServer, JointServer, APIServer
    <3>3. ~SameAddress => servers' = <<HostServer, ClientServer>>
      BY <2>1, <3>1, OneOrTwo
    <3>4. RunnerInv'
      BY <1>0, <2>1, <2>2, <3>1, <3>2, <3>3 DEF RunnerInv, AssertServerConfig
    <3>5. running' \in 0 .. Len(servers')
      BY <2>1, <2>2, <3>2, <3>3
    <3> QED
      BY <1>0, <2>1, <2>2, <3>1, <3>4, <3>5
  <2> QED
    BY <2>3, <2>4
<1>4. CASE StartServer
  <2>1. /\ stage = "start" /\ running' = running + 1 /\ running < Len(servers)
        /\ UNCHANGED <<config, stage, gamesConfig, servers>>
    BY <1>4 DEF StartServer, MayStart
  <2>2. RunnerInv'
    BY <1>0, <2>1 DEF RunnerInv, HostServer, JointServer, ClientServer,
                      SameAddress
  <2>3. Len(servers) \in Nat
    BY <1>0, ServerShape
  <2> QED
    BY <1>0, <2>1, <2>2, <2>3
<1>5. CASE UNCHANGED runVars
  BY <1>0, <1>5 DEF runVars, RunnerInv, HostServer, JointServer, ClientServer,
                    SameAddress
<1>6. ASSUME NEW s \in Sockets, Request(s) \/ Serve(s) \/ Destroy(s)
      PROVE  UNCHANGED runVars
  BY <1>6 DEF Request, Serve, Destroy, FindGame, EnterSession, SendError,
              SendClose, DeleteSession
<1> QED
  BY <1>1, <1>2, <1>3, <1>4, <1>5, <1>6 DEF Next, StartUp, vars

-----------------------------------------------------------------------------
(* The games and the sockets.                                              *)

\* The part of TypeOK that is about them.
SocketTypes ==
  /\ created \in Nat
  /\ games \in [AllGameIds -> 1 .. created \union {None}]
  /\ sessions \subseteq [game : 1 .. created, id : SessionIds, by : Sockets]
  /\ game \in [Sockets -> 1 .. created \union {None}]
  /\ session \in [Sockets -> Sockets \union {None}]
  /\ error \in [Sockets -> {None, "BAD_REQUEST", "GAME_NOT_FOUND",
                            "SESSION_NOT_FOUND", "OPERATION_NOT_PERMITTED"}]
  /\ pc \in [Sockets -> {"idle", "accepted", "in game", "open", "rejected",
                         "told", "closing", "deleting", "gone"}]

SocketInv ==
  /\ SocketTypes
  /\ RequestInv
  /\ SessionInv
  /\ OneGamePerId

\* getGameById returns the one Game of the id, now and ever after.
LEMMA GameFound ==
  ASSUME SocketTypes, NEW g \in GameIds, NEW o, GetGameById(g, o)
  PROVE  /\ created' \in Nat /\ 1 .. created \subseteq 1 .. created'
         /\ games' \in [AllGameIds -> 1 .. created' \union {None}]
         /\ o \in 1 .. created' /\ o # None /\ games'[g] = o
         /\ \A h \in GameIds : games[h] # None => games'[h] = games[h]
<1>0. /\ created \in Nat /\ None \notin Nat /\ g \in AllGameIds
      /\ GameIds \subseteq AllGameIds
      /\ games \in [AllGameIds -> 1 .. created \union {None}]
  BY ServerAssumption DEF SocketTypes, AllGameIds
<1>1. CASE games[g] # None
  BY <1>0, <1>1 DEF GetGameById
<1>2. CASE games[g] = None
  <2>1. /\ created' = created + 1
        /\ games' = [games EXCEPT ![g] = created + 1]
        /\ o = created + 1
    BY <1>2 DEF GetGameById, InsertGame
  <2>2. 1 .. created \subseteq 1 .. created'
    BY <1>0, <2>1
  <2>3. games' \in [AllGameIds -> 1 .. created' \union {None}]
    BY <1>0, <2>1, <2>2
  <2> QED
    BY <1>0, <1>2, <2>1, <2>2, <2>3
<1> QED
  BY <1>1, <1>2

\* A request reaches a server whose routes it names.
LEMMA StepRequest ==
  ASSUME IInv, NEW s \in Sockets, Request(s)
  PROVE  SocketInv'
<1>0. /\ SocketInv /\ RunnerInv /\ stage \in Stages
      /\ running \in 0 .. Len(servers)
  BY DEF IInv, SocketInv, TypeOK, SocketTypes, Stages
<1>1. /\ pc[s] = "idle" /\ pc' = [pc EXCEPT ![s] = "accepted"]
      /\ UNCHANGED <<config, running, created, games, sessions, game, session,
                     error>>
  BY DEF Request, Go, runVars, gameVars
<1>2. PICK i \in 1 .. running : \E path \in servers[i].routes :
        \E g \in GameIds \union {None}, id \in SessionIds \union {None} :
          request' = [request EXCEPT ![s] =
                        [address |-> servers[i].address, role |-> Role(path),
                         gameId |-> g, id |-> id]]
  BY DEF Request
<1>3. PICK path \in servers[i].routes, g \in GameIds \union {None},
           id \in SessionIds \union {None} :
        request' = [request EXCEPT ![s] =
                      [address |-> servers[i].address, role |-> Role(path),
                       gameId |-> g, id |-> id]]
  BY <1>2
<1>4. i \in DOMAIN servers /\ running > 0
  BY <1>0, ServerShape
<1>5. \/ Role(path) = "host" /\ servers[i].address = Address(config.hostAPI)
      \/ Role(path) = "client" /\ servers[i].address = Address(config.clientAPI)
  <2>1. CASE servers[i] = HostServer
    BY <1>3, <2>1 DEF HostServer, APIServer, Role
  <2>2. CASE SameAddress /\ servers[i] = JointServer
    BY <1>3, <2>2 DEF JointServer, APIServer, Role, SameAddress
  <2>3. CASE servers[i] = ClientServer
    BY <1>3, <2>3 DEF ClientServer, APIServer, Role
  <2> QED
    BY <1>0, <1>4, <2>1, <2>2, <2>3, ServerShape
<1>6. /\ DOMAIN request = Sockets /\ DOMAIN pc = Sockets
      /\ \A t \in Sockets : session[t] # None => pc[t] # "idle"
      /\ \A e \in sessions : e.by \in Sockets /\ pc[e.by] # "idle"
  BY <1>0 DEF SocketInv, RequestInv, SessionInv, SocketTypes
<1>7. /\ \A t \in Sockets : t # s => request'[t] = request[t] /\ pc'[t] = pc[t]
      /\ pc'[s] = "accepted"
      /\ request'[s] = [address |-> servers[i].address, role |-> Role(path),
                        gameId |-> g, id |-> id]
      /\ DOMAIN request' = Sockets
  BY <1>1, <1>3, <1>6
<1>8. SocketTypes'
  BY <1>0, <1>1 DEF SocketInv, SocketTypes
<1>9. RequestInv'
  <2>1. /\ request'[s].role = Role(path)
        /\ request'[s].address = servers[i].address
        /\ request'[s].gameId = g /\ request'[s].id = id
    BY <1>7
  <2>2. running' > 0 /\ Role(path) \in {"host", "client"}
        /\ UNCHANGED <<config, game>>
    BY <1>1, <1>4, <1>5
  <2>3. RequestInv
    BY <1>0 DEF SocketInv
  <2> DEFINE Came(t) ==
        /\ running > 0
        /\ \/ /\ request[t].role = "host"
              /\ request[t].address = Address(config.hostAPI)
           \/ /\ request[t].role = "client"
              /\ request[t].address = Address(config.clientAPI)
        /\ request[t].gameId \in GameIds \union {None}
        /\ request[t].id \in SessionIds \union {None}
      Led(t) ==
        /\ request[t].gameId \in GameIds
        /\ request[t].id \in SessionIds
        /\ game[t] # None
  <2>4. Came(s)'
    BY <1>3, <1>5, <2>1, <2>2 DEF Address
  <2>5. ASSUME NEW t \in Sockets, t # s
        PROVE  /\ pc'[t] # "idle" => Came(t)'
               /\ pc'[t] \in {"in game", "open", "deleting"} => Led(t)'
    <3>1. pc'[t] = pc[t] /\ request'[t] = request[t]
      BY <1>7, <2>5
    <3>2. /\ pc[t] # "idle" => Came(t)
          /\ pc[t] \in {"in game", "open", "deleting"} => Led(t)
      BY <2>3 DEF RequestInv
    <3> QED
      BY <1>1, <2>2, <3>1, <3>2 DEF Address
  <2>6. DOMAIN request' = Sockets
    BY <1>7
  <2> HIDE DEF Came, Led
  <2> QED
    BY <1>7, <2>4, <2>5, <2>6 DEF RequestInv, Came, Led
<1>10. SessionInv'
  BY <1>0, <1>1, <1>6, <1>7 DEF SocketInv, SessionInv
<1>11. OneGamePerId'
  BY <1>0, <1>1, <1>7 DEF SocketInv, OneGamePerId
<1> QED
  BY <1>8, <1>9, <1>10, <1>11 DEF SocketInv

\* A refused request has no game and no session to disagree with.
LEMMA StepReject ==
  ASSUME SocketInv, NEW s \in Sockets, pc[s] \in {"accepted", "in game"},
         NEW code \in {"BAD_REQUEST", "GAME_NOT_FOUND",
                       "SESSION_NOT_FOUND", "OPERATION_NOT_PERMITTED"},
         Reject(s, code),
         UNCHANGED <<runVars, gameVars, request, game, session>>
  PROVE  SocketInv'
<1>1. SocketTypes'
  BY DEF SocketInv, SocketTypes, Reject, Go, gameVars
<1>2. /\ \A t \in Sockets : t # s => pc'[t] = pc[t]
      /\ pc'[s] = "rejected"
      /\ UNCHANGED <<config, running, games, sessions, request, game, session>>
  BY DEF SocketInv, SocketTypes, Reject, Go, runVars, gameVars
<1>3. \A e \in sessions : e.by \in Sockets
  BY DEF SocketInv, SocketTypes
<1>4. RequestInv'
  BY <1>2 DEF SocketInv, RequestInv
<1>5. SessionInv'
  BY <1>2, <1>3 DEF SocketInv, SessionInv
<1>6. OneGamePerId'
  BY <1>2 DEF SocketInv, OneGamePerId
<1> QED
  BY <1>1, <1>4, <1>5, <1>6 DEF SocketInv

LEMMA StepFindGame ==
  ASSUME SocketInv, NEW s \in Sockets, FindGame(s)
  PROVE  SocketInv'
<1> DEFINE g == request[s].gameId
<1>0. /\ pc[s] = "accepted"
      /\ UNCHANGED <<runVars, config, running, sessions, request, session>>
  BY DEF FindGame, runVars
<1>1. ASSUME NEW code \in {"BAD_REQUEST", "GAME_NOT_FOUND"}, Reject(s, code),
             UNCHANGED <<games, created, game>>
      PROVE  SocketInv'
  BY <1>0, <1>1, StepReject DEF gameVars
<1>2. ASSUME NEW o \in 1 .. created + 1, None \notin {g, request[s].id},
             GetGameById(g, o), game' = [game EXCEPT ![s] = o],
             Go(s, "in game"), UNCHANGED error
      PROVE  SocketInv'
  <2>1. g \in GameIds /\ request[s].id \in SessionIds
    BY <1>0, <1>2 DEF SocketInv, RequestInv
  <2>2. /\ created' \in Nat /\ 1 .. created \subseteq 1 .. created'
        /\ games' \in [AllGameIds -> 1 .. created' \union {None}]
        /\ o \in 1 .. created' /\ o # None /\ games'[g] = o
        /\ \A h \in GameIds : games[h] # None => games'[h] = games[h]
    BY <1>2, <2>1, GameFound DEF SocketInv
  <2>3. /\ \A t \in Sockets : t # s => pc'[t] = pc[t] /\ game'[t] = game[t]
        /\ pc'[s] = "in game" /\ game'[s] = o
    BY <1>2 DEF SocketInv, SocketTypes, Go
  <2>4. SocketTypes'
    <3>1. game' \in [Sockets -> 1 .. created' \union {None}]
      BY <1>2, <2>2 DEF SocketInv, SocketTypes
    <3>2. sessions' \subseteq [game : 1 .. created', id : SessionIds, by : Sockets]
      BY <1>0, <2>2 DEF SocketInv, SocketTypes
    <3> QED
      BY <1>0, <1>2, <2>2, <3>1, <3>2 DEF SocketInv, SocketTypes, Go
  <2>5. \A e \in sessions : e.by \in Sockets
    BY DEF SocketInv, SocketTypes
  <2>6. RequestInv'
    BY <1>0, <2>1, <2>2, <2>3 DEF SocketInv, RequestInv
  <2>7. SessionInv'
    BY <1>0, <2>3, <2>5 DEF SocketInv, SessionInv
  <2>8. OneGamePerId'
    <3> SUFFICES ASSUME NEW t \in Sockets,
                        pc'[t] \in {"in game", "open", "deleting"}
                 PROVE  game'[t] = games'[request[t].gameId]
      BY <1>0 DEF OneGamePerId
    <3>1. CASE t = s
      BY <2>2, <2>3, <3>1
    <3>2. CASE t # s
      <4>1. pc[t] \in {"in game", "open", "deleting"} /\ game'[t] = game[t]
        BY <2>3, <3>2
      <4>2. /\ game[t] = games[request[t].gameId] /\ game[t] # None
            /\ request[t].gameId \in GameIds
        BY <4>1 DEF SocketInv, RequestInv, OneGamePerId
      <4> QED
        BY <2>2, <4>1, <4>2
    <3> QED
      BY <3>1, <3>2
  <2> QED
    BY <2>4, <2>6, <2>7, <2>8 DEF SocketInv
<1> QED
  BY <1>1, <1>2 DEF FindGame

LEMMA StepEnterSession ==
  ASSUME SocketInv, NEW s \in Sockets, EnterSession(s)
  PROVE  SocketInv'
<1> DEFINE here == Entries(game[s], request[s].id)
<1>0. /\ pc[s] = "in game"
      /\ UNCHANGED <<runVars, config, running, games, created, request, game>>
      /\ request[s].id \in SessionIds /\ game[s] \in 1 .. created
      /\ request[s].role \in {"host", "client"}
  BY DEF EnterSession, runVars, SocketInv, RequestInv, SocketTypes
<1>1. ASSUME NEW code \in {"OPERATION_NOT_PERMITTED", "SESSION_NOT_FOUND"},
             Reject(s, code), UNCHANGED <<sessions, session>>
      PROVE  SocketInv'
  BY <1>0, <1>1, StepReject DEF gameVars
<1>2. ASSUME Go(s, "open"), UNCHANGED error, sessions' \subseteq
               sessions \union {[game |-> game[s], id |-> request[s].id, by |-> s]},
             NEW t \in Sockets, session' = [session EXCEPT ![s] = t],
             t = s <=> request[s].role = "host",
             sessions' # sessions => request[s].role = "host"
      PROVE  SocketInv'
  <2> DEFINE new == [game |-> game[s], id |-> request[s].id, by |-> s]
  <2>0. sessions' \subseteq sessions \union {new}
    BY <1>2
  <2>1. SocketTypes'
    <3>1. new \in [game : 1 .. created, id : SessionIds, by : Sockets]
      BY <1>0
    <3>2. sessions' \subseteq [game : 1 .. created, id : SessionIds, by : Sockets]
      BY <2>0, <3>1 DEF SocketInv, SocketTypes
    <3> QED
      BY <1>0, <1>2, <3>2 DEF SocketInv, SocketTypes, Go
  <2>2. /\ \A u \in Sockets : u # s => pc'[u] = pc[u] /\ session'[u] = session[u]
        /\ pc'[s] = "open" /\ session'[s] = t
    BY <1>2 DEF SocketInv, SocketTypes, Go
  <2>3. \A e \in sessions' :
          \/ e \in sessions
          \/ e.by = s /\ request[s].role = "host"
    <3>1. new.by = s
      OBVIOUS
    <3> HIDE DEF new
    <3> QED
      BY <1>2, <2>0, <3>1
  <2>4. \A e \in sessions : e.by \in Sockets
    BY DEF SocketInv, SocketTypes
  <2>5. RequestInv'
    BY <1>0, <2>2 DEF SocketInv, RequestInv
  <2>6. SessionInv'
    <3>1. \A u \in Sockets : session'[u] # None =>
            pc'[u] # "idle" /\ (session'[u] = u <=> request[u].role = "host")
      BY <1>2, <2>2 DEF SocketInv, SessionInv
    <3>2. \A e \in sessions' : pc'[e.by] # "idle" /\ request[e.by].role = "host"
      BY <2>2, <2>3, <2>4 DEF SocketInv, SessionInv
    <3> QED
      BY <1>0, <3>1, <3>2 DEF SessionInv
  <2>7. OneGamePerId'
    BY <1>0, <2>2 DEF SocketInv, OneGamePerId
  <2> QED
    BY <2>1, <2>5, <2>6, <2>7 DEF SocketInv
<1>3. ASSUME NEW e \in here, request[s].role = "client"
      PROVE  e.by \in Sockets /\ e.by # s
  BY <1>3 DEF Entries, SocketInv, SocketTypes, SessionInv
<1>4. CASE request[s].role = "host" /\ here = {}
  BY <1>2, <1>4 DEF EnterSession
<1>5. CASE request[s].role = "client" /\ here # {}
  <2>1. PICK e \in here : session' = [session EXCEPT ![s] = e.by]
    BY <1>5 DEF EnterSession
  <2>2. e.by \in Sockets /\ e.by # s
    BY <1>3, <1>5
  <2>3. Go(s, "open") /\ UNCHANGED <<sessions, error>>
    BY <1>5 DEF EnterSession
  <2> QED
    BY <1>2, <1>5, <2>1, <2>2, <2>3
<1>6. CASE request[s].role = "host" /\ here # {}
  BY <1>1, <1>6 DEF EnterSession
<1>7. CASE request[s].role = "client" /\ here = {}
  BY <1>1, <1>7 DEF EnterSession
<1> QED
  BY <1>0, <1>4, <1>5, <1>6, <1>7

\* The way out: nothing of a request is forgotten, and getGameById finds the
\* Game that was found on the way in.
LEMMA StepLeave ==
  ASSUME SocketInv, NEW s \in Sockets,
         SendError(s) \/ SendClose(s) \/ Destroy(s)
  PROVE  SocketInv'
<1>1. /\ UNCHANGED <<config, running, games, created, sessions, request, game,
                     session, error>>
      /\ pc[s] # "idle"
      /\ \/ pc' = [pc EXCEPT ![s] = "told"]
         \/ pc' = [pc EXCEPT ![s] = "closing"]
         \/ pc' = [pc EXCEPT ![s] = "gone"]
         \/ pc[s] = "open" /\ pc' = [pc EXCEPT ![s] = "deleting"]
  BY DEF SendError, SendClose, Destroy, Go, runVars, gameVars
<1>2. SocketTypes'
  BY <1>1 DEF SocketInv, SocketTypes
<1>3. /\ \A t \in Sockets : t # s => pc'[t] = pc[t]
      /\ pc'[s] # "idle"
      /\ pc'[s] \in {"in game", "open", "deleting"} => pc[s] = "open"
      /\ \A e \in sessions : e.by \in Sockets
  BY <1>1 DEF SocketInv, SocketTypes
<1>4. RequestInv'
  BY <1>1, <1>3 DEF SocketInv, RequestInv
<1>5. SessionInv'
  BY <1>1, <1>3 DEF SocketInv, SessionInv
<1>6. OneGamePerId'
  BY <1>1, <1>3 DEF SocketInv, OneGamePerId
<1> QED
  BY <1>2, <1>4, <1>5, <1>6 DEF SocketInv

LEMMA StepDelete ==
  ASSUME SocketInv, NEW s \in Sockets, DeleteSession(s)
  PROVE  SocketInv'
<1> DEFINE g == request[s].gameId
<1>0. /\ pc[s] = "deleting"
      /\ pc' = [pc EXCEPT ![s] = "gone"]
      /\ UNCHANGED <<config, running, request, game, session, error>>
      /\ sessions' \subseteq sessions
      /\ g \in GameIds /\ game[s] = games[g] /\ game[s] # None
  BY DEF DeleteSession, Go, runVars, Entries, SocketInv, RequestInv,
         OneGamePerId
<1>1. UNCHANGED <<games, created>>
  BY <1>0 DEF DeleteSession, GetGameById
<1>2. SocketTypes'
  BY <1>0, <1>1 DEF SocketInv, SocketTypes
<1>3. /\ \A t \in Sockets : t # s => pc'[t] = pc[t]
      /\ pc'[s] = "gone"
      /\ \A e \in sessions : e.by \in Sockets
  BY <1>0 DEF SocketInv, SocketTypes
<1>4. RequestInv'
  BY <1>0, <1>3 DEF SocketInv, RequestInv
<1>5. SessionInv'
  BY <1>0, <1>3 DEF SocketInv, SessionInv
<1>6. OneGamePerId'
  BY <1>0, <1>1, <1>3 DEF SocketInv, OneGamePerId
<1> QED
  BY <1>2, <1>4, <1>5, <1>6 DEF SocketInv

-----------------------------------------------------------------------------
LEMMA Inductive == Spec => []IInv
<1>1. IInv /\ [Next]_vars => IInv'
  <2> SUFFICES ASSUME IInv, [Next]_vars PROVE IInv'
    OBVIOUS
  <2>1. /\ RunnerInv' /\ stage' \in Stages
        /\ gamesConfig' \subseteq Configured
        /\ running' \in 0 .. Len(servers')
        /\ config' = config /\ (running > 0 => running' > 0)
    BY RunnerStep
  <2>2. SocketInv
    BY DEF IInv, SocketInv, TypeOK, SocketTypes
  <2>3. SocketInv'
    <3>1. CASE StartUp \/ UNCHANGED vars
      <4>1. UNCHANGED <<gameVars, socketVars>>
        BY <3>1 DEF StartUp, PutGameConfig, BuildHostServer,
                    BuildClientServer, StartServer, vars
      <4>2. SocketTypes' /\ OneGamePerId' /\ SessionInv'
        BY <2>2, <4>1 DEF gameVars, socketVars, SocketInv, SocketTypes,
                          OneGamePerId, SessionInv
      <4>3. RequestInv'
        BY <2>1, <2>2, <4>1 DEF socketVars, SocketInv, RequestInv
      <4> QED
        BY <4>2, <4>3 DEF SocketInv
    <3>2. ASSUME NEW s \in Sockets, Request(s) \/ Serve(s) \/ Destroy(s)
          PROVE  SocketInv'
      BY <2>2, <3>2, StepRequest, StepFindGame, StepEnterSession, StepLeave,
         StepDelete DEF Serve
    <3> QED
      BY <3>1, <3>2 DEF Next
  <2>4. TypeOK'
    <3>1. (RunnerInv /\ stage \in Stages =>
             \A v \in Servers : /\ None \notin {v.address[1], v.address[2]}
                                /\ v.tls \in BOOLEAN
                                /\ v.routes \subseteq {"create-game", "join-game"})'
      BY ServersTyped, PTL
    <3> QED
      BY <2>1, <2>3, <3>1 DEF TypeOK, SocketInv, SocketTypes, Stages
  <2> QED
    BY <2>1, <2>3, <2>4 DEF IInv, SocketInv
<1> QED
  BY InitIInv, <1>1, PTL DEF Spec

\* Servers, games, sessions and requests keep their types, for any
\* configuration and any number of requests.
THEOREM TypeCorrect == Spec => []TypeOK
  BY Inductive, PTL DEF IInv

\* getGameById makes one Game of an id, and leads everybody to it: for any
\* number of requests, games and sessions.
THEOREM OneGame == Spec => []OneGamePerId
  BY Inductive, PTL DEF IInv

\* A session is created through the host API and joined through the client
\* API, for any two sections of the configuration.
THEOREM RolesByApi == Spec => []PeersComeByTheirApi
<1>1. IInv => PeersComeByTheirApi
  BY DEF IInv, RequestInv, SessionInv, PeersComeByTheirApi
<1> QED
  BY Inductive, <1>1, PTL

\* As soon as anything is served, each of the two APIs is served by a server
\* with its route at its configured address, the route is nowhere else, and no
\* two servers share an address, for any two sections of the configuration.
THEOREM ServedWhereConfigured == Spec => []ApisAtTheirAddresses
<1>1. IInv => ApisAtTheirAddresses
  <2> SUFFICES ASSUME IInv, running > 0 PROVE ApisAtTheirAddresses
    BY DEF ApisAtTheirAddresses
  <2>1. /\ RunnerInv /\ stage = "start"
        /\ config.hostAPI # None /\ config.clientAPI # None
    BY DEF IInv, RunnerInv
  <2>2. CASE SameAddress
    <3>1. servers = <<JointServer>>
      BY <2>1, <2>2 DEF RunnerInv
    <3> QED
      BY <2>1, <2>2, <3>1 DEF ApisAtTheirAddresses, Servers, JointServer,
                              APIServer, SameAddress
  <2>3. CASE ~SameAddress
    <3>1. servers = <<HostServer, ClientServer>>
      BY <2>1, <2>3 DEF RunnerInv
    <3> QED
      BY <2>1, <2>3, <3>1 DEF ApisAtTheirAddresses, Servers, HostServer,
                              ClientServer, APIServer, SameAddress
  <2> QED
    BY <2>2, <2>3
<1> QED
  BY Inductive, <1>1, PTL
=============================================================================
