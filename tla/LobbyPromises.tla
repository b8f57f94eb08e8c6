---------------------------- MODULE LobbyPromises ----------------------------
(***************************************************************************)
(* What the documentation says of sessions, as properties of Lobby. None   *)
(* of them holds of the code: each has a run that shows how it fails.      *)
(***************************************************************************)
EXTENDS Lobby

Open(s) == pc[s] = "open" /\ connected[s]

\* "sessionId is an arbitrary unique string which identifies the given game
\* session" (README.md:33), and createNewSession is to return nullptr "if
\* session with such ID already exists" (Game.hpp:60): two connected peers
\* that gave the same session id are in the same session.
OneSessionPerId ==
  \A s, t \in Sockets :
    Open(s) /\ Open(t) /\ sid[session[s]] = sid[session[t]]
      => session[s] = session[t]

\* "Game Host receives this message when a new client joined the game"
\* (README.md, code 101): a host that is connected was told of every client,
\* or its queue was too full for that.
HostKnowsClients ==
  \A s \in Hosts : \A c \in Clients :
    Open(s) /\ c \in members[s] /\ host[s] = s
      => peerId[c] \in Announced(s, "joined") \union Refused(s, "joined")
=============================================================================
