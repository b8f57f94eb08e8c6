---------------------------- MODULE NoticeProofs ----------------------------
(***************************************************************************)
(* Proofs about the notices a host gets in Lobby: which clients joined and *)
(* left, and which of those notices its queue refused. They rest on the    *)
(* invariant of LobbyProofs, above all on the peer ids being unique within *)
(* a session.                                                              *)
(***************************************************************************)
EXTENDS LobbyProofs

\* The host of o was told that the peer with this id joined, or left.
Told(o, code, id) ==
  \E i \in DOMAIN notices[o] :
    notices[o][i].code = code /\ notices[o][i].peerId = id

\* The queue of the host of o refused to tell it that.
Lost(o, code, id) == \E n \in refused[o] : n.code = code /\ n.peerId = id

-----------------------------------------------------------------------------
(* The inductive invariant.                                                *)

\* A host is told nothing before it is a member.
EarlyInv ==
  \A o \in Hosts : pc[o] \in {"idle", "found", "made"} =>
    \A code \in {"joined", "left"}, id \in Nat : ~Told(o, code, id)

\* Of ids that are not given yet nothing is told or refused, of a peer that
\* has its id but is not a member nothing is told; and that it left only after
\* removePeerById.
ToldInv ==
  /\ \A o \in Hosts, code \in {"joined", "left"}, id \in Nat :
       Told(o, code, id) \/ Lost(o, code, id) => id < counter[o]
  /\ \A s \in Sockets : pc[s] = "made" => ~Told(session[s], "joined", peerId[s])
  /\ \A s \in Sockets :
       pc[s] \in {"made", "open"} => ~Told(session[s], "left", peerId[s])

NInv ==
  /\ EarlyInv
  /\ ToldInv
  /\ NoticesInOrder
  /\ HostSeesNoGhosts

-----------------------------------------------------------------------------
(* What posting a notice does.                                             *)

LEMMA NoticesTyped ==
  ASSUME IInv, NEW o \in Hosts
  PROVE  /\ notices[o] \in Seq(Notice)
         /\ \A i \in DOMAIN notices[o] :
              notices[o][i].code \in {"joined", "left"} /\ notices[o][i].peerId \in Nat
<1>1. notices[o] \in Seq(Notice)
  BY DEF IInv, TypeOK
<1>2. \A i \in DOMAIN notices[o] : notices[o][i] \in Notice
  BY <1>1
<1> QED
  BY <1>1, <1>2 DEF Notice

LEMMA Appended ==
  ASSUME NEW S, NEW q \in Seq(S), NEW e \in S
  PROVE  /\ DOMAIN q = 1 .. Len(q) /\ Len(q) \in Nat
         /\ DOMAIN Append(q, e) = 1 .. Len(q) + 1
         /\ \A i \in 1 .. Len(q) : Append(q, e)[i] = q[i]
         /\ Append(q, e)[Len(q) + 1] = e
  OBVIOUS

\* What Notify does to the notices if g is the host whose queue takes this
\* one, or None; and to the refusals if g is the host whose queue does not.
Takes(o, g, code, id) ==
  notices' = IF g = None THEN notices
             ELSE [notices EXCEPT ![o] =
                     Append(notices[o], [code |-> code, peerId |-> id])]

Refuses(o, g, code, id) ==
  refused' = IF g = None THEN refused
             ELSE [refused EXCEPT ![o] =
                     refused[o] \union {[code |-> code, peerId |-> id]}]

\* A step that adds to what the hosts were told, or were not told, nothing or
\* the one notice of a peer.
TellsNow(o, g, code, id) ==
  \A p \in Hosts, c \in {"joined", "left"}, k \in Nat :
    Told(p, c, k)' <=> \/ Told(p, c, k)
                       \/ g # None /\ p = o /\ c = code /\ k = id

LosesNow(o, g, code, id) ==
  \A p \in Hosts, c \in {"joined", "left"}, k \in Nat :
    Lost(p, c, k)' <=> \/ Lost(p, c, k)
                       \/ g # None /\ p = o /\ c = code /\ k = id

\* The host's queue does the one or the other.
LEMMA NotifyEither ==
  ASSUME NEW o, NEW h, NEW code, NEW id, Notify(o, h, code, id)
  PROVE  \E g \in {h, None} :
           /\ Takes(o, g, code, id)
           /\ Refuses(o, IF g = None THEN h ELSE None, code, id)
<1>1. CASE h # None /\ Takes(o, h, code, id) /\ Refuses(o, None, code, id)
  BY <1>1
<1>2. CASE Takes(o, None, code, id) /\ Refuses(o, h, code, id)
  BY <1>2
<1> QED
  BY <1>1, <1>2 DEF Notify, Takes, Refuses

\* Taking a notice adds what it says and forgets nothing.
LEMMA NotifyTells ==
  ASSUME IInv, NEW o \in Hosts, NEW h, NEW code \in {"joined", "left"},
         NEW id \in Nat, Takes(o, h, code, id)
  PROVE  TellsNow(o, h, code, id)
<1> SUFFICES ASSUME NEW p \in Hosts, NEW c \in {"joined", "left"}, NEW k \in Nat
             PROVE  Told(p, c, k)' <=>
                      \/ Told(p, c, k)
                      \/ h # None /\ p = o /\ c = code /\ k = id
  BY DEF TellsNow
<1>1. CASE h = None \/ p # o
  <2>1. notices'[p] = notices[p]
    BY <1>1 DEF Takes, IInv, TypeOK
  <2> QED
    BY <1>1, <2>1 DEF Told
<1>2. CASE h # None /\ p = o
  <2> DEFINE e == [code |-> code, peerId |-> id]
             q == notices[o]
  <2>1. q \in Seq(Notice) /\ e \in Notice
    BY NoticesTyped DEF Notice
  <2>2. notices'[o] = Append(q, e)
    BY <1>2 DEF Takes, IInv, TypeOK
  <2>3. e.code = code /\ e.peerId = id
    OBVIOUS
  <2> HIDE DEF e, q
  <2>4. /\ DOMAIN q = 1 .. Len(q) /\ Len(q) \in Nat
        /\ DOMAIN Append(q, e) = 1 .. Len(q) + 1
        /\ \A i \in 1 .. Len(q) : Append(q, e)[i] = q[i]
        /\ Append(q, e)[Len(q) + 1] = e
    BY <2>1, Appended
  <2>5. (\E i \in 1 .. Len(q) + 1 : Append(q, e)[i].code = c
                                     /\ Append(q, e)[i].peerId = k)
          <=> \/ \E i \in 1 .. Len(q) : q[i].code = c /\ q[i].peerId = k
              \/ e.code = c /\ e.peerId = k
    BY <2>4
  <2>6. Told(o, c, k)' <=>
          \E i \in 1 .. Len(q) + 1 : Append(q, e)[i].code = c
                                     /\ Append(q, e)[i].peerId = k
    BY <2>2, <2>4 DEF Told
  <2>7. Told(o, c, k) <=>
          \E i \in 1 .. Len(q) : q[i].code = c /\ q[i].peerId = k
    BY <2>4 DEF Told, q
  <2> QED
    BY <1>2, <2>3, <2>5, <2>6, <2>7
<1> QED
  BY <1>1, <1>2

\* The order of notices survives one that is new for its peer, or says that a
\* peer left of which that was not said.
LEMMA NotifyInOrder ==
  ASSUME IInv, NoticesInOrder,
         NEW o \in Hosts, NEW h, NEW code \in {"joined", "left"},
         NEW id \in Nat, Takes(o, h, code, id),
         ~Told(o, "left", id), code = "left" \/ ~Told(o, "joined", id)
  PROVE  NoticesInOrder'
<1> SUFFICES ASSUME NEW p \in Hosts,
                    NEW i \in DOMAIN notices'[p], NEW j \in DOMAIN notices'[p],
                    i < j, notices'[p][i].peerId = notices'[p][j].peerId
             PROVE  notices'[p][i].code = "joined" /\ notices'[p][j].code = "left"
  BY DEF NoticesInOrder
<1>1. CASE h = None \/ p # o
  <2>1. notices'[p] = notices[p]
    BY <1>1 DEF Takes, IInv, TypeOK
  <2> QED
    BY <2>1 DEF NoticesInOrder
<1>2. CASE h # None /\ p = o
  <2> DEFINE e == [code |-> code, peerId |-> id]
             q == notices[o]
  <2>1. q \in Seq(Notice) /\ e \in Notice
    BY NoticesTyped DEF Notice
  <2>2. notices'[o] = Append(q, e)
    BY <1>2 DEF Takes, IInv, TypeOK
  <2>3. e.code = code /\ e.peerId = id
    OBVIOUS
  <2> HIDE DEF e, q
  <2>4. /\ DOMAIN q = 1 .. Len(q) /\ Len(q) \in Nat
        /\ DOMAIN Append(q, e) = 1 .. Len(q) + 1
        /\ \A n \in 1 .. Len(q) : Append(q, e)[n] = q[n]
        /\ Append(q, e)[Len(q) + 1] = e
    BY <2>1, Appended
  <2>5. i \in 1 .. Len(q) + 1 /\ j \in 1 .. Len(q) + 1
    BY <1>2, <2>2, <2>4
  <2>6. i \in 1 .. Len(q) /\ notices'[p][i] = q[i]
    BY <1>2, <2>2, <2>4, <2>5
  <2>7. CASE j \in 1 .. Len(q)
    <3>1. notices'[p][j] = q[j]
      BY <1>2, <2>2, <2>4, <2>7
    <3> QED
      BY <2>4, <2>6, <2>7, <3>1 DEF NoticesInOrder, q
  <2>8. CASE j = Len(q) + 1
    <3>1. notices'[p][j] = e /\ q[i].peerId = id
      BY <1>2, <2>2, <2>3, <2>4, <2>6, <2>8
    <3>2. q[i].code \in {"joined", "left"}
      BY <2>4, <2>6, NoticesTyped DEF q
    <3>3. q[i].code # "left"
      BY <2>4, <2>6, <3>1 DEF Told, q
    <3>4. code = "left"
      BY <2>4, <2>6, <3>1, <3>2, <3>3 DEF Told, q
    <3> QED
      BY <2>3, <2>6, <3>1, <3>2, <3>3, <3>4
  <2> QED
    BY <2>4, <2>5, <2>7, <2>8
<1> QED
  BY <1>1, <1>2

\* Refusing one adds it to the refusals.
LEMMA NotifyLoses ==
  ASSUME IInv, NEW o \in Hosts, NEW h, NEW code \in {"joined", "left"},
         NEW id \in Nat, Refuses(o, h, code, id)
  PROVE  LosesNow(o, h, code, id)
<1> SUFFICES ASSUME NEW p \in Hosts, NEW c \in {"joined", "left"}, NEW k \in Nat
             PROVE  Lost(p, c, k)' <=>
                      \/ Lost(p, c, k)
                      \/ h # None /\ p = o /\ c = code /\ k = id
  BY DEF LosesNow
<1>1. refused \in [Hosts -> SUBSET Notice]
  BY DEF IInv, TypeOK
<1>2. CASE h = None \/ p # o
  <2>1. refused'[p] = refused[p]
    BY <1>1, <1>2 DEF Refuses
  <2> QED
    BY <1>2, <2>1 DEF Lost
<1>3. CASE h # None /\ p = o
  <2> DEFINE e == [code |-> code, peerId |-> id]
  <2>1. refused'[p] = refused[p] \union {e}
    BY <1>1, <1>3 DEF Refuses
  <2>2. e.code = code /\ e.peerId = id
    OBVIOUS
  <2> HIDE DEF e
  <2> QED
    BY <1>3, <2>1, <2>2 DEF Lost
<1> QED
  BY <1>2, <1>3

LEMMA SameNotices ==
  ASSUME UNCHANGED notices, NEW o, NEW code, NEW id
  PROVE  Told(o, code, id)' <=> Told(o, code, id)
  BY DEF Told

LEMMA SameRefusals ==
  ASSUME UNCHANGED refused, NEW o, NEW code, NEW id
  PROVE  Lost(o, code, id)' <=> Lost(o, code, id)
  BY DEF Lost

-----------------------------------------------------------------------------
(* The steps. All but addPeer and removePeerById leave the notices alone.  *)

LEMMA InitNotices == Init => NInv
<1> SUFFICES ASSUME Init PROVE NInv
  OBVIOUS
<1>1. \A o \in Hosts : notices[o] = <<>> /\ refused[o] = {} /\ host[o] = None
  BY DEF Init
<1>2. \A o \in Hosts : \A code, id : ~Told(o, code, id) /\ ~Lost(o, code, id)
  BY <1>1 DEF Told, Lost
<1>3. \A s \in Sockets : pc[s] = "idle"
  BY DEF Init
<1>4. EarlyInv /\ ToldInv
  BY <1>2, <1>3 DEF EarlyInv, ToldInv
<1>5. NoticesInOrder /\ HostSeesNoGhosts
  BY <1>1 DEF NoticesInOrder, HostSeesNoGhosts
<1> QED
  BY <1>4, <1>5 DEF NInv

\* What a step that posts nothing must keep to.
Quiet ==
  /\ UNCHANGED <<notices, refused, members, host>>
  /\ \A o \in Hosts : pc'[o] \in {"idle", "found", "made"} =>
                        pc[o] \in {"idle", "found", "made"}
  /\ \A s \in Sockets : pc'[s] \in {"made", "open"} =>
       /\ pc'[s] = pc[s]
       /\ session'[s] = session[s]
       /\ peerId'[s] = peerId[s]
  /\ \A o \in Hosts : counter'[o] >= counter[o]

LEMMA QuietOthers ==
  ASSUME IInv, [Next]_vars,
         ~ \E s \in Sockets : MakePeer(s) \/ AddPeer(s) \/ RemovePeer(s)
  PROVE  Quiet
<1> USE Types DEF Quiet, Go, gameVars, sessionVars, socketVars, Labels
<1>1. ASSUME NEW s \in Sockets, NEW i \in SessionIds,
             CreateSession(s, i) \/ FindSession(s, i)
      PROVE  Quiet
  <2>1. UNCHANGED <<notices, refused, members, host, counter, peerId>>
    BY <1>1 DEF CreateSession, FindSession
  <2>2. \A t \in Sockets :
          \/ pc'[t] = pc[t] /\ session'[t] = session[t]
          \/ pc[t] = "idle" /\ pc'[t] \in {"found", "rejected"}
    BY <1>1 DEF CreateSession, FindSession
  <2> QED
    BY <2>1, <2>2
<1>2. ASSUME NEW s \in Sockets,
             \/ RejectRequest(s) \/ DestroyRejected(s) \/ DeleteSession(s)
             \/ LoseConnection(s)
      PROVE  Quiet
  <2>1. UNCHANGED <<notices, refused, members, host, counter, peerId, session>>
    BY <1>2 DEF RejectRequest, DestroyRejected, DeleteSession, LoseConnection
  <2>2. \A t \in Sockets : pc'[t] = pc[t] \/ pc'[t] \in {"rejected", "gone"}
    BY <1>2 DEF RejectRequest, DestroyRejected, DeleteSession, LoseConnection
  <2> QED
    BY <2>1, <2>2
<1>3. CASE PingAll \/ StopPinger \/ UNCHANGED vars
  BY <1>3 DEF PingAll, StopPinger, vars
<1> QED
  BY <1>1, <1>2, <1>3 DEF Next, Connect, Serve

LEMMA QuietStep ==
  ASSUME IInv, NInv, Quiet, IInv'
  PROVE  NInv'
<1> USE Types DEF NInv, Quiet
<1>1. \A o, code, id : /\ Told(o, code, id)' <=> Told(o, code, id)
                       /\ Lost(o, code, id)' <=> Lost(o, code, id)
  BY SameNotices, SameRefusals
<1>2. EarlyInv'
  BY <1>1 DEF EarlyInv
<1>3. ToldInv'
  <2>1. \A o \in Hosts : counter[o] \in Nat /\ counter'[o] \in Nat
    BY DEF IInv, TypeOK
  <2>2. \A o \in Hosts, code \in {"joined", "left"}, id \in Nat :
          Told(o, code, id)' \/ Lost(o, code, id)' => id < counter'[o]
    BY <1>1, <2>1 DEF ToldInv
  <2>3. \A s \in Sockets :
          /\ pc'[s] = "made" => ~Told(session'[s], "joined", peerId'[s])
          /\ pc'[s] \in {"made", "open"} =>
               ~Told(session'[s], "left", peerId'[s])
    BY DEF ToldInv
  <2>4. \A s \in Sockets :
          /\ pc'[s] = "made" => ~Told(session[s], "joined", peerId[s])'
          /\ pc'[s] \in {"made", "open"} => ~Told(session[s], "left", peerId[s])'
    BY <2>3 DEF Told
  <2> QED
    BY <2>2, <2>4 DEF ToldInv
<1>4. NoticesInOrder'
  BY DEF NoticesInOrder
<1>5. HostSeesNoGhosts'
  <2>1. ASSUME NEW o \in Hosts, NEW m \in members[o]
        PROVE  peerId'[m] = peerId[m]
    <3>1. m \in Sockets /\ pc[m] = "open" /\ pc'[m] = "open"
      BY DEF IInv, MemberInv
    <3> QED
      BY <3>1
  <2>2. \A o \in Hosts : {peerId'[m] : m \in members[o]}
                           = {peerId[m] : m \in members[o]}
    BY <2>1
  <2>3. \A o \in Hosts : \A code : /\ Announced(o, code)' = Announced(o, code)
                                   /\ Refused(o, code)' = Refused(o, code)
    BY DEF Announced, Refused
  <2> QED
    BY <2>2, <2>3 DEF HostSeesNoGhosts
<1> QED
  BY <1>2, <1>3, <1>4, <1>5

LEMMA AnnouncedTold ==
  ASSUME NEW o, NEW code
  PROVE  \A id : /\ id \in Announced(o, code) <=> Told(o, code, id)
                 /\ id \in Refused(o, code) <=> Lost(o, code, id)
  BY DEF Announced, Told, Refused, Lost

\* HostSeesNoGhosts, peer by peer.
LEMMA GhostsTold ==
  HostSeesNoGhosts <=>
    \A o \in Hosts : host[o] # None =>
      \A id : /\ Told(o, "joined", id)
              /\ ~Told(o, "left", id)
              /\ ~Lost(o, "left", id)
        => \E m \in members[o] : peerId[m] = id
<1>1. \A o, code : \A id : /\ id \in Announced(o, code) <=> Told(o, code, id)
                           /\ id \in Refused(o, code) <=> Lost(o, code, id)
  BY AnnouncedTold
<1> QED
  BY <1>1 DEF HostSeesNoGhosts

\* A new peer has an id of which nothing was said.
LEMMA NoticesMakePeer ==
  ASSUME IInv, NInv, NEW s \in Sockets, MakePeer(s)
  PROVE  NInv'
<1> DEFINE o == session[s]
<1> USE Types DEF NInv, MakePeer, Go, gameVars, sessionVars
<1>1. \A p, code, id : /\ Told(p, code, id)' <=> Told(p, code, id)
                       /\ Lost(p, code, id)' <=> Lost(p, code, id)
  BY SameNotices, SameRefusals
<1>2. o \in Hosts /\ o # None
  BY DEF IInv, SessionInv, Inside
<1>3. EarlyInv'
  <2>1. \A p \in Hosts : pc'[p] \in {"idle", "found", "made"} =>
                           pc[p] \in {"idle", "found", "made"}
    OBVIOUS
  <2> QED
    BY <1>1, <2>1 DEF EarlyInv
<1>4. ToldInv'
  <2>1. /\ counter'[o] = counter[o] + 1
        /\ \A p \in Hosts : p # o => counter'[p] = counter[p]
    BY <1>2 DEF NextId
  <2>2. \A p \in Hosts : counter[p] \in Nat /\ counter'[p] >= counter[p]
    BY <2>1
  <2>3. \A p \in Hosts, code \in {"joined", "left"}, id \in Nat :
          Told(p, code, id)' \/ Lost(p, code, id)' => id < counter'[p]
    <3> SUFFICES ASSUME NEW p \in Hosts, NEW code \in {"joined", "left"},
                        NEW id \in Nat, Told(p, code, id)' \/ Lost(p, code, id)'
                 PROVE  id < counter'[p]
      OBVIOUS
    <3>1. id < counter[p]
      BY <1>1 DEF ToldInv
    <3>2. counter'[p] \in Nat
      BY <2>1, <2>2
    <3> QED
      BY <2>2, <3>1, <3>2
  <2>4. \A code \in {"joined", "left"} : ~Told(o, code, counter[o])
    <3>1. counter[o] \in Nat
      BY <2>2, <1>2
    <3> QED
      BY <1>2, <3>1 DEF ToldInv
  <2>5. peerId'[s] = counter[o] /\ session'[s] = o
    OBVIOUS
  <2>6. \A code \in {"joined", "left"} : ~Told(session[s], code, peerId[s])'
    BY <2>4, <2>5 DEF Told
  <2>7. \A t \in Sockets : t # s =>
          pc'[t] = pc[t] /\ peerId'[t] = peerId[t] /\ session'[t] = session[t]
    OBVIOUS
  <2>8. \A t \in Sockets : \A code : t # s =>
          (Told(session[t], code, peerId[t])' <=> Told(session[t], code, peerId[t]))
    BY <2>7 DEF Told
  <2> QED
    BY <2>3, <2>6, <2>7, <2>8 DEF ToldInv
<1>5. NoticesInOrder'
  BY DEF NoticesInOrder
<1>6. HostSeesNoGhosts'
  <2>1. \A p \in Hosts : \A m \in members[p] : peerId'[m] = peerId[m]
    BY DEF IInv, MemberInv
  <2>2. \A p \in Hosts : members'[p] = members[p] /\ host'[p] = host[p]
    OBVIOUS
  <2>3. \A p \in Hosts : {peerId'[m] : m \in members[p]}
                           = {peerId[m] : m \in members[p]}
    BY <2>1
  <2>4. \A p \in Hosts : \A code : /\ Announced(p, code)' = Announced(p, code)
                                   /\ Refused(p, code)' = Refused(p, code)
    BY DEF Announced, Refused
  <2> QED
    BY <2>2, <2>3, <2>4 DEF HostSeesNoGhosts
<1> QED
  BY <1>3, <1>4, <1>5, <1>6

\* Of the peers of a session only s has the id of s.
LEMMA OwnId ==
  ASSUME IInv, NEW s \in Sockets, NEW t \in Sockets, HasPeer(s), HasPeer(t),
         session[s] = session[t], peerId[s] = peerId[t]
  PROVE  s = t
  BY DEF IInv, IdInv

\* A client is announced under an id of which nothing was said; a host finds
\* that it was told nothing.
LEMMA NoticesAddPeer ==
  ASSUME IInv, NInv, NEW s \in Sockets, AddPeer(s)
  PROVE  NInv'
<1> DEFINE o  == session[s]
           id == peerId[s]
<1>0. /\ o \in Hosts /\ id \in Nat /\ HasPeer(s)
      /\ pc[s] = "made"
      /\ pc' = [pc EXCEPT ![s] = "open"]
      /\ UNCHANGED <<counter, session, peerId>>
  BY DEF AddPeer, Go, IInv, SessionInv, IdInv, Inside, HasPeer
<1>1. s \in members'[o] /\ \A p \in Hosts : members[p] \subseteq members'[p]
  <2>1. ~ \E m \in members[o] : peerId[m] = peerId[s]
    <3> SUFFICES ASSUME NEW m \in members[o], peerId[m] = peerId[s]
                 PROVE  FALSE
      OBVIOUS
    <3>1. m \in Sockets /\ pc[m] = "open" /\ session[m] = o
      BY <1>0, Types DEF IInv, MemberInv
    <3> QED
      BY <1>0, <3>1, OwnId DEF HasPeer
  <2> QED
    BY <1>0, <2>1, Types DEF AddPeer
<1>2. /\ \A t \in Sockets : t # s => pc'[t] = pc[t]
      /\ pc'[s] = "open"
  BY <1>0, Types
<1>n. PICK g \in {host[o], None}, l \in {host[o], None} :
        /\ Takes(o, g, "joined", id)
        /\ Refuses(o, l, "joined", id)
        /\ s \in Hosts => g = None
  <2>1. CASE s \in Hosts
    BY <2>1 DEF AddPeer, Takes, Refuses
  <2>2. CASE s \notin Hosts
    <3>1. Notify(o, host[o], "joined", id)
      BY <2>2 DEF AddPeer
    <3> HIDE DEF o, id
    <3> QED
      BY <2>2, <3>1, NotifyEither
  <2> QED
    BY <2>1, <2>2
<1>3. TellsNow(o, g, "joined", id) /\ LosesNow(o, l, "joined", id)
  <2> HIDE DEF o, id
  <2>1. o \in Hosts /\ id \in Nat
    BY <1>0
  <2> QED
    BY <1>n, <2>1, NotifyTells, NotifyLoses
<1> USE DEF TellsNow, LosesNow
<1>4. /\ host[o] # None => pc[o] = "open"
      /\ g # None => g = host[o]
  BY <1>0, <1>n, Types DEF IInv, MemberInv
<1>5. EarlyInv'
  <2> SUFFICES ASSUME NEW p \in Hosts, pc'[p] \in {"idle", "found", "made"},
                      NEW c \in {"joined", "left"}, NEW k \in Nat
               PROVE  ~Told(p, c, k)'
    BY DEF EarlyInv
  <2>1. p # s /\ pc[p] \in {"idle", "found", "made"}
    BY <1>2, Types
  <2>2. ~Told(p, c, k)
    BY <2>1 DEF NInv, EarlyInv
  <2> QED
    BY <1>3, <1>4, <2>1, <2>2
<1>6. ToldInv'
  <2>1. \A p \in Hosts, c \in {"joined", "left"}, k \in Nat :
          Told(p, c, k)' \/ Lost(p, c, k)' => k < counter'[p]
    BY <1>0, <1>3 DEF NInv, ToldInv, IInv, IdInv
  <2>2. ASSUME NEW t \in Sockets, pc'[t] = "made"
        PROVE  ~Told(session[t], "joined", peerId[t])
    BY <1>2, <2>2 DEF NInv, ToldInv
  <2>3. ASSUME NEW t \in Sockets, pc'[t] \in {"made", "open"}
        PROVE  ~Told(session[t], "left", peerId[t])
    BY <1>0, <1>2, <2>3 DEF NInv, ToldInv
  <2>4. ASSUME NEW t \in Sockets, pc'[t] \in {"made", "open"}
        PROVE  /\ HasPeer(t) /\ session[t] \in Hosts /\ peerId[t] \in Nat
               /\ pc'[t] = "made" => t # s
    BY <1>0, <1>2, <2>4 DEF HasPeer, IInv, SessionInv, IdInv, Inside
  <2>5. ASSUME NEW t \in Sockets, pc'[t] = "made"
        PROVE  ~Told(session[t], "joined", peerId[t])'
    <3>1. ~(session[t] = o /\ peerId[t] = id)
      BY <1>0, <2>4, <2>5, OwnId
    <3>2. Told(session[t], "joined", peerId[t])' <=> Told(session[t], "joined", peerId[t])
      <4> DEFINE p == session[t]
                 k == peerId[t]
      <4>1. p \in Hosts /\ k \in Nat
        BY <2>4, <2>5
      <4>2. p' = p /\ k' = k
        BY <1>0
      <4>3. \A q \in Hosts, j \in Nat : ~(q = o /\ j = id) =>
              ((\E i \in DOMAIN notices'[q] :
                 notices'[q][i].code = "joined" /\ notices'[q][i].peerId = j)
               <=> Told(q, "joined", j))
        BY <1>3 DEF Told
      <4> QED
        BY <3>1, <4>1, <4>2, <4>3 DEF Told
    <3> QED
      BY <2>2, <2>5, <3>2
  <2>6. ASSUME NEW t \in Sockets, pc'[t] \in {"made", "open"}
        PROVE  ~Told(session[t], "left", peerId[t])'
    <3>1. \A q \in Hosts, j \in Nat :
              ((\E i \in DOMAIN notices'[q] :
                 notices'[q][i].code = "left" /\ notices'[q][i].peerId = j)
               <=> Told(q, "left", j))
      BY <1>3 DEF Told
    <3> QED
      BY <1>0, <2>3, <2>4, <2>6, <3>1 DEF Told
  <2> QED
    BY <2>1, <2>5, <2>6 DEF ToldInv
<1>7. NoticesInOrder'
  <2>1. ~Told(o, "left", id) /\ ~Told(o, "joined", id)
    BY <1>0 DEF NInv, ToldInv
  <2> HIDE DEF o, id
  <2> QED
    BY <1>0, <1>n, <2>1, NotifyInOrder DEF NInv
<1>8. HostSeesNoGhosts'
  <2> SUFFICES ASSUME NEW p \in Hosts, host'[p] # None, NEW k,
                      Told(p, "joined", k)', ~Told(p, "left", k)',
                      ~Lost(p, "left", k)'
               PROVE  \E m \in members'[p] : peerId'[m] = k
    BY DEF HostSeesNoGhosts, Announced, Told, Refused, Lost
  <2>0. k \in Nat
    <3>1. TypeOK'
      BY NextType DEF Next, Serve
    <3>2. \A i \in DOMAIN notices'[p] : notices'[p][i] \in Notice
      BY <3>1 DEF TypeOK
    <3> QED
      BY <3>2 DEF Told, Notice
  <2>1. CASE g # None /\ p = o /\ k = id
    BY <1>0, <1>1, <2>1
  <2>2. CASE ~(g # None /\ p = o /\ k = id)
    <3>1. Told(p, "joined", k) /\ ~Told(p, "left", k) /\ ~Lost(p, "left", k)
      BY <1>3, <2>0, <2>2
    <3>2. host[p] # None
      <4>1. CASE p = o /\ s \in Hosts
        <5>1. o = s
          BY <1>0, <4>1, Types DEF IInv, SessionInv
        <5>2. ~Told(o, "joined", k)
          BY <1>0, <2>0, <5>1 DEF NInv, EarlyInv
        <5> QED
          BY <3>1, <4>1, <5>2
      <4>2. CASE ~(p = o /\ s \in Hosts)
        BY <1>0, <4>2, Types DEF AddPeer, HostAfterAdd
      <4> QED
        BY <4>1, <4>2
    <3>3. \E m \in members[p] : peerId[m] = k
      BY <3>1, <3>2, GhostsTold DEF NInv
    <3> QED
      BY <1>0, <1>1, <3>3
  <2> QED
    BY <2>1, <2>2
<1> QED
  BY <1>5, <1>6, <1>7, <1>8 DEF NInv

\* The departure of a peer is told once, when it leaves m_peers.
LEMMA NoticesRemovePeer ==
  ASSUME IInv, NInv, NEW s \in Sockets, RemovePeer(s)
  PROVE  NInv'
<1> DEFINE o    == session[s]
           id   == peerId[s]
           h    == IF host[o] # None /\ peerId[host[o]] = id
                   THEN None ELSE host[o]
           rest == {m \in members[o] : peerId[m] # id}
<1>0. /\ o \in Hosts /\ id \in Nat /\ HasPeer(s)
      /\ pc[s] = "open"
      /\ host' = [host EXCEPT ![o] = h]
      /\ members' = [members EXCEPT ![o] = rest]
      /\ Notify(o, h, "left", id)
      /\ \E label \in {"deleting", "gone"} : pc' = [pc EXCEPT ![s] = label]
      /\ UNCHANGED <<counter, session, peerId>>
  BY DEF RemovePeer, Go, IInv, SessionInv, IdInv, Inside, HasPeer, sessionVars
<1>1. \A t \in Sockets : /\ t # s => pc'[t] = pc[t]
                         /\ pc'[s] \in {"deleting", "gone"}
  BY <1>0, Types
<1>n. PICK g \in {h, None} :
        /\ Takes(o, g, "left", id)
        /\ Refuses(o, IF g = None THEN h ELSE None, "left", id)
  <2> HIDE DEF o, id, h
  <2> QED
    BY <1>0, NotifyEither
<1> DEFINE l == IF g = None THEN h ELSE None
<1>2. TellsNow(o, g, "left", id) /\ LosesNow(o, l, "left", id)
  <2>0. Refuses(o, l, "left", id)
    BY <1>n
  <2> HIDE DEF o, id, h, l
  <2>1. o \in Hosts /\ id \in Nat
    BY <1>0
  <2> QED
    BY <1>n, <2>0, <2>1, NotifyTells, NotifyLoses
<1> USE DEF TellsNow, LosesNow
<1>3. h # None \/ g # None => h = host[o] /\ host[o] = o /\ pc[o] = "open" /\ o # s
  BY <1>0, <1>n, Types DEF IInv, MemberInv
<1>4. EarlyInv'
  <2> SUFFICES ASSUME NEW p \in Hosts, pc'[p] \in {"idle", "found", "made"},
                      NEW c \in {"joined", "left"}, NEW k \in Nat
               PROVE  ~Told(p, c, k)'
    BY DEF EarlyInv
  <2>1. p # s /\ pc[p] \in {"idle", "found", "made"}
    BY <1>1, Types
  <2>2. ~Told(p, c, k)
    BY <2>1 DEF NInv, EarlyInv
  <2> HIDE DEF h
  <2> QED
    BY <1>2, <1>3, <2>1, <2>2
<1>5. ToldInv'
  <2>1. \A p \in Hosts, c \in {"joined", "left"}, k \in Nat :
          Told(p, c, k)' \/ Lost(p, c, k)' => k < counter'[p]
    BY <1>0, <1>2 DEF NInv, ToldInv, IInv, IdInv
  <2>2. ASSUME NEW t \in Sockets, pc'[t] \in {"made", "open"}
        PROVE  /\ pc'[t] = pc[t] /\ t # s
               /\ HasPeer(t) /\ session[t] \in Hosts /\ peerId[t] \in Nat
               /\ pc'[t] = "made" => ~Told(session[t], "joined", peerId[t])
               /\ ~Told(session[t], "left", peerId[t])
    <3>1. pc'[t] = pc[t] /\ t # s
      BY <1>1, <2>2
    <3> QED
      BY <2>2, <3>1 DEF NInv, ToldInv, HasPeer, IInv, SessionInv, IdInv, Inside
  <2>3. \A p \in Hosts, c \in {"joined", "left"}, k \in Nat :
          (\E i \in DOMAIN notices'[p] :
             notices'[p][i].code = c /\ notices'[p][i].peerId = k)
          <=> \/ Told(p, c, k)
              \/ g # None /\ p = o /\ c = "left" /\ k = id
    BY <1>2 DEF Told
  <2>4. ASSUME NEW t \in Sockets, pc'[t] = "made"
        PROVE  ~Told(session[t], "joined", peerId[t])'
    <3> HIDE DEF h, o, id
    <3>1. session'[t] = session[t] /\ peerId'[t] = peerId[t]
      BY <1>0
    <3>2. /\ session[t] \in Hosts /\ peerId[t] \in Nat
          /\ ~Told(session[t], "joined", peerId[t])
      BY <2>2, <2>4
    <3>3. ~ \E i \in DOMAIN notices'[session[t]] :
              /\ notices'[session[t]][i].code = "joined"
              /\ notices'[session[t]][i].peerId = peerId[t]
      BY <2>3, <3>2
    <3> QED
      BY <3>1, <3>3 DEF Told
  <2>5. ASSUME NEW t \in Sockets, pc'[t] \in {"made", "open"}
        PROVE  ~Told(session[t], "left", peerId[t])'
    <3>1. ~(session[t] = o /\ peerId[t] = id)
      BY <1>0, <2>2, <2>5, OwnId
    <3> HIDE DEF h, o, id
    <3>2. session'[t] = session[t] /\ peerId'[t] = peerId[t]
      BY <1>0
    <3>3. /\ session[t] \in Hosts /\ peerId[t] \in Nat
          /\ ~Told(session[t], "left", peerId[t])
      BY <2>2, <2>5
    <3>4. ~ \E i \in DOMAIN notices'[session[t]] :
              /\ notices'[session[t]][i].code = "left"
              /\ notices'[session[t]][i].peerId = peerId[t]
      BY <2>3, <3>1, <3>3
    <3> QED
      BY <3>2, <3>4 DEF Told
  <2> QED
    BY <2>1, <2>4, <2>5 DEF ToldInv
<1>6. NoticesInOrder'
  <2>1. ~Told(o, "left", id)
    BY <1>0 DEF NInv, ToldInv
  <2> HIDE DEF o, id, h
  <2>2. o \in Hosts /\ id \in Nat /\ Takes(o, g, "left", id)
    BY <1>0, <1>n
  <2> QED
    BY <2>1, <2>2, NotifyInOrder DEF NInv
<1>7. HostSeesNoGhosts'
  <2> SUFFICES ASSUME NEW p \in Hosts, host'[p] # None, NEW k,
                      Told(p, "joined", k)', ~Told(p, "left", k)',
                      ~Lost(p, "left", k)'
               PROVE  \E m \in members'[p] : peerId'[m] = k
    BY DEF HostSeesNoGhosts, Announced, Told, Refused, Lost
  <2>1. k \in Nat
    <3>1. notices' \in [Hosts -> Seq(Notice)]
      <4>1. TypeOK
        BY DEF IInv
      <4> HIDE DEF o, id, h
      <4> QED
        BY <1>0, <4>1, NoticesType
    <3>2. \A i \in DOMAIN notices'[p] : notices'[p][i] \in Notice
      BY <3>1
    <3> QED
      BY <3>2 DEF Told, Notice
  <2>2. Told(p, "joined", k) /\ ~Told(p, "left", k) /\ ~Lost(p, "left", k)
    BY <1>2, <2>1
  <2>3. host[p] # None /\ (p = o => h # None)
    BY <1>0, Types
  <2>4. PICK m \in members[p] : peerId[m] = k
    BY <2>2, <2>3, GhostsTold DEF NInv
  <2>5. p = o => k # id
    BY <1>2, <2>1, <2>3
  <2>6. m \in members'[p]
    BY <1>0, <2>4, <2>5, Types
  <2> QED
    BY <1>0, <2>4, <2>6
<1> QED
  BY <1>4, <1>5, <1>6, <1>7 DEF NInv

-----------------------------------------------------------------------------
LEMMA NInductive == Spec => []NInv
<1>1. IInv /\ IInv' /\ NInv /\ [Next]_vars => NInv'
  <2> SUFFICES ASSUME IInv, IInv', NInv, [Next]_vars PROVE NInv'
    OBVIOUS
  <2>1. CASE \E s \in Sockets : MakePeer(s) \/ AddPeer(s) \/ RemovePeer(s)
    BY <2>1, NoticesMakePeer, NoticesAddPeer, NoticesRemovePeer
  <2>2. CASE ~ \E s \in Sockets : MakePeer(s) \/ AddPeer(s) \/ RemovePeer(s)
    BY <2>2, QuietOthers, QuietStep
  <2> QED
    BY <2>1, <2>2
<1> QED
  BY Inductive, InitNotices, <1>1, PTL DEF Spec

\* Whatever the number of sockets, a host is told of each client once that it
\* joined and at most once, later, that it left.
THEOREM NoticesAreOrdered == Spec => []NoticesInOrder
  BY NInductive, PTL DEF NInv

\* Whatever the number of sockets, whoever the host was told of is in m_peers,
\* unless it was also told that it left or its queue refused to tell it.
THEOREM NoGhosts == Spec => []HostSeesNoGhosts
  BY NInductive, PTL DEF NInv

-----------------------------------------------------------------------------
(* A session is a room. What Room says of peers the code does by their     *)
(* ids, so that no two peers that ever were in a session may share one.    *)

AgeInv ==
  /\ \A s \in Sockets : pc[s] \in {"idle", "found", "rejected"} => peerId[s] = -1
  /\ \A s \in Sockets : peerId[s] # -1 =>
       session[s] \in Hosts /\ peerId[s] < counter[session[s]]
  /\ \A s, t \in Sockets :
       peerId[s] # -1 /\ session[s] = session[t] /\ peerId[s] = peerId[t] => s = t

RInv == IInv /\ NInv /\ AgeInv

LEMMA NextAge ==
  ASSUME IInv, AgeInv, [Next]_vars
  PROVE  AgeInv'
<1> USE Types DEF AgeInv, Go, gameVars, sessionVars, socketVars
<1>1. ASSUME NEW s \in Sockets, NEW i \in SessionIds,
             CreateSession(s, i) \/ FindSession(s, i)
      PROVE  AgeInv'
  <2>1. /\ counter' = counter /\ peerId' = peerId
        /\ peerId[s] = -1
        /\ \A t \in Sockets : t # s => pc'[t] = pc[t] /\ session'[t] = session[t]
    BY <1>1 DEF CreateSession, FindSession
  <2> QED
    BY <2>1
<1>2. ASSUME NEW s \in Sockets, MakePeer(s) PROVE AgeInv'
  <2> DEFINE o == session[s]
  <2>1. o \in Hosts /\ counter[o] \in Nat
    BY <1>2 DEF MakePeer, IInv, SessionInv, Inside
  <2>2. /\ peerId'[s] = counter[o] /\ counter'[o] = counter[o] + 1
        /\ session' = session
        /\ \A t \in Sockets : t # s => peerId'[t] = peerId[t]
        /\ \A q \in Hosts : q # o => counter'[q] = counter[q]
    BY <1>2, <2>1 DEF MakePeer, NextId
  <2>7. \A t \in Sockets : t # s => pc'[t] = pc[t]
    BY <1>2 DEF MakePeer
  <2>8. pc'[s] = "made"
    BY <1>2 DEF MakePeer
  <2>3. ASSUME NEW t \in Sockets, peerId'[t] # -1
        PROVE  session[t] \in Hosts /\ peerId'[t] < counter'[session[t]]
    <3>1. CASE t = s
      BY <2>1, <2>2, <3>1
    <3>2. CASE t # s
      <4>1. /\ session[t] \in Hosts /\ peerId[t] < counter[session[t]]
            /\ counter[session[t]] \in Nat /\ peerId[t] \in Nat
        BY <2>2, <2>3, <3>2
      <4>2. counter'[session[t]] \in {counter[session[t]],
                                      counter[session[t]] + 1}
        BY <2>2, <4>1
      <4> QED
        BY <2>2, <3>2, <4>1, <4>2
    <3> QED
      BY <3>1, <3>2
  <2>4. \A t \in Sockets : t # s /\ session[t] = o => peerId'[t] # counter[o]
    BY <2>1, <2>2
  <2>5. \A t \in Sockets :
          pc'[t] \in {"idle", "found", "rejected"} => peerId'[t] = -1
    BY <2>2, <2>7, <2>8
  <2>6. \A t, u \in Sockets :
          peerId'[t] # -1 /\ session[t] = session[u] /\ peerId'[t] = peerId'[u]
            => t = u
    BY <2>2, <2>4
  <2> QED
    BY <2>2, <2>3, <2>5, <2>6
<1>3. ASSUME NEW s \in Sockets,
             \/ AddPeer(s) \/ DestroyRejected(s) \/ RemovePeer(s)
             \/ DeleteSession(s) \/ LoseConnection(s) \/ RejectRequest(s)
      PROVE  AgeInv'
  <2>1. \A t \in Sockets : pc'[t] \in {"idle", "found", "rejected"} =>
                             pc[t] \in {"idle", "found", "rejected"}
    BY <1>3 DEF AddPeer, DestroyRejected, RemovePeer, DeleteSession,
                LoseConnection, RejectRequest
  <2>2. counter' = counter /\ peerId' = peerId /\ session' = session
    BY <1>3 DEF AddPeer, DestroyRejected, RemovePeer, DeleteSession,
                LoseConnection, RejectRequest
  <2> QED
    BY <2>1, <2>2
<1>4. CASE PingAll
  BY <1>4 DEF PingAll
<1>5. CASE StopPinger
  BY <1>5 DEF StopPinger
<1>6. CASE UNCHANGED vars
  BY <1>6 DEF vars
<1> QED
  BY <1>1, <1>2, <1>3, <1>4, <1>5, <1>6 DEF Next, Connect, Serve

LEMMA RInductive == Spec => []RInv
<1>1. Init => AgeInv
  BY DEF Init, AgeInv
<1>2. IInv /\ AgeInv /\ [Next]_vars => AgeInv'
  BY NextAge
<1> QED
  BY Inductive, NInductive, <1>1, <1>2, PTL DEF Spec, RInv

\* What the host of o has heard and what it has not, peer by peer.
HeardThat(o, code, t) == session[t] = o /\ Told(o, code, peerId[t])

MissedThat(o, code, t) == session[t] = o /\ Lost(o, code, peerId[t])

LEMMA HeardTold ==
  ASSUME NEW o
  PROVE  /\ Heard(o) = {n \in [code : {"joined", "left"}, peer : Sockets] :
                          HeardThat(o, n.code, n.peer)}
         /\ Unheard(o) = {n \in [code : {"joined", "left"}, peer : Sockets] :
                            MissedThat(o, n.code, n.peer)}
  BY DEF Heard, HeardThat, Announced, Told, Unheard, MissedThat, Refused, Lost

LEMMA HeardToldNext ==
  ASSUME NEW o
  PROVE  /\ Heard(o)' = {n \in [code : {"joined", "left"}, peer : Sockets] :
                           HeardThat(o, n.code, n.peer)'}
         /\ Unheard(o)' = {n \in [code : {"joined", "left"}, peer : Sockets] :
                             MissedThat(o, n.code, n.peer)'}
  BY DEF Heard, HeardThat, Announced, Told, Unheard, MissedThat, Refused, Lost

LEMMA SameHeard ==
  ASSUME NEW o,
         \A code \in {"joined", "left"}, t \in Sockets :
           /\ HeardThat(o, code, t)' <=> HeardThat(o, code, t)
           /\ MissedThat(o, code, t)' <=> MissedThat(o, code, t)
  PROVE  Heard(o)' = Heard(o) /\ Unheard(o)' = Unheard(o)
<1>1. /\ Heard(o) = {n \in [code : {"joined", "left"}, peer : Sockets] :
                       HeardThat(o, n.code, n.peer)}
      /\ Unheard(o) = {n \in [code : {"joined", "left"}, peer : Sockets] :
                         MissedThat(o, n.code, n.peer)}
  BY HeardTold
<1>2. /\ Heard(o)' = {n \in [code : {"joined", "left"}, peer : Sockets] :
                        HeardThat(o, n.code, n.peer)'}
      /\ Unheard(o)' = {n \in [code : {"joined", "left"}, peer : Sockets] :
                          MissedThat(o, n.code, n.peer)'}
  BY HeardToldNext
<1>3. \A n \in [code : {"joined", "left"}, peer : Sockets] :
        /\ HeardThat(o, n.code, n.peer)' <=> HeardThat(o, n.code, n.peer)
        /\ MissedThat(o, n.code, n.peer)' <=> MissedThat(o, n.code, n.peer)
  OBVIOUS
<1> QED
  BY <1>1, <1>2, <1>3

\* A step in which nobody comes or goes.
LEMMA RoomStutters ==
  ASSUME UNCHANGED <<members, host>>,
         \A o \in Hosts : /\ Entered(o)' = Entered(o)
                          /\ Heard(o)' = Heard(o)
                          /\ Unheard(o)' = Unheard(o)
  PROVE  UNCHANGED TheRoom!roomVars
  BY DEF TheRoom!roomVars

\* What a step that is nothing to a room must keep to.
RoomQuiet ==
  /\ UNCHANGED <<members, host, notices, refused, peerId>>
  /\ \A t \in Sockets : /\ peerId[t] # -1 => session'[t] = session[t]
                        /\ pc'[t] = "made" <=> pc[t] = "made"

LEMMA RoomOthers ==
  ASSUME IInv, AgeInv, [Next]_vars,
         ~ \E s \in Sockets : MakePeer(s) \/ AddPeer(s) \/ RemovePeer(s)
  PROVE  RoomQuiet
<1> USE Types DEF Go, gameVars, sessionVars, socketVars, RoomQuiet
<1>1. ASSUME NEW s \in Sockets, NEW i \in SessionIds,
             CreateSession(s, i) \/ FindSession(s, i)
      PROVE  RoomQuiet
  <2>1. /\ UNCHANGED <<members, host, notices, refused, peerId>>
        /\ peerId[s] = -1 /\ pc[s] = "idle" /\ pc'[s] # "made"
    BY <1>1 DEF CreateSession, FindSession, AgeInv
  <2>2. \A t \in Sockets : t # s => pc'[t] = pc[t] /\ session'[t] = session[t]
    BY <1>1 DEF CreateSession, FindSession
  <2> QED
    BY <2>1, <2>2
<1>2. ASSUME NEW s \in Sockets,
             \/ RejectRequest(s) \/ DestroyRejected(s) \/ DeleteSession(s)
             \/ LoseConnection(s)
      PROVE  RoomQuiet
  <2>1. UNCHANGED <<members, host, notices, refused, peerId, session>>
    BY <1>2 DEF RejectRequest, DestroyRejected, DeleteSession, LoseConnection
  <2>2. \A t \in Sockets : pc'[t] = "made" <=> pc[t] = "made"
    BY <1>2 DEF RejectRequest, DestroyRejected, DeleteSession, LoseConnection
  <2> QED
    BY <2>1, <2>2
<1>3. CASE PingAll \/ StopPinger \/ UNCHANGED vars
  BY <1>3 DEF PingAll, StopPinger, vars
<1> QED
  BY <1>1, <1>2, <1>3 DEF Next, Connect, Serve

\* No notice is about a socket without a peer.
LEMMA NobodyTold ==
  ASSUME IInv, NEW o \in Hosts, NEW code
  PROVE  ~Told(o, code, -1) /\ ~Lost(o, code, -1)
<1>1. refused[o] \subseteq Notice
  BY DEF IInv, TypeOK
<1>2. ~Told(o, code, -1)
  BY NoticesTyped DEF Told
<1>3. ~Lost(o, code, -1)
  BY <1>1 DEF Lost, Notice
<1> QED
  BY <1>2, <1>3

LEMMA QuietRoom ==
  ASSUME RInv, RoomQuiet
  PROVE  UNCHANGED TheRoom!roomVars
<1> USE DEF RInv, RoomQuiet
<1>1. ASSUME NEW o \in Hosts PROVE Entered(o)' = Entered(o)
  BY DEF Entered
<1>2. ASSUME NEW o \in Hosts
      PROVE  Heard(o)' = Heard(o) /\ Unheard(o)' = Unheard(o)
  <2>1. ASSUME NEW code \in {"joined", "left"}, NEW t \in Sockets
        PROVE  /\ HeardThat(o, code, t)' <=> HeardThat(o, code, t)
               /\ MissedThat(o, code, t)' <=> MissedThat(o, code, t)
    <3>1. /\ Told(o, code, peerId[t])' <=> Told(o, code, peerId[t])
          /\ Lost(o, code, peerId[t])' <=> Lost(o, code, peerId[t])
      BY DEF Told, Lost
    <3>2. peerId[t] = -1 =>
            ~Told(o, code, peerId[t]) /\ ~Lost(o, code, peerId[t])
      BY NobodyTold
    <3> QED
      BY <3>1, <3>2 DEF HeardThat, MissedThat
  <2> QED
    BY <2>1, SameHeard
<1> QED
  BY <1>1, <1>2, RoomStutters

LEMMA RoomMakePeer ==
  ASSUME RInv, NEW s \in Sockets, MakePeer(s)
  PROVE  UNCHANGED TheRoom!roomVars
<1>0. /\ UNCHANGED <<members, host, notices, refused, session>>
      /\ pc[s] = "found" /\ peerId[s] = -1 /\ pc'[s] = "made"
      /\ \A t \in Sockets : t # s => pc'[t] = pc[t] /\ peerId'[t] = peerId[t]
  BY Types DEF MakePeer, Go, RInv, AgeInv
<1>1. ASSUME NEW o \in Hosts PROVE Entered(o)' = Entered(o)
  BY <1>0 DEF Entered
<1>2. ASSUME NEW o \in Hosts
      PROVE  Heard(o)' = Heard(o) /\ Unheard(o)' = Unheard(o)
  <2>1. ASSUME NEW code \in {"joined", "left"}, NEW t \in Sockets
        PROVE  /\ HeardThat(o, code, t)' <=> HeardThat(o, code, t)
               /\ MissedThat(o, code, t)' <=> MissedThat(o, code, t)
    <3>1. CASE t # s
      BY <1>0, <3>1 DEF HeardThat, MissedThat, Told, Lost
    <3>2. CASE t = s
      <4>1. ~HeardThat(o, code, s) /\ ~MissedThat(o, code, s)
        BY <1>0, NobodyTold DEF HeardThat, MissedThat, RInv
      <4>2. session[s] \in Hosts /\ peerId'[s] = counter[session[s]]
        BY Types DEF MakePeer, RInv, IInv, SessionInv, Inside
      <4>3. /\ ~Told(session[s], code, counter[session[s]])
            /\ ~Lost(session[s], code, counter[session[s]])
        <5>1. counter[session[s]] \in Nat
          BY <4>2, Types DEF RInv
        <5> QED
          BY <4>2, <5>1 DEF RInv, NInv, ToldInv
      <4>4. ~HeardThat(o, code, s)' /\ ~MissedThat(o, code, s)'
        BY <1>0, <4>2, <4>3 DEF HeardThat, MissedThat, Told, Lost
      <4> QED
        BY <3>2, <4>1, <4>4
    <3> QED
      BY <3>1, <3>2
  <2> QED
    BY <2>1, SameHeard
<1> QED
  BY <1>0, <1>1, <1>2, RoomStutters

\* Of all the peers that ever were in the session, a notice is about one,
\* whether the queue takes it ...
LEMMA HeardAfter ==
  ASSUME RInv, TypeOK', NEW s \in Sockets, NEW h,
         session[s] \in Hosts, peerId[s] \in Nat,
         NEW code \in {"joined", "left"},
         Takes(session[s], h, code, peerId[s]),
         UNCHANGED <<session, peerId>>
  PROVE  \A q \in Hosts :
           Heard(q)' = IF h # None /\ q = session[s]
                       THEN Heard(q) \union {[code |-> code, peer |-> s]}
                       ELSE Heard(q)
<1> SUFFICES ASSUME NEW q \in Hosts
             PROVE  Heard(q)' = IF h # None /\ q = session[s]
                                THEN Heard(q) \union {[code |-> code, peer |-> s]}
                                ELSE Heard(q)
  OBVIOUS
<1>0. TellsNow(session[s], h, code, peerId[s])
  <2> DEFINE o  == session[s]
             id == peerId[s]
  <2>1. o \in Hosts /\ id \in Nat /\ Takes(o, h, code, id) /\ IInv
    BY DEF RInv
  <2> HIDE DEF o, id
  <2>2. TellsNow(o, h, code, id)
    BY <2>1, NotifyTells
  <2> QED
    BY <2>2 DEF o, id
<1> USE DEF TellsNow, LosesNow
<1>1. ASSUME NEW c \in {"joined", "left"}, NEW t \in Sockets
      PROVE  HeardThat(q, c, t)' <=>
               \/ HeardThat(q, c, t)
               \/ h # None /\ q = session[s] /\ c = code /\ t = s
  <2>1. CASE peerId[t] = -1
    <3>1. ~Told(q, c, -1)
      BY NobodyTold DEF RInv
    <3>2. \A i \in DOMAIN notices'[q] : notices'[q][i] \in Notice
      BY DEF TypeOK
    <3>3. ~ \E i \in DOMAIN notices'[q] :
              notices'[q][i].code = c /\ notices'[q][i].peerId = -1
      BY <3>2 DEF Notice
    <3> QED
      BY <2>1, <3>1, <3>3 DEF HeardThat, Told
  <2>2. CASE peerId[t] # -1
    <3>0. peerId[t] \in Nat
      BY <2>2, Types DEF RInv
    <3>1. \A k \in Nat :
            (\E i \in DOMAIN notices'[q] :
               notices'[q][i].code = c /\ notices'[q][i].peerId = k)
            <=> \/ Told(q, c, k)
                \/ h # None /\ q = session[s] /\ c = code /\ k = peerId[s]
      BY <1>0 DEF Told
    <3>2. session[t] = session[s] /\ peerId[t] = peerId[s] => t = s
      BY <2>2 DEF RInv, AgeInv
    <3>3. Told(q, c, peerId[t])' <=>
            \/ Told(q, c, peerId[t])
            \/ /\ h # None /\ q = session[s] /\ c = code
               /\ peerId[t] = peerId[s]
      BY <3>0, <3>1 DEF Told
    <3> QED
      BY <3>2, <3>3 DEF HeardThat
  <2> QED
    BY <2>1, <2>2
<1>2. Heard(q) = {n \in [code : {"joined", "left"}, peer : Sockets] :
                    HeardThat(q, n.code, n.peer)}
  BY HeardTold
<1>3. Heard(q)' = {n \in [code : {"joined", "left"}, peer : Sockets] :
                     HeardThat(q, n.code, n.peer)'}
  BY HeardToldNext
<1>4. CASE h # None /\ q = session[s]
  <2>1. \A n \in [code : {"joined", "left"}, peer : Sockets] :
          HeardThat(q, n.code, n.peer)' <=>
            \/ HeardThat(q, n.code, n.peer)
            \/ n = [code |-> code, peer |-> s]
    BY <1>1, <1>4
  <2>2. [code |-> code, peer |-> s] \in [code : {"joined", "left"}, peer : Sockets]
    OBVIOUS
  <2> QED
    BY <1>2, <1>3, <1>4, <2>1, <2>2
<1>5. CASE ~(h # None /\ q = session[s])
  BY <1>1, <1>2, <1>3, <1>5
<1> QED
  BY <1>4, <1>5

\* ... or refuses it.
LEMMA UnheardAfter ==
  ASSUME RInv, TypeOK', NEW s \in Sockets, NEW h,
         session[s] \in Hosts, peerId[s] \in Nat,
         NEW code \in {"joined", "left"},
         Refuses(session[s], h, code, peerId[s]),
         UNCHANGED <<session, peerId>>
  PROVE  \A q \in Hosts :
           Unheard(q)' = IF h # None /\ q = session[s]
                         THEN Unheard(q) \union {[code |-> code, peer |-> s]}
                         ELSE Unheard(q)
<1> SUFFICES ASSUME NEW q \in Hosts
             PROVE  Unheard(q)' = IF h # None /\ q = session[s]
                                  THEN Unheard(q) \union {[code |-> code, peer |-> s]}
                                  ELSE Unheard(q)
  OBVIOUS
<1>0. LosesNow(session[s], h, code, peerId[s])
  <2> DEFINE o  == session[s]
             id == peerId[s]
  <2>1. o \in Hosts /\ id \in Nat /\ Refuses(o, h, code, id) /\ IInv
    BY DEF RInv
  <2> HIDE DEF o, id
  <2>2. LosesNow(o, h, code, id)
    BY <2>1, NotifyLoses
  <2> QED
    BY <2>2 DEF o, id
<1> USE DEF TellsNow, LosesNow
<1>1. ASSUME NEW c \in {"joined", "left"}, NEW t \in Sockets
      PROVE  MissedThat(q, c, t)' <=>
               \/ MissedThat(q, c, t)
               \/ h # None /\ q = session[s] /\ c = code /\ t = s
  <2>1. CASE peerId[t] = -1
    <3>1. ~Lost(q, c, -1)
      BY NobodyTold DEF RInv
    <3>2. refused'[q] \subseteq Notice
      BY DEF TypeOK
    <3>3. ~ \E n \in refused'[q] : n.code = c /\ n.peerId = -1
      BY <3>2 DEF Notice
    <3> QED
      BY <2>1, <3>1, <3>3 DEF MissedThat, Lost
  <2>2. CASE peerId[t] # -1
    <3>0. peerId[t] \in Nat
      BY <2>2, Types DEF RInv
    <3>1. \A k \in Nat :
            (\E n \in refused'[q] : n.code = c /\ n.peerId = k)
            <=> \/ Lost(q, c, k)
                \/ h # None /\ q = session[s] /\ c = code /\ k = peerId[s]
      BY <1>0 DEF Lost
    <3>2. session[t] = session[s] /\ peerId[t] = peerId[s] => t = s
      BY <2>2 DEF RInv, AgeInv
    <3>3. Lost(q, c, peerId[t])' <=>
            \/ Lost(q, c, peerId[t])
            \/ /\ h # None /\ q = session[s] /\ c = code
               /\ peerId[t] = peerId[s]
      BY <3>0, <3>1 DEF Lost
    <3> QED
      BY <3>2, <3>3 DEF MissedThat
  <2> QED
    BY <2>1, <2>2
<1>2. Unheard(q) = {n \in [code : {"joined", "left"}, peer : Sockets] :
                    MissedThat(q, n.code, n.peer)}
  BY HeardTold
<1>3. Unheard(q)' = {n \in [code : {"joined", "left"}, peer : Sockets] :
                     MissedThat(q, n.code, n.peer)'}
  BY HeardToldNext
<1>4. CASE h # None /\ q = session[s]
  <2>1. \A n \in [code : {"joined", "left"}, peer : Sockets] :
          MissedThat(q, n.code, n.peer)' <=>
            \/ MissedThat(q, n.code, n.peer)
            \/ n = [code |-> code, peer |-> s]
    BY <1>1, <1>4
  <2>2. [code |-> code, peer |-> s] \in [code : {"joined", "left"}, peer : Sockets]
    OBVIOUS
  <2> QED
    BY <1>2, <1>3, <1>4, <2>1, <2>2
<1>5. CASE ~(h # None /\ q = session[s])
  BY <1>1, <1>2, <1>3, <1>5
<1> QED
  BY <1>4, <1>5

\* What the code posts, and does not look after, is what Room allows.
LEMMA RoomTells ==
  ASSUME RInv, TypeOK', NEW s \in Sockets, NEW h,
         session[s] \in Hosts, peerId[s] \in Nat,
         NEW code \in {"joined", "left"},
         Notify(session[s], h, code, peerId[s]),
         UNCHANGED <<session, peerId>>
  PROVE  TheRoom!Tell(session[s], h, code, s)
<1> DEFINE n == [code |-> code, peer |-> s]
<1>1. PICK g \in {h, None} :
        /\ Takes(session[s], g, code, peerId[s])
        /\ Refuses(session[s], IF g = None THEN h ELSE None, code, peerId[s])
  BY NotifyEither
<1>2. \A q \in Hosts :
        Heard(q)' = IF g # None /\ q = session[s]
                    THEN Heard(q) \union {n} ELSE Heard(q)
  BY <1>1, HeardAfter
<1>3. \A q \in Hosts :
        Unheard(q)' = IF (IF g = None THEN h ELSE None) # None /\ q = session[s]
                      THEN Unheard(q) \union {n} ELSE Unheard(q)
  <2> DEFINE l == IF g = None THEN h ELSE None
  <2>1. Refuses(session[s], l, code, peerId[s])
    BY <1>1
  <2> HIDE DEF l
  <2>2. \A q \in Hosts :
          Unheard(q)' = IF l # None /\ q = session[s]
                        THEN Unheard(q) \union {n} ELSE Unheard(q)
    BY <2>1, UnheardAfter
  <2> QED
    BY <2>2 DEF l
<1> HIDE DEF n
<1>4. CASE h = None
  <2>1. \A q \in Hosts : Heard(q)' = Heard(q) /\ Unheard(q)' = Unheard(q)
    BY <1>2, <1>3, <1>4
  <2> QED
    BY <1>4, <2>1 DEF TheRoom!Tell, n
<1>5. CASE h # None /\ g = h
  <2>1. \A q \in Hosts :
          /\ Heard(q)' = IF q = session[s] THEN Heard(q) \union {n} ELSE Heard(q)
          /\ Unheard(q)' = Unheard(q)
    BY <1>2, <1>3, <1>5
  <2> QED
    BY <1>5, <2>1 DEF TheRoom!Tell, n
<1>6. CASE h # None /\ g = None
  <2>1. \A q \in Hosts :
          /\ Unheard(q)' = IF q = session[s] THEN Unheard(q) \union {n}
                                             ELSE Unheard(q)
          /\ Heard(q)' = Heard(q)
    BY <1>2, <1>3, <1>6
  <2> QED
    BY <1>6, <2>1 DEF TheRoom!Tell, n
<1> QED
  BY <1>4, <1>5, <1>6

\* addPeer puts a peer in that has never been inside.
LEMMA RoomGoIn ==
  ASSUME RInv, NEW s \in Sockets, AddPeer(s)
  PROVE  /\ session[s] \in Hosts /\ peerId[s] \in Nat
         /\ UNCHANGED <<session, peerId>>
         /\ pc[s] = "made"
         /\ \A q \in Hosts : Entered(q)' = IF q = session[s]
                                           THEN Entered(q) \union {s}
                                           ELSE Entered(q)
         /\ TheRoom!GoIn(session[s], s)
<1> DEFINE o == session[s]
<1>0. /\ o \in Hosts /\ peerId[s] \in Nat /\ HasPeer(s)
      /\ UNCHANGED <<session, peerId>>
      /\ pc[s] = "made" /\ pc'[s] = "open"
      /\ \A t \in Sockets : t # s => pc'[t] = pc[t]
  BY Types DEF AddPeer, Go, RInv, IInv, SessionInv, IdInv, Inside, HasPeer
<1>1. members' = [members EXCEPT ![o] = members[o] \union {s}]
  <2>1. ~ \E m \in members[o] : peerId[m] = peerId[s]
    <3> SUFFICES ASSUME NEW m \in members[o], peerId[m] = peerId[s]
                 PROVE  FALSE
      OBVIOUS
    <3>1. m \in Sockets /\ pc[m] = "open" /\ session[m] = o
      BY <1>0, Types DEF RInv, IInv, MemberInv
    <3> QED
      BY <1>0, <3>1, OwnId DEF HasPeer, RInv
  <2> QED
    BY <2>1 DEF AddPeer
<1>2. \A q \in Hosts : Entered(q)' = IF q = o THEN Entered(q) \union {s}
                                              ELSE Entered(q)
  BY <1>0 DEF Entered
<1>3. s \notin Entered(o)
  BY <1>0 DEF Entered
<1>4. TheRoom!GoIn(o, s)
  BY <1>0, <1>1, <1>2, <1>3 DEF TheRoom!GoIn
<1> QED
  BY <1>0, <1>2, <1>4

LEMMA RoomAddPeer ==
  ASSUME RInv, TypeOK', NEW s \in Sockets, AddPeer(s)
  PROVE  TheRoom!Next
<1> DEFINE o == session[s]
<1>0. /\ o \in Hosts /\ peerId[s] \in Nat
      /\ UNCHANGED <<session, peerId>>
      /\ pc[s] = "made"
      /\ \A q \in Hosts : Entered(q)' = IF q = o THEN Entered(q) \union {s}
                                                  ELSE Entered(q)
      /\ TheRoom!GoIn(o, s)
  BY RoomGoIn
<1>1. /\ host' = [host EXCEPT ![o] = HostAfterAdd(o, s)]
      /\ host \in [Hosts -> Hosts \union {None}]
  BY Types DEF AddPeer, RInv
<1>2. CASE s \in Hosts
  <2>1. s = o
    BY <1>0, <1>2, Types DEF RInv, IInv, SessionInv
  <2>2. \A q \in Hosts : Heard(q)' = Heard(q) /\ Unheard(q)' = Unheard(q)
    BY <1>0, <1>2 DEF AddPeer, Heard, Announced, Unheard, Refused
  <2>3. o \notin Entered(o)
    BY <1>0, <2>1 DEF Entered
  <2>4. \A q \in Hosts : q \in Entered(q)' <=> q = o \/ q \in Entered(q)
    BY <1>0, <2>1
  <2>5. host' = [host EXCEPT ![o] = s]
    BY <1>1, <1>2 DEF HostAfterAdd
  <2> HIDE DEF o
  <2>6. TheRoom!Open(o, s)
    BY <1>0, <2>2, <2>3, <2>4, <2>5 DEF TheRoom!Open
  <2> QED
    BY <1>0, <2>6 DEF TheRoom!Next
<1>3. CASE s \notin Hosts
  <2>1. host' = host
    BY <1>0, <1>1, <1>3 DEF HostAfterAdd
  <2>2. TheRoom!Tell(o, host[o], "joined", s)
    <3>1. Notify(session[s], host[o], "joined", peerId[s])
      BY <1>3 DEF AddPeer
    <3> HIDE DEF o
    <3>2. session[s] = o
      BY DEF o
    <3> QED
      BY <1>0, <3>1, <3>2, RoomTells
  <2>3. \A q \in Hosts : q \in Entered(q)' <=> q \in Entered(q)
    BY <1>0, <1>3
  <2> HIDE DEF o
  <2>4. TheRoom!Enter(o, s)
    BY <1>0, <2>1, <2>2, <2>3 DEF TheRoom!Enter
  <2> QED
    BY <1>0, <2>4 DEF TheRoom!Next
<1> QED
  BY <1>2, <1>3

LEMMA RoomRemovePeer ==
  ASSUME RInv, TypeOK', NEW s \in Sockets, RemovePeer(s)
  PROVE  TheRoom!Next
<1> DEFINE o    == session[s]
           h    == IF host[o] # None /\ peerId[host[o]] = peerId[s]
                   THEN None ELSE host[o]
           rest == {m \in members[o] : peerId[m] # peerId[s]}
<1>0. /\ o \in Hosts /\ peerId[s] \in Nat /\ HasPeer(s)
      /\ UNCHANGED <<session, peerId>>
      /\ host' = [host EXCEPT ![o] = h]
      /\ members' = [members EXCEPT ![o] = rest]
      /\ Notify(o, h, "left", peerId[s])
      /\ pc[s] = "open"
  BY DEF RemovePeer, Go, RInv, IInv, SessionInv, IdInv, Inside, HasPeer,
         sessionVars
<1>1. s \in members[o]
  BY <1>0 DEF RInv, IInv, MemberInv
<1>2. \A m \in members[o] : peerId[m] = peerId[s] => m = s
  <2> SUFFICES ASSUME NEW m \in members[o], peerId[m] = peerId[s]
               PROVE  m = s
    OBVIOUS
  <2>1. m \in Sockets /\ pc[m] = "open" /\ session[m] = o
    BY <1>0, Types DEF RInv, IInv, MemberInv
  <2> QED
    BY <1>0, <2>1, OwnId DEF HasPeer, RInv
<1>3. rest = members[o] \ {s}
  BY <1>2
<1>4. h = IF host[o] = s THEN None ELSE host[o]
  <2>1. host[o] # None => host[o] \in members[o]
    BY <1>0 DEF RInv, IInv, MemberInv
  <2> QED
    BY <1>2, <2>1
<1>5. TheRoom!Tell(o, h, "left", s)
  <2> HIDE DEF h, o
  <2>1. session[s] = o
    BY DEF o
  <2> QED
    BY <1>0, <2>1, RoomTells
<1>6. \A q \in Hosts : Entered(q)' = Entered(q)
  <2>1. \A t \in Sockets : pc'[t] = "made" <=> pc[t] = "made"
    BY Types DEF RemovePeer, Go, RInv
  <2> QED
    BY <1>0, <2>1 DEF Entered
<1> HIDE DEF o, h, rest
<1>7. TheRoom!Leave(o, s)
  BY <1>0, <1>1, <1>3, <1>4, <1>5, <1>6 DEF TheRoom!Leave
<1> QED
  BY <1>0, <1>7 DEF TheRoom!Next

\* For any number of sockets and of sessions, each session keeps the promise
\* of Room: what addPeer and removePeerById do by peer id, whatever is looked
\* up, created and deleted in between, is that peers come in once and go out
\* once, and that the host inside is told of exactly that, but for what its
\* queue refuses.
THEOREM SessionsAreRooms == Spec => ImplementsRoom
<1>1. Init => TheRoom!Init
  <2> SUFFICES ASSUME Init PROVE TheRoom!Init
    OBVIOUS
  <2>1. \A o \in Hosts : Entered(o) = {} /\ Heard(o) = {} /\ Unheard(o) = {}
    BY DEF Init, Entered, Heard, Announced, Unheard, Refused
  <2>2. \A o \in Hosts : (o \in Entered(o)) = FALSE
    BY <2>1
  <2>3. /\ [o \in Hosts |-> o \in Entered(o)] = [o \in Hosts |-> FALSE]
        /\ [o \in Hosts |-> Entered(o)] = [o \in Hosts |-> {}]
        /\ [o \in Hosts |-> Heard(o)] = [o \in Hosts |-> {}]
        /\ [o \in Hosts |-> Unheard(o)] = [o \in Hosts |-> {}]
    BY <2>1, <2>2
  <2> QED
    BY <2>3 DEF Init, TheRoom!Init
<1>2. RInv /\ RInv' /\ [Next]_vars => [TheRoom!Next]_TheRoom!roomVars
  <2> SUFFICES ASSUME RInv, RInv', [Next]_vars
               PROVE  [TheRoom!Next]_TheRoom!roomVars
    OBVIOUS
  <2>0. TypeOK'
    BY DEF RInv, IInv
  <2>1. ASSUME NEW s \in Sockets, MakePeer(s) \/ AddPeer(s) \/ RemovePeer(s)
        PROVE  [TheRoom!Next]_TheRoom!roomVars
    BY <2>0, <2>1, RoomMakePeer, RoomAddPeer, RoomRemovePeer
  <2>2. CASE ~ \E s \in Sockets : MakePeer(s) \/ AddPeer(s) \/ RemovePeer(s)
    BY <2>2, RoomOthers, QuietRoom DEF RInv
  <2> QED
    BY <2>1, <2>2
<1> QED
  BY RInductive, <1>1, <1>2, PTL DEF Spec, ImplementsRoom, TheRoom!Spec
=============================================================================
