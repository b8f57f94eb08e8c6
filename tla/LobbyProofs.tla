---------------------------- MODULE LobbyProofs ----------------------------
(***************************************************************************)
(* Proofs about Lobby for every set of sockets and of session ids.         *)
(***************************************************************************)
EXTENDS Lobby, TLAPS

-----------------------------------------------------------------------------
(* The inductive invariant.                                                *)

HasPeer(s) == pc[s] \in {"made", "open", "deleting"}

Inside(s) == pc[s] = "found" \/ HasPeer(s)

\* A thread past getSessionForPeer has a session object, its own if it is
\* that of a host, and the object has an id.
SessionInv ==
  /\ \A s \in Sockets : Inside(s) =>
       session[s] \in Hosts /\ sid[session[s]] \in SessionIds
  /\ \A s \in Hosts : session[s] \in {s, None}
  /\ \A s \in Hosts : pc[s] = "idle" => session[s] = None

\* The map holds an object under the id its creator gave.
EntryInv ==
  \A i \in SessionIds :
    sessions[i] # None => sid[sessions[i]] = i /\ pc[sessions[i]] # "idle"

\* generateNewPeerId: no two peers of a session have the same id.
IdInv ==
  /\ \A s \in Sockets : HasPeer(s) =>
       peerId[s] \in Nat /\ peerId[s] < counter[session[s]]
  /\ \A s, t \in Sockets :
       HasPeer(s) /\ HasPeer(t) /\ session[s] = session[t]
         /\ peerId[s] = peerId[t] => s = t

\* m_peers holds those between addPeer and removePeerById, and m_host is one
\* of them: the creator.
MemberInv ==
  /\ \A s \in Sockets, o \in Hosts :
       s \in members[o] <=> pc[s] = "open" /\ session[s] = o
  /\ \A o \in Hosts : host[o] # None => host[o] = o /\ o \in members[o]

IInv ==
  /\ TypeOK
  /\ SessionInv
  /\ EntryInv
  /\ IdInv
  /\ MemberInv

-----------------------------------------------------------------------------
(* Type correctness.                                                       *)

LEMMA InitType == Init => TypeOK
<1> SUFFICES ASSUME Init PROVE TypeOK
  OBVIOUS
<1>1. \A o \in Hosts : notices[o] \in Seq(Notice)
  BY DEF Init
<1>2. notices \in [Hosts -> Seq(Notice)]
  BY <1>1 DEF Init
<1> QED
  BY <1>2 DEF Init, TypeOK, Labels

LEMMA NoticesType ==
  ASSUME TypeOK, NEW o \in Hosts, NEW h, NEW code \in {"joined", "left"},
         NEW id \in Nat, Notify(o, h, code, id)
  PROVE  /\ notices' \in [Hosts -> Seq(Notice)]
         /\ refused' \in [Hosts -> SUBSET Notice]
<1>1. [code |-> code, peerId |-> id] \in Notice
  BY DEF Notice
<1>2. /\ notices \in [Hosts -> Seq(Notice)]
      /\ refused \in [Hosts -> SUBSET Notice]
  BY DEF TypeOK
<1>3. /\ Append(notices[o], [code |-> code, peerId |-> id]) \in Seq(Notice)
      /\ refused[o] \union {[code |-> code, peerId |-> id]} \in SUBSET Notice
  BY <1>1, <1>2
<1> QED
  BY <1>2, <1>3 DEF Notify

LEMMA NextType == IInv /\ [Next]_vars => TypeOK'
<1> SUFFICES ASSUME IInv, [Next]_vars PROVE TypeOK'
  OBVIOUS
<1>0. TypeOK /\ SessionInv /\ IdInv /\ MemberInv
  BY DEF IInv
<1>a. pingers \in Nat /\ isPingerActive \in BOOLEAN
  BY <1>0 DEF TypeOK
<1>b. /\ sessions \in [SessionIds -> Hosts \union {None}]
      /\ sid \in [Hosts -> SessionIds \union {None}]
      /\ session \in [Sockets -> Hosts \union {None}]
  BY <1>0 DEF TypeOK
<1> USE DEF gameVars, sessionVars, socketVars, Go, Sockets
<1>1. ASSUME NEW s \in Hosts, NEW i \in SessionIds, CreateSession(s, i)
      PROVE  TypeOK'
  <2>1. pingers' \in Nat
    <3>1. pingers' \in {pingers, pingers + 1}
      BY <1>a, <1>1 DEF CreateSession, StartPinger
    <3> QED
      BY <1>a, <3>1
  <2>5. isPingerActive' \in BOOLEAN
    BY <1>a, <1>1 DEF CreateSession, StartPinger
  <2>2. /\ sessions' \in [SessionIds -> Hosts \union {None}]
        /\ sid' \in [Hosts -> SessionIds \union {None}]
        /\ session' \in [Sockets -> Hosts \union {None}]
    BY <1>b, <1>1 DEF CreateSession
  <2>3. pc' \in [Sockets -> Labels] /\ connected' \in [Sockets -> BOOLEAN]
    BY <1>0, <1>1 DEF CreateSession, TypeOK, Labels
  <2>4. UNCHANGED <<counter, members, host, notices, refused, peerId>>
    BY <1>1 DEF CreateSession
  <2> QED
    BY <1>0, <2>1, <2>2, <2>3, <2>4, <2>5 DEF TypeOK
<1>2. ASSUME NEW s \in Sockets, NEW i \in SessionIds, FindSession(s, i)
      PROVE  TypeOK'
  BY <1>0, <1>2 DEF FindSession, TypeOK, Labels
<1>3. ASSUME NEW s \in Sockets, MakePeer(s) PROVE TypeOK'
  <2>1. session[s] \in Hosts
    BY <1>0, <1>3 DEF MakePeer, SessionInv, Inside
  <2> QED
    BY <1>0, <1>3, <2>1 DEF MakePeer, NextId, TypeOK, Labels
<1>4. ASSUME NEW s \in Sockets, AddPeer(s) PROVE TypeOK'
  <2>1. session[s] \in Hosts /\ peerId[s] \in Nat
    BY <1>0, <1>4 DEF AddPeer, SessionInv, IdInv, Inside, HasPeer
  <2>2. /\ notices' \in [Hosts -> Seq(Notice)]
        /\ refused' \in [Hosts -> SUBSET Notice]
    BY <1>0, <1>4, <2>1, NoticesType DEF AddPeer, TypeOK
  <2>3. HostAfterAdd(session[s], s) \in Hosts \union {None}
    BY <1>0, <2>1 DEF HostAfterAdd, TypeOK
  <2> QED
    BY <1>0, <1>4, <2>1, <2>2, <2>3 DEF AddPeer, TypeOK, Labels
<1>5. ASSUME NEW s \in Sockets, DestroyRejected(s) \/ RejectRequest(s)
      PROVE  TypeOK'
  BY <1>0, <1>5 DEF DestroyRejected, RejectRequest, TypeOK, Labels
<1>6. ASSUME NEW s \in Sockets, RemovePeer(s) PROVE TypeOK'
  <2>1. session[s] \in Hosts /\ peerId[s] \in Nat
    BY <1>0, <1>6 DEF RemovePeer, SessionInv, IdInv, Inside, HasPeer
  <2>2. /\ notices' \in [Hosts -> Seq(Notice)]
        /\ refused' \in [Hosts -> SUBSET Notice]
    BY <1>0, <1>6, <2>1, NoticesType DEF RemovePeer
  <2> QED
    BY <1>0, <1>6, <2>1, <2>2 DEF RemovePeer, TypeOK, Labels
<1>7. ASSUME NEW s \in Sockets, DeleteSession(s) PROVE TypeOK'
  BY <1>0, <1>7 DEF DeleteSession, TypeOK, Labels
<1>8. ASSUME NEW s \in Sockets, LoseConnection(s) PROVE TypeOK'
  BY <1>0, <1>8 DEF LoseConnection, TypeOK
<1>9. CASE PingAll
  BY <1>0, <1>9 DEF PingAll, TypeOK
<1>10. CASE StopPinger
  <2>1. pingers' \in Nat
    <3>1. pingers > 0 /\ pingers' = pingers - 1
      BY <1>10 DEF StopPinger
    <3> QED
      BY <1>a, <3>1
  <2>3. isPingerActive' \in BOOLEAN
    BY <1>10 DEF StopPinger
  <2>2. UNCHANGED <<sessions, sessionVars, socketVars>>
    BY <1>10 DEF StopPinger
  <2> QED
    BY <1>0, <2>1, <2>2, <2>3 DEF TypeOK
<1>11. CASE UNCHANGED vars
  BY <1>0, <1>11 DEF vars, TypeOK
<1> QED
  BY <1>1, <1>2, <1>3, <1>4, <1>5, <1>6, <1>7, <1>8, <1>9, <1>10, <1>11
     DEF Next, Connect, Serve

-----------------------------------------------------------------------------
(* The inductive invariant holds initially and is preserved.               *)

LEMMA InitIInv == Init => IInv
<1> SUFFICES ASSUME Init PROVE IInv
  OBVIOUS
<1>1. \A s \in Sockets : pc[s] = "idle" /\ session[s] = None
  BY DEF Init
<1>2. SessionInv /\ IdInv
  BY <1>1 DEF SessionInv, IdInv, Inside, HasPeer, Sockets
<1>3. EntryInv /\ MemberInv
  BY <1>1 DEF Init, EntryInv, MemberInv
<1> QED
  BY InitType, <1>2, <1>3 DEF IInv

\* The types the following proofs use.
LEMMA Types ==
  ASSUME IInv
  PROVE  /\ sessions \in [SessionIds -> Hosts \union {None}]
         /\ sid \in [Hosts -> SessionIds \union {None}]
         /\ counter \in [Hosts -> Nat]
         /\ members \in [Hosts -> SUBSET Sockets]
         /\ host \in [Hosts -> Hosts \union {None}]
         /\ session \in [Sockets -> Hosts \union {None}]
         /\ peerId \in [Sockets -> Nat \union {-1}]
         /\ pc \in [Sockets -> Labels]
         /\ None \notin Hosts /\ None \notin SessionIds
         /\ Hosts \subseteq Sockets
  BY LobbyAssumption DEF IInv, TypeOK, Sockets

LEMMA NextSession ==
  ASSUME IInv, [Next]_vars
  PROVE  SessionInv'
<1>0. SessionInv
  BY DEF IInv
<1> USE Types DEF SessionInv, Inside, HasPeer, Go, gameVars, sessionVars,
                  socketVars
<1>1. ASSUME NEW s \in Hosts, NEW i \in SessionIds, CreateSession(s, i)
      PROVE  SessionInv'
  BY <1>0, <1>1 DEF CreateSession
<1>2. ASSUME NEW s \in Sockets \ Hosts, NEW i \in SessionIds, FindSession(s, i)
      PROVE  SessionInv'
  <2>1. sessions[i] # None => sid[sessions[i]] \in SessionIds
    BY DEF IInv, EntryInv
  <2> QED
    BY <1>0, <1>2, <2>1 DEF FindSession
<1>3. ASSUME NEW s \in Sockets, MakePeer(s) PROVE SessionInv'
  BY <1>0, <1>3 DEF MakePeer
<1>4. ASSUME NEW s \in Sockets, AddPeer(s) PROVE SessionInv'
  BY <1>0, <1>4 DEF AddPeer
<1>5. ASSUME NEW s \in Sockets, DestroyRejected(s) \/ RejectRequest(s)
      PROVE  SessionInv'
  BY <1>0, <1>5 DEF DestroyRejected, RejectRequest
<1>6. ASSUME NEW s \in Sockets, RemovePeer(s) PROVE SessionInv'
  BY <1>0, <1>6 DEF RemovePeer
<1>7. ASSUME NEW s \in Sockets, DeleteSession(s) PROVE SessionInv'
  BY <1>0, <1>7 DEF DeleteSession
<1>8. ASSUME NEW s \in Sockets, LoseConnection(s) PROVE SessionInv'
  BY <1>0, <1>8 DEF LoseConnection
<1>9. CASE PingAll
  BY <1>0, <1>9 DEF PingAll
<1>10. CASE StopPinger
  BY <1>0, <1>10 DEF StopPinger
<1>11. CASE UNCHANGED vars
  BY <1>0, <1>11 DEF vars
<1> QED
  BY <1>1, <1>2, <1>3, <1>4, <1>5, <1>6, <1>7, <1>8, <1>9, <1>10, <1>11
     DEF Next, Connect, Serve

LEMMA NextEntry ==
  ASSUME IInv, [Next]_vars
  PROVE  EntryInv'
<1>0. EntryInv /\ SessionInv
  BY DEF IInv
<1> USE Types DEF EntryInv, Go, gameVars, sessionVars, socketVars
<1>1. ASSUME NEW s \in Hosts, NEW i \in SessionIds, CreateSession(s, i)
      PROVE  EntryInv'
  BY <1>0, <1>1 DEF CreateSession
<1>2. ASSUME NEW s \in Sockets, NEW i \in SessionIds, FindSession(s, i)
      PROVE  EntryInv'
  BY <1>0, <1>2 DEF FindSession
<1>3. ASSUME NEW s \in Sockets, Serve(s) \/ RejectRequest(s) PROVE EntryInv'
  BY <1>0, <1>3 DEF Serve, MakePeer, AddPeer, DestroyRejected, RemovePeer,
                    DeleteSession, RejectRequest
<1>4. ASSUME NEW s \in Sockets, LoseConnection(s) PROVE EntryInv'
  BY <1>0, <1>4 DEF LoseConnection
<1>5. CASE PingAll
  BY <1>0, <1>5 DEF PingAll
<1>6. CASE StopPinger
  BY <1>0, <1>6 DEF StopPinger
<1>7. CASE UNCHANGED vars
  BY <1>0, <1>7 DEF vars
<1> QED
  BY <1>1, <1>2, <1>3, <1>4, <1>5, <1>6, <1>7 DEF Next, Connect

LEMMA NextIds ==
  ASSUME IInv, [Next]_vars
  PROVE  IdInv'
<1>0. IdInv /\ SessionInv
  BY DEF IInv
<1> USE Types DEF IdInv, HasPeer, Go, gameVars, sessionVars, socketVars
<1>1. ASSUME NEW s \in Sockets, NEW i \in SessionIds,
             CreateSession(s, i) \/ FindSession(s, i)
      PROVE  IdInv'
  <2>1. \A t \in Sockets : HasPeer(t)' => HasPeer(t) /\ session'[t] = session[t]
    BY <1>1 DEF CreateSession, FindSession
  <2>2. counter' = counter /\ peerId' = peerId
    BY <1>1 DEF CreateSession, FindSession
  <2> QED
    BY <1>0, <2>1, <2>2
<1>3. ASSUME NEW s \in Sockets, MakePeer(s) PROVE IdInv'
  <2> DEFINE o == session[s]
  <2>1. o \in Hosts /\ counter[o] \in Nat
    BY <1>0, <1>3 DEF MakePeer, SessionInv, Inside
  <2>2. /\ peerId'[s] = counter[o] /\ counter'[o] = counter[o] + 1
        /\ session' = session
        /\ \A t \in Sockets : t # s => peerId'[t] = peerId[t]
        /\ \A q \in Hosts : q # o => counter'[q] = counter[q]
        /\ \A t \in Sockets : HasPeer(t)' => t = s \/ HasPeer(t)
    BY <1>3, <2>1 DEF MakePeer, NextId
  <2>3. \A t \in Sockets : HasPeer(t)' =>
          peerId'[t] \in Nat /\ peerId'[t] < counter'[session'[t]]
    <3> SUFFICES ASSUME NEW t \in Sockets, HasPeer(t)'
                 PROVE  peerId'[t] \in Nat /\ peerId'[t] < counter'[session'[t]]
      OBVIOUS
    <3>1. CASE t = s
      BY <2>1, <2>2, <3>1
    <3>2. CASE t # s
      <4>1. /\ session[t] \in Hosts /\ peerId[t] \in Nat
            /\ peerId[t] < counter[session[t]] /\ counter[session[t]] \in Nat
        BY <1>0, <2>2, <3>2 DEF SessionInv, Inside
      <4>2. counter'[session[t]] \in {counter[session[t]],
                                      counter[session[t]] + 1}
        BY <2>2, <4>1
      <4> QED
        BY <2>2, <3>2, <4>1, <4>2
    <3> QED
      BY <3>1, <3>2
  <2>4. \A t \in Sockets : t # s /\ HasPeer(t)' /\ session[t] = o
          => peerId'[t] # counter[o]
    BY <1>0, <2>1, <2>2
  <2> QED
    BY <1>0, <2>2, <2>3, <2>4
<1>4. ASSUME NEW s \in Sockets,
             \/ AddPeer(s) \/ DestroyRejected(s) \/ RemovePeer(s)
             \/ DeleteSession(s) \/ LoseConnection(s) \/ RejectRequest(s)
      PROVE  IdInv'
  <2>1. \A t \in Sockets : HasPeer(t)' => HasPeer(t)
    BY <1>4 DEF AddPeer, DestroyRejected, RemovePeer, DeleteSession,
                LoseConnection, RejectRequest
  <2>2. counter' = counter /\ peerId' = peerId /\ session' = session
    BY <1>4 DEF AddPeer, DestroyRejected, RemovePeer, DeleteSession,
                LoseConnection, RejectRequest
  <2> QED
    BY <1>0, <2>1, <2>2
<1>5. CASE PingAll
  BY <1>0, <1>5 DEF PingAll
<1>6. CASE StopPinger
  BY <1>0, <1>6 DEF StopPinger
<1>7. CASE UNCHANGED vars
  BY <1>0, <1>7 DEF vars
<1> QED
  BY <1>1, <1>3, <1>4, <1>5, <1>6, <1>7 DEF Next, Connect, Serve


\* m_peers and m_host change together, and a peer is erased by an id that no
\* other peer of the session has.
LEMMA NextMember ==
  ASSUME IInv, [Next]_vars
  PROVE  MemberInv'
<1>0. MemberInv /\ IdInv /\ SessionInv
  BY DEF IInv
<1> USE Types DEF MemberInv, Go, gameVars, sessionVars, socketVars
<1>1. ASSUME NEW s \in Sockets, NEW i \in SessionIds,
             CreateSession(s, i) \/ FindSession(s, i)
      PROVE  MemberInv'
  <2>1. \A t \in Sockets, o \in Hosts :
          pc'[t] = "open" /\ session'[t] = o <=> pc[t] = "open" /\ session[t] = o
    BY <1>1 DEF CreateSession, FindSession
  <2>2. members' = members /\ host' = host
    BY <1>1 DEF CreateSession, FindSession
  <2> QED
    BY <1>0, <2>1, <2>2
<1>2. ASSUME NEW s \in Sockets,
             \/ MakePeer(s) \/ DestroyRejected(s) \/ DeleteSession(s)
             \/ LoseConnection(s) \/ RejectRequest(s)
      PROVE  MemberInv'
  <2>1. \A t \in Sockets : pc'[t] = "open" <=> pc[t] = "open"
    BY <1>2 DEF MakePeer, DestroyRejected, DeleteSession, LoseConnection,
                RejectRequest
  <2>2. members' = members /\ host' = host /\ session' = session
    BY <1>2 DEF MakePeer, DestroyRejected, DeleteSession, LoseConnection,
                RejectRequest
  <2> QED
    BY <1>0, <2>1, <2>2
<1>3. ASSUME NEW s \in Sockets, AddPeer(s) PROVE MemberInv'
  <2> DEFINE o == session[s]
  <2>1. o \in Hosts /\ pc[s] = "made" /\ session' = session
    BY <1>0, <1>3 DEF AddPeer, SessionInv, Inside, HasPeer
  <2>2. ~ \E m \in members[o] : peerId[m] = peerId[s]
    <3> SUFFICES ASSUME NEW m \in members[o], peerId[m] = peerId[s]
                 PROVE  FALSE
      OBVIOUS
    <3>1. m \in Sockets /\ pc[m] = "open" /\ session[m] = o
      BY <1>0, <2>1
    <3>2. m = s
      BY <1>0, <2>1, <3>1 DEF IdInv, HasPeer
    <3> QED
      BY <2>1, <3>1, <3>2
  <2>3. members' = [members EXCEPT ![o] = members[o] \union {s}]
    BY <1>3, <2>2 DEF AddPeer
  <2>4. \A t \in Sockets : pc'[t] = "open" <=> t = s \/ pc[t] = "open"
    BY <1>3 DEF AddPeer
  <2>5. host' = [host EXCEPT ![o] = HostAfterAdd(o, s)]
    BY <1>3 DEF AddPeer
  <2>6. \A q \in Hosts : host'[q] # None => host'[q] = q /\ q \in members'[q]
    BY <1>0, <2>1, <2>3, <2>5 DEF HostAfterAdd, SessionInv
  <2> QED
    BY <1>0, <2>1, <2>3, <2>4, <2>6
<1>4. ASSUME NEW s \in Sockets, RemovePeer(s) PROVE MemberInv'
  <2> DEFINE o == session[s]
             rest == {m \in members[o] : peerId[m] # peerId[s]}
             h == IF host[o] # None /\ peerId[host[o]] = peerId[s]
                  THEN None ELSE host[o]
  <2>1. o \in Hosts /\ pc[s] = "open" /\ session' = session
    BY <1>0, <1>4 DEF RemovePeer, SessionInv, Inside, HasPeer
  <2>2. rest = members[o] \ {s}
    <3> SUFFICES ASSUME NEW m \in members[o], peerId[m] = peerId[s]
                 PROVE  m = s
      OBVIOUS
    <3>1. m \in Sockets /\ pc[m] = "open" /\ session[m] = o
      BY <1>0, <2>1
    <3> QED
      BY <1>0, <2>1, <3>1 DEF IdInv, HasPeer
  <2>3. members' = [members EXCEPT ![o] = rest]
    BY <1>4 DEF RemovePeer
  <2>4. host' = [host EXCEPT ![o] = h]
    BY <1>4 DEF RemovePeer
  <2>5. \A t \in Sockets : pc'[t] = "open" <=> t # s /\ pc[t] = "open"
    BY <1>4 DEF RemovePeer
  <2>6. h # None => h = o /\ o \in rest
    BY <1>0, <2>1
  <2> HIDE DEF h, rest, o
  <2>7. \A q \in Hosts : host'[q] # None => host'[q] = q /\ q \in members'[q]
    BY <1>0, <2>1, <2>3, <2>4, <2>6
  <2>8. \A t \in Sockets, q \in Hosts :
          t \in members'[q] <=> pc'[t] = "open" /\ session'[t] = q
    BY <1>0, <2>1, <2>2, <2>3, <2>5 DEF o
  <2> QED
    BY <2>7, <2>8
<1>5. CASE PingAll
  BY <1>0, <1>5 DEF PingAll
<1>6. CASE StopPinger
  BY <1>0, <1>6 DEF StopPinger
<1>7. CASE UNCHANGED vars
  BY <1>0, <1>7 DEF vars
<1> QED
  BY <1>1, <1>2, <1>3, <1>4, <1>5, <1>6, <1>7 DEF Next, Connect, Serve

LEMMA Inductive == Spec => []IInv
<1>1. IInv /\ [Next]_vars => IInv'
  BY NextType, NextSession, NextEntry, NextIds, NextMember DEF IInv
<1> QED
  BY InitIInv, <1>1, PTL DEF Spec

\* Every reachable state has the types of the code.
THEOREM TypeCorrect == Spec => []TypeOK
  BY Inductive, PTL DEF IInv

\* m_peers holds a peer from addPeer until its own removePeerById, for every
\* number of sockets and sessions: no peer shadows or erases another one.
THEOREM MembersAreOpen == Spec => []MemberWhileOpen
<1>1. IInv => MemberWhileOpen
  <2> SUFFICES ASSUME IInv PROVE MemberWhileOpen
    OBVIOUS
  <2>1. \A s \in Sockets : pc[s] = "open" => session[s] \in Hosts
    BY DEF IInv, SessionInv, Inside, HasPeer
  <2> QED
    BY <2>1 DEF IInv, MemberInv, MemberWhileOpen
<1> QED
  BY Inductive, <1>1, PTL

-----------------------------------------------------------------------------
(* The host.                                                               *)

LEMMA StepHost ==
  ASSUME IInv, [Next]_vars, NEW o \in Hosts, host'[o] # host[o]
  PROVE  \/ host[o] = None /\ host'[o] = o /\ pc[o] = "made"
         \/ host[o] = o /\ host'[o] = None /\ pc'[o] # "open"
<1>0. MemberInv /\ IdInv /\ SessionInv
  BY DEF IInv
<1>1. PICK s \in Sockets : AddPeer(s) \/ RemovePeer(s)
  <2>1. \A s \in Sockets, i \in SessionIds :
          CreateSession(s, i) \/ FindSession(s, i) => host' = host
    BY DEF CreateSession, FindSession, sessionVars
  <2>2. \A s \in Sockets : MakePeer(s) \/ DestroyRejected(s)
          \/ DeleteSession(s) \/ LoseConnection(s) \/ RejectRequest(s)
            => host' = host
    BY DEF MakePeer, DestroyRejected, DeleteSession, LoseConnection,
           RejectRequest, sessionVars
  <2>3. PingAll \/ StopPinger \/ UNCHANGED vars => host' = host
    BY DEF PingAll, StopPinger, vars, sessionVars
  <2> QED
    BY <2>1, <2>2, <2>3 DEF Next, Connect, Serve
<1>2. CASE AddPeer(s)
  <2>1. s \in Hosts /\ session[s] = s /\ o = s /\ host'[o] = s
    BY <1>0, <1>2, Types DEF AddPeer, HostAfterAdd, SessionInv, Inside, HasPeer
  <2>2. pc[o] = "made"
    BY <1>2, <2>1 DEF AddPeer
  <2>3. host[o] = None
    BY <1>0, <2>1 DEF MemberInv
  <2> QED
    BY <2>1, <2>2, <2>3
<1>3. CASE RemovePeer(s)
  <2>1. /\ session[s] = o /\ host[o] # None /\ host'[o] = None
        /\ peerId[host[o]] = peerId[s]
    BY <1>3, Types DEF RemovePeer
  <2>2. host[o] = o /\ pc[o] = "open" /\ session[o] = o
    BY <1>0, <2>1, Types DEF MemberInv
  <2>3. o = s
    BY <1>0, <1>3, <2>1, <2>2, Types DEF IdInv, HasPeer, RemovePeer
  <2>4. pc'[o] # "open"
    BY <1>3, <2>3, Types DEF RemovePeer, Go
  <2> QED
    BY <2>1, <2>2, <2>4
<1> QED
  BY <1>1, <1>2, <1>3

\* staticHost, its first half: the host of a session never changes. It comes
\* once, with addPeer of the creator, and goes once.
THEOREM HostNeverChanges == Spec => HostIsForever
<1> DEFINE OneHost ==
      \A o \in Hosts : host'[o] # host[o] =>
        \/ host[o] = None /\ host'[o] = o /\ pc[o] = "made"
        \/ host[o] = o /\ host'[o] = None /\ pc'[o] # "open"
<1>1. IInv /\ [Next]_vars => [OneHost]_vars
  BY StepHost
<1>2. Spec => [][OneHost]_vars
  BY Inductive, <1>1, PTL DEF Spec
<1> QED
  BY <1>2 DEF HostIsForever

-----------------------------------------------------------------------------
(* The pinger.                                                             *)

LEMMA NextPinger ==
  ASSUME TypeOK, OnePinger, [Next]_vars
  PROVE  OnePinger'
<1> USE DEF OnePinger, Registered, gameVars, sessionVars, socketVars
<1>1. ASSUME NEW s \in Sockets, NEW i \in SessionIds, CreateSession(s, i)
      PROVE  OnePinger'
  BY <1>1 DEF CreateSession, StartPinger
<1>2. ASSUME NEW s \in Sockets, NEW i \in SessionIds, FindSession(s, i)
      PROVE  OnePinger'
  BY <1>2 DEF FindSession
<1>3. ASSUME NEW s \in Sockets,
             MakePeer(s) \/ AddPeer(s) \/ DestroyRejected(s) \/ RemovePeer(s)
               \/ LoseConnection(s) \/ RejectRequest(s)
      PROVE  OnePinger'
  BY <1>3 DEF MakePeer, AddPeer, DestroyRejected, RemovePeer, LoseConnection,
              RejectRequest
<1>4. ASSUME NEW s \in Sockets, DeleteSession(s) PROVE OnePinger'
  <2>1. \A i \in SessionIds : sessions'[i] \in {sessions[i], None}
    BY <1>4 DEF DeleteSession, TypeOK
  <2>2. Registered' # {} => Registered # {}
    BY <2>1
  <2> QED
    BY <1>4, <2>2 DEF DeleteSession
<1>5. CASE PingAll
  BY <1>5 DEF PingAll
<1>6. CASE StopPinger
  <2>1. pingers = 1 /\ pingers' = 0
    BY <1>6 DEF StopPinger
  <2>2. Registered' = {} /\ isPingerActive' = FALSE
    BY <1>6 DEF StopPinger
  <2> QED
    BY <2>1, <2>2
<1>7. CASE UNCHANGED vars
  BY <1>7 DEF vars
<1> QED
  BY <1>1, <1>2, <1>3, <1>4, <1>5, <1>6, <1>7 DEF Next, Connect, Serve

\* There is exactly one Pinger while isPingerActive, and it is active while
\* any session is registered (Game.cpp:51-55 against Game.cpp:71-75).
THEOREM PingerMatchesFlag == Spec => []OnePinger
<1>1. Init => OnePinger
  BY DEF Init, OnePinger, Registered
<1>2. TypeOK /\ OnePinger /\ [Next]_vars => OnePinger'
  BY NextPinger
<1> QED
  BY TypeCorrect, <1>1, <1>2, PTL DEF Spec

-----------------------------------------------------------------------------
(* Entries of the session map do not leak.                                 *)

Owns(s, o) == /\ session[s] = o
              /\ pc[s] \in {"found", "made", "open", "deleting"}

LEMMA NextOwner ==
  ASSUME IInv, EntryHasOwner, [Next]_vars
  PROVE  EntryHasOwner'
<1>0. MemberInv /\ EntryInv /\ SessionInv
  BY DEF IInv
<1>a. \A i \in SessionIds :
        sessions[i] # None => \E s \in Sockets : Owns(s, sessions[i])
  BY DEF EntryHasOwner, Owns
<1>b. SUFFICES ASSUME NEW i \in SessionIds, sessions'[i] # None
               PROVE  \E s \in Sockets : Owns(s, sessions[i])'
  BY DEF EntryHasOwner, Owns
<1> USE Types DEF Go, gameVars, sessionVars, socketVars
<1>1. ASSUME NEW s \in Hosts, NEW j \in SessionIds, CreateSession(s, j)
      PROVE  \E t \in Sockets : Owns(t, sessions[i])'
  <2>1. CASE sessions[j] = None /\ i = j
    <3>1. Owns(s, sessions[i])'
      BY <1>1, <2>1 DEF CreateSession, Owns
    <3> QED
      BY <3>1
  <2>2. CASE ~(sessions[j] = None /\ i = j)
    <3>1. sessions'[i] = sessions[i]
      BY <1>1, <2>2 DEF CreateSession
    <3>2. PICK t \in Sockets : Owns(t, sessions[i])
      BY <1>a, <1>b, <3>1
    <3>3. t # s
      BY <1>1, <3>2 DEF CreateSession, Owns
    <3>4. Owns(t, sessions[i])'
      BY <1>1, <3>1, <3>2, <3>3 DEF CreateSession, Owns
    <3> QED
      BY <3>4
  <2> QED
    BY <2>1, <2>2
<1>2. ASSUME NEW s \in Sockets, NEW j \in SessionIds, FindSession(s, j)
      PROVE  \E t \in Sockets : Owns(t, sessions[i])'
  <2>1. PICK t \in Sockets : Owns(t, sessions[i])
    BY <1>2, <1>a, <1>b DEF FindSession
  <2>2. Owns(t, sessions[i])'
    BY <1>2, <2>1 DEF FindSession, Owns
  <2> QED
    BY <2>2
<1>3. ASSUME NEW s \in Sockets,
             \/ MakePeer(s) \/ AddPeer(s) \/ DestroyRejected(s)
             \/ LoseConnection(s) \/ RejectRequest(s)
      PROVE  \E t \in Sockets : Owns(t, sessions[i])'
  <2>1. sessions' = sessions /\ session' = session
    BY <1>3 DEF MakePeer, AddPeer, DestroyRejected, LoseConnection,
                RejectRequest
  <2>2. \A t \in Sockets :
          pc[t] \in {"found", "made", "open", "deleting"} =>
            pc'[t] \in {"found", "made", "open", "deleting"}
    BY <1>3 DEF MakePeer, AddPeer, DestroyRejected, LoseConnection,
                RejectRequest
  <2> QED
    BY <1>a, <1>b, <2>1, <2>2 DEF Owns
<1>4. ASSUME NEW s \in Sockets, RemovePeer(s)
      PROVE  \E t \in Sockets : Owns(t, sessions[i])'
  <2> DEFINE rest == {m \in members[session[s]] : peerId[m] # peerId[s]}
  <2>0. /\ sessions' = sessions /\ session' = session
        /\ session[s] \in Hosts
        /\ pc' = [pc EXCEPT ![s] = IF rest = {} THEN "deleting" ELSE "gone"]
    BY <1>0, <1>4 DEF RemovePeer, IsEmpty, SessionInv, Inside, HasPeer
  <2>1. PICK t \in Sockets : Owns(t, sessions[i])
    BY <1>a, <1>b, <2>0
  <2>2. CASE t # s
    BY <2>0, <2>1, <2>2 DEF Owns
  <2>3. CASE t = s /\ rest = {}
    BY <2>0, <2>1, <2>3 DEF Owns
  <2>4. CASE t = s /\ rest # {}
    <3>1. PICK m \in rest : TRUE
      BY <2>4
    <3>2. m \in Sockets /\ pc[m] = "open" /\ session[m] = session[s] /\ m # s
      BY <1>0, <2>0, <3>1 DEF MemberInv
    <3>3. Owns(m, sessions[i])'
      BY <2>0, <2>1, <2>4, <3>2 DEF Owns
    <3> QED
      BY <3>2, <3>3
  <2> QED
    BY <2>2, <2>3, <2>4
<1>5. ASSUME NEW s \in Sockets, DeleteSession(s)
      PROVE  \E t \in Sockets : Owns(t, sessions[i])'
  <2>1. sessions'[i] = sessions[i] /\ i # sid[session[s]]
    BY <1>b, <1>5 DEF DeleteSession
  <2>2. PICK t \in Sockets : Owns(t, sessions[i])
    BY <1>a, <1>b, <2>1
  <2>3. t # s
    BY <1>0, <1>b, <2>1, <2>2 DEF EntryInv, Owns
  <2>4. Owns(t, sessions[i])'
    BY <1>5, <2>1, <2>2, <2>3 DEF DeleteSession, Owns
  <2> QED
    BY <2>4
<1>6. CASE PingAll
  BY <1>6, <1>a, <1>b DEF PingAll, Owns
<1>7. CASE StopPinger
  BY <1>7, <1>a, <1>b DEF StopPinger, Owns
<1>8. CASE UNCHANGED vars
  BY <1>8, <1>a, <1>b DEF vars, Owns
<1> QED
  BY <1>1, <1>2, <1>3, <1>4, <1>5, <1>6, <1>7, <1>8 DEF Next, Connect, Serve

\* A registered session always has a peer that is inside, on the way in, or
\* about to delete it: the map does not leak, and the Pinger can end.
THEOREM NoLeakedEntry == Spec => []EntryHasOwner
<1>1. Init => EntryHasOwner
  BY DEF Init, EntryHasOwner
<1>2. IInv /\ EntryHasOwner /\ [Next]_vars => EntryHasOwner'
  BY NextOwner
<1> QED
  BY Inductive, <1>1, <1>2, PTL DEF Spec
=============================================================================
