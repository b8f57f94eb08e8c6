--------------------------- MODULE MessagesProofs ---------------------------
(***************************************************************************)
(* Proofs about Messages for any number of peers, messages and full        *)
(* queues: in which order what is posted gets into the queues of the       *)
(* others.                                                                 *)
(***************************************************************************)
EXTENDS Messages, TLAPS, FiniteSetTheorems, WellFoundedInduction

-----------------------------------------------------------------------------
(* The inductive invariant.                                                *)

\* TypeOK without the variables the order of messages does not depend on.
Labels ==
  {"out", "hello", "ready", "relay", "mayKick", "kick", "closing", "left"}

Typed ==
  /\ members \subseteq Peers
  /\ host \in {Host, None}
  /\ nextEvent \in Nat
  /\ log \in [Peers -> Seq(AnyMessage)]
  /\ lost \in [Peers -> SUBSET AnyMessage]
  /\ pc \in [Peers -> Labels]
  /\ carried \in [Peers -> AnyMessage]
  /\ sends \in Nat

\* A handler relays the message of its own peer, under the latest number the
\* peer has used; a member is not out and has not left.
ThreadInv ==
  /\ \A p \in Peers : pc[p] = "relay" =>
       /\ carried[p].kind = "msg"
       /\ carried[p].from = p
       /\ carried[p].n <= sends
  /\ \A p \in members : pc[p] \notin {"out", "left"}

\* What a posted message says of its sender and of the counters.
Sound(m) ==
  /\ m.from \in Peers
  /\ pc[m.from] # "out"
  /\ pc[m.from] = "hello" => m.kind = "joined"
  /\ m.kind = "left" => pc[m.from] = "left"
  /\ m.kind = "event" => m.n < nextEvent
  /\ m.kind = "msg" =>
       /\ m.n <= sends
       /\ pc[m.from] = "relay" => m.n <= carried[m.from].n

\* What is true of a message a and one that the same queue accepted later.
Follows(a, b) ==
  /\ a.kind = "event" /\ b.kind = "event" => a.n < b.n
  /\ a.from = b.from =>
       /\ a.kind = "msg" /\ b.kind = "msg" => a.n <= b.n
       /\ a.kind # "left"
       /\ b.kind \notin {"joined", "hello"}

\* Nobody is told that it joined itself.
LogInv ==
  /\ \A q \in Peers : \A i \in DOMAIN log[q] : Sound(log[q][i])
  /\ \A q \in Peers : \A i \in DOMAIN log[q] :
       log[q][i].kind = "joined" => log[q][i].from # q
  /\ \A q \in Peers : \A x \in lost[q] : x.kind = "event" => x.n < nextEvent
  /\ \A q \in Peers : \A i, j \in DOMAIN log[q] :
       i < j => Follows(log[q][i], log[q][j])

\* The numbers of the events that a peer was to be told of.
Seen(q, k) ==
  \/ \E i \in DOMAIN log[q] : log[q][i].kind = "event" /\ log[q][i].n = k
  \/ \E x \in lost[q] : x.kind = "event" /\ x.n = k

\* Nobody sees events before it joins, and then no member misses any.
GapInv ==
  /\ \A q \in Peers, k \in Nat : pc[q] = "out" => ~Seen(q, k)
  /\ \A q \in members, k \in Nat, n \in Nat :
       Seen(q, k) /\ k <= n /\ n < nextEvent => Seen(q, n)

IInv ==
  /\ Typed
  /\ ThreadInv
  /\ LogInv
  /\ EventsInSameOrder
  /\ GapInv

-----------------------------------------------------------------------------
(* What getPeers returns.                                                  *)

\* Induction over the naturals, as a fact about sets of them.
LEMMA Least ==
  ASSUME NEW T \in SUBSET Nat, T # {}
  PROVE  \E m \in T : \A k \in T : m <= k
<1> DEFINE R == {ss \in Nat \X Nat : ss[1] < ss[2]}
<1>1. IsWellFoundedOn(R, Nat)
  BY NatLessThanWellFounded DEF OpToRel
<1> HIDE DEF R
<1>2. \E x \in T : \A y \in T : ~ (<<y, x>> \in R)
  BY <1>1, WFMin
<1>3. \A x, y \in Nat : ~ (<<y, x>> \in R) => x <= y
  BY DEF R
<1> QED
  BY <1>2, <1>3

\* Whatever ids a payload lists, getPeers finds peers, and members only: the
\* result is defined from one id to the next.
LEMMA GetPeersFinds ==
  ASSUME NEW ids \in Seq(Peers)
  PROVE  GetPeers(ids) \in Seq(members)
<1> DEFINE Step(f, i) == IF i = 0 THEN <<>>
                         ELSE IF ids[i] \in members
                              THEN Append(f[i - 1], ids[i])
                              ELSE f[i - 1]
           Computes(n, f) == \A i \in 0 .. n : f[i] = Step(f, i)
           Bad == {n \in 0 .. Len(ids) :
                     ~ \E f \in [0 .. n -> Seq(members)] : Computes(n, f)}
           result == CHOOSE f : f = [i \in 0 .. Len(ids) |-> Step(f, i)]
<1>1. GetPeers(ids) = result[Len(ids)]
  BY DEF GetPeers
<1>2. Len(ids) \in Nat /\ Bad \in SUBSET Nat
  OBVIOUS
<1>3. ASSUME NEW n \in 0 .. Len(ids),
             NEW f \in [0 .. n - 1 -> Seq(members)], Computes(n - 1, f)
      PROVE  n \notin Bad
  <2> DEFINE x == IF n = 0 THEN <<>> ELSE Step(f, n)
             g == [i \in 0 .. n |-> IF i = n THEN x ELSE f[i]]
  <2>1. n \in Nat /\ n - 1 \in Int
    BY <1>2
  <2>2. x \in Seq(members)
    BY <1>3, <2>1
  <2>3. g \in [0 .. n -> Seq(members)]
    BY <2>1, <2>2
  <2>4. ASSUME NEW i \in 0 .. n
        PROVE  g[i] = Step(g, i)
    <3>1. CASE i = 0
      BY <1>3, <2>1, <3>1
    <3>2. CASE i # 0
      <4>1. g[i - 1] = f[i - 1]
        BY <2>1, <3>2
      <4>2. Step(g, i) = Step(f, i)
        BY <3>2, <4>1
      <4>3. CASE i = n
        BY <2>1, <3>2, <4>2, <4>3
      <4>4. CASE i # n
        <5>1. i \in 0 .. n - 1 /\ g[i] = f[i]
          BY <2>1, <4>4
        <5> HIDE DEF g, Step
        <5> QED
          BY <1>3, <4>2, <5>1
      <4> QED
        BY <4>3, <4>4
    <3> QED
      BY <3>1, <3>2
  <2> HIDE DEF g, Step
  <2> QED
    BY <2>3, <2>4
<1>4. Bad = {}
  <2> SUFFICES ASSUME Bad # {} PROVE FALSE
    OBVIOUS
  <2>1. PICK n \in Bad : \A k \in Bad : n <= k
    <3> HIDE DEF Bad
    <3> QED
      BY <1>2, Least
  <2>2. n \in 0 .. Len(ids) /\ n \in Nat
    BY <1>2
  <2>3. CASE n = 0
    <3> DEFINE f == [i \in 0 .. n - 1 |-> <<>>]
    <3>1. f \in [0 .. n - 1 -> Seq(members)] /\ Computes(n - 1, f)
      BY <2>3
    <3> HIDE DEF Bad, Computes, f
    <3> QED
      BY <1>3, <2>1, <2>2, <3>1
  <2>4. CASE n # 0
    <3>1. n - 1 \in 0 .. Len(ids) /\ n - 1 \notin Bad
      <4> HIDE DEF Bad
      <4> QED
        BY <1>2, <2>1, <2>2, <2>4
    <3>2. PICK f \in [0 .. n - 1 -> Seq(members)] : Computes(n - 1, f)
      BY <3>1
    <3> HIDE DEF Bad, Computes
    <3> QED
      BY <1>3, <2>1, <2>2, <3>2
  <2> QED
    BY <2>3, <2>4
<1>5. PICK f \in [0 .. Len(ids) -> Seq(members)] : Computes(Len(ids), f)
  <2>1. Len(ids) \in 0 .. Len(ids) /\ Len(ids) \notin Bad
    <3> HIDE DEF Bad
    <3> QED
      BY <1>2, <1>4
  <2> HIDE DEF Computes
  <2> QED
    BY <2>1
<1>6. f = [i \in 0 .. Len(ids) |-> Step(f, i)]
  BY <1>5
<1>7. result = [i \in 0 .. Len(ids) |-> Step(result, i)]
  BY <1>6
<1>8. \A i \in 0 .. Len(ids) : result[i] = Step(result, i)
  BY <1>7
<1> HIDE DEF result
<1>9. result[Len(ids)] \in Seq(members)
  <2> DEFINE Other == {i \in 0 .. Len(ids) : result[i] \notin Seq(members)}
  <2> SUFFICES ASSUME Other # {} PROVE FALSE
    BY <1>2
  <2>1. PICK n \in Other : \A k \in Other : n <= k
    <3>1. Other \in SUBSET Nat
      BY <1>2
    <3> HIDE DEF Other
    <3> QED
      BY <3>1, Least
  <2>2. n # 0
    <3>1. 0 \in 0 .. Len(ids) /\ Step(result, 0) = <<>>
      BY <1>2
    <3>2. result[0] = <<>>
      BY <1>8, <3>1
    <3>3. <<>> \in Seq(members)
      OBVIOUS
    <3>4. n \in Other => result[n] \notin Seq(members)
      OBVIOUS
    <3> HIDE DEF Other
    <3> QED
      BY <2>1, <3>2, <3>3, <3>4
  <2>3. n - 1 \in 0 .. Len(ids) /\ n - 1 \notin Other
    <3>1. n \in 0 .. Len(ids)
      OBVIOUS
    <3> HIDE DEF Other
    <3> QED
      BY <1>2, <2>1, <2>2, <3>1
  <2>4. result[n - 1] \in Seq(members) /\ result[n] = Step(result, n)
    BY <1>8, <2>3
  <2>5. result[n] \in Seq(members)
    BY <2>2, <2>4
  <2> QED
    BY <2>5
<1> QED
  BY <1>1, <1>9

LEMMA GetPeersTyped ==
  ASSUME members \subseteq Peers, NEW ids \in IdLists
  PROVE  GetPeers(ids) \in Seq(Peers)
<1>1. ids \in Seq(Peers)
  BY MessagesAssumption
<1>2. GetPeers(ids) \in Seq(members)
  BY <1>1, GetPeersFinds
<1> QED
  BY <1>2

-----------------------------------------------------------------------------
(* What Post does to one queue.                                            *)

LEMMA Appended ==
  ASSUME NEW S, NEW q \in Seq(S), NEW e \in S
  PROVE  /\ Append(q, e) \in Seq(S)
         /\ DOMAIN q = 1 .. Len(q) /\ Len(q) \in Nat
         /\ DOMAIN Append(q, e) = 1 .. Len(q) + 1
         /\ \A i \in 1 .. Len(q) : Append(q, e)[i] = q[i]
         /\ Append(q, e)[Len(q) + 1] = e
  OBVIOUS

\* A queue accepts the message, refuses it, or is not concerned.
LEMMA Posted ==
  ASSUME Typed, NEW targets, NEW m \in AnyMessage,
         Post(targets, m)
  PROVE  /\ log' \in [Peers -> Seq(AnyMessage)]
         /\ lost' \in [Peers -> SUBSET AnyMessage]
         /\ \A q \in Peers :
              \/ /\ q \in targets
                 /\ log'[q] = Append(log[q], m)
                 /\ lost'[q] = lost[q]
              \/ /\ q \in targets
                 /\ log'[q] = log[q]
                 /\ lost'[q] = lost[q] \union {m}
              \/ /\ q \notin targets
                 /\ log'[q] = log[q]
                 /\ lost'[q] = lost[q]
<1>1. PICK full \in SUBSET targets :
        /\ log' = [q \in Peers |-> IF q \in targets \ full
                                    THEN Append(log[q], m) ELSE log[q]]
        /\ lost' = [q \in Peers |-> IF q \in full
                                     THEN lost[q] \union {m} ELSE lost[q]]
  BY DEF Post, Accept
<1>2. /\ \A q \in Peers : log[q] \in Seq(AnyMessage)
      /\ \A q \in Peers : lost[q] \in SUBSET AnyMessage
  BY DEF Typed
<1>3. \A q \in Peers : Append(log[q], m) \in Seq(AnyMessage)
  BY <1>2, Appended
<1>4. log' \in [Peers -> Seq(AnyMessage)]
  BY <1>1, <1>2, <1>3
<1>5. lost' \in [Peers -> SUBSET AnyMessage]
  BY <1>1, <1>2
<1>6. ASSUME NEW q \in Peers
      PROVE  \/ /\ q \in targets
                /\ log'[q] = Append(log[q], m)
                /\ lost'[q] = lost[q]
             \/ /\ q \in targets
                /\ log'[q] = log[q]
                /\ lost'[q] = lost[q] \union {m}
             \/ /\ q \notin targets
                /\ log'[q] = log[q]
                /\ lost'[q] = lost[q]
  BY <1>1
<1> QED
  BY <1>4, <1>5, <1>6

\* What is in a queue was there before, or is the new message, at its end.
LEMMA Entries ==
  ASSUME Typed, NEW targets, NEW m \in AnyMessage,
         Post(targets, m)
  PROVE  \A q \in Peers : \A i \in DOMAIN log'[q] :
           \/ i \in DOMAIN log[q] /\ log'[q][i] = log[q][i]
           \/ /\ log'[q][i] = m /\ q \in targets
              /\ \A j \in DOMAIN log'[q] : j <= i
              /\ \A j \in DOMAIN log'[q] :
                   j < i => j \in DOMAIN log[q] /\ log'[q][j] = log[q][j]
<1> SUFFICES ASSUME NEW q \in Peers, NEW i \in DOMAIN log'[q]
             PROVE
           \/ i \in DOMAIN log[q] /\ log'[q][i] = log[q][i]
           \/ /\ log'[q][i] = m /\ q \in targets
              /\ \A j \in DOMAIN log'[q] : j <= i
              /\ \A j \in DOMAIN log'[q] :
                   j < i => j \in DOMAIN log[q] /\ log'[q][j] = log[q][j]
  OBVIOUS
<1>1. log[q] \in Seq(AnyMessage)
  BY DEF Typed
<1>2. CASE log'[q] = log[q]
  BY <1>2
<1>3. CASE q \in targets /\ log'[q] = Append(log[q], m)
  <2> DEFINE s == log[q]
  <2>1. /\ DOMAIN s = 1 .. Len(s) /\ Len(s) \in Nat
        /\ DOMAIN Append(s, m) = 1 .. Len(s) + 1
        /\ \A k \in 1 .. Len(s) : Append(s, m)[k] = s[k]
        /\ Append(s, m)[Len(s) + 1] = m
    BY <1>1, Appended
  <2> HIDE DEF s
  <2>2. log'[q] = Append(s, m)
    BY <1>3 DEF s
  <2>3. CASE i \in 1 .. Len(s)
    BY <2>1, <2>2, <2>3 DEF s
  <2>4. CASE i = Len(s) + 1
    BY <1>3, <2>1, <2>2, <2>4 DEF s
  <2> QED
    BY <2>1, <2>2, <2>3, <2>4
<1>4. \/ /\ q \in targets
         /\ log'[q] = Append(log[q], m)
         /\ lost'[q] = lost[q]
      \/ /\ q \in targets
         /\ log'[q] = log[q]
         /\ lost'[q] = lost[q] \union {m}
      \/ /\ q \notin targets
         /\ log'[q] = log[q]
         /\ lost'[q] = lost[q]
  BY Posted
<1> QED
  BY <1>2, <1>3, <1>4

\* What a peer has seen after a Post.
LEMMA SeenAfter ==
  ASSUME Typed, NEW targets, NEW m \in AnyMessage,
         Post(targets, m), NEW q \in Peers, NEW k
  PROVE  Seen(q, k)' <=> \/ Seen(q, k)
                         \/ q \in targets /\ m.kind = "event" /\ m.n = k
<1>1. log[q] \in Seq(AnyMessage)
  BY DEF Typed
<1>2. CASE q \in targets /\ log'[q] = Append(log[q], m) /\ lost'[q] = lost[q]
  <2> DEFINE s == log[q]
  <2>1. /\ DOMAIN s = 1 .. Len(s) /\ Len(s) \in Nat
        /\ DOMAIN Append(s, m) = 1 .. Len(s) + 1
        /\ \A i \in 1 .. Len(s) : Append(s, m)[i] = s[i]
        /\ Append(s, m)[Len(s) + 1] = m
    BY <1>1, Appended
  <2> HIDE DEF s
  <2>2. (\E i \in 1 .. Len(s) + 1 : Append(s, m)[i].kind = "event"
                                     /\ Append(s, m)[i].n = k)
        <=> \/ \E i \in 1 .. Len(s) : s[i].kind = "event" /\ s[i].n = k
            \/ m.kind = "event" /\ m.n = k
    BY <2>1
  <2>3. /\ log'[q] = Append(s, m) /\ log[q] = s
        /\ lost'[q] = lost[q] /\ q \in targets
    BY <1>2 DEF s
  <2> QED
    BY <2>1, <2>2, <2>3 DEF Seen
<1>3. CASE q \in targets /\ log'[q] = log[q] /\ lost'[q] = lost[q] \union {m}
  BY <1>3 DEF Seen
<1>4. CASE q \notin targets /\ log'[q] = log[q] /\ lost'[q] = lost[q]
  BY <1>4 DEF Seen
<1>5. \/ /\ q \in targets
         /\ log'[q] = Append(log[q], m)
         /\ lost'[q] = lost[q]
      \/ /\ q \in targets
         /\ log'[q] = log[q]
         /\ lost'[q] = lost[q] \union {m}
      \/ /\ q \notin targets
         /\ log'[q] = log[q]
         /\ lost'[q] = lost[q]
  BY Posted
<1> QED
  BY <1>2, <1>3, <1>4, <1>5

-----------------------------------------------------------------------------
(* What a step must keep to.                                               *)

\* Nobody comes out again, nor back from having left; the counters rise; and
\* a handler at work has not a smaller number than it had.
Forward ==
  /\ \A p \in Peers : /\ pc[p] # "out" => pc'[p] # "out"
                      /\ pc[p] = "left" => pc'[p] = "left"
                      /\ pc'[p] = "hello" => pc[p] \in {"out", "hello"}
                      /\ pc'[p] = "relay" =>
                           \/ pc[p] = "relay" /\ carried'[p].n = carried[p].n
                           \/ carried'[p].n >= sends
  /\ sends' >= sends /\ nextEvent' >= nextEvent

LEMMA StaysSound ==
  ASSUME Typed, Typed', Forward, NEW m \in AnyMessage, Sound(m)
  PROVE  Sound(m)'
<1>1. /\ m.n \in Nat /\ sends \in Nat /\ sends' \in Nat /\ nextEvent \in Nat
      /\ nextEvent' \in Nat /\ m.from \in Peers
      /\ carried'[m.from].n \in Nat /\ carried[m.from].n \in Nat
  BY DEF Typed, AnyMessage, Sound
<1> QED
  BY <1>1 DEF Sound, Forward

LEMMA OldSound ==
  ASSUME IInv, Typed', Forward, NEW q \in Peers, NEW i \in DOMAIN log[q]
  PROVE  /\ log[q][i] \in AnyMessage
         /\ \A m : m = log[q][i] => Sound(m) /\ Sound(m)'
<1>1. log[q][i] \in AnyMessage
  BY DEF IInv, Typed
<1>2. Sound(log[q][i])
  BY DEF IInv, LogInv
<1>3. \A m \in AnyMessage : Sound(m) => Sound(m)'
  BY StaysSound DEF IInv
<1> QED
  BY <1>1, <1>2, <1>3

\* A step that posts nothing.
LEMMA QuietLog ==
  ASSUME IInv, Typed', Forward, UNCHANGED queueVars
  PROVE  LogInv' /\ EventsInSameOrder'
<1>0. log' = log /\ lost' = lost
  BY DEF queueVars
<1>1. \A q \in Peers : \A i \in DOMAIN log[q] :
        \A m : m = log[q][i] => Sound(m)'
  BY OldSound
<1>2. \A q \in Peers : \A i \in DOMAIN log'[q] : Sound(log[q][i])'
  BY <1>0, <1>1 DEF Sound
<1>3. \A q \in Peers : \A x \in lost'[q] : x.kind = "event" => x.n < nextEvent'
  <2> SUFFICES ASSUME NEW q \in Peers, NEW x \in lost[q], x.kind = "event"
               PROVE  x.n < nextEvent'
    BY <1>0
  <2>1. x.n \in Nat /\ nextEvent \in Nat /\ nextEvent' \in Nat
    BY DEF IInv, Typed, AnyMessage
  <2> QED
    BY <2>1 DEF IInv, LogInv, Forward
<1>4. \A q \in Peers : \A i, j \in DOMAIN log'[q] :
        i < j => Follows(log[q][i], log[q][j])'
  BY <1>0 DEF IInv, LogInv, Follows
<1>5. EventsInSameOrder'
  BY <1>0 DEF IInv, EventsInSameOrder
<1>6. \A q \in Peers : \A i \in DOMAIN log'[q] :
        log'[q][i].kind = "joined" => log'[q][i].from # q
  BY <1>0 DEF IInv, LogInv
<1> QED
  BY <1>2, <1>3, <1>4, <1>5, <1>6 DEF LogInv

\* A step that posts a message, which follows on all that was posted before.
LEMMA PostedLog ==
  ASSUME IInv, Typed', Forward, NEW targets,
         NEW m \in AnyMessage, Post(targets, m), Sound(m)',
         \A q \in Peers \intersect targets :
           \A i \in DOMAIN log[q] : Follows(log[q][i], m),
         m.kind = "joined" => m.from \notin targets,
         m.kind = "event" => m.n >= nextEvent
  PROVE  LogInv' /\ EventsInSameOrder'
<1>0. Typed
  BY DEF IInv
<1>1. \A q \in Peers : \A i \in DOMAIN log'[q] :
        \/ i \in DOMAIN log[q] /\ log'[q][i] = log[q][i]
        \/ /\ log'[q][i] = m /\ q \in targets
           /\ \A j \in DOMAIN log'[q] : j <= i
           /\ \A j \in DOMAIN log'[q] :
                j < i => j \in DOMAIN log[q] /\ log'[q][j] = log[q][j]
  BY <1>0, Entries
<1>2. \A q \in Peers : DOMAIN log'[q] \subseteq Nat
  BY DEF Typed
<1>3. \A q \in Peers : \A i \in DOMAIN log'[q] :
        \A x : x = log'[q][i] => Sound(x)'
  <2> SUFFICES ASSUME NEW q \in Peers, NEW i \in DOMAIN log'[q],
                      NEW x, x = log'[q][i]
               PROVE  Sound(x)'
    OBVIOUS
  <2>1. CASE i \in DOMAIN log[q] /\ log'[q][i] = log[q][i]
    BY <2>1, OldSound
  <2>2. CASE log'[q][i] = m
    BY <2>2
  <2> QED
    BY <1>1, <2>1, <2>2
<1>4. \A q \in Peers : \A x \in lost'[q] : x.kind = "event" => x.n < nextEvent'
  <2> SUFFICES ASSUME NEW q \in Peers, NEW x \in lost'[q], x.kind = "event"
               PROVE  x.n < nextEvent'
    OBVIOUS
  <2>1. x.n \in Nat /\ nextEvent \in Nat /\ nextEvent' \in Nat
    BY DEF IInv, Typed, AnyMessage
  <2>2. x \in lost[q] \/ x = m
    <3>1. \A r \in Peers :
            \/ /\ r \in targets
               /\ log'[r] = Append(log[r], m)
               /\ lost'[r] = lost[r]
            \/ /\ r \in targets
               /\ log'[r] = log[r]
               /\ lost'[r] = lost[r] \union {m}
            \/ /\ r \notin targets
               /\ log'[r] = log[r]
               /\ lost'[r] = lost[r]
      BY <1>0, Posted
    <3> QED
      BY <3>1
  <2>3. CASE x \in lost[q]
    BY <2>1, <2>3 DEF IInv, LogInv, Forward
  <2>4. CASE x = m
    BY <2>4 DEF Sound
  <2> QED
    BY <2>2, <2>3, <2>4
<1>5. \A q \in Peers : \A i, j \in DOMAIN log'[q] :
        i < j => Follows(log'[q][i], log'[q][j])
  <2> SUFFICES ASSUME NEW q \in Peers, NEW i \in DOMAIN log'[q],
                      NEW j \in DOMAIN log'[q], i < j
               PROVE  Follows(log'[q][i], log'[q][j])
    OBVIOUS
  <2>0. i \in Nat /\ j \in Nat
    BY <1>2
  <2>1. i \in DOMAIN log[q] /\ log'[q][i] = log[q][i]
    <3>1. CASE log'[q][i] = m /\ \A k \in DOMAIN log'[q] : k <= i
      BY <2>0, <3>1
    <3> QED
      BY <1>1, <3>1
  <2>2. CASE j \in DOMAIN log[q] /\ log'[q][j] = log[q][j]
    BY <2>1, <2>2 DEF IInv, LogInv
  <2>3. CASE log'[q][j] = m /\ q \in targets
    BY <2>1, <2>3
  <2> QED
    BY <1>1, <2>2, <2>3
<1>6. EventsInSameOrder'
  <2> SUFFICES ASSUME NEW p \in Peers, NEW q \in Peers,
                      NEW i \in DOMAIN log'[p], NEW j \in DOMAIN log'[q],
                      log'[p][i].kind = "event", log'[q][j].kind = "event"
               PROVE  /\ log'[p][i].n = log'[q][j].n => log'[p][i] = log'[q][j]
                      /\ p = q /\ i < j => log'[p][i].n < log'[q][j].n
    BY DEF EventsInSameOrder
  <2>1. p = q /\ i < j => log'[p][i].n < log'[q][j].n
    BY <1>5 DEF Follows
  <2>2. \A r \in Peers : \A k \in DOMAIN log[r] :
          log[r][k].kind = "event" =>
            /\ log[r][k].n < nextEvent
            /\ log[r][k].n \in Nat
    <3>1. \A r \in Peers : \A k \in DOMAIN log[r] : log[r][k] \in AnyMessage
      BY <1>0 DEF Typed
    <3>2. \A r \in Peers : \A k \in DOMAIN log[r] : log[r][k].n \in Nat
      BY <3>1 DEF AnyMessage
    <3>3. \A r \in Peers : \A k \in DOMAIN log[r] :
            log[r][k].kind = "event" => log[r][k].n < nextEvent
      BY DEF IInv, LogInv, Sound
    <3> QED
      BY <3>2, <3>3
  <2>3. m.n \in Nat /\ nextEvent \in Nat
    BY <1>0 DEF Typed, AnyMessage
  <2>4. CASE /\ i \in DOMAIN log[p] /\ log'[p][i] = log[p][i]
             /\ j \in DOMAIN log[q] /\ log'[q][j] = log[q][j]
    BY <2>1, <2>4 DEF IInv, EventsInSameOrder
  <2>5. CASE /\ i \in DOMAIN log[p] /\ log'[p][i] = log[p][i]
             /\ log'[q][j] = m
    BY <2>1, <2>2, <2>3, <2>5
  <2>6. CASE /\ log'[p][i] = m
             /\ j \in DOMAIN log[q] /\ log'[q][j] = log[q][j]
    BY <2>1, <2>2, <2>3, <2>6
  <2>7. CASE log'[p][i] = m /\ log'[q][j] = m
    BY <2>1, <2>7
  <2>8. \/ i \in DOMAIN log[p] /\ log'[p][i] = log[p][i]
        \/ log'[p][i] = m
    BY <1>1
  <2>9. \/ j \in DOMAIN log[q] /\ log'[q][j] = log[q][j]
        \/ log'[q][j] = m
    BY <1>1
  <2> QED
    BY <2>4, <2>5, <2>6, <2>7, <2>8, <2>9
<1>7. \A q \in Peers : \A i \in DOMAIN log'[q] : Sound(log[q][i])'
  BY <1>3 DEF Sound
<1>8. \A q \in Peers : \A i \in DOMAIN log'[q] :
        log'[q][i].kind = "joined" => log'[q][i].from # q
  BY <1>1 DEF IInv, LogInv
<1> QED
  BY <1>4, <1>5, <1>6, <1>7, <1>8 DEF LogInv

-----------------------------------------------------------------------------
(* The threads.                                                            *)

LEMMA InitIInv ==
  ASSUME Init
  PROVE  IInv
<1>1. NoMessage \in AnyMessage
  BY DEF NoMessage, Message, AnyMessage, Kinds
<1>2. Typed
  BY <1>1 DEF Init, Typed, Labels
<1>3. ThreadInv
  BY DEF Init, ThreadInv
<1>4. \A q \in Peers : DOMAIN log[q] = {} /\ lost[q] = {}
  BY DEF Init
<1>5. LogInv /\ EventsInSameOrder
  BY <1>4 DEF LogInv, EventsInSameOrder
<1>6. GapInv
  BY <1>4 DEF Init, GapInv, Seen
<1> QED
  BY <1>2, <1>3, <1>5, <1>6 DEF IInv

\* What every step does to the threads: one moves, and takes up a message of
\* its own peer under a new number, or goes on with the one it has, or none.
Threads(p) ==
  /\ \E label \in Labels \ {"out"} : pc' = [pc EXCEPT ![p] = label]
  /\ pc[p] # "left"
  /\ pc'[p] = "hello" => pc[p] \in {"out", "hello"}
  /\ sends' \in Nat /\ sends' >= sends
  /\ \/ carried' = carried /\ (pc'[p] = "relay" => pc[p] = "relay")
     \/ \E m \in AnyMessage :
          /\ carried' = [carried EXCEPT ![p] = m]
          /\ pc'[p] = "relay" => m.kind = "msg" /\ m.from = p /\ m.n = sends'
  /\ nextEvent' \in Nat /\ nextEvent' >= nextEvent
  /\ members' \subseteq members \union {p}
  /\ pc'[p] = "left" => p \notin members'

\* The easiest step of the threads: one that takes up no new message.
LEMMA Moves ==
  ASSUME IInv, NEW p \in Peers, NEW label \in Labels \ {"out", "relay"},
         pc[p] # "left", label = "hello" => pc[p] = "out",
         pc' = [pc EXCEPT ![p] = label],
         \/ carried' = carried
         \/ \E m \in AnyMessage : carried' = [carried EXCEPT ![p] = m],
         sends' \in {sends, sends + 1}, nextEvent' \in {nextEvent, nextEvent + 1},
         members' \subseteq members \union {p},
         label = "left" => p \notin members'
  PROVE  Threads(p)
<1>1. sends \in Nat /\ nextEvent \in Nat /\ pc \in [Peers -> Labels]
  BY DEF IInv, Typed
<1>2. pc'[p] = label /\ pc'[p] # "relay"
  BY <1>1
<1>3. /\ sends' \in Nat /\ sends' >= sends
      /\ nextEvent' \in Nat /\ nextEvent' >= nextEvent
  BY <1>1
<1>4. \E l \in Labels \ {"out"} : pc' = [pc EXCEPT ![p] = l]
  OBVIOUS
<1>5. \/ carried' = carried /\ (pc'[p] = "relay" => pc[p] = "relay")
      \/ \E m \in AnyMessage :
           /\ carried' = [carried EXCEPT ![p] = m]
           /\ pc'[p] = "relay" => m.kind = "msg" /\ m.from = p /\ m.n = sends'
  BY <1>2
<1>6. /\ pc'[p] = "left" => p \notin members'
      /\ pc'[p] = "hello" => pc[p] \in {"out", "hello"}
  BY <1>2
<1> QED
  BY <1>3, <1>4, <1>5, <1>6 DEF Threads

\* What that means for the variables of the threads.
LEMMA ThreadsMove ==
  ASSUME IInv, NEW p \in Peers, Threads(p)
  PROVE  /\ members' \subseteq Peers
         /\ nextEvent' \in Nat
         /\ pc' \in [Peers -> Labels]
         /\ carried' \in [Peers -> AnyMessage]
         /\ sends' \in Nat
         /\ Forward
         /\ ThreadInv'
<1>1. /\ members \subseteq Peers /\ pc \in [Peers -> Labels]
      /\ carried \in [Peers -> AnyMessage]
      /\ sends \in Nat /\ nextEvent \in Nat
  BY DEF IInv, Typed
<1>2. PICK label \in Labels \ {"out"} : pc' = [pc EXCEPT ![p] = label]
  BY DEF Threads
<1>3. /\ pc' \in [Peers -> Labels]
      /\ pc'[p] # "out"
      /\ \A q \in Peers \ {p} : pc'[q] = pc[q]
  BY <1>1, <1>2
<1>4. /\ carried' \in [Peers -> AnyMessage]
      /\ \A q \in Peers \ {p} : carried'[q] = carried[q]
  BY <1>1 DEF Threads
<1>5. /\ \A q \in Peers : carried[q].n \in Nat /\ carried'[q].n \in Nat
      /\ sends' \in Nat /\ sends' >= sends
  BY <1>1, <1>4 DEF AnyMessage, Threads
<1>6. pc'[p] = "relay" =>
        /\ carried'[p].kind = "msg"
        /\ carried'[p].from = p
        /\ carried'[p].n <= sends'
        /\ \/ pc[p] = "relay" /\ carried'[p].n = carried[p].n
           \/ carried'[p].n >= sends
  <2> SUFFICES ASSUME pc'[p] = "relay"
               PROVE  /\ carried'[p].kind = "msg"
                      /\ carried'[p].from = p
                      /\ carried'[p].n <= sends'
                      /\ \/ pc[p] = "relay" /\ carried'[p].n = carried[p].n
                         \/ carried'[p].n >= sends
    OBVIOUS
  <2>1. CASE carried' = carried /\ pc[p] = "relay"
    BY <1>1, <1>5, <2>1 DEF IInv, ThreadInv
  <2>2. CASE \E m \in AnyMessage :
               /\ carried' = [carried EXCEPT ![p] = m]
               /\ m.kind = "msg" /\ m.from = p /\ m.n = sends'
    BY <1>1, <1>5, <2>2
  <2> QED
    BY <2>1, <2>2 DEF Threads
<1>7. Forward
  <2>1. \A q \in Peers : /\ pc[q] # "out" => pc'[q] # "out"
                         /\ pc[q] = "left" => pc'[q] = "left"
                         /\ pc'[q] = "hello" => pc[q] \in {"out", "hello"}
    BY <1>3 DEF Threads
  <2>2. \A q \in Peers : pc'[q] = "relay" =>
          \/ pc[q] = "relay" /\ carried'[q].n = carried[q].n
          \/ carried'[q].n >= sends
    BY <1>3, <1>4, <1>6
  <2> QED
    BY <2>1, <2>2 DEF Forward, Threads
<1>8. ThreadInv'
  <2>1. \A q \in Peers : pc'[q] = "relay" =>
          /\ carried'[q].kind = "msg"
          /\ carried'[q].from = q
          /\ carried'[q].n <= sends'
    <3> SUFFICES ASSUME NEW q \in Peers, q # p, pc'[q] = "relay"
                 PROVE  /\ carried'[q].kind = "msg"
                        /\ carried'[q].from = q
                        /\ carried'[q].n <= sends'
      BY <1>6
    <3>1. /\ carried[q].kind = "msg" /\ carried[q].from = q
          /\ carried[q].n <= sends
      BY <1>3 DEF IInv, ThreadInv
    <3> QED
      BY <1>1, <1>4, <1>5, <3>1
  <2>2. \A q \in members' : pc'[q] \notin {"out", "left"}
    BY <1>1, <1>3 DEF Threads, IInv, ThreadInv
  <2> QED
    BY <2>1, <2>2 DEF ThreadInv
<1> QED
  BY <1>1, <1>3, <1>4, <1>5, <1>7, <1>8 DEF Threads

-----------------------------------------------------------------------------
(* A step keeps IInv if it posts nothing, or what follows on the rest.      *)

LEMMA QuietKeeps ==
  ASSUME IInv, NEW p \in Peers, Threads(p),
         UNCHANGED <<sessionVars, queueVars>>
  PROVE  IInv'
<1>1. /\ members' = members /\ host' = host /\ nextEvent' = nextEvent
      /\ log' = log /\ lost' = lost
  BY DEF sessionVars, queueVars
<1>2. Forward /\ ThreadInv'
  BY ThreadsMove
<1>3. Typed'
  BY <1>1, ThreadsMove DEF IInv, Typed
<1>4. LogInv' /\ EventsInSameOrder'
  BY <1>2, <1>3, QuietLog DEF queueVars
<1>5. GapInv'
  BY <1>1, <1>2 DEF IInv, GapInv, Seen, Forward
<1> QED
  BY <1>2, <1>3, <1>4, <1>5 DEF IInv

LEMMA PostKeeps ==
  ASSUME IInv, NEW p \in Peers, Threads(p), host' \in {Host, None},
         nextEvent' = nextEvent,
         \A q \in members' \ members : pc[q] = "out",
         NEW targets, NEW m \in AnyMessage,
         Post(targets, m), Sound(m)', m.kind # "event",
         m.kind = "joined" => m.from \notin targets,
         \A q \in Peers \intersect targets :
           \A i \in DOMAIN log[q] : Follows(log[q][i], m)
  PROVE  IInv'
<1>1. Forward /\ ThreadInv'
  BY ThreadsMove
<1>2. Typed
  BY DEF IInv
<1>3. log' \in [Peers -> Seq(AnyMessage)] /\ lost' \in [Peers -> SUBSET AnyMessage]
  BY <1>2, Posted
<1>4. Typed'
  BY <1>3, ThreadsMove DEF Typed
<1>5. LogInv' /\ EventsInSameOrder'
  BY <1>1, <1>4, PostedLog
<1>6. \A q \in Peers, k \in Nat : Seen(q, k)' <=> Seen(q, k)
  <2> SUFFICES ASSUME NEW q \in Peers, NEW k \in Nat
               PROVE  Seen(q, k)' <=> Seen(q, k)
    OBVIOUS
  <2>1. Seen(q, k)' <=> \/ Seen(q, k)
                        \/ q \in targets /\ m.kind = "event" /\ m.n = k
    BY <1>2, SeenAfter
  <2> QED
    BY <2>1
<1>7. GapInv'
  <2>1. \A q \in Peers, k \in Nat : pc'[q] = "out" => ~Seen(q, k)'
    BY <1>1, <1>6 DEF IInv, GapInv, Forward
  <2>2. \A q \in members', k \in Nat, n \in Nat :
          Seen(q, k)' /\ k <= n /\ n < nextEvent' => Seen(q, n)'
    <3> SUFFICES ASSUME NEW q \in members', NEW k \in Nat, NEW n \in Nat,
                        Seen(q, k)', k <= n, n < nextEvent'
                 PROVE  Seen(q, n)'
      OBVIOUS
    <3>1. q \in Peers
      BY <1>4 DEF Typed
    <3>2. Seen(q, k)
      BY <1>6, <3>1
    <3>3. q \in members
      BY <3>1, <3>2 DEF IInv, GapInv
    <3>4. Seen(q, n)
      BY <3>2, <3>3 DEF IInv, GapInv
    <3> QED
      BY <1>6, <3>1, <3>4
  <2> QED
    BY <2>1, <2>2 DEF GapInv
<1> QED
  BY <1>1, <1>4, <1>5, <1>7 DEF IInv

-----------------------------------------------------------------------------
(* The actions.                                                            *)

\* What the posted messages are, and what there was of their senders before.
LEMMA Known ==
  ASSUME IInv
  PROVE  /\ \A q \in Peers : \A i \in DOMAIN log[q] :
              /\ log[q][i] \in AnyMessage /\ log[q][i].n \in Nat
              /\ Sound(log[q][i])
         /\ \A p \in Peers : pc[p] \in Labels /\ carried[p] \in AnyMessage
         /\ sends \in Nat /\ nextEvent \in Nat
<1>1. \A q \in Peers : \A i \in DOMAIN log[q] : log[q][i] \in AnyMessage
  BY DEF IInv, Typed
<1>2. \A q \in Peers : \A i \in DOMAIN log[q] : log[q][i].n \in Nat
  BY <1>1 DEF AnyMessage
<1>3. \A q \in Peers : \A i \in DOMAIN log[q] : Sound(log[q][i])
  BY DEF IInv, LogInv
<1> QED
  BY <1>1, <1>2, <1>3 DEF IInv, Typed

\* A message that says no more than that its sender did something.
LEMMA Notice ==
  ASSUME NEW p \in Peers, NEW kind \in {"joined", "hello", "left"}
  PROVE  /\ Message(kind, p, 0) \in AnyMessage
         /\ Message(kind, p, 0).kind = kind
         /\ Message(kind, p, 0).from = p
  BY DEF Message, AnyMessage, Kinds

LEMMA AddPeerKeeps ==
  ASSUME IInv, NEW p \in Peers, AddPeer(p)
  PROVE  IInv'
<1>1. Threads(p)
  BY Moves DEF AddPeer, Go, Labels
<1>2. /\ host' \in {Host, None} /\ nextEvent' = nextEvent
      /\ \A q \in members' \ members : pc[q] = "out"
  BY DEF AddPeer, IsHost, IInv, Typed
<1>3. CASE IsHost(p)
  <2>1. log' = log /\ lost' = lost
    BY <1>3 DEF AddPeer, queueVars
  <2>2. Forward /\ ThreadInv'
    BY <1>1, ThreadsMove
  <2>3. Typed'
    BY <1>1, <1>2, <2>1, ThreadsMove DEF IInv, Typed
  <2>4. LogInv' /\ EventsInSameOrder'
    BY <2>1, <2>2, <2>3, QuietLog DEF queueVars
  <2>5. GapInv'
    <3>1. \A q, k : Seen(q, k)' <=> Seen(q, k)
      BY <2>1 DEF Seen
    <3>2. members \subseteq Peers /\ members' = members \union {p}
      BY DEF AddPeer, IInv, Typed
    <3>3. \A k \in Nat : ~Seen(p, k)
      BY DEF IInv, GapInv, AddPeer
    <3> QED
      BY <1>2, <2>2, <3>1, <3>2, <3>3 DEF IInv, GapInv, Forward
  <2> QED
    BY <2>2, <2>3, <2>4, <2>5 DEF IInv
<1>4. CASE ~IsHost(p)
  <2> DEFINE m == Message("joined", p, 0)
  <2>1. m \in AnyMessage /\ m.kind = "joined" /\ m.from = p
    BY Notice
  <2>2. Post(HostIfAny, m)
    BY <1>4 DEF AddPeer
  <2>3. pc[p] = "out" /\ pc'[p] = "hello"
    BY DEF AddPeer, Go, IInv, Typed
  <2> HIDE DEF m
  <2>4. Sound(m)'
    BY <2>1, <2>3 DEF Sound
  <2>5. \A q \in Peers : \A i \in DOMAIN log[q] : Follows(log[q][i], m)
    BY <2>1, <2>3, Known DEF Sound, Follows
  <2>6. m.from \notin HostIfAny
    BY <1>4, <2>1 DEF HostIfAny, IsHost, IInv, Typed
  <2> QED
    BY <1>1, <1>2, <2>1, <2>2, <2>4, <2>5, <2>6, PostKeeps
<1> QED
  BY <1>3, <1>4

LEMMA SayHelloKeeps ==
  ASSUME IInv, NEW p \in Peers, SayHello(p)
  PROVE  IInv'
<1> DEFINE m == Message("hello", p, 0)
<1>1. pc[p] = "hello" /\ pc' = [pc EXCEPT ![p] = "ready"] /\ pc'[p] = "ready"
  BY DEF SayHello, Go, IInv, Typed
<1>2. Threads(p)
  BY <1>1, Moves DEF SayHello, sessionVars, Go, Labels
<1>3. /\ host' \in {Host, None} /\ nextEvent' = nextEvent
      /\ \A q \in members' \ members : pc[q] = "out"
  BY DEF SayHello, sessionVars, IInv, Typed
<1>4. m \in AnyMessage /\ m.kind = "hello" /\ m.from = p
  BY Notice
<1>5. Post({p}, m)
  BY DEF SayHello
<1> HIDE DEF m
<1>6. Sound(m)'
  BY <1>1, <1>4 DEF Sound
<1>7. \A q \in Peers \intersect {p} :
        \A i \in DOMAIN log[q] : Follows(log[q][i], m)
  <2> SUFFICES ASSUME NEW i \in DOMAIN log[p] PROVE Follows(log[p][i], m)
    OBVIOUS
  <2>1. log[p][i].from # p
    BY <1>1, Known DEF Sound, IInv, LogInv
  <2> QED
    BY <1>4, <2>1 DEF Follows
<1> QED
  BY <1>2, <1>3, <1>4, <1>5, <1>6, <1>7, PostKeeps

LEMMA RemovePeerKeeps ==
  ASSUME IInv, NEW p \in Peers, RemovePeer(p)
  PROVE  IInv'
<1>1. pc[p] = "closing" /\ pc' = [pc EXCEPT ![p] = "left"] /\ pc'[p] = "left"
  BY DEF RemovePeer, Go, IInv, Typed
<1>2. Threads(p)
  BY <1>1, Moves DEF RemovePeer, Others, Go, Labels
<1>3. /\ host' \in {Host, None} /\ nextEvent' = nextEvent
      /\ \A q \in members' \ members : pc[q] = "out"
  BY DEF RemovePeer, Others, IInv, Typed
<1>4. CASE host = p
  <2>1. log' = log /\ lost' = lost /\ members' \subseteq members
    BY <1>4, MessagesAssumption DEF RemovePeer, Others, queueVars
  <2>2. Forward /\ ThreadInv'
    BY <1>2, ThreadsMove
  <2>3. Typed'
    BY <1>2, <1>3, <2>1, ThreadsMove DEF IInv, Typed
  <2>4. LogInv' /\ EventsInSameOrder'
    BY <2>1, <2>2, <2>3, QuietLog DEF queueVars
  <2>5. GapInv'
    <3>1. \A q, k : Seen(q, k)' <=> Seen(q, k)
      BY <2>1 DEF Seen
    <3> QED
      BY <1>3, <2>1, <2>2, <3>1 DEF IInv, GapInv, Forward
  <2> QED
    BY <2>2, <2>3, <2>4, <2>5 DEF IInv
<1>5. CASE host # p
  <2> DEFINE m == Message("left", p, 0)
  <2>1. m \in AnyMessage /\ m.kind = "left" /\ m.from = p
    BY Notice
  <2>2. Post(HostIfAny, m)
    BY <1>5 DEF RemovePeer
  <2> HIDE DEF m
  <2>3. Sound(m)'
    BY <1>1, <2>1 DEF Sound
  <2>4. \A q \in Peers : \A i \in DOMAIN log[q] : Follows(log[q][i], m)
    BY <1>1, <2>1, Known DEF Sound, Follows
  <2> QED
    BY <1>2, <1>3, <2>1, <2>2, <2>3, <2>4, PostKeeps
<1> QED
  BY <1>4, <1>5

\* What NextTarget does to the thread, in RelayNext and KickNext.
LEMMA NextTargetMoves ==
  ASSUME IInv, NEW p \in Peers, NextTarget(p), pc[p] \notin {"out", "left"},
         sends' = sends, nextEvent' = nextEvent, members' = members
  PROVE  /\ Threads(p)
         /\ pc'[p] = "relay" => carried' = carried
         /\ pc'[p] # "left"
<1>1. CASE UNCHANGED <<carried, pc>>
  <2>1. /\ pc[p] \in Labels \ {"out"} /\ pc' = [pc EXCEPT ![p] = pc[p]]
        /\ sends \in Nat /\ nextEvent \in Nat /\ pc' = pc
    BY <1>1 DEF IInv, Typed
  <2>2. \E label \in Labels \ {"out"} : pc' = [pc EXCEPT ![p] = label]
    BY <2>1
  <2>3. /\ sends' \in Nat /\ sends' >= sends
        /\ nextEvent' \in Nat /\ nextEvent' >= nextEvent
    BY <2>1
  <2> QED
    BY <1>1, <2>1, <2>2, <2>3 DEF Threads
<1>2. CASE Return(p)
  <2>1. NoMessage \in AnyMessage
    BY DEF NoMessage, Message, AnyMessage, Kinds
  <2>2. /\ pc' = [pc EXCEPT ![p] = "ready"] /\ pc'[p] = "ready"
        /\ carried' = [carried EXCEPT ![p] = NoMessage]
    BY <1>2 DEF Return, Go, IInv, Typed
  <2>3. Threads(p)
    BY <2>1, <2>2, Moves DEF Labels
  <2> QED
    BY <2>2, <2>3
<1> QED
  BY <1>1, <1>2 DEF NextTarget

LEMMA RelayNextKeeps ==
  ASSUME IInv, NEW p \in Peers, RelayNext(p)
  PROVE  IInv'
<1> DEFINE m == carried[p]
<1>1. /\ pc[p] = "relay" /\ NextTarget(p) /\ sends' = sends
      /\ members' = members /\ host' = host /\ nextEvent' = nextEvent
  BY DEF RelayNext, sessionVars
<1>2. Threads(p) /\ (pc'[p] = "relay" => carried' = carried)
  BY <1>1, NextTargetMoves
<1>3. CASE UNCHANGED queueVars
  BY <1>1, <1>2, <1>3, QuietKeeps DEF sessionVars
<1>4. CASE Post({Head(todo[p])}, m)
  <2>2. /\ m \in AnyMessage /\ m.kind = "msg" /\ m.from = p /\ m.n <= sends
        /\ m.n \in Nat
    BY <1>1, Known DEF IInv, ThreadInv, AnyMessage
  <2>3. /\ host' \in {Host, None}
        /\ \A q \in members' \ members : pc[q] = "out"
    BY <1>1 DEF IInv, Typed
  <2>4. pc'[p] # "out"
    BY <1>1, <1>2, ThreadsMove DEF Forward
  <2>5. pc'[p] = "relay" => m.n <= carried'[p].n
    BY <1>2, <2>2
  <2>6. \A q \in Peers : \A i \in DOMAIN log[q] : Follows(log[q][i], m)
    BY <1>1, <2>2, Known DEF Sound, Follows
  <2>0. pc'[p] # "hello"
    BY <1>1, <1>2 DEF Threads
  <2>7. \A x : x = m => Sound(x)'
    BY <1>1, <2>2, <2>4, <2>5, <2>0 DEF Sound
  <2>8. ASSUME NEW x \in AnyMessage, x = m
        PROVE  IInv'
    <3>1. /\ Post({Head(todo[p])}, x) /\ Sound(x)'
          /\ x.kind # "event" /\ x.kind # "joined"
      BY <1>4, <2>2, <2>7, <2>8
    <3>2. \A q \in Peers : \A i \in DOMAIN log[q] : Follows(log[q][i], x)
      BY <2>6, <2>8
    <3> QED
      BY <1>1, <1>2, <2>3, <3>1, <3>2, PostKeeps
  <2> QED
    BY <2>2, <2>8
<1> QED
  BY <1>3, <1>4 DEF RelayNext

\* A handler that takes up a message, or goes to another place without one.
LEMMA TakesUp ==
  ASSUME IInv, NEW p \in Peers, Handle(p),
         UNCHANGED <<sessionVars, queueVars>>,
         \/ UNCHANGED <<pc, carried>>
         \/ \E targets : Relay(p, "relay", targets, Message("msg", p, sends'))
  PROVE  IInv'
<1>1. /\ pc[p] = "ready" /\ sends' = sends + 1
      /\ members' = members /\ nextEvent' = nextEvent
  BY DEF Handle, sessionVars
<1>2. /\ sends \in Nat /\ nextEvent \in Nat /\ pc \in [Peers -> Labels]
  BY DEF IInv, Typed
<1>3. CASE UNCHANGED <<pc, carried>>
  <2>1. pc' = [pc EXCEPT ![p] = "ready"]
    BY <1>1, <1>2, <1>3
  <2>2. Threads(p)
    BY <1>1, <1>3, <2>1, Moves DEF Labels
  <2> QED
    BY <2>2, QuietKeeps
<1>4. CASE \E targets : Relay(p, "relay", targets, Message("msg", p, sends'))
  <2> DEFINE m == Message("msg", p, sends')
  <2>1. /\ pc' = [pc EXCEPT ![p] = "relay"] /\ pc'[p] = "relay"
        /\ carried' = [carried EXCEPT ![p] = m]
    BY <1>2, <1>4 DEF Relay, Go
  <2>2. m \in AnyMessage /\ m.kind = "msg" /\ m.from = p /\ m.n = sends'
    BY <1>1, <1>2 DEF Message, AnyMessage, Kinds
  <2> HIDE DEF m
  <2>3. \E label \in Labels \ {"out"} : pc' = [pc EXCEPT ![p] = label]
    BY <2>1 DEF Labels
  <2>4. /\ sends' \in Nat /\ sends' >= sends
        /\ nextEvent' \in Nat /\ nextEvent' >= nextEvent
    BY <1>1, <1>2
  <2>5. \E x \in AnyMessage :
          /\ carried' = [carried EXCEPT ![p] = x]
          /\ pc'[p] = "relay" => x.kind = "msg" /\ x.from = p /\ x.n = sends'
    BY <2>1, <2>2
  <2>6. /\ pc[p] # "left" /\ pc'[p] \notin {"left", "hello"}
        /\ members' \subseteq members \union {p}
    BY <1>1, <2>1
  <2>7. Threads(p)
    BY <2>3, <2>4, <2>5, <2>6 DEF Threads
  <2> QED
    BY <2>7, QuietKeeps
<1> QED
  BY <1>3, <1>4

LEMMA HandlersKeep ==
  ASSUME IInv, NEW p \in Peers,
         \/ HandleOther(p)
         \/ HandleBroadcast(p)
         \/ HandleDirectMessage(p)
         \/ HandleClientMessage(p)
  PROVE  IInv'
<1>1. CASE HandleOther(p)
  BY <1>1, TakesUp DEF HandleOther, threadVars
<1>2. CASE HandleBroadcast(p)
  BY <1>2, TakesUp DEF HandleBroadcast
<1>3. CASE HandleDirectMessage(p)
  BY <1>3, TakesUp DEF HandleDirectMessage
<1>4. CASE HandleClientMessage(p)
  BY <1>4, TakesUp DEF HandleClientMessage, threadVars
<1> QED
  BY <1>1, <1>2, <1>3, <1>4

LEMMA HandleSynchronizedEventKeeps ==
  ASSUME IInv, NEW p \in Peers, HandleSynchronizedEvent(p)
  PROVE  IInv'
<1>1. /\ pc[p] = "ready" /\ sends' = sends + 1 /\ nextEvent' = nextEvent + 1
      /\ members' = members /\ host' = host
      /\ pc' = pc /\ carried' = carried
      /\ Post(members, Message("event", p, nextEvent))
  BY DEF HandleSynchronizedEvent, Handle, NextEvent, EventTargets, threadVars
<1>2. /\ sends \in Nat /\ nextEvent \in Nat /\ pc \in [Peers -> Labels]
      /\ members \subseteq Peers /\ Typed
  BY DEF IInv, Typed
<1>3. PICK m \in AnyMessage :
        /\ Post(members, m)
        /\ m.kind = "event" /\ m.from = p /\ m.n = nextEvent
  <2>1. /\ Message("event", p, nextEvent) \in AnyMessage
        /\ Message("event", p, nextEvent).kind = "event"
        /\ Message("event", p, nextEvent).from = p
        /\ Message("event", p, nextEvent).n = nextEvent
    BY <1>2 DEF Message, AnyMessage, Kinds
  <2> QED
    BY <1>1, <2>1
<1>4. Threads(p)
  <2>1. pc' = [pc EXCEPT ![p] = "ready"]
    BY <1>1, <1>2
  <2> QED
    BY <1>1, <2>1, Moves DEF Labels
<1>5. Forward /\ ThreadInv'
  BY <1>4, ThreadsMove
<1>6. log' \in [Peers -> Seq(AnyMessage)] /\ lost' \in [Peers -> SUBSET AnyMessage]
  BY <1>1, <1>2, <1>3, Posted
<1>7. Typed'
  BY <1>1, <1>4, <1>6, ThreadsMove DEF IInv, Typed
<1>8. Sound(m)'
  BY <1>1, <1>2, <1>3 DEF Sound
<1>9. \A q \in Peers : \A i \in DOMAIN log[q] : Follows(log[q][i], m)
  BY <1>1, <1>3, Known DEF Sound, Follows
<1>10. m.kind = "event" => m.n >= nextEvent
  BY <1>2, <1>3
<1>11. LogInv' /\ EventsInSameOrder'
  BY <1>1, <1>3, <1>5, <1>7, <1>8, <1>9, <1>10, PostedLog
<1>12. \A q \in Peers, k \in Nat :
         Seen(q, k)' <=> (Seen(q, k) \/ (q \in members /\ k = nextEvent))
  <2> SUFFICES ASSUME NEW q \in Peers, NEW k \in Nat
               PROVE  Seen(q, k)' <=> (Seen(q, k) \/ (q \in members /\ k = nextEvent))
    OBVIOUS
  <2>1. Seen(q, k)' <=> \/ Seen(q, k)
                        \/ q \in members /\ m.kind = "event" /\ m.n = k
    BY <1>1, <1>2, <1>3, SeenAfter
  <2>2. m.kind = "event" /\ (m.n = k <=> k = nextEvent)
    BY <1>3
  <2> QED
    BY <2>1, <2>2
<1>13. GapInv'
  <2>1. \A q \in Peers, k \in Nat : pc'[q] = "out" => ~Seen(q, k)'
    BY <1>1, <1>12 DEF IInv, GapInv, ThreadInv
  <2>2. \A q \in members', k \in Nat, n \in Nat :
          Seen(q, k)' /\ k <= n /\ n < nextEvent' => Seen(q, n)'
    <3> SUFFICES ASSUME NEW q \in members, NEW k \in Nat, NEW n \in Nat,
                        Seen(q, k)', k <= n, n < nextEvent + 1
                 PROVE  Seen(q, n)'
      BY <1>1
    <3>1. q \in Peers
      BY <1>2
    <3>2. CASE n = nextEvent
      BY <1>12, <3>1, <3>2
    <3>3. CASE n < nextEvent
      <4>1. Seen(q, k)
        BY <1>2, <1>12, <3>1, <3>3
      <4> QED
        BY <1>12, <3>1, <3>3, <4>1 DEF IInv, GapInv
    <3> QED
      BY <1>2, <3>2, <3>3
  <2> QED
    BY <2>1, <2>2 DEF GapInv
<1> QED
  BY <1>5, <1>7, <1>11, <1>13 DEF IInv

\* Kicking, the end of a relay, and the end of a connection.
LEMMA OthersKeep ==
  ASSUME IInv, NEW p \in Peers,
         \/ HandleKickMessage(p)
         \/ ChooseKicked(p)
         \/ KickNext(p)
         \/ NoTarget(p)
         \/ DropPeer(p)
         \/ Close(p)
  PROVE  IInv'
<1>0. pc \in [Peers -> Labels] /\ sends \in Nat /\ nextEvent \in Nat
  BY DEF IInv, Typed
<1>1. CASE HandleKickMessage(p)
  <2>1. pc' = [pc EXCEPT ![p] = "mayKick"] \/ pc' = [pc EXCEPT ![p] = "ready"]
    BY <1>0, <1>1 DEF HandleKickMessage, Handle, Go
  <2>2. /\ carried' = carried /\ pc[p] # "left"
        /\ sends' \in {sends, sends + 1}
        /\ UNCHANGED <<sessionVars, queueVars>>
    BY <1>1 DEF HandleKickMessage, Handle
  <2>3. nextEvent' = nextEvent /\ members' = members
    BY <2>2 DEF sessionVars
  <2>4. Threads(p)
    BY <2>1, <2>2, <2>3, Moves DEF Labels
  <2> QED
    BY <2>2, <2>4, QuietKeeps
<1>2. CASE ChooseKicked(p)
  <2>1. /\ pc' = [pc EXCEPT ![p] = "kick"] \/ pc' = [pc EXCEPT ![p] = "ready"]
        /\ \/ carried' = carried
           \/ carried' = [carried EXCEPT ![p] = Message("kicked", p, 0)]
    BY <1>2 DEF ChooseKicked, Relay, Go
  <2>2. Message("kicked", p, 0) \in AnyMessage
    BY DEF Message, AnyMessage, Kinds
  <2>3. /\ pc[p] # "left" /\ sends' = sends
        /\ UNCHANGED <<sessionVars, queueVars>>
    BY <1>2 DEF ChooseKicked
  <2>4. nextEvent' = nextEvent /\ members' = members
    BY <2>3 DEF sessionVars
  <2>5. Threads(p)
    BY <2>1, <2>2, <2>3, <2>4, Moves DEF Labels
  <2> QED
    BY <2>3, <2>5, QuietKeeps
<1>3. CASE KickNext(p)
  <2>1. /\ NextTarget(p) /\ pc[p] = "kick" /\ sends' = sends
        /\ UNCHANGED <<sessionVars, queueVars>>
    BY <1>3 DEF KickNext
  <2>2. nextEvent' = nextEvent /\ members' = members
    BY <2>1 DEF sessionVars
  <2>3. Threads(p)
    BY <2>1, <2>2, NextTargetMoves
  <2> QED
    BY <2>1, <2>3, QuietKeeps
<1>4. CASE NoTarget(p)
  <2>1. NoMessage \in AnyMessage
    BY DEF NoMessage, Message, AnyMessage, Kinds
  <2>2. /\ pc' = [pc EXCEPT ![p] = "ready"]
        /\ carried' = [carried EXCEPT ![p] = NoMessage]
        /\ pc[p] # "left" /\ sends' = sends
        /\ UNCHANGED <<sessionVars, queueVars>>
    BY <1>4 DEF NoTarget, Return, Go
  <2>3. nextEvent' = nextEvent /\ members' = members
    BY <2>2 DEF sessionVars
  <2>4. Threads(p)
    BY <2>1, <2>2, <2>3, Moves DEF Labels
  <2> QED
    BY <2>2, <2>4, QuietKeeps
<1>5. CASE DropPeer(p)
  <2>1. /\ pc' = pc /\ carried' = carried /\ sends' = sends /\ p \in members
        /\ UNCHANGED <<sessionVars, queueVars>>
    BY <1>5 DEF DropPeer, threadVars
  <2>2. nextEvent' = nextEvent /\ members' = members
    BY <2>1 DEF sessionVars
  <2>3. pc[p] \in Labels \ {"out", "left"} /\ pc' = [pc EXCEPT ![p] = pc[p]]
    BY <1>0, <2>1 DEF IInv, ThreadInv
  <2>4. \E label \in Labels \ {"out"} : pc' = [pc EXCEPT ![p] = label]
    BY <2>3
  <2>5. /\ sends' \in Nat /\ sends' >= sends
        /\ nextEvent' \in Nat /\ nextEvent' >= nextEvent
    BY <1>0, <2>1, <2>2
  <2>6. Threads(p)
    BY <2>1, <2>2, <2>3, <2>4, <2>5 DEF Threads
  <2> QED
    BY <2>1, <2>6, QuietKeeps
<1>6. CASE Close(p)
  <2>1. /\ pc' = [pc EXCEPT ![p] = "closing"] /\ carried' = carried
        /\ pc[p] # "left" /\ sends' = sends
        /\ UNCHANGED <<sessionVars, queueVars>>
    BY <1>6 DEF Close, Go
  <2>2. nextEvent' = nextEvent /\ members' = members
    BY <2>1 DEF sessionVars
  <2>3. Threads(p)
    BY <2>1, <2>2, Moves DEF Labels
  <2> QED
    BY <2>1, <2>3, QuietKeeps
<1> QED
  BY <1>1, <1>2, <1>3, <1>4, <1>5, <1>6

LEMMA StutterKeeps ==
  ASSUME IInv, UNCHANGED vars
  PROVE  IInv'
<1>1. /\ members' = members /\ host' = host /\ nextEvent' = nextEvent
      /\ log' = log /\ lost' = lost /\ pc' = pc /\ carried' = carried
      /\ sends' = sends
  BY DEF vars, sessionVars, queueVars, threadVars
<1> QED
  BY <1>1 DEF IInv, Typed, ThreadInv, LogInv, Sound, Follows,
              EventsInSameOrder, GapInv, Seen

LEMMA StepIInv ==
  ASSUME IInv, [Next]_vars
  PROVE  IInv'
<1>1. ASSUME NEW p \in Peers,
             \/ AddPeer(p)
             \/ HandleMessage(p)
             \/ Continue(p)
             \/ DropPeer(p)
             \/ Close(p)
      PROVE  IInv'
  <2>1. CASE AddPeer(p)
    BY <2>1, AddPeerKeeps
  <2>2. CASE HandleMessage(p)
    BY <2>2, HandlersKeep, HandleSynchronizedEventKeeps, OthersKeep
       DEF HandleMessage
  <2>3. CASE Continue(p)
    BY <2>3, SayHelloKeeps, RelayNextKeeps, RemovePeerKeeps, OthersKeep
       DEF Continue
  <2>4. CASE DropPeer(p) \/ Close(p)
    BY <2>4, OthersKeep
  <2> QED
    BY <1>1, <2>1, <2>2, <2>3, <2>4
<1> QED
  BY <1>1, StutterKeeps DEF Next

\* The strengthening from which the orders follow.
LEMMA Inductive == Spec => []IInv
<1>1. Init => IInv
  BY InitIInv
<1>2. IInv /\ [Next]_vars => IInv'
  BY StepIInv
<1> QED
  BY <1>1, <1>2, PTL DEF Spec

-----------------------------------------------------------------------------
(* The other variables, and who kicks.                                     *)

\* A handler that may kick is the host's: the host changes only when it joins
\* or leaves, and its thread does neither while it handles a message.
KickInv == \A p \in Peers : pc[p] \in {"mayKick", "kick"} => host = p

RestInv ==
  /\ IsFiniteSet(members)
  /\ sockets \subseteq Peers
  /\ kicked \subseteq Peers
  /\ todo \in [Peers -> Seq(Peers)]
  /\ KickInv

LEMMA TailOf ==
  ASSUME NEW S, NEW q \in Seq(S), q # <<>>
  PROVE  /\ Head(q) \in S
         /\ Tail(q) \in Seq(S)
         /\ Tail(q) # q
  OBVIOUS

\* An order of m_peers is a sequence of peers.
LEMMA OrdersTyped ==
  ASSUME IsFiniteSet(members), members \subseteq Peers
  PROVE  GetAllPeers \subseteq Seq(Peers)
<1>1. Cardinality(members) \in Nat
  BY FS_CardinalityType
<1>2. \A f \in [1 .. Cardinality(members) -> members] : f \in Seq(Peers)
  BY <1>1
<1> QED
  BY <1>2 DEF GetAllPeers, SetToSeqs

LEMMA InitRest == Init => RestInv
  BY FS_EmptySet DEF Init, RestInv, KickInv

\* Only the thread of one peer moves, and only those that come and go change
\* m_peers.
LEMMA AddPeerRest ==
  ASSUME IInv, RestInv, NEW p \in Peers, AddPeer(p)
  PROVE  RestInv'
<1>1. /\ pc[p] = "out" /\ pc' = [pc EXCEPT ![p] = "hello"]
      /\ members' = members \union {p}
      /\ UNCHANGED <<sockets, kicked, todo>>
      /\ (p = Host /\ host' = p) \/ host' = host
  BY DEF AddPeer, Go, IsHost, kickVars
<1>2. /\ pc \in [Peers -> Labels] /\ host \in {Host, None} /\ None \notin Peers
  BY MessagesAssumption DEF IInv, Typed
<1>3. IsFiniteSet(members')
  BY <1>1, FS_AddElement DEF RestInv
<1>4. ASSUME NEW q \in Peers, pc'[q] \in {"mayKick", "kick"}
      PROVE  host' = q
  <2>1. q # p /\ pc[q] = pc'[q]
    BY <1>1, <1>2, <1>4
  <2>2. host = q
    BY <1>4, <2>1 DEF RestInv, KickInv
  <2> QED
    BY <1>1, <1>2, <2>1, <2>2
<1> QED
  BY <1>1, <1>3, <1>4 DEF RestInv, KickInv

LEMMA RemovePeerRest ==
  ASSUME IInv, RestInv, NEW p \in Peers, RemovePeer(p)
  PROVE  RestInv'
<1>1. /\ pc[p] = "closing" /\ pc' = [pc EXCEPT ![p] = "left"]
      /\ members' = members \ {p}
      /\ UNCHANGED <<sockets, kicked, todo>>
      /\ host = p \/ host' = host
  BY DEF RemovePeer, Others, Go, kickVars
<1>2. pc \in [Peers -> Labels]
  BY DEF IInv, Typed
<1>3. IsFiniteSet(members')
  BY <1>1, FS_RemoveElement DEF RestInv
<1>4. ASSUME NEW q \in Peers, pc'[q] \in {"mayKick", "kick"}
      PROVE  host' = q
  <2>1. q # p /\ pc[q] = pc'[q]
    BY <1>1, <1>2, <1>4
  <2> QED
    BY <1>1, <1>4, <2>1 DEF RestInv, KickInv
<1> QED
  BY <1>1, <1>3, <1>4 DEF RestInv, KickInv

\* The steps that leave m_peers and m_host alone: what a thread needs to be
\* at a place from which it may kick.
LEMMA StayingRest ==
  ASSUME IInv, RestInv,
         members' = members, host' = host,
         sockets' \subseteq sockets, kicked' \subseteq kicked \union Peers,
         todo' \in [Peers -> Seq(Peers)],
         \A q \in Peers : pc'[q] \in {"mayKick", "kick"} =>
                             pc'[q] = pc[q] \/ host = q
  PROVE  RestInv'
  BY DEF RestInv, KickInv

LEMMA HandlersRest ==
  ASSUME IInv, RestInv, NEW p \in Peers, HandleMessage(p)
  PROVE  RestInv'
<1> USE DEF Handle, Relay, Go, sessionVars, queueVars, kickVars, threadVars
<1>0. pc \in [Peers -> Labels] /\ todo \in [Peers -> Seq(Peers)]
  BY DEF IInv, Typed, RestInv
<1>1. CASE HandleOther(p) \/ HandleSynchronizedEvent(p)
  <2>1. /\ members' = members /\ host' = host /\ sockets' = sockets
        /\ kicked' = kicked /\ todo' = todo /\ pc' = pc
    BY <1>1 DEF HandleOther, HandleSynchronizedEvent
  <2> QED
    BY <1>0, <2>1, StayingRest
<1>2. CASE HandleBroadcast(p)
  <2>1. PICK order \in GetAllPeers :
          /\ todo' = [todo EXCEPT ![p] = order]
          /\ pc' = [pc EXCEPT ![p] = "relay"]
    BY <1>2 DEF HandleBroadcast
  <2>2. order \in Seq(Peers)
    BY OrdersTyped DEF IInv, Typed, RestInv
  <2>3. /\ members' = members /\ host' = host /\ sockets' = sockets
        /\ kicked' = kicked
    BY <1>2 DEF HandleBroadcast
  <2>4. /\ todo' \in [Peers -> Seq(Peers)]
        /\ \A q \in Peers : pc'[q] \in {"mayKick", "kick"} =>
                             pc'[q] = pc[q] \/ host = q
    BY <1>0, <2>1, <2>2
  <2> QED
    BY <2>3, <2>4, StayingRest
<1>3. CASE HandleDirectMessage(p)
  <2>1. PICK ids \in IdLists :
          /\ todo' = [todo EXCEPT ![p] = GetPeers(ids)]
          /\ pc' = [pc EXCEPT ![p] = "relay"]
    BY <1>3 DEF HandleDirectMessage
  <2>2. GetPeers(ids) \in Seq(Peers)
    BY GetPeersTyped DEF IInv, Typed
  <2>3. /\ members' = members /\ host' = host /\ sockets' = sockets
        /\ kicked' = kicked
    BY <1>3 DEF HandleDirectMessage
  <2>4. /\ todo' \in [Peers -> Seq(Peers)]
        /\ \A q \in Peers : pc'[q] \in {"mayKick", "kick"} =>
                             pc'[q] = pc[q] \/ host = q
    BY <1>0, <2>1, <2>2
  <2> QED
    BY <2>3, <2>4, StayingRest
<1>4. CASE HandleClientMessage(p)
  <2>1. /\ members' = members /\ host' = host /\ sockets' = sockets
        /\ kicked' = kicked
    BY <1>4 DEF HandleClientMessage
  <2>2. CASE host \notin {None, p} /\ Relay(p, "relay", <<host>>, Message("msg", p, sends'))
    <3>1. <<host>> \in Seq(Peers)
      BY <2>2, MessagesAssumption DEF IInv, Typed
    <3>2. /\ todo' = [todo EXCEPT ![p] = <<host>>]
          /\ pc' = [pc EXCEPT ![p] = "relay"]
      BY <2>2
    <3>3. /\ todo' \in [Peers -> Seq(Peers)]
          /\ \A q \in Peers : pc'[q] \in {"mayKick", "kick"} =>
                               pc'[q] = pc[q] \/ host = q
      BY <1>0, <2>1, <3>1, <3>2
    <3> QED
      BY <2>1, <3>3, StayingRest
  <2>3. CASE UNCHANGED threadVars
    BY <1>0, <2>1, <2>3, StayingRest
  <2> QED
    BY <1>4, <2>2, <2>3 DEF HandleClientMessage
<1>5. CASE HandleKickMessage(p)
  <2>1. /\ members' = members /\ host' = host /\ sockets' = sockets
        /\ kicked' = kicked /\ todo' = todo
        /\ \/ host = p /\ pc' = [pc EXCEPT ![p] = "mayKick"]
           \/ pc' = pc
    BY <1>5 DEF HandleKickMessage, MayKick
  <2> QED
    BY <1>0, <2>1, StayingRest
<1> QED
  BY <1>1, <1>2, <1>3, <1>4, <1>5 DEF HandleMessage

LEMMA NextTargetRest ==
  ASSUME IInv, RestInv, NEW p \in Peers, NextTarget(p), todo[p] # <<>>
  PROVE  /\ todo' \in [Peers -> Seq(Peers)]
         /\ todo'[p] # todo[p]
         /\ \A q \in Peers : pc'[q] = pc[q] \/ pc'[q] = "ready"
<1>1. todo[p] \in Seq(Peers)
  BY DEF RestInv
<1>2. Tail(todo[p]) \in Seq(Peers) /\ Tail(todo[p]) # todo[p]
  BY <1>1, TailOf
<1>3. todo' = [todo EXCEPT ![p] = Tail(todo[p])]
  BY DEF NextTarget
<1>4. \A q \in Peers : pc'[q] = pc[q] \/ pc'[q] = "ready"
  BY DEF NextTarget, Return, Go, IInv, Typed
<1>5. todo'[p] = Tail(todo[p]) /\ todo' \in [Peers -> Seq(Peers)]
  BY <1>2, <1>3 DEF RestInv
<1> QED
  BY <1>2, <1>3, <1>4, <1>5

LEMMA ContinueRest ==
  ASSUME IInv, RestInv, NEW p \in Peers,
         SayHello(p) \/ ChooseKicked(p) \/ RelayNext(p) \/ NoTarget(p)
  PROVE  RestInv'
<1> USE DEF Go, sessionVars, queueVars, kickVars, threadVars
<1>0. pc \in [Peers -> Labels] /\ todo \in [Peers -> Seq(Peers)]
  BY DEF IInv, Typed, RestInv
<1>1. CASE SayHello(p)
  <2>1. /\ members' = members /\ host' = host /\ sockets' = sockets
        /\ kicked' = kicked /\ todo' = todo
        /\ pc' = [pc EXCEPT ![p] = "ready"]
    BY <1>1 DEF SayHello
  <2>2. \A q \in Peers : pc'[q] \in {"mayKick", "kick"} =>
                              pc'[q] = pc[q] \/ host = q
    BY <1>0, <2>1
  <2> QED
    BY <1>0, <2>1, <2>2, StayingRest
<1>2. CASE ChooseKicked(p)
  <2>1. /\ members' = members /\ host' = host /\ sockets' = sockets
        /\ kicked' = kicked /\ host = p
    BY <1>2 DEF ChooseKicked, RestInv, KickInv
  <2>2. CASE \E ids \in IdLists :
               Relay(p, "kick", GetPeers(ids), Message("kicked", p, 0))
    <3>1. PICK ids \in IdLists :
            /\ todo' = [todo EXCEPT ![p] = GetPeers(ids)]
            /\ pc' = [pc EXCEPT ![p] = "kick"]
      BY <2>2 DEF Relay
    <3>2. GetPeers(ids) \in Seq(Peers)
      BY GetPeersTyped DEF IInv, Typed
    <3>3. /\ todo' \in [Peers -> Seq(Peers)]
          /\ \A q \in Peers : pc'[q] \in {"mayKick", "kick"} =>
                               pc'[q] = pc[q] \/ host = q
      BY <1>0, <2>1, <3>1, <3>2
    <3> QED
      BY <2>1, <3>3, StayingRest
  <2>3. CASE Go(p, "ready") /\ UNCHANGED <<todo, carried>>
    <3>1. todo' = todo /\ pc' = [pc EXCEPT ![p] = "ready"]
      BY <2>3
    <3> QED
      BY <1>0, <2>1, <3>1, StayingRest
  <2> QED
    BY <1>2, <2>2, <2>3 DEF ChooseKicked
<1>3. CASE RelayNext(p)
  <2>1. /\ members' = members /\ host' = host /\ sockets' = sockets
        /\ kicked' = kicked /\ NextTarget(p) /\ todo[p] # <<>>
    BY <1>3 DEF RelayNext
  <2>2. /\ todo' \in [Peers -> Seq(Peers)]
        /\ \A q \in Peers : pc'[q] = pc[q] \/ pc'[q] = "ready"
    BY <2>1, NextTargetRest
  <2> QED
    BY <1>0, <2>1, <2>2, StayingRest
<1>4. CASE NoTarget(p)
  <2>1. /\ members' = members /\ host' = host /\ sockets' = sockets
        /\ kicked' = kicked /\ todo' = todo
        /\ pc' = [pc EXCEPT ![p] = "ready"]
    BY <1>4 DEF NoTarget, Return
  <2>2. \A q \in Peers : pc'[q] \in {"mayKick", "kick"} =>
                              pc'[q] = pc[q] \/ host = q
    BY <1>0, <2>1
  <2> QED
    BY <1>0, <2>1, <2>2, StayingRest
<1> QED
  BY <1>1, <1>2, <1>3, <1>4

\* Who is kicked is a peer that the host's handler goes on from.
LEMMA KickNextKicks ==
  ASSUME IInv, RestInv, NEW p \in Peers, KickNext(p)
  PROVE  /\ RestInv'
         /\ \A q \in kicked' \ kicked :
              host \notin {None, q} /\ todo'[host] # todo[host]
<1>1. /\ members' = members /\ host' = host /\ sockets' = sockets
      /\ NextTarget(p) /\ todo[p] # <<>>
      /\ kicked' = kicked \union (({Head(todo[p])} \ {p}) \intersect sockets)
  BY DEF KickNext, sessionVars
<1>2. host = p /\ None \notin Peers
  BY MessagesAssumption DEF KickNext, RestInv, KickInv
<1>3. /\ todo' \in [Peers -> Seq(Peers)]
      /\ todo'[p] # todo[p]
      /\ \A q \in Peers : pc'[q] = pc[q] \/ pc'[q] = "ready"
  BY <1>1, NextTargetRest
<1>4. kicked' \subseteq kicked \union Peers
  BY <1>1 DEF RestInv
<1>5. RestInv'
  BY <1>1, <1>3, <1>4, StayingRest
<1>6. \A q \in kicked' \ kicked : q # p
  BY <1>1
<1> QED
  BY <1>2, <1>3, <1>5, <1>6

LEMMA EndsRest ==
  ASSUME IInv, RestInv, NEW p \in Peers, DropPeer(p) \/ Close(p)
  PROVE  RestInv'
<1>1. /\ members' = members /\ host' = host /\ sockets' \subseteq sockets
      /\ kicked' = kicked /\ todo' = todo
      /\ pc' = pc \/ pc' = [pc EXCEPT ![p] = "closing"]
  BY DEF DropPeer, Close, Go, sessionVars, threadVars
<1>2. pc \in [Peers -> Labels] /\ todo \in [Peers -> Seq(Peers)]
  BY DEF IInv, Typed, RestInv
<1> QED
  BY <1>1, <1>2, StayingRest

LEMMA StepRest ==
  ASSUME IInv, RestInv, [Next]_vars
  PROVE  RestInv'
<1>1. ASSUME NEW p \in Peers,
             \/ AddPeer(p)
             \/ HandleMessage(p)
             \/ Continue(p)
             \/ DropPeer(p)
             \/ Close(p)
      PROVE  RestInv'
  BY <1>1, AddPeerRest, HandlersRest, ContinueRest, KickNextKicks,
     RemovePeerRest, EndsRest DEF Continue
<1>2. CASE UNCHANGED vars
  BY <1>2 DEF vars, sessionVars, kickVars, threadVars, RestInv, KickInv
<1> QED
  BY <1>1, <1>2 DEF Next

LEMMA RestInductive == Spec => []RestInv
  BY Inductive, InitRest, StepRest, PTL DEF Spec

-----------------------------------------------------------------------------
(* The theorems.                                                           *)

\* Synchronized events are numbered alike at all peers and come by rising
\* number, as broadcastSynchronizedEvent holds m_peersMutex over the count and
\* the posts, whoever sends, joins and leaves meanwhile.
THEOREM EventOrder == Spec => []EventsInSameOrder
<1>1. IInv => EventsInSameOrder
  BY DEF IInv
<1> QED
  BY <1>1, Inductive, PTL

\* What the handlers of one peer relay, one after the other and without a
\* lock, gets into every queue in the order in which they took it up.
THEOREM SenderOrdered == Spec => []SenderOrder
<1>1. IInv => SenderOrder
  BY DEF IInv, LogInv, Follows, SenderOrder
<1> QED
  BY <1>1, Inductive, PTL

\* addPeer posts to the host, and then HELLO, before the peer handles a
\* message, and removePeerById after its last one: whoever sees a visit sees
\* it from its begin to its end, and nothing of the peer before or after.
THEOREM VisitBracketed == Spec => []VisitIsBracketed
<1>1. IInv => VisitIsBracketed
  BY MessagesAssumption DEF IInv, LogInv, Follows, VisitIsBracketed
<1> QED
  BY <1>1, Inductive, PTL

\* From the first event a member was to be told of it was told of all, but
\* for those that its full queue refused.
THEOREM Gaps == Spec => []EventGapsAreOverflows
<1>1. ASSUME IInv
      PROVE  EventGapsAreOverflows
  <2> DEFINE seen(p) == {m.n : m \in {x \in Range(log[p]) \union lost[p] :
                                        x.kind = "event"}}
  <2>1. \A p \in members : \A k : k \in seen(p) <=> Seen(p, k)
    BY DEF Seen, Range
  <2>2. \A p \in members : \A k \in seen(p) : k \in Nat
    <3>1. \A p \in members : Range(log[p]) \union lost[p] \subseteq AnyMessage
      <4>1. members \subseteq Peers
        BY <1>1 DEF IInv, Typed
      <4>2. \A p \in Peers : \A i \in DOMAIN log[p] : log[p][i] \in AnyMessage
        BY <1>1, Known
      <4>3. \A p \in Peers : lost[p] \subseteq AnyMessage
        BY <1>1 DEF IInv, Typed
      <4> QED
        BY <4>1, <4>2, <4>3 DEF Range
    <3> QED
      BY <3>1 DEF AnyMessage
  <2>3. ASSUME NEW p \in members, NEW k \in seen(p),
               NEW n \in k .. nextEvent - 1
        PROVE  n \in seen(p)
    <3>1. k \in Nat /\ nextEvent \in Nat
      BY <1>1, <2>2 DEF IInv, Typed
    <3> HIDE DEF seen
    <3>2. n \in Nat /\ k <= n /\ n < nextEvent
      BY <3>1
    <3>3. Seen(p, n)
      BY <1>1, <2>1, <3>1, <3>2 DEF IInv, GapInv
    <3> QED
      BY <2>1, <3>3
  <2> QED
    BY <2>3 DEF EventGapsAreOverflows
<1> QED
  BY <1>1, Inductive, PTL

\* Every variable keeps its type, whatever ids the payloads list: what is left
\* to do of a handler is a sequence of peers.
THEOREM TypeCorrect == Spec => []TypeOK
<1>1. IInv /\ RestInv => TypeOK
  BY DEF IInv, Typed, Labels, RestInv, TypeOK
<1> QED
  BY <1>1, Inductive, RestInductive, PTL

\* handleKickMessage looks up the host once, long before the last kick() of
\* its loop; still nobody but the host kicks, and not itself, as a host leaves
\* only after its handler returned.
THEOREM HostKicks == Spec => OnlyHostKicks
<1>1. ASSUME IInv, RestInv, [Next]_vars
      PROVE  [\A q \in kicked' \ kicked :
                host \notin {None, q} /\ todo'[host] # todo[host]]_vars
  <2>1. CASE \E p \in Peers : KickNext(p)
    BY <1>1, <2>1, KickNextKicks
  <2>2. CASE ~ \E p \in Peers : KickNext(p)
    <3>1. kicked' = kicked
      BY <1>1, <2>2
         DEF Next, HandleMessage, Continue, AddPeer, SayHello, DropPeer, Close,
             RemovePeer, HandleOther, HandleBroadcast, HandleDirectMessage,
             HandleClientMessage, HandleSynchronizedEvent, HandleKickMessage,
             ChooseKicked, RelayNext, NoTarget, vars, kickVars
    <3> QED
      BY <3>1
  <2> QED
    BY <2>1, <2>2
<1> QED
  BY <1>1, Inductive, RestInductive, PTL DEF Spec, OnlyHostKicks
-----------------------------------------------------------------------------
(* The session is a room.                                                  *)

\* A peer is in m_peers from addPeer to removePeerById, wherever its thread is.
PresentInv == \A p \in Peers : pc[p] \notin {"out", "left"} => p \in members

\* What a step is to a room that neither brings nor takes a peer.
Stays ==
  /\ members' = members /\ host' = host
  /\ \A q \in Peers : pc[q] \notin {"out", "left"} /\ pc'[q] # pc[q]
                        => pc'[q] \notin {"out", "left"}
  /\ \A q \in Peers : pc[q] \in {"out", "left"} => pc'[q] = pc[q]

LEMMA OthersStay ==
  ASSUME IInv, [Next]_vars, ~ \E p \in Peers : AddPeer(p) \/ RemovePeer(p)
  PROVE  Stays
<1>0. pc \in [Peers -> Labels]
  BY DEF IInv, Typed
<1> USE DEF Stays, Go, sessionVars, queueVars, kickVars, threadVars
<1>1. ASSUME NEW p \in Peers, HandleMessage(p) PROVE Stays
  <2>1. members' = members /\ host' = host /\ pc[p] = "ready"
    BY <1>1 DEF HandleMessage, HandleOther, HandleBroadcast, Handle,
                HandleDirectMessage, HandleClientMessage,
                HandleSynchronizedEvent, HandleKickMessage
  <2>2. \/ pc' = pc
        \/ pc' = [pc EXCEPT ![p] = "relay"]
        \/ pc' = [pc EXCEPT ![p] = "mayKick"]
    BY <1>1 DEF HandleMessage, HandleOther, HandleBroadcast, Relay,
                HandleDirectMessage, HandleClientMessage,
                HandleSynchronizedEvent, HandleKickMessage
  <2> QED
    BY <1>0, <2>1, <2>2
<1>2. ASSUME NEW p \in Peers, SayHello(p) \/ ChooseKicked(p) \/ Close(p)
      PROVE  Stays
  <2>1. members' = members /\ host' = host /\ pc[p] \notin {"out", "left"}
    BY <1>2 DEF SayHello, ChooseKicked, Close
  <2>2. \/ pc' = [pc EXCEPT ![p] = "ready"]
        \/ pc' = [pc EXCEPT ![p] = "kick"]
        \/ pc' = [pc EXCEPT ![p] = "closing"]
    BY <1>2 DEF SayHello, ChooseKicked, Close, Relay
  <2> QED
    BY <1>0, <2>1, <2>2
<1>3. ASSUME NEW p \in Peers, RelayNext(p) \/ KickNext(p) \/ NoTarget(p)
      PROVE  Stays
  <2>1. members' = members /\ host' = host /\ pc[p] \in {"relay", "kick"}
    BY <1>3 DEF RelayNext, KickNext, NoTarget
  <2>2. pc' = pc \/ pc' = [pc EXCEPT ![p] = "ready"]
    BY <1>3 DEF RelayNext, KickNext, NoTarget, NextTarget, Return
  <2> QED
    BY <1>0, <2>1, <2>2
<1>4. ASSUME NEW p \in Peers, DropPeer(p) PROVE Stays
  BY <1>4 DEF DropPeer
<1>5. CASE UNCHANGED vars
  BY <1>5 DEF vars
<1> QED
  BY <1>1, <1>2, <1>3, <1>4, <1>5 DEF Next, Continue

LEMMA StepPresent ==
  ASSUME IInv, PresentInv, [Next]_vars
  PROVE  PresentInv'
<1>0. pc \in [Peers -> Labels]
  BY DEF IInv, Typed
<1>1. ASSUME NEW p \in Peers, AddPeer(p) PROVE PresentInv'
  BY <1>0, <1>1 DEF AddPeer, Go, PresentInv
<1>2. ASSUME NEW p \in Peers, RemovePeer(p) PROVE PresentInv'
  BY <1>0, <1>2 DEF RemovePeer, Others, Go, PresentInv
<1>3. CASE Stays
  BY <1>0, <1>3 DEF Stays, PresentInv
<1> QED
  BY <1>1, <1>2, <1>3, OthersStay

\* The notices in a queue, or refused by it, after one more message.
LEMMA OneMore ==
  ASSUME NEW A, NEW m
  PROVE  NoticesIn(A \union {m}) =
           IF m.kind \in {"joined", "left"}
           THEN NoticesIn(A) \union {[code |-> m.kind, peer |-> m.from]}
           ELSE NoticesIn(A)
  BY DEF NoticesIn

LEMMA RangeAppended ==
  ASSUME NEW S, NEW q \in Seq(S), NEW e \in S
  PROVE  Range(Append(q, e)) = Range(q) \union {e}
<1>1. /\ DOMAIN q = 1 .. Len(q) /\ Len(q) \in Nat
      /\ DOMAIN Append(q, e) = 1 .. Len(q) + 1
      /\ \A i \in 1 .. Len(q) : Append(q, e)[i] = q[i]
      /\ Append(q, e)[Len(q) + 1] = e
  BY Appended
<1>2. ASSUME NEW x PROVE x \in Range(Append(q, e)) <=> x \in Range(q) \union {e}
  <2> DEFINE a == Append(q, e)
  <2> HIDE DEF a
  <2>1. x \in Range(a) <=> \E i \in 1 .. Len(q) + 1 : a[i] = x
    BY <1>1 DEF Range, a
  <2>2. x \in Range(q) <=> \E i \in 1 .. Len(q) : q[i] = x
    BY <1>1 DEF Range
  <2>3. /\ \A i \in 1 .. Len(q) : a[i] = q[i]
        /\ a[Len(q) + 1] = e
    BY <1>1 DEF a
  <2>4. Len(q) \in Nat
    BY <1>1
  <2> QED
    BY <2>1, <2>2, <2>3, <2>4 DEF a
<1> QED
  BY <1>2

ToldNow   == NoticesIn(Range(log[Host]))
MissedNow == NoticesIn(lost[Host])

LEMMA NoticesAfter ==
  ASSUME Typed, NEW targets, NEW m \in AnyMessage, Post(targets, m)
  PROVE  LET n == [code |-> m.kind, peer |-> m.from]
         IN  \/ /\ Host \notin targets \/ m.kind \notin {"joined", "left"}
                /\ UNCHANGED <<ToldNow, MissedNow>>
             \/ /\ Host \in targets /\ m.kind \in {"joined", "left"}
                /\ \/ ToldNow' = ToldNow \union {n} /\ MissedNow' = MissedNow
                   \/ MissedNow' = MissedNow \union {n} /\ ToldNow' = ToldNow
<1> DEFINE n == [code |-> m.kind, peer |-> m.from]
<1>1. Host \in Peers /\ log[Host] \in Seq(AnyMessage)
  BY MessagesAssumption DEF Typed
<1>2. \/ /\ Host \in targets
         /\ log'[Host] = Append(log[Host], m)
         /\ lost'[Host] = lost[Host]
      \/ /\ Host \in targets
         /\ log'[Host] = log[Host]
         /\ lost'[Host] = lost[Host] \union {m}
      \/ /\ Host \notin targets
         /\ log'[Host] = log[Host]
         /\ lost'[Host] = lost[Host]
  BY <1>1, Posted
<1>3. Range(Append(log[Host], m)) = Range(log[Host]) \union {m}
  BY <1>1, RangeAppended
<1>4. \A A : NoticesIn(A \union {m}) = IF m.kind \in {"joined", "left"}
                                       THEN NoticesIn(A) \union {n}
                                       ELSE NoticesIn(A)
  BY OneMore
<1> HIDE DEF n
<1> QED
  BY <1>2, <1>3, <1>4 DEF ToldNow, MissedNow, n
LEMMA RoomStutters ==
  ASSUME IInv, Stays, UNCHANGED <<ToldNow, MissedNow>>
  PROVE  UNCHANGED TheRoom!roomVars
<1>1. \A q \in Peers : pc'[q] = "out" <=> pc[q] = "out"
  BY DEF Stays
<1>2. {q \in Peers : pc'[q] # "out"} = {q \in Peers : pc[q] # "out"}
  BY <1>1
<1>3. (pc'[Host] # "out") = (pc[Host] # "out")
  BY <1>1, MessagesAssumption
<1> QED
  BY <1>2, <1>3 DEF TheRoom!roomVars, Stays, ToldNow, MissedNow

\* The posts that are nothing to a room.
LEMMA PostsNoNotice ==
  ASSUME IInv, [Next]_vars, ~ \E p \in Peers : AddPeer(p) \/ RemovePeer(p)
  PROVE  UNCHANGED <<ToldNow, MissedNow>>
<1>0. Typed
  BY DEF IInv
<1> USE DEF sessionVars, queueVars, kickVars, threadVars
<1>1. CASE UNCHANGED queueVars
  BY <1>1 DEF ToldNow, MissedNow
<1>2. ASSUME NEW p \in Peers, SayHello(p)
      PROVE  UNCHANGED <<ToldNow, MissedNow>>
  <2> DEFINE m == Message("hello", p, 0)
  <2>1. m \in AnyMessage /\ m.kind = "hello"
    BY Notice
  <2>2. Post({p}, m)
    BY <1>2 DEF SayHello
  <2> HIDE DEF m
  <2> QED
    BY <1>0, <2>1, <2>2, NoticesAfter
<1>3. ASSUME NEW p \in Peers, RelayNext(p)
      PROVE  UNCHANGED <<ToldNow, MissedNow>>
  <2> DEFINE m == carried[p]
  <2>1. m \in AnyMessage /\ m.kind = "msg"
    BY <1>3 DEF RelayNext, IInv, Typed, ThreadInv
  <2>2. CASE Post({Head(todo[p])}, m)
    <3> HIDE DEF m
    <3> QED
      BY <1>0, <2>1, <2>2, NoticesAfter
  <2> QED
    BY <1>1, <1>3, <2>2 DEF RelayNext
<1>4. ASSUME NEW p \in Peers, HandleSynchronizedEvent(p)
      PROVE  UNCHANGED <<ToldNow, MissedNow>>
  <2> DEFINE m == Message("event", p, nextEvent)
  <2>1. m \in AnyMessage /\ m.kind = "event"
    BY <1>0 DEF Typed, Message, AnyMessage, Kinds
  <2>2. Post(members, m)
    BY <1>4 DEF HandleSynchronizedEvent, EventTargets
  <2> HIDE DEF m
  <2> QED
    BY <1>0, <2>1, <2>2, NoticesAfter
<1>5. ASSUME NEW p \in Peers,
             \/ HandleOther(p) \/ HandleBroadcast(p) \/ HandleDirectMessage(p)
             \/ HandleClientMessage(p) \/ HandleKickMessage(p)
             \/ ChooseKicked(p) \/ KickNext(p) \/ NoTarget(p)
             \/ DropPeer(p) \/ Close(p)
      PROVE  UNCHANGED queueVars
  BY <1>5 DEF HandleOther, HandleBroadcast, HandleDirectMessage,
              HandleClientMessage, HandleKickMessage, ChooseKicked, KickNext,
              NoTarget, DropPeer, Close
<1>6. UNCHANGED vars => UNCHANGED queueVars
  BY DEF vars
<1> QED
  BY <1>1, <1>2, <1>3, <1>4, <1>5, <1>6 DEF Next, HandleMessage, Continue

\* What the host is told of p is told, or missed.
LEMMA RoomTell ==
  ASSUME Typed, NEW p \in Peers, NEW code \in {"joined", "left"},
         Post(HostIfAny, Message(code, p, 0))
  PROVE  TheRoom!Tell(Host, host, code, p)
<1> DEFINE m == Message(code, p, 0)
           n == [code |-> code, peer |-> p]
<1>1. m \in AnyMessage /\ m.kind = code /\ m.from = p
  BY Notice
<1>2. host = None \/ host = Host
  BY DEF Typed
<1>3. host = None => Host \notin HostIfAny
  BY DEF HostIfAny
<1>4. LET k == [code |-> m.kind, peer |-> m.from]
      IN  \/ /\ Host \notin HostIfAny \/ m.kind \notin {"joined", "left"}
             /\ UNCHANGED <<ToldNow, MissedNow>>
          \/ /\ Host \in HostIfAny /\ m.kind \in {"joined", "left"}
             /\ \/ ToldNow' = ToldNow \union {k} /\ MissedNow' = MissedNow
                \/ MissedNow' = MissedNow \union {k} /\ ToldNow' = ToldNow
  <2>1. Post(HostIfAny, m)
    OBVIOUS
  <2> HIDE DEF m
  <2> QED
    BY <1>1, <2>1, NoticesAfter
<1>5. host = Host => Host \in HostIfAny
  BY MessagesAssumption DEF HostIfAny
<1>6. CASE host # None
  <2>1. \/ ToldNow' = ToldNow \union {n} /\ MissedNow' = MissedNow
        \/ MissedNow' = MissedNow \union {n} /\ ToldNow' = ToldNow
    BY <1>1, <1>2, <1>4, <1>5, <1>6
  <2> HIDE DEF m
  <2> QED
    BY <1>6, <2>1 DEF TheRoom!Tell, ToldNow, MissedNow
<1>7. CASE host = None
  <2>1. UNCHANGED <<ToldNow, MissedNow>>
    BY <1>3, <1>4, <1>7
  <2> QED
    BY <1>7, <2>1 DEF TheRoom!Tell, ToldNow, MissedNow
<1> QED
  BY <1>6, <1>7

LEMMA RoomAddPeer ==
  ASSUME IInv, NEW p \in Peers, AddPeer(p)
  PROVE  TheRoom!Next
<1>0. /\ pc[p] = "out" /\ pc' = [pc EXCEPT ![p] = "hello"]
      /\ members' = members \union {p}
      /\ pc \in [Peers -> Labels] /\ Host \in Peers
      /\ Typed
  BY MessagesAssumption DEF AddPeer, Go, IInv, Typed
<1>1. /\ pc'[p] = "hello"
      /\ \A q \in Peers : q # p => pc'[q] = pc[q]
  BY <1>0
<1>2. {q \in Peers : pc'[q] # "out"} = {q \in Peers : pc[q] # "out"} \union {p}
  BY <1>1
<1>3. TheRoom!GoIn(Host, p)
  BY <1>0, <1>2 DEF TheRoom!GoIn
<1>4. CASE IsHost(p)
  <2>1. p = Host /\ host' = p /\ log' = log /\ lost' = lost
    BY <1>4 DEF IsHost, AddPeer, queueVars
  <2>2. (pc'[Host] # "out") = TRUE /\ (pc[Host] # "out") = FALSE
    BY <1>0, <1>1, <2>1
  <2>3. TheRoom!Open(Host, p)
    BY <1>3, <2>1, <2>2 DEF TheRoom!Open
  <2> QED
    BY <1>0, <2>3 DEF TheRoom!Next
<1>5. CASE ~IsHost(p)
  <2>1. p # Host /\ host' = host /\ Post(HostIfAny, Message("joined", p, 0))
    BY <1>5 DEF IsHost, AddPeer
  <2>2. TheRoom!Tell(Host, host, "joined", p)
    BY <1>0, <2>1, RoomTell
  <2>3. (pc'[Host] # "out") = (pc[Host] # "out")
    BY <1>0, <1>1, <2>1
  <2>4. TheRoom!Enter(Host, p)
    BY <1>3, <2>1, <2>2, <2>3 DEF TheRoom!Enter
  <2> QED
    BY <1>0, <2>4 DEF TheRoom!Next
<1> QED
  BY <1>4, <1>5

LEMMA RoomRemovePeer ==
  ASSUME IInv, PresentInv, NEW p \in Peers, RemovePeer(p)
  PROVE  TheRoom!Next
<1>0. /\ pc[p] = "closing" /\ pc' = [pc EXCEPT ![p] = "left"]
      /\ members' = members \ {p}
      /\ pc \in [Peers -> Labels] /\ Host \in Peers /\ None \notin Peers
      /\ Typed
  BY MessagesAssumption DEF RemovePeer, Others, Go, IInv, Typed
<1>1. p \in members
  BY <1>0 DEF PresentInv
<1>2. \A q \in Peers : pc'[q] # "out" <=> pc[q] # "out"
  BY <1>0
<1>3. /\ {q \in Peers : pc'[q] # "out"} = {q \in Peers : pc[q] # "out"}
      /\ (pc'[Host] # "out") = (pc[Host] # "out")
  BY <1>0, <1>2
<1>4. CASE host = p
  <2>1. host' = None /\ log' = log /\ lost' = lost
    BY <1>0, <1>4 DEF RemovePeer, queueVars
  <2>2. TheRoom!Tell(Host, None, "left", p)
    BY <2>1 DEF TheRoom!Tell
  <2>3. TheRoom!Leave(Host, p)
    BY <1>0, <1>1, <1>3, <1>4, <2>1, <2>2 DEF TheRoom!Leave
  <2> QED
    BY <1>0, <2>3 DEF TheRoom!Next
<1>5. CASE host # p
  <2>1. host' = host /\ Post(HostIfAny, Message("left", p, 0))
    BY <1>5 DEF RemovePeer
  <2>2. TheRoom!Tell(Host, host, "left", p)
    BY <1>0, <2>1, RoomTell
  <2>3. TheRoom!Leave(Host, p)
    BY <1>0, <1>1, <1>3, <1>5, <2>1, <2>2 DEF TheRoom!Leave
  <2> QED
    BY <1>0, <2>3 DEF TheRoom!Next
<1> QED
  BY <1>4, <1>5

\* For any number of peers, messages and full queues, the session keeps the
\* promise of Room. What the handlers relay, number and refuse meanwhile adds
\* nothing to what the host is told of who is there, and takes nothing away.
THEOREM SessionIsRoom == Spec => ImplementsRoom
<1>1. Init => TheRoom!Init
  <2> SUFFICES ASSUME Init PROVE TheRoom!Init
    OBVIOUS
  <2>1. Host \in Peers
    BY MessagesAssumption
  <2>2. /\ {p \in Peers : pc[p] # "out"} = {}
        /\ (pc[Host] # "out") = FALSE
        /\ NoticesIn(Range(log[Host])) = {} /\ NoticesIn(lost[Host]) = {}
    BY <2>1 DEF Init, NoticesIn, Range
  <2> QED
    BY <2>2 DEF Init, TheRoom!Init
<1>2. Init => PresentInv
  BY DEF Init, PresentInv
<1>3. IInv /\ PresentInv /\ [Next]_vars => PresentInv'
  BY StepPresent
<1>4. IInv /\ PresentInv /\ [Next]_vars => [TheRoom!Next]_TheRoom!roomVars
  <2> SUFFICES ASSUME IInv, PresentInv, [Next]_vars
               PROVE  [TheRoom!Next]_TheRoom!roomVars
    OBVIOUS
  <2>1. ASSUME NEW p \in Peers, AddPeer(p) \/ RemovePeer(p)
        PROVE  TheRoom!Next
    BY <2>1, RoomAddPeer, RoomRemovePeer
  <2>2. CASE ~ \E p \in Peers : AddPeer(p) \/ RemovePeer(p)
    BY <2>2, OthersStay, PostsNoNotice, RoomStutters
  <2> QED
    BY <2>1, <2>2
<1> QED
  BY Inductive, <1>1, <1>2, <1>3, <1>4, PTL
     DEF Spec, ImplementsRoom, TheRoom!Spec
=============================================================================
