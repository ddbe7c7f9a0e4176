----------------------------- MODULE ChatProofs -----------------------------
(***************************************************************************)
(* What ChatService keeps for any nodes, connections, users and groups:   *)
(* its types, the soundness of the connection maps, that messages reach   *)
(* only those they are for, and that none is lost but in the windows that *)
(* LossWindow names.                                                       *)
(*                                                                         *)
(* None of them is inductive.  That a map is sound rests on where the     *)
(* handler, the link and the client of a connection stand with each other *)
(* (SessionOK); that a message reaches only its addressees, on what the   *)
(* handlers have in their lists, Redis in the inboxes and the observers   *)
(* in their hands (HandlerOK, InboxOK, ObserverOK), and on the pointers   *)
(* that are used after the lock of the map was given back being those of  *)
(* connections over which somebody has logged in (Past).  ChatInv is      *)
(* their conjunction; each action has a lemma that it keeps it, and for   *)
(* NothingElseIsLost a second one that it keeps every message.            *)
(*                                                                         *)
(* A second invariant, PresenceInv, ties the maps, the column state and   *)
(* the subscriptions together by the places of the handlers: from it      *)
(* follow PresenceIsTrue and SubscribedToItsUsers.  A third, OnceInv,     *)
(* says that a message between two users is in one place at most, which   *)
(* rests on the second: one node is subscribed to the channel of a user.  *)
(*                                                                         *)
(* Last, ChatService implements MessageDelivery: each action has a lemma  *)
(* that it keeps to Proceeds, or numbers a message, or finds out for whom *)
(* one is.                                                                 *)
(***************************************************************************)
EXTENDS ChatService, FiniteSetTheorems, SequenceTheorems, NaturalsInduction,
        WellFoundedInduction, TLAPS

(* Selected *)

\* A non-empty set of natural numbers has a least member.
LEMMA LeastExists ==
    ASSUME NEW S \in SUBSET Nat, S # {}
    PROVE  \E x \in S : \A y \in S : x =< y
  <1>1. PICK x \in S : \A y \in S : ~(<<y, x>> \in OpToRel(<, Nat))
    BY NatLessThanWellFounded, WFMin, Zenon
  <1>2. ASSUME NEW y \in S PROVE x =< y
    <2>1. <<y, x>> \notin {ss \in Nat \X Nat : ss[1] < ss[2]}
      BY <1>1 DEF OpToRel
    <2> QED
      BY <2>1
  <1> QED
    BY <1>2

\* f selects from s what is in T, up to the n-th element.
SelectsTo(f, s, T, n) ==
    f = [i \in 0..n |-> IF i = 0 THEN <<>>
                        ELSE IF s[i] \in T THEN Append(f[i - 1], s[i]) ELSE f[i - 1]]

\* The recursion of Selected has a solution.
LEMMA SelectionExists ==
    ASSUME NEW s, NEW T, NEW n \in Nat
    PROVE  \E f : SelectsTo(f, s, T, n)
  <1> DEFINE Missing == {k \in Nat : ~\E f : SelectsTo(f, s, T, k)}
  <1> SUFFICES ASSUME Missing # {} PROVE FALSE
    OBVIOUS
  <1>1. PICK k \in Missing : \A j \in Missing : k =< j
    <2>1. Missing \in SUBSET Nat
      OBVIOUS
    <2> HIDE DEF Missing
    <2> QED
      BY <2>1, LeastExists
  <1>2. CASE k = 0
    <2> DEFINE z == [i \in 0..0 |-> <<>>]
    <2>1. SelectsTo(z, s, T, 0)
      BY DEF SelectsTo
    <2> QED
      BY <1>1, <1>2, <2>1
  <1>3. CASE k # 0
    <2>1. k - 1 \in Nat /\ k - 1 \notin Missing
      BY <1>1, <1>3
    <2>2. PICK f : SelectsTo(f, s, T, k - 1)
      BY <2>1
    <2> DEFINE last == IF s[k] \in T THEN Append(f[k - 1], s[k]) ELSE f[k - 1]
               g == [i \in 0..k |-> IF i = k THEN last ELSE f[i]]
    <2>3. \A i \in 0..k - 1 : g[i] = f[i]
      BY <1>1, <2>1
    <2>4. \A i \in 0..k - 1 : f[i] = IF i = 0 THEN <<>>
                                     ELSE IF s[i] \in T THEN Append(f[i - 1], s[i]) ELSE f[i - 1]
      BY <2>2 DEF SelectsTo
    <2>5. \A i \in 0..k : g[i] = IF i = 0 THEN <<>>
                                 ELSE IF s[i] \in T THEN Append(g[i - 1], s[i]) ELSE g[i - 1]
      <3> SUFFICES ASSUME NEW i \in 0..k
                   PROVE  g[i] = IF i = 0 THEN <<>>
                                 ELSE IF s[i] \in T THEN Append(g[i - 1], s[i]) ELSE g[i - 1]
        OBVIOUS
      <3>1. CASE i = k
        <4>1. g[k] = last /\ g[k - 1] = f[k - 1]
          BY <1>1, <2>1, <2>3
        <4> QED
          BY <1>3, <3>1, <4>1
      <3>2. CASE i # k
        <4>1. i \in 0..k - 1 /\ (i # 0 => i - 1 \in 0..k - 1)
          BY <1>1, <3>2
        <4> HIDE DEF g
        <4> QED
          BY <2>3, <2>4, <4>1
      <3> QED
        BY <3>1, <3>2
    <2>6. g = [i \in 0..k |-> g[i]]
      OBVIOUS
    <2> HIDE DEF g
    <2>7. SelectsTo(g, s, T, k)
      BY <2>5, <2>6 DEF SelectsTo
    <2> QED
      BY <1>1, <2>7
  <1> QED
    BY <1>2, <1>3

\* What Selected(s, T) holds: elements of s that are in T, and every one of them.
LEMMA SelectedElements ==
    ASSUME NEW S, NEW s \in Seq(S), NEW T
    PROVE  /\ Selected(s, T) \in Seq(S) /\ Len(Selected(s, T)) \in Nat
           /\ \A k \in 1..Len(Selected(s, T)) :
                 /\ Selected(s, T)[k] \in T
                 /\ \E j \in 1..Len(s) : Selected(s, T)[k] = s[j]
           /\ \A j \in 1..Len(s) : s[j] \in T =>
                 \E k \in 1..Len(Selected(s, T)) : Selected(s, T)[k] = s[j]
  <1> DEFINE n == Len(s)
             F == CHOOSE f : SelectsTo(f, s, T, n)
             Good(q, i) == /\ q \in Seq(S)
                           /\ \A k \in 1..Len(q) : q[k] \in T /\ \E j \in 1..n : q[k] = s[j]
                           /\ \A j \in 1..i : s[j] \in T => \E k \in 1..Len(q) : q[k] = s[j]
             Bad == {i \in 0..n : ~Good(F[i], i)}
  <1>1. n \in Nat /\ \A i \in 1..n : s[i] \in S
    BY LenProperties, ElementOfSeq
  <1>2. SelectsTo(F, s, T, n)
    BY <1>1, SelectionExists
  <1>3. Selected(s, T) = F[n]
    BY DEF Selected, SelectsTo
  <1>4. \A i \in 0..n : F[i] = IF i = 0 THEN <<>>
                               ELSE IF s[i] \in T THEN Append(F[i - 1], s[i]) ELSE F[i - 1]
    BY <1>2 DEF SelectsTo
  <1> HIDE DEF n, F
  <1>5. Bad = {}
    <2> SUFFICES ASSUME Bad # {} PROVE FALSE
      OBVIOUS
    <2>1. PICK i \in Bad : \A j \in Bad : i =< j
      <3>1. Bad \in SUBSET Nat
        BY <1>1
      <3> HIDE DEF Bad
      <3> QED
        BY <3>1, LeastExists
    <2>2. CASE i = 0
      <3>1. F[0] = <<>>
        BY <1>1, <1>4
      <3>2. Good(F[0], 0)
        BY <3>1
      <3> QED
        BY <2>1, <2>2, <3>2
    <2>3. CASE i # 0
      <3> DEFINE q == F[i - 1]
      <3>1. i \in 1..n /\ i - 1 \in 0..n /\ i - 1 \notin Bad
        BY <1>1, <2>1, <2>3
      <3>2. Good(q, i - 1)
        BY <3>1
      <3>3. F[i] = IF s[i] \in T THEN Append(q, s[i]) ELSE q
        BY <1>4, <3>1
      <3>4. Len(q) \in Nat
        BY <3>2, LenProperties
      <3> HIDE DEF q
      <3>5. CASE s[i] \notin T
        <4>1. \A j \in 1..i : s[j] \in T => j \in 1..i - 1
          BY <3>1, <3>5
        <4>2. Good(q, i)
          BY <3>2, <4>1
        <4> QED
          BY <2>1, <3>3, <3>5, <4>2, SMTT(30)
      <3>6. CASE s[i] \in T
        <4> DEFINE r == Append(q, s[i])
        <4>1. /\ r \in Seq(S) /\ Len(r) = Len(q) + 1
              /\ r[Len(q) + 1] = s[i]
              /\ \A k \in 1..Len(q) : r[k] = q[k]
          BY <1>1, <3>1, <3>2, AppendProperties
        <4>2. F[i] = r
          BY <3>3, <3>6
        <4> HIDE DEF r
        <4>3. \A k \in 1..Len(r) : r[k] \in T /\ \E j \in 1..n : r[k] = s[j]
          <5> SUFFICES ASSUME NEW k \in 1..Len(r)
                       PROVE  r[k] \in T /\ \E j \in 1..n : r[k] = s[j]
            OBVIOUS
          <5>1. CASE k \in 1..Len(q)
            BY <3>2, <4>1, <5>1
          <5>2. CASE k = Len(q) + 1
            BY <3>1, <3>6, <4>1, <5>2
          <5> QED
            BY <3>4, <4>1, <5>1, <5>2
        <4>4. \A j \in 1..i : s[j] \in T => \E k \in 1..Len(r) : r[k] = s[j]
          <5> SUFFICES ASSUME NEW j \in 1..i, s[j] \in T
                       PROVE  \E k \in 1..Len(r) : r[k] = s[j]
            OBVIOUS
          <5>1. CASE j = i
            BY <3>4, <4>1, <5>1
          <5>2. CASE j # i
            <6>1. j \in 1..i - 1
              BY <3>1, <5>2
            <6>2. PICK k \in 1..Len(q) : q[k] = s[j]
              BY <3>2, <6>1
            <6>3. k \in 1..Len(r) /\ r[k] = s[j]
              BY <3>4, <4>1, <6>2, SMTT(30)
            <6> QED
              BY <6>3
          <5> QED
            BY <5>1, <5>2
        <4>5. Good(r, i)
          BY <4>1, <4>3, <4>4
        <4> QED
          BY <2>1, <4>2, <4>5
      <3> QED
        BY <3>5, <3>6
    <2> QED
      BY <2>2, <2>3
  <1>6. Good(F[n], n)
    <2>1. n \in 0..n
      BY <1>1
    <2> QED
      BY <1>5, <2>1
  <1>7. Len(F[n]) \in Nat
    BY <1>6, LenProperties
  <1> QED
    BY <1>3, <1>6, <1>7 DEF n
-----------------------------------------------------------------------------
(* The inductive invariant *)

LoginPlaces == {"check", "map", "subscribe", "online", "query", "remove", "ack"}
ClosePlaces == {"find", "closeOffline", "closeUnsubscribe"}
ChatPlaces == {"lookup", "members", "collect", "push", "status", "publish", "store"}

\* The client of c, its link and the handler of c go together: who has not asked for a
\* login has no handler, the handlers but those of the close run on a link that is not
\* down, and a link is down because its client is gone or its node has ended.
ClientInStep(c) ==
    /\ client[c] = "connected" => At(c, "idle")
    /\ op[c].pc \in LoginPlaces => client[c] \in {"awaiting", "deaf", "gone"}
    /\ link[c] # "down" \/ op[c].pc \in ClosePlaces \cup {"idle"}
    /\ link[c] = "down" => client[c] \in {"gone", "connected", "deaf"}
    /\ At(c, "find") => client[c] = "gone" /\ link[c] = "down"

\* A login of d has been checked, or its client is deaf or dead: d may be in a map, and
\* copies of the pointer may be in the hands of other threads of its node.
Past(d) == client[d] # "connected" /\ (At(d, "check") => client[d] # "awaiting")

\* What MapIsSound says of one connection, and that it is in no map before its first
\* login has been checked.
EntryOK(c) ==
    \A n \in Nodes, u \in Users : connMap[n][u] = c =>
        /\ Owner[c] = u /\ Home[c] = n
        /\ Past(c)
        /\ link[c] # "down" \/ At(c, "find")

SessionOK(c) == ClientInStep(c) /\ EntryOK(c)

ForThem(s, m) == \A i \in 1..Len(s) : s[i] \in Recipients(m)

\* The handler of c has at hand what its place needs: the message, addressees of it,
\* connections of this node over which one of them has logged in, and rows of c's user.
HandlerOK(c) ==
    /\ op[c].pc \notin ChatPlaces => op[c].remote = <<>>
    /\ op[c].pc \in ChatPlaces => op[c].msg \in Messages
    /\ At(c, "lookup") => Len(op[c].remote) = 1
    /\ At(c, "members") => /\ op[c].remote = <<>>
                           /\ op[c].msg.conv \in Groups /\ op[c].msg.from = Owner[c]
    /\ op[c].pc \in {"publish", "store"} => op[c].remote # <<>>
    /\ ForThem(op[c].remote, op[c].msg)
    /\ ~At(c, "push") => op[c].local = <<>>
    /\ \A i \in 1..Len(op[c].local) :
          /\ Past(op[c].local[i]) /\ Home[op[c].local[i]] = Home[c]
          /\ Owner[op[c].local[i]] \in Recipients(op[c].msg)
    /\ \A m \in op[c].rows : Owner[c] \in Recipients(m)

\* What Redis has forwarded is for the user it is forwarded for.
InboxOK(n) == \A i \in 1..Len(inbox[n]) : inbox[n][i][1] \in Recipients(inbox[n][i][2])

\* So is what the observer has at hand; the pointer it has copied is that user's.
ObserverOK(n) ==
    observer[n].pc # "idle" =>
        /\ observer[n].msg \in Messages
        /\ observer[n].user \in Users => observer[n].user \in Recipients(observer[n].msg)
        /\ observer[n].pc = "send" =>
              /\ observer[n].user \in Users /\ observer[n].conn \in Conns
              /\ Owner[observer[n].conn] = observer[n].user
              /\ Home[observer[n].conn] = n /\ Past(observer[n].conn)

ChatInv ==
    /\ TypeOK
    /\ \A c \in Conns : SessionOK(c) /\ HandlerOK(c)
    /\ \A n \in Nodes : InboxOK(n) /\ ObserverOK(n)
    /\ ReachesOnlyAddressees
-----------------------------------------------------------------------------
(* Frames: what a step that touches one connection leaves alone *)

\* Rows are only added to GroupUser: who is an addressee of a message stays one.
MembersGrow == \A g \in Groups : Rows(g) \subseteq Rows(g)'

LEMMA AddresseesStay ==
    ASSUME MembersGrow
    PROVE  \A m \in Messages : Recipients(m) \subseteq Recipients(m)'
  BY DEF MembersGrow, Recipients

\* A connection whose handler does not move keeps its session, though its client may die.
LEMMA SessionStays ==
    ASSUME NEW d \in Conns, SessionOK(d), op'[d].pc = op[d].pc,
           client'[d] \in {client[d], "gone"}, link'[d] = link[d],
           \A n \in Nodes, u \in Users : connMap'[n][u] = d => connMap[n][u] = d
    PROVE  SessionOK(d)'
  <1>1. ClientInStep(d)'
    BY DEF SessionOK, ClientInStep, At
  <1>2. EntryOK(d)'
    BY DEF SessionOK, EntryOK, Past, At
  <1> QED
    BY <1>1, <1>2 DEF SessionOK

\* What the step of another actor must respect of the connections whose pointer is
\* held; only threads of their own node hold it.
PastStaysAt(n) == \A d \in Conns : Home[d] = n /\ Past(d) => Past(d)'
PastStays == \A d \in Conns : Past(d) => Past(d)'

\* A handler that does not move keeps what it has at hand.
LEMMA HandlerStaysAt ==
    ASSUME TypeOK, MembersGrow, NEW d \in Conns, PastStaysAt(Home[d]), HandlerOK(d),
           op'[d] = op[d]
    PROVE  HandlerOK(d)'
  <1>1. op[d] \in Handler
    BY DEF TypeOK
  <1>2. CASE op[d].pc \notin ChatPlaces
    <2>1. op[d].remote = <<>> /\ op[d].local = <<>>
      BY <1>2 DEF HandlerOK, At, ChatPlaces
    <2>2. \A m \in op[d].rows : Owner[d] \in Recipients(m)'
      BY <1>1, AddresseesStay DEF HandlerOK, Handler
    <2>3. Len(op[d].remote) = 0 /\ Len(op[d].local) = 0
      BY <2>1
    <2> QED
      BY <1>2, <2>1, <2>2, <2>3 DEF HandlerOK, At, ChatPlaces, ForThem
  <1>3. CASE op[d].pc \in ChatPlaces
    <2> DEFINE m == op[d].msg
    <2>1. m \in Messages /\ Recipients(m) \subseteq Recipients(m)'
      BY <1>3, AddresseesStay DEF HandlerOK
    <2>2. ForThem(op[d].remote, m)'
      BY <2>1 DEF HandlerOK, ForThem
    <2>3. \A i \in 1..Len(op[d].local) :
             /\ Past(op[d].local[i])' /\ Home[op[d].local[i]] = Home[d]
             /\ Owner[op[d].local[i]] \in Recipients(m)'
      <3> SUFFICES ASSUME NEW i \in 1..Len(op[d].local)
                   PROVE  /\ Past(op[d].local[i])' /\ Home[op[d].local[i]] = Home[d]
                          /\ Owner[op[d].local[i]] \in Recipients(m)'
        OBVIOUS
      <3>1. op[d].local \in Seq(Conns)
        BY <1>1 DEF Handler
      <3>2. op[d].local[i] \in Conns
        BY <3>1, ElementOfSeq
      <3>3. /\ Past(op[d].local[i]) /\ Home[op[d].local[i]] = Home[d]
            /\ Owner[op[d].local[i]] \in Recipients(m)
        BY DEF HandlerOK
      <3> QED
        BY <2>1, <3>2, <3>3 DEF PastStaysAt
    <2>4. \A r \in op[d].rows : Owner[d] \in Recipients(r)'
      BY <1>1, AddresseesStay DEF HandlerOK, Handler
    <2> QED
      BY <2>1, <2>2, <2>3, <2>4 DEF HandlerOK, At
  <1> QED
    BY <1>2, <1>3

\* What has been forwarded stays right, and so does what an observer has at hand.
LEMMA ForwardedStaysAt ==
    ASSUME TypeOK, MembersGrow, NEW n \in Nodes, PastStaysAt(n)
    PROVE  /\ InboxOK(n) /\ inbox'[n] = inbox[n] => InboxOK(n)'
           /\ ObserverOK(n) /\ observer'[n] = observer[n] => ObserverOK(n)'
  <1>1. ASSUME InboxOK(n), inbox'[n] = inbox[n] PROVE InboxOK(n)'
    <2> SUFFICES ASSUME NEW i \in 1..Len(inbox[n])
                 PROVE  inbox[n][i][1] \in Recipients(inbox[n][i][2])'
      BY <1>1 DEF InboxOK
    <2>1. inbox[n] \in Seq(Users \X Messages)
      BY DEF TypeOK
    <2>2. inbox[n][i] \in Users \X Messages
      BY <2>1, ElementOfSeq
    <2>3. inbox[n][i][2] \in Messages
      BY <2>2
    <2> QED
      BY <1>1, <2>3, AddresseesStay DEF InboxOK
  <1>2. ASSUME ObserverOK(n), observer'[n] = observer[n] PROVE ObserverOK(n)'
    <2>1. CASE observer[n].pc = "idle"
      BY <1>2, <2>1 DEF ObserverOK
    <2>2. CASE observer[n].pc # "idle"
      <3>1. observer[n].msg \in Messages
        BY <1>2, <2>2 DEF ObserverOK
      <3>2. Recipients(observer[n].msg) \subseteq Recipients(observer[n].msg)'
        BY <1>2, <3>1, AddresseesStay
      <3>3. observer[n].pc = "send" => Past(observer[n].conn)'
        BY <1>2, <2>2 DEF ObserverOK, PastStaysAt
      <3> QED
        BY <1>2, <2>2, <3>1, <3>2, <3>3 DEF ObserverOK
    <2> QED
      BY <2>1, <2>2
  <1> QED
    BY <1>1, <1>2

LEMMA HandlerStays ==
    ASSUME TypeOK, MembersGrow, PastStays, NEW d \in Conns, HandlerOK(d), op'[d] = op[d]
    PROVE  HandlerOK(d)'
  BY HandlerStaysAt DEF PastStays, PastStaysAt

LEMMA ForwardedStays ==
    ASSUME TypeOK, MembersGrow, PastStays, NEW n \in Nodes
    PROVE  /\ InboxOK(n) /\ inbox'[n] = inbox[n] => InboxOK(n)'
           /\ ObserverOK(n) /\ observer'[n] = observer[n] => ObserverOK(n)'
  BY ForwardedStaysAt DEF PastStays, PastStaysAt

\* The rest of ReachesOnlyAddressees: what is received or stored anew is for its user.
NewIsForThem ==
    /\ \A d \in Conns : \A m \in got'[d] \ got[d] : Owner[d] \in Recipients(m)'
    /\ \A u \in Users : \A m \in offline'[u] \ offline[u] : u \in Recipients(m)'

LEMMA ReachedStays ==
    ASSUME TypeOK, MembersGrow, ReachesOnlyAddressees, NewIsForThem
    PROVE  ReachesOnlyAddressees'
  <1>1. ASSUME NEW d \in Conns, NEW m \in got'[d] PROVE Owner[d] \in Recipients(m)'
    <2>1. CASE m \in got[d]
      <3>1. m \in Messages /\ Owner[d] \in Recipients(m)
        BY <2>1 DEF TypeOK, ReachesOnlyAddressees
      <3> QED
        BY <3>1, AddresseesStay
    <2> QED
      BY <2>1 DEF NewIsForThem
  <1>2. ASSUME NEW u \in Users, NEW m \in offline'[u] PROVE u \in Recipients(m)'
    <2>1. CASE m \in offline[u]
      <3>1. m \in Messages /\ u \in Recipients(m)
        BY <2>1 DEF TypeOK, ReachesOnlyAddressees
      <3> QED
        BY <3>1, AddresseesStay
    <2> QED
      BY <2>1 DEF NewIsForThem
  <1> QED
    BY <1>1, <1>2 DEF ReachesOnlyAddressees

\* A step of the handler of c: of the others it may only kill clients and take
\* entries out of the maps.
StepOf(c) ==
    /\ \A d \in Conns \ {c} : /\ op'[d] = op[d] /\ link'[d] = link[d]
                              /\ client'[d] \in {client[d], "gone"}
    /\ \A n \in Nodes, u \in Users : connMap'[n][u] \in {connMap[n][u], NoConn, c}
    /\ Past(c) => Past(c)'

\* What is left to show of such a step is what it does to c, and what it delivers.
LEMMA OneHandler ==
    ASSUME ChatInv, NEW c \in Conns, StepOf(c), MembersGrow, TypeOK',
           SessionOK(c)', HandlerOK(c)', NewIsForThem,
           UNCHANGED inbox \/ \A n \in Nodes : InboxOK(n)', UNCHANGED observer
    PROVE  ChatInv'
  <1> USE DEF ChatInv
  <1>1. \A d \in Conns \ {c} : SessionOK(d)'
    <2> SUFFICES ASSUME NEW d \in Conns \ {c} PROVE SessionOK(d)'
      OBVIOUS
    <2>1. NoConn \notin Conns
      BY ConstantsAssumption
    <2>2. \A n \in Nodes, u \in Users : connMap'[n][u] = d => connMap[n][u] = d
      BY <2>1 DEF StepOf
    <2> QED
      BY <2>2, SessionStays DEF StepOf
  <1>2. PastStays
    BY DEF StepOf, Past, At, PastStays
  <1>3. \A d \in Conns \ {c} : HandlerOK(d)'
    BY <1>2, HandlerStays DEF StepOf
  <1>4. \A n \in Nodes : InboxOK(n)' /\ ObserverOK(n)'
    BY <1>2, ForwardedStays
  <1>5. ReachesOnlyAddressees'
    BY ReachedStays
  <1> QED
    BY <1>1, <1>3, <1>4, <1>5
-----------------------------------------------------------------------------
(* What the steps of a handler are made of *)

LEMMA Goes ==
    ASSUME op \in [Conns -> Handler], NEW c \in Conns, NEW p \in Places, Goto(c, p)
    PROVE  /\ op' \in [Conns -> Handler]
           /\ op'[c].pc = p /\ op'[c].msg = op[c].msg /\ op'[c].local = op[c].local
           /\ op'[c].remote = op[c].remote /\ op'[c].rows = op[c].rows
           /\ \A d \in Conns \ {c} : op'[d] = op[d]
  BY DEF Goto, Handler

LEMMA NoHandlerTyped == NoHandler \in Handler
  <1>1. <<>> \in Seq(Conns) /\ <<>> \in Seq(Users)
    BY EmptySeq
  <1> QED
    BY <1>1 DEF NoHandler, Handler, Places

LEMMA Returns ==
    ASSUME op \in [Conns -> Handler], NEW c \in Conns, Return(c)
    PROVE  /\ op' \in [Conns -> Handler] /\ op'[c] = NoHandler /\ HandlerOK(c)'
           /\ \A d \in Conns \ {c} : op'[d] = op[d]
  <1>1. /\ op' \in [Conns -> Handler] /\ op'[c] = NoHandler
        /\ \A d \in Conns \ {c} : op'[d] = op[d]
    BY NoHandlerTyped DEF Return
  <1>2. /\ op'[c].pc = "idle" /\ op'[c].local = <<>> /\ op'[c].remote = <<>>
        /\ op'[c].rows = {} /\ Len(op'[c].local) = 0 /\ Len(op'[c].remote) = 0
    BY <1>1 DEF NoHandler
  <1>3. HandlerOK(c)'
    BY <1>2 DEF HandlerOK, ForThem, At, ChatPlaces
  <1> QED
    BY <1>1, <1>3

\* A handler that has no chat in hand goes on to where there is none.
LEMMA CalmHandler ==
    ASSUME NEW c \in Conns, HandlerOK(c), op[c].pc \notin ChatPlaces,
           op'[c].pc \notin ChatPlaces, op'[c].local = op[c].local,
           op'[c].remote = op[c].remote,
           \A m \in op'[c].rows : Owner[c] \in Recipients(m)'
    PROVE  HandlerOK(c)'
  <1>1. op'[c].local = <<>> /\ op'[c].remote = <<>>
    BY DEF HandlerOK, At, ChatPlaces
  <1>2. Len(op'[c].local) = 0 /\ Len(op'[c].remote) = 0
    BY <1>1
  <1> QED
    BY <1>1, <1>2 DEF HandlerOK, At, ChatPlaces, ForThem

LEMMA FaultTyped ==
    ASSUME TypeOK, UNCHANGED scene, Fault \/ UNCHANGED faults
    PROVE  faults' \in 0..scene'.faults
  <1>1. scene.faults \in Nat
    BY ConstantsAssumption DEF TypeOK
  <1> QED
    BY <1>1 DEF TypeOK, Fault

LEMMA FaultCounts ==
    ASSUME TypeOK, Fault
    PROVE  faults' # faults
  <1>1. scene.faults \in Nat
    BY ConstantsAssumption DEF TypeOK
  <1> QED
    BY <1>1 DEF TypeOK, Fault

LEMMA CommandTyped ==
    ASSUME TypeOK, NEW c \in Conns, NEW what \in {"subscribe", "unsubscribe"}, Command(c, what)
    PROVE  /\ commands' \in [Nodes -> Seq({"subscribe", "unsubscribe"} \X Users)]
           /\ UNCHANGED <<subs, inbox, observer>>
  <1> DEFINE n == Home[c]
  <1>0. UNCHANGED <<subs, inbox, observer>>
    BY DEF Command, redisVars
  <1> SUFFICES commands' \in [Nodes -> Seq({"subscribe", "unsubscribe"} \X Users)]
    BY <1>0
  <1>1. CASE commands' = [commands EXCEPT ![n] = Append(@, <<what, Owner[c]>>)]
    <2>1. n \in Nodes /\ commands[n] \in Seq({"subscribe", "unsubscribe"} \X Users)
      BY ConstantsAssumption DEF TypeOK
    <2>2. <<what, Owner[c]>> \in {"subscribe", "unsubscribe"} \X Users
      BY ConstantsAssumption
    <2>3. Append(commands[n], <<what, Owner[c]>>) \in Seq({"subscribe", "unsubscribe"} \X Users)
      BY <2>1, <2>2, AppendProperties
    <2> HIDE DEF n
    <2> QED
      BY <1>1, <2>1, <2>3 DEF TypeOK
  <1>2. CASE UNCHANGED commands
    BY <1>2 DEF TypeOK
  <1> QED
    BY <1>1, <1>2 DEF Command, redisVars

\* A command is not noticed to fail; a lost one counts as a failure.
LEMMA CommandFaults ==
    ASSUME NEW c \in Conns, NEW what \in {"subscribe", "unsubscribe"}, Command(c, what)
    PROVE  Fault \/ UNCHANGED faults
  BY DEF Command

LEMMA RowsStay == UNCHANGED members => MembersGrow
  BY DEF MembersGrow, Rows

\* c goes on to a place after the check, the close handler not being at stake.
LEMMA SessionMoves ==
    ASSUME NEW c \in Conns, SessionOK(c), UNCHANGED <<client, link>>,
           \A n \in Nodes, u \in Users : connMap'[n][u] = c => connMap[n][u] = c,
           op[c].pc # "find", op'[c].pc \notin {"check", "find"},
           op'[c].pc \in LoginPlaces => client[c] \in {"awaiting", "deaf", "gone"},
           client[c] = "connected" => op'[c].pc = "idle",
           link[c] # "down" \/ op'[c].pc \in ClosePlaces \cup {"idle"}
    PROVE  SessionOK(c)'
  BY DEF SessionOK, ClientInStep, EntryOK, Past, At, ClosePlaces, LoginPlaces

\* Nothing reaches a client, and no message moves but out of OfflineMessage.
Calm ==
    /\ UNCHANGED <<client, link, members, seqno, subs, inbox, observer, got, world>>
    /\ \A u \in Users : offline'[u] \subseteq offline[u]
    /\ \A n \in Nodes, u \in Users : connMap'[n][u] \in {connMap[n][u], NoConn}
    /\ connMap' \in [Nodes -> [Users -> Conns \cup {NoConn}]]
    /\ state' \in [Users -> {"online", "offline"}]
    /\ offline' \in [Users \cup {NoUser} -> SUBSET Messages]
    /\ commands' \in [Nodes -> Seq({"subscribe", "unsubscribe"} \X Users)]
    /\ faults' \in 0..scene.faults

CalmStep(c) ==
    /\ Calm
    /\ op' \in [Conns -> Handler]
    /\ \A d \in Conns \ {c} : op'[d] = op[d]

LEMMA CalmTyped ==
    ASSUME TypeOK, NEW c \in Conns, CalmStep(c)
    PROVE  TypeOK'
  BY DEF TypeOK, CalmStep, Calm, world

LEMMA CalmStepKeeps ==
    ASSUME ChatInv, NEW c \in Conns, CalmStep(c),
           op[c].pc # "find", op'[c].pc \notin {"check", "find"},
           op'[c].pc \in LoginPlaces => client[c] \in {"awaiting", "deaf", "gone"},
           client[c] = "connected" => op'[c].pc = "idle",
           link[c] # "down" \/ op'[c].pc \in ClosePlaces \cup {"idle"},
           HandlerOK(c)'
    PROVE  ChatInv'
  <1>1. TypeOK'
    BY CalmTyped DEF ChatInv
  <1>2. UNCHANGED <<client, link, members, inbox, observer, got>>
    BY DEF CalmStep, Calm
  <1>3. \A n \in Nodes, u \in Users : connMap'[n][u] \in {connMap[n][u], NoConn}
    BY DEF CalmStep, Calm
  <1>4. SessionOK(c)'
    <2>1. \A n \in Nodes, u \in Users : connMap'[n][u] = c => connMap[n][u] = c
      BY <1>3, ConstantsAssumption
    <2> QED
      BY <1>2, <2>1, SessionMoves DEF ChatInv
  <1>5. StepOf(c)
    BY <1>2, <1>3 DEF StepOf, CalmStep, Calm, Past, At
  <1>6. MembersGrow
    BY <1>2, RowsStay
  <1>7. NewIsForThem
    BY <1>2 DEF NewIsForThem, CalmStep, Calm
  <1> QED
    BY <1>1, <1>2, <1>4, <1>5, <1>6, <1>7, OneHandler

\* The five facts of op, connMap, state, offline and commands that most steps leave.
LEMMA UsualTypes ==
    ASSUME TypeOK
    PROVE  /\ op \in [Conns -> Handler]
           /\ connMap \in [Nodes -> [Users -> Conns \cup {NoConn}]]
           /\ state \in [Users -> {"online", "offline"}]
           /\ offline \in [Users \cup {NoUser} -> SUBSET Messages]
           /\ commands \in [Nodes -> Seq({"subscribe", "unsubscribe"} \X Users)]
           /\ client \in [Conns -> {"connected", "awaiting", "in", "deaf", "gone"}]
           /\ link \in [Conns -> {"up", "half", "down"}]
           /\ got \in [Conns -> SUBSET Messages]
           /\ faults \in 0..scene.faults
  BY DEF TypeOK
-----------------------------------------------------------------------------
(* The login *)

\* The handler of c goes from one place to another, and has no chat in hand.
LEMMA CalmGoto ==
    ASSUME ChatInv, NEW c \in Conns, Calm, NEW p \in Places, Goto(c, p),
           op[c].pc \notin ChatPlaces \cup {"find"},
           p \notin ChatPlaces \cup {"check", "find", "idle"},
           p \in LoginPlaces => client[c] \in {"awaiting", "deaf", "gone"},
           client[c] # "connected",
           link[c] # "down" \/ p \in ClosePlaces
    PROVE  ChatInv'
  <1>1. /\ op' \in [Conns -> Handler]
        /\ op'[c].pc = p /\ op'[c].msg = op[c].msg /\ op'[c].local = op[c].local
        /\ op'[c].remote = op[c].remote /\ op'[c].rows = op[c].rows
        /\ \A d \in Conns \ {c} : op'[d] = op[d]
    BY UsualTypes, Goes DEF ChatInv
  <1>2. HandlerOK(c) /\ UNCHANGED members
    BY DEF ChatInv, Calm
  <1>3. \A m \in op'[c].rows : Owner[c] \in Recipients(m)'
    <2>1. \A m \in op[c].rows : Owner[c] \in Recipients(m)
      BY <1>2 DEF HandlerOK
    <2>2. \A m : Recipients(m)' = Recipients(m)
      BY <1>2 DEF Recipients, Rows
    <2> QED
      BY <1>1, <2>1, <2>2
  <1>4. HandlerOK(c)'
    BY <1>1, <1>2, <1>3, CalmHandler
  <1>5. CalmStep(c)
    BY <1>1 DEF CalmStep
  <1> QED
    BY <1>1, <1>4, <1>5, CalmStepKeeps

\* The handler of c returns.
LEMMA CalmReturn ==
    ASSUME ChatInv, NEW c \in Conns, Calm, Return(c), op[c].pc # "find"
    PROVE  ChatInv'
  <1>1. /\ op' \in [Conns -> Handler] /\ op'[c].pc = "idle" /\ HandlerOK(c)'
        /\ \A d \in Conns \ {c} : op'[d] = op[d]
    BY UsualTypes, Returns DEF ChatInv, NoHandler
  <1>2. CalmStep(c)
    BY <1>1 DEF CalmStep
  <1> QED
    BY <1>1, <1>2, CalmStepKeeps DEF LoginPlaces
-----------------------------------------------------------------------------
(* The login, the logout, and the close but for its first steps *)

LEMMA LoginCheckKeeps ==
    ASSUME ChatInv, NEW c \in Conns, LoginCheck(c), UNCHANGED world
    PROVE  ChatInv'
  <1>1. Calm
    BY UsualTypes DEF ChatInv, Calm, LoginCheck, sessionVars, redisVars
  <1>2. op[c].pc = "check" /\ Goto(c, "map") /\ ClientInStep(c)
    BY DEF LoginCheck, At, ChatInv, SessionOK
  <1> QED
    BY <1>1, <1>2, CalmGoto
    DEF ClientInStep, LoginPlaces, ClosePlaces, ChatPlaces, Places, At

LEMMA LoginSubscribeKeeps ==
    ASSUME ChatInv, NEW c \in Conns, LoginSubscribe(c), UNCHANGED world
    PROVE  ChatInv'
  <1>0. faults' \in 0..scene.faults
    BY CommandFaults, FaultTyped DEF ChatInv, LoginSubscribe, world
  <1>1. /\ commands' \in [Nodes -> Seq({"subscribe", "unsubscribe"} \X Users)]
        /\ UNCHANGED <<subs, inbox, observer>>
    BY CommandTyped DEF ChatInv, LoginSubscribe
  <1>2. Calm
    BY <1>0, <1>1, UsualTypes DEF ChatInv, Calm, LoginSubscribe, sessionVars
  <1>3. op[c].pc = "subscribe" /\ Goto(c, "online") /\ ClientInStep(c)
    BY DEF LoginSubscribe, At, ChatInv, SessionOK
  <1> QED
    BY <1>2, <1>3, CalmGoto
    DEF ClientInStep, LoginPlaces, ClosePlaces, ChatPlaces, Places, At

LEMMA LoginOnlineKeeps ==
    ASSUME ChatInv, NEW c \in Conns, LoginOnline(c), UNCHANGED world
    PROVE  ChatInv'
  <1>1. faults' \in 0..scene.faults
    BY FaultTyped DEF ChatInv, LoginOnline, world
  <1>2. Calm
    BY <1>1, UsualTypes DEF ChatInv, Calm, LoginOnline, redisVars
  <1>3. op[c].pc = "online" /\ Goto(c, "query") /\ ClientInStep(c)
    BY DEF LoginOnline, At, ChatInv, SessionOK
  <1> QED
    BY <1>2, <1>3, CalmGoto
    DEF ClientInStep, LoginPlaces, ClosePlaces, ChatPlaces, Places, At

LEMMA LoginRemoveKeeps ==
    ASSUME ChatInv, NEW c \in Conns, LoginRemove(c), UNCHANGED world
    PROVE  ChatInv'
  <1>1. faults' \in 0..scene.faults
    BY FaultTyped DEF ChatInv, LoginRemove, world
  <1>2. /\ offline' \in [Users \cup {NoUser} -> SUBSET Messages]
        /\ \A u \in Users : offline'[u] \subseteq offline[u]
    BY UsualTypes DEF ChatInv, LoginRemove
  <1>3. Calm
    BY <1>1, <1>2, UsualTypes DEF ChatInv, Calm, LoginRemove, redisVars, sessionVars
  <1>4. op[c].pc = "remove" /\ Goto(c, "ack") /\ ClientInStep(c)
    BY DEF LoginRemove, At, ChatInv, SessionOK
  <1> QED
    BY <1>3, <1>4, CalmGoto
    DEF ClientInStep, LoginPlaces, ClosePlaces, ChatPlaces, Places, At

LEMMA LogoutEraseKeeps ==
    ASSUME ChatInv, NEW c \in Conns, LogoutErase(c), UNCHANGED world
    PROVE  ChatInv'
  <1>1. /\ connMap' \in [Nodes -> [Users -> Conns \cup {NoConn}]]
        /\ \A n \in Nodes, u \in Users : connMap'[n][u] \in {connMap[n][u], NoConn}
    BY UsualTypes DEF ChatInv, LogoutErase
  <1>2. Calm
    BY <1>1, UsualTypes DEF ChatInv, Calm, LogoutErase, redisVars
  <1>3. op[c].pc = "idle" /\ Goto(c, "unsubscribe") /\ client[c] = "in" /\ link[c] # "down"
    BY DEF LogoutErase, At
  <1> QED
    BY <1>2, <1>3, CalmGoto DEF LoginPlaces, ClosePlaces, ChatPlaces, Places

LEMMA LogoutUnsubscribeKeeps ==
    ASSUME ChatInv, NEW c \in Conns, LogoutUnsubscribe(c), UNCHANGED world
    PROVE  ChatInv'
  <1>0. faults' \in 0..scene.faults
    BY CommandFaults, FaultTyped DEF ChatInv, LogoutUnsubscribe, world
  <1>1. /\ commands' \in [Nodes -> Seq({"subscribe", "unsubscribe"} \X Users)]
        /\ UNCHANGED <<subs, inbox, observer>>
    BY CommandTyped DEF ChatInv, LogoutUnsubscribe
  <1>2. Calm
    BY <1>0, <1>1, UsualTypes DEF ChatInv, Calm, LogoutUnsubscribe, sessionVars
  <1>3. op[c].pc = "unsubscribe" /\ Goto(c, "offline") /\ ClientInStep(c)
    BY DEF LogoutUnsubscribe, At, ChatInv, SessionOK
  <1> QED
    BY <1>2, <1>3, CalmGoto
    DEF ClientInStep, LoginPlaces, ClosePlaces, ChatPlaces, Places, At

LEMMA LogoutOfflineKeeps ==
    ASSUME ChatInv, NEW c \in Conns, LogoutOffline(c), UNCHANGED world
    PROVE  ChatInv'
  <1>1. faults' \in 0..scene.faults
    BY FaultTyped DEF ChatInv, LogoutOffline, world
  <1>2. Calm
    BY <1>1, UsualTypes DEF ChatInv, Calm, LogoutOffline, redisVars
  <1> QED
    BY <1>2, CalmReturn DEF LogoutOffline, At

LEMMA CloseOfflineKeeps ==
    ASSUME ChatInv, NEW c \in Conns, CloseOffline(c), UNCHANGED world
    PROVE  ChatInv'
  <1>1. faults' \in 0..scene.faults
    BY FaultTyped DEF ChatInv, CloseOffline, world
  <1>2. Calm
    BY <1>1, UsualTypes DEF ChatInv, Calm, CloseOffline, redisVars
  <1>3. op[c].pc = "closeOffline" /\ Goto(c, "closeUnsubscribe") /\ ClientInStep(c)
    BY DEF CloseOffline, At, ChatInv, SessionOK
  <1> QED
    BY <1>2, <1>3, CalmGoto
    DEF ClientInStep, LoginPlaces, ClosePlaces, ChatPlaces, Places, At

LEMMA CloseUnsubscribeKeeps ==
    ASSUME ChatInv, NEW c \in Conns, CloseUnsubscribe(c), UNCHANGED world
    PROVE  ChatInv'
  <1>0. faults' \in 0..scene.faults
    BY CommandFaults, FaultTyped DEF ChatInv, CloseUnsubscribe, world
  <1>1. /\ commands' \in [Nodes -> Seq({"subscribe", "unsubscribe"} \X Users)]
        /\ UNCHANGED <<subs, inbox, observer>>
    BY CommandTyped DEF ChatInv, CloseUnsubscribe
  <1>2. Calm
    BY <1>0, <1>1, UsualTypes DEF ChatInv, Calm, CloseUnsubscribe, sessionVars
  <1> QED
    BY <1>2, CalmReturn DEF CloseUnsubscribe, At

LEMMA LoginQueryKeeps ==
    ASSUME ChatInv, NEW c \in Conns, LoginQuery(c), UNCHANGED world
    PROVE  ChatInv'
  <1>1. PICK rows \in {offline[Owner[c]], {}} :
           /\ IF rows = offline[Owner[c]] THEN UNCHANGED faults ELSE Fault
           /\ op' = [op EXCEPT ![c].rows = rows,
                               ![c].pc = IF rows = {} THEN "ack" ELSE "remove"]
    BY DEF LoginQuery
  <1>2. /\ op[c].pc = "query"
        /\ UNCHANGED <<sessionVars, offline, members, seqno, redisVars, got, world>>
    BY DEF LoginQuery, At
  <1>3. rows \in SUBSET Messages /\ \A m \in rows : Owner[c] \in Recipients(m)
    <2>1. Owner[c] \in Users
      BY ConstantsAssumption
    <2> QED
      BY <1>1, <2>1 DEF ChatInv, TypeOK, ReachesOnlyAddressees
  <1> DEFINE p == IF rows = {} THEN "ack" ELSE "remove"
  <1>4. p \in Places \cap LoginPlaces /\ p \notin ChatPlaces \cup {"check", "find", "idle"}
    BY DEF Places, LoginPlaces, ChatPlaces
  <1>5. op' = [op EXCEPT ![c].rows = rows, ![c].pc = p] /\ op \in [Conns -> Handler]
    BY <1>1, UsualTypes DEF ChatInv
  <1> HIDE DEF p
  <1>6. /\ op' \in [Conns -> Handler]
        /\ op'[c].pc = p /\ op'[c].rows = rows /\ op'[c].local = op[c].local
        /\ op'[c].remote = op[c].remote
        /\ \A d \in Conns \ {c} : op'[d] = op[d]
    BY <1>3, <1>4, <1>5 DEF Handler
  <1>7. faults' \in 0..scene.faults
    BY <1>1, <1>2, FaultTyped DEF ChatInv, world
  <1>8. CalmStep(c)
    BY <1>2, <1>6, <1>7, UsualTypes DEF ChatInv, CalmStep, Calm, sessionVars, redisVars
  <1>9. HandlerOK(c)'
    <2>1. \A m : Recipients(m)' = Recipients(m)
      BY <1>2 DEF Recipients, Rows
    <2>2. \A m \in op'[c].rows : Owner[c] \in Recipients(m)'
      BY <1>3, <1>6, <2>1
    <2>3. op[c].pc \notin ChatPlaces /\ HandlerOK(c)
      BY <1>2 DEF ChatPlaces, ChatInv
    <2> QED
      BY <1>4, <1>6, <2>2, <2>3, CalmHandler
  <1>10. ClientInStep(c)
    BY DEF ChatInv, SessionOK
  <1> QED
    BY <1>2, <1>4, <1>6, <1>8, <1>9, <1>10, CalmStepKeeps
    DEF ClientInStep, LoginPlaces, ClosePlaces, At

\* A refused client goes back to its menu; it is in no map yet.
LEMMA RefuseKeeps ==
    ASSUME ChatInv, NEW c \in Conns, At(c, "check"), Refuse(c), UNCHANGED world,
           faults' \in 0..scene.faults
    PROVE  ChatInv'
  <1>1. /\ op' \in [Conns -> Handler] /\ op'[c].pc = "idle" /\ HandlerOK(c)'
        /\ \A d \in Conns \ {c} : op'[d] = op[d]
    BY UsualTypes, Returns DEF ChatInv, NoHandler, Refuse
  <1>2. /\ client' \in [Conns -> {"connected", "awaiting", "in", "deaf", "gone"}]
        /\ \A d \in Conns \ {c} : client'[d] = client[d]
        /\ client'[c] \in {client[c], "connected"}
        /\ client[c] \notin {"awaiting"} => client'[c] = client[c]
    BY UsualTypes DEF ChatInv, Refuse
  <1>3. /\ UNCHANGED <<link, connMap, state, offline, members, seqno, redisVars, got, world>>
        /\ op[c].pc = "check" /\ SessionOK(c)
    BY DEF Refuse, At, ChatInv
  <1>4. TypeOK'
    BY <1>1, <1>2, <1>3 DEF ChatInv, TypeOK, redisVars, world
  <1>5. SessionOK(c)'
    <2>1. client[c] \in {"awaiting", "deaf", "gone"} /\ link[c] # "down"
      BY <1>3, UsualTypes DEF ChatInv, SessionOK, ClientInStep, LoginPlaces, ClosePlaces
    <2>2. EntryOK(c)'
      BY <1>1, <1>2, <1>3, <2>1 DEF SessionOK, EntryOK, Past, At
    <2>3. ClientInStep(c)'
      BY <1>1, <1>2, <1>3, <2>1 DEF ClientInStep, LoginPlaces, At
    <2> QED
      BY <2>2, <2>3 DEF SessionOK
  <1>6. StepOf(c)
    BY <1>1, <1>2, <1>3 DEF StepOf, Past, At
  <1>7. NewIsForThem /\ MembersGrow /\ UNCHANGED <<inbox, observer>>
    BY <1>3, RowsStay DEF NewIsForThem, redisVars
  <1> QED
    BY <1>1, <1>4, <1>5, <1>6, <1>7, OneHandler

LEMMA SendLoginKeeps ==
    ASSUME ChatInv, NEW c \in Conns, SendLogin(c), UNCHANGED world
    PROVE  ChatInv'
  <1>1. /\ UNCHANGED <<link, connMap, state, offline, members, seqno, redisVars, got, faults,
                       world>>
        /\ client[c] \in {"connected", "deaf"} /\ link[c] # "down" /\ op[c].pc = "idle"
        /\ client' = [client EXCEPT ![c] = IF @ = "deaf" THEN @ ELSE "awaiting"]
        /\ Goto(c, "check")
    BY DEF SendLogin, At
  <1>2. /\ op' \in [Conns -> Handler] /\ op'[c].pc = "check"
        /\ op'[c].msg = op[c].msg /\ op'[c].local = op[c].local
        /\ op'[c].remote = op[c].remote /\ op'[c].rows = op[c].rows
        /\ \A d \in Conns \ {c} : op'[d] = op[d]
    BY <1>1, UsualTypes, Goes DEF ChatInv, Places
  <1>3. /\ client' \in [Conns -> {"connected", "awaiting", "in", "deaf", "gone"}]
        /\ \A d \in Conns \ {c} : client'[d] = client[d]
        /\ client'[c] = IF client[c] = "deaf" THEN "deaf" ELSE "awaiting"
    BY <1>1, UsualTypes DEF ChatInv
  <1>4. TypeOK'
    BY <1>1, <1>2, <1>3 DEF ChatInv, TypeOK, redisVars, world
  <1>5. SessionOK(c)'
    <2>1. SessionOK(c)
      BY DEF ChatInv
    <2>2. ClientInStep(c)'
      BY <1>1, <1>2, <1>3 DEF ClientInStep, LoginPlaces, At
    <2>3. EntryOK(c)'
      BY <1>1, <1>2, <1>3, <2>1 DEF SessionOK, EntryOK, Past, At
    <2> QED
      BY <2>2, <2>3 DEF SessionOK
  <1>6. HandlerOK(c)'
    <2>1. \A m : Recipients(m)' = Recipients(m)
      BY <1>1 DEF Recipients, Rows
    <2>2. HandlerOK(c)
      BY DEF ChatInv
    <2>3. \A m \in op[c].rows : Owner[c] \in Recipients(m)
      BY <2>2 DEF HandlerOK
    <2>4. \A m \in op'[c].rows : Owner[c] \in Recipients(m)'
      BY <1>2, <2>1, <2>3
    <2>5. op[c].pc \notin ChatPlaces /\ op'[c].pc \notin ChatPlaces
      BY <1>1, <1>2 DEF ChatPlaces
    <2> QED
      BY <1>2, <2>2, <2>4, <2>5, CalmHandler
  <1>7. StepOf(c)
    BY <1>1, <1>2, <1>3 DEF StepOf, Past, At
  <1>8. NewIsForThem /\ MembersGrow /\ UNCHANGED <<inbox, observer>>
    BY <1>1, RowsStay DEF NewIsForThem, redisVars
  <1> QED
    BY <1>4, <1>5, <1>6, <1>7, <1>8, OneHandler

\* The handler of c, with no chat in hand, has gone on with what it had.
LEMMA GoneOn ==
    ASSUME ChatInv, NEW c \in Conns, NEW p \in Places, Goto(c, p), UNCHANGED members,
           op[c].pc \notin ChatPlaces, p \notin ChatPlaces
    PROVE  /\ op' \in [Conns -> Handler] /\ op'[c].pc = p
           /\ \A d \in Conns \ {c} : op'[d] = op[d]
           /\ HandlerOK(c)'
  <1>1. /\ op' \in [Conns -> Handler] /\ op'[c].pc = p
        /\ op'[c].msg = op[c].msg /\ op'[c].local = op[c].local
        /\ op'[c].remote = op[c].remote /\ op'[c].rows = op[c].rows
        /\ \A d \in Conns \ {c} : op'[d] = op[d]
    BY UsualTypes, Goes DEF ChatInv
  <1>2. \A m : Recipients(m)' = Recipients(m)
    BY DEF Recipients, Rows
  <1>3. HandlerOK(c)
    BY DEF ChatInv
  <1>4. \A m \in op[c].rows : Owner[c] \in Recipients(m)
    BY <1>3 DEF HandlerOK
  <1>5. \A m \in op'[c].rows : Owner[c] \in Recipients(m)'
    BY <1>1, <1>2, <1>4
  <1> QED
    BY <1>1, <1>3, <1>5, CalmHandler

LEMMA LoginMapKeeps ==
    ASSUME ChatInv, NEW c \in Conns, LoginMap(c), UNCHANGED world
    PROVE  ChatInv'
  <1> DEFINE n == Home[c]
             u == Owner[c]
             new == IF connMap[n][u] = NoConn THEN c ELSE connMap[n][u]
  <1>1. /\ UNCHANGED <<client, link, state, offline, members, seqno, redisVars, got, faults,
                       world>>
        /\ op[c].pc = "map" /\ Goto(c, "subscribe")
    BY DEF LoginMap, At
  <1>2. connMap' = [connMap EXCEPT ![n][u] = new]
    BY UsualTypes, ConstantsAssumption DEF LoginMap, ChatInv
  <1>3. n \in Nodes /\ u \in Users /\ Home[c] = n /\ Owner[c] = u
    BY ConstantsAssumption
  <1>4. new \in Conns \cup {NoConn} /\ new \in {connMap[n][u], c}
    BY <1>3, UsualTypes DEF ChatInv
  <1> HIDE DEF n, u, new
  <1>5. /\ connMap' \in [Nodes -> [Users -> Conns \cup {NoConn}]]
        /\ connMap'[n][u] = new
        /\ \A k \in Nodes, v \in Users :
              k # n \/ v # u => connMap'[k][v] = connMap[k][v]
    BY <1>2, <1>3, <1>4, UsualTypes DEF ChatInv
  <1>6. /\ op' \in [Conns -> Handler] /\ op'[c].pc = "subscribe" /\ HandlerOK(c)'
        /\ \A d \in Conns \ {c} : op'[d] = op[d]
    BY <1>1, GoneOn DEF Places, ChatPlaces
  <1>7. TypeOK'
    BY <1>1, <1>5, <1>6 DEF ChatInv, TypeOK, redisVars, world
  <1>8. SessionOK(c)'
    <2>1. SessionOK(c) /\ client[c] \in {"awaiting", "deaf", "gone"} /\ link[c] # "down"
      BY <1>1, UsualTypes DEF ChatInv, SessionOK, ClientInStep, LoginPlaces, ClosePlaces
    <2>2. ClientInStep(c)'
      BY <1>1, <1>6, <2>1 DEF ClientInStep, LoginPlaces, At
    <2>3. EntryOK(c)'
      <3> SUFFICES ASSUME NEW k \in Nodes, NEW v \in Users, connMap'[k][v] = c
                   PROVE  Owner[c] = v /\ Home[c] = k
        BY <1>1, <1>6, <2>1 DEF EntryOK, Past, At
      <3>1. CASE k = n /\ v = u
        BY <1>3, <3>1
      <3>2. CASE k # n \/ v # u
        BY <1>5, <2>1, <3>2 DEF SessionOK, EntryOK, Past
      <3> QED
        BY <3>1, <3>2
    <2> QED
      BY <2>2, <2>3 DEF SessionOK
  <1>9. StepOf(c)
    <2>1. \A k \in Nodes, v \in Users : connMap'[k][v] \in {connMap[k][v], NoConn, c}
      BY <1>4, <1>5
    <2> QED
      BY <1>1, <1>6, <2>1 DEF StepOf, Past, At
  <1>10. NewIsForThem /\ MembersGrow /\ UNCHANGED <<inbox, observer>>
    BY <1>1, RowsStay DEF NewIsForThem, redisVars
  <1> QED
    BY <1>6, <1>7, <1>8, <1>9, <1>10, OneHandler

LEMMA LoginAckKeeps ==
    ASSUME ChatInv, NEW c \in Conns, LoginAck(c), UNCHANGED world
    PROVE  ChatInv'
  <1>1. /\ UNCHANGED <<link, connMap, state, offline, members, seqno, redisVars, faults, world>>
        /\ op[c].pc = "ack" /\ Return(c) /\ SessionOK(c) /\ HandlerOK(c)
    BY DEF LoginAck, At, ChatInv
  <1>2. /\ op' \in [Conns -> Handler] /\ op'[c].pc = "idle" /\ HandlerOK(c)'
        /\ \A d \in Conns \ {c} : op'[d] = op[d]
    BY <1>1, UsualTypes, Returns DEF ChatInv, NoHandler
  <1>3. client[c] \in {"awaiting", "deaf", "gone"} /\ link[c] # "down"
    BY <1>1, UsualTypes DEF ChatInv, SessionOK, ClientInStep, LoginPlaces, ClosePlaces
  <1>4. /\ client' \in [Conns -> {"connected", "awaiting", "in", "deaf", "gone"}]
        /\ \A d \in Conns \ {c} : client'[d] = client[d]
        /\ client'[c] \in {"awaiting", "in", "deaf", "gone"}
        /\ client[c] \in {"deaf", "gone"} => client'[c] = client[c]
    BY <1>3, UsualTypes DEF ChatInv, LoginAck
  <1>5. op[c].rows \in SUBSET Messages
    BY UsualTypes DEF ChatInv, Handler
  <1>6. /\ got' \in [Conns -> SUBSET Messages]
        /\ \A d \in Conns \ {c} : got'[d] = got[d]
        /\ got'[c] \subseteq got[c] \cup op[c].rows
    BY <1>5, UsualTypes DEF ChatInv, LoginAck
  <1>7. TypeOK'
    BY <1>1, <1>2, <1>4, <1>6 DEF ChatInv, TypeOK, redisVars, world
  <1>8. SessionOK(c)'
    BY <1>1, <1>2, <1>3, <1>4 DEF SessionOK, ClientInStep, EntryOK, Past, LoginPlaces, At
  <1>9. StepOf(c)
    BY <1>1, <1>2, <1>4 DEF StepOf, Past, At
  <1>10. NewIsForThem
    <2>1. \A m : Recipients(m)' = Recipients(m)
      BY <1>1 DEF Recipients, Rows
    <2>2. \A m \in op[c].rows : Owner[c] \in Recipients(m)
      BY <1>1 DEF HandlerOK
    <2>3. \A d \in Conns : \A m \in got'[d] \ got[d] : Owner[d] \in Recipients(m)'
      BY <1>6, <2>1, <2>2
    <2> QED
      BY <1>1, <2>3 DEF NewIsForThem
  <1>11. MembersGrow /\ UNCHANGED <<inbox, observer>>
    BY <1>1, RowsStay DEF redisVars
  <1> QED
    BY <1>2, <1>7, <1>8, <1>9, <1>10, <1>11, OneHandler

\* A client process ends: whoever has put it into a map may still hold it.
LEMMA ClientDiesKeeps ==
    ASSUME ChatInv, NEW c \in Conns, ClientDies(c), UNCHANGED world
    PROVE  ChatInv'
  <1>1. /\ UNCHANGED <<link, op, connMap, state, offline, members, seqno, redisVars, got,
                       faults, world>>
        /\ client[c] # "gone"
    BY DEF ClientDies
  <1>2. /\ client' \in [Conns -> {"connected", "awaiting", "in", "deaf", "gone"}]
        /\ \A d \in Conns \ {c} : client'[d] = client[d]
        /\ client'[c] = "gone"
    BY UsualTypes DEF ChatInv, ClientDies
  <1>3. TypeOK'
    BY <1>1, <1>2 DEF ChatInv, TypeOK, redisVars, world
  <1>4. SessionOK(c)'
    BY <1>1, <1>2, SessionStays DEF ChatInv
  <1>5. StepOf(c)
    BY <1>1, <1>2 DEF StepOf, Past, At
  <1>6. NewIsForThem /\ MembersGrow /\ UNCHANGED <<inbox, observer>>
    BY <1>1, RowsStay DEF NewIsForThem, redisVars
  <1>7. HandlerOK(c)'
    <2>1. PastStays
      BY <1>1, <1>2 DEF PastStays, Past, At
    <2> QED
      BY <1>1, <1>6, <2>1, HandlerStays DEF ChatInv
  <1> QED
    BY <1>3, <1>4, <1>5, <1>6, <1>7, OneHandler
-----------------------------------------------------------------------------
(* The first steps of the close *)

\* The connection is shut down for writing: no pointer changes hands.
LEMMA ShutdownKeeps ==
    ASSUME ChatInv, NEW c \in Conns, Shutdown(c), UNCHANGED world
    PROVE  ChatInv'
  <1>1. /\ UNCHANGED <<client, op, connMap, state, offline, members, seqno, redisVars, got,
                       faults, world>>
        /\ link[c] = "up"
    BY DEF Shutdown
  <1>2. /\ link' \in [Conns -> {"up", "half", "down"}] /\ link'[c] = "half"
        /\ \A d \in Conns \ {c} : link'[d] = link[d]
    BY UsualTypes DEF ChatInv, Shutdown
  <1>3. TypeOK'
    BY <1>1, <1>2 DEF ChatInv, TypeOK, redisVars, world
  <1>4. SessionOK(c)'
    <2>1. SessionOK(c)
      BY DEF ChatInv
    <2> QED
      BY <1>1, <1>2, <2>1 DEF SessionOK, ClientInStep, EntryOK, Past, At
  <1>5. StepOf(c)
    BY <1>1, <1>2 DEF StepOf, Past, At
  <1>6. NewIsForThem /\ MembersGrow /\ UNCHANGED <<inbox, observer>>
    BY <1>1, RowsStay DEF NewIsForThem, redisVars
  <1>7. HandlerOK(c)'
    <2>1. PastStays
      BY <1>1 DEF PastStays, Past, At
    <2> QED
      BY <1>1, <1>6, <2>1, HandlerStays DEF ChatInv
  <1> QED
    BY <1>3, <1>4, <1>5, <1>6, <1>7, OneHandler

LEMMA EndOfFileKeeps ==
    ASSUME ChatInv, NEW c \in Conns, EndOfFile(c), UNCHANGED world
    PROVE  ChatInv'
  <1>1. /\ UNCHANGED <<link, op, connMap, state, offline, members, seqno, redisVars, got,
                       faults, world>>
        /\ client[c] \in {"awaiting", "in"} /\ link[c] = "half"
    BY DEF EndOfFile
  <1>2. /\ client' \in [Conns -> {"connected", "awaiting", "in", "deaf", "gone"}]
        /\ \A d \in Conns \ {c} : client'[d] = client[d]
        /\ client'[c] = IF client[c] = "in" THEN "gone" ELSE "deaf"
    BY UsualTypes DEF ChatInv, EndOfFile
  <1>3. TypeOK'
    BY <1>1, <1>2 DEF ChatInv, TypeOK, redisVars, world
  <1>4. SessionOK(c)'
    <2>1. SessionOK(c)
      BY DEF ChatInv
    <2> QED
      BY <1>1, <1>2, <2>1 DEF SessionOK, ClientInStep, LoginPlaces, EntryOK, Past, At
  <1>5. StepOf(c)
    BY <1>1, <1>2 DEF StepOf, Past, At
  <1>6. NewIsForThem /\ MembersGrow /\ UNCHANGED <<inbox, observer>>
    BY <1>1, RowsStay DEF NewIsForThem, redisVars
  <1>7. HandlerOK(c)'
    <2>1. PastStays
      BY <1>1, <1>2 DEF PastStays, Past, At
    <2> QED
      BY <1>1, <1>6, <2>1, HandlerStays DEF ChatInv
  <1> QED
    BY <1>3, <1>4, <1>5, <1>6, <1>7, OneHandler

LEMMA ConnectionDownKeeps ==
    ASSUME ChatInv, NEW c \in Conns, ConnectionDown(c), UNCHANGED world
    PROVE  ChatInv'
  <1>1. /\ UNCHANGED <<client, connMap, state, offline, members, seqno, redisVars, got, faults,
                       world>>
        /\ client[c] = "gone" /\ op[c].pc = "idle" /\ Goto(c, "find")
    BY DEF ConnectionDown, At
  <1>2. /\ link' \in [Conns -> {"up", "half", "down"}] /\ link'[c] = "down"
        /\ \A d \in Conns \ {c} : link'[d] = link[d]
    BY UsualTypes DEF ChatInv, ConnectionDown
  <1>3. /\ op' \in [Conns -> Handler] /\ op'[c].pc = "find" /\ HandlerOK(c)'
        /\ \A d \in Conns \ {c} : op'[d] = op[d]
    BY <1>1, GoneOn DEF Places, ChatPlaces
  <1>4. TypeOK'
    BY <1>1, <1>2, <1>3 DEF ChatInv, TypeOK, redisVars, world
  <1>5. SessionOK(c)'
    <2>1. SessionOK(c)
      BY DEF ChatInv
    <2> QED
      BY <1>1, <1>2, <1>3, <2>1 DEF SessionOK, ClientInStep, EntryOK, Past, LoginPlaces, ClosePlaces, At
  <1>6. StepOf(c)
    BY <1>1, <1>2, <1>3 DEF StepOf, Past, At
  <1>7. NewIsForThem /\ MembersGrow /\ UNCHANGED <<inbox, observer>>
    BY <1>1, RowsStay DEF NewIsForThem, redisVars
  <1> QED
    BY <1>3, <1>4, <1>5, <1>6, <1>7, OneHandler

\* After the search c is in no map: it could only be in its user's entry at its node.
LEMMA CloseFindKeeps ==
    ASSUME ChatInv, NEW c \in Conns, CloseFind(c), UNCHANGED world
    PROVE  ChatInv'
  <1> DEFINE n == Home[c]
             u == Owner[c]
             found == connMap[n][u] = c
  <1>1. /\ UNCHANGED <<client, link, state, offline, members, seqno, redisVars, got, faults,
                       world>>
        /\ op[c].pc = "find" /\ SessionOK(c) /\ HandlerOK(c)
    BY DEF CloseFind, At, ChatInv
  <1>2. client[c] = "gone" /\ link[c] = "down"
    BY <1>1 DEF SessionOK, ClientInStep, At
  <1>3. n \in Nodes /\ u \in Users /\ Home[c] = n /\ Owner[c] = u
    BY ConstantsAssumption
  <1>4. /\ found => connMap' = [connMap EXCEPT ![n][u] = NoConn] /\ Goto(c, "closeOffline")
        /\ ~found => Return(c) /\ UNCHANGED connMap
    BY DEF CloseFind
  <1>5. /\ op' \in [Conns -> Handler] /\ op'[c].pc \in {"closeOffline", "idle"}
        /\ HandlerOK(c)' /\ \A d \in Conns \ {c} : op'[d] = op[d]
    <2>1. CASE found
      BY <1>1, <1>4, <2>1, GoneOn DEF Places, ChatPlaces
    <2>2. CASE ~found
      BY <1>4, <2>2, Returns, UsualTypes DEF ChatInv, NoHandler
    <2> QED
      BY <2>1, <2>2
  <1>6. /\ connMap' \in [Nodes -> [Users -> Conns \cup {NoConn}]]
        /\ \A k \in Nodes, v \in Users : connMap'[k][v] \in {connMap[k][v], NoConn}
        /\ connMap'[n][u] # c
    <2>1. connMap \in [Nodes -> [Users -> Conns \cup {NoConn}]] /\ NoConn \notin Conns
      BY UsualTypes, ConstantsAssumption DEF ChatInv
    <2> HIDE DEF n, u
    <2>2. CASE connMap[n][u] = c
      BY <1>3, <1>4, <2>1, <2>2
    <2>3. CASE connMap[n][u] # c
      BY <1>3, <1>4, <2>1, <2>3
    <2> QED
      BY <2>2, <2>3
  <1> HIDE DEF n, u, found
  <1>7. TypeOK'
    BY <1>1, <1>5, <1>6 DEF ChatInv, TypeOK, redisVars, world
  <1>8. SessionOK(c)'
    <2>1. \A k \in Nodes, v \in Users : connMap'[k][v] # c
      <3> SUFFICES ASSUME NEW k \in Nodes, NEW v \in Users, connMap'[k][v] = c PROVE FALSE
        OBVIOUS
      <3>1. connMap[k][v] = c
        BY <1>6, ConstantsAssumption
      <3>2. k = n /\ v = u
        BY <1>1, <1>3, <3>1 DEF SessionOK, EntryOK, Past
      <3> QED
        BY <1>6, <3>2
    <2>2. ClientInStep(c)'
      BY <1>1, <1>2, <1>5 DEF ClientInStep, LoginPlaces, ClosePlaces, At
    <2> QED
      BY <2>1, <2>2 DEF SessionOK, EntryOK, Past
  <1>9. StepOf(c)
    BY <1>1, <1>5, <1>6 DEF StepOf, Past, At
  <1>10. NewIsForThem /\ MembersGrow /\ UNCHANGED <<inbox, observer>>
    BY <1>1, RowsStay DEF NewIsForThem, redisVars
  <1> QED
    BY <1>5, <1>7, <1>8, <1>9, <1>10, OneHandler
-----------------------------------------------------------------------------
(* The chats *)

\* A step of a chat: it may kill clients that still wait for the login response.
ChatMove(c) ==
    /\ \/ op[c].pc \in ChatPlaces
       \/ client[c] = "in" /\ link[c] # "down" /\ op[c].pc = "idle"
    /\ op'[c].pc \in ChatPlaces \cup {"idle"}
    /\ \A d \in Conns \ {c} : op'[d] = op[d]
    /\ \A d \in Conns : client'[d] \in {client[d], "gone"}
    /\ UNCHANGED <<link, connMap, members, observer>>

LEMMA ChatMoveKeeps ==
    ASSUME ChatInv, NEW c \in Conns, ChatMove(c), TypeOK', HandlerOK(c)', NewIsForThem,
           UNCHANGED inbox \/ \A n \in Nodes : InboxOK(n)'
    PROVE  ChatInv'
  <1>1. SessionOK(c) /\ link[c] \in {"up", "half", "down"}
    BY UsualTypes DEF ChatInv
  <1>2. link[c] # "down" /\ client[c] # "connected"
    BY <1>1 DEF ChatMove, SessionOK, ClientInStep, At, ChatPlaces, ClosePlaces
  <1>3. SessionOK(c)'
    <2>1. ClientInStep(c)'
      BY <1>2 DEF ChatMove, ClientInStep, LoginPlaces, ChatPlaces, At
    <2>2. EntryOK(c)'
      BY <1>1, <1>2 DEF ChatMove, SessionOK, EntryOK, Past, ChatPlaces, At
    <2> QED
      BY <2>1, <2>2 DEF SessionOK
  <1>4. StepOf(c)
    BY DEF ChatMove, StepOf, Past, At, ChatPlaces
  <1>5. MembersGrow /\ UNCHANGED observer
    BY RowsStay DEF ChatMove
  <1> QED
    BY <1>3, <1>4, <1>5, OneHandler

LEMMA OneChatKeeps ==
    ASSUME ChatInv, NEW c \in Conns, NEW v \in Users, OneChat(c, v), UNCHANGED world
    PROVE  ChatInv'
  <1> DEFINE k == {Owner[c], v}
             m == [conv |-> k, seq |-> seqno[k] + 1, from |-> Owner[c]]
             s == <<v>>
  <1>1. /\ UNCHANGED <<client, link, connMap, state, offline, members, redisVars, got, faults,
                       world>>
        /\ client[c] = "in" /\ link[c] # "down" /\ op[c].pc = "idle" /\ seqno[k] < MaxSeq
        /\ seqno' = [seqno EXCEPT ![k] = @ + 1]
        /\ op' = [op EXCEPT ![c].pc = "lookup", ![c].remote = s, ![c].msg = m]
    BY DEF OneChat, TakeNumber, At, sessionVars
  <1>2. Owner[c] \in Users /\ MaxSeq \in Nat /\ k \in Pairs /\ k \in Conversations
    BY ConstantsAssumption DEF Pairs, Conversations
  <1>3. seqno[k] \in 0..MaxSeq /\ seqno \in [Conversations -> 0..MaxSeq]
    BY <1>2 DEF ChatInv, TypeOK
  <1>4. m \in Messages
    BY <1>1, <1>2, <1>3 DEF Messages
  <1>5. v \in Recipients(m)
    <2>1. m.conv = k /\ m.from = Owner[c] /\ k \notin Groups
      BY <1>2, ConstantsAssumption
    <2> QED
      BY <2>1 DEF Recipients
  <1>6. s \in Seq(Users) /\ Len(s) = 1 /\ s[1] = v
    OBVIOUS
  <1>7. seqno' \in [Conversations -> 0..MaxSeq]
    <2> HIDE DEF k
    <2> QED
      BY <1>1, <1>2, <1>3
  <1> HIDE DEF k, m, s
  <1>8. op[c] \in Handler /\ op \in [Conns -> Handler] /\ HandlerOK(c)
    BY UsualTypes DEF ChatInv
  <1>9. /\ op' \in [Conns -> Handler]
        /\ op'[c].pc = "lookup" /\ op'[c].msg = m /\ op'[c].remote = s
        /\ op'[c].local = op[c].local /\ op'[c].rows = op[c].rows
        /\ \A d \in Conns \ {c} : op'[d] = op[d]
    BY <1>1, <1>4, <1>6, <1>8 DEF Handler, Places
  <1>10. TypeOK'
    BY <1>1, <1>7, <1>9 DEF ChatInv, TypeOK, redisVars, world
  <1>11. HandlerOK(c)'
    <2>1. \A x : Recipients(x)' = Recipients(x)
      BY <1>1 DEF Recipients, Rows
    <2>2. op'[c].local = <<>> /\ \A x \in op'[c].rows : Owner[c] \in Recipients(x)'
      BY <1>1, <1>8, <1>9, <2>1 DEF HandlerOK, At
    <2>3. ForThem(op[c].remote, op[c].msg)'
      BY <1>5, <1>6, <1>9, <2>1 DEF ForThem
    <2>4. Len(op'[c].local) = 0
      BY <2>2
    <2> QED
      BY <1>4, <1>6, <1>9, <2>2, <2>3, <2>4 DEF HandlerOK, At, ChatPlaces
  <1>12. NewIsForThem /\ UNCHANGED <<inbox, observer>>
    BY <1>1 DEF NewIsForThem, redisVars
  <1>13. ChatMove(c)
    BY <1>1, <1>9, <1>12 DEF ChatMove, ChatPlaces
  <1> QED
    BY <1>10, <1>11, <1>12, <1>13, ChatMoveKeeps

LEMMA GroupChatKeeps ==
    ASSUME ChatInv, NEW c \in Conns, NEW g \in Groups, GroupChat(c, g), UNCHANGED world
    PROVE  ChatInv'
  <1> DEFINE m == [conv |-> g, seq |-> seqno[g] + 1, from |-> Owner[c]]
             none == <<>>
  <1>1. /\ UNCHANGED <<client, link, connMap, state, offline, members, redisVars, got, faults,
                       world>>
        /\ client[c] = "in" /\ link[c] # "down" /\ op[c].pc = "idle" /\ seqno[g] < MaxSeq
        /\ seqno' = [seqno EXCEPT ![g] = @ + 1]
        /\ op' = [op EXCEPT ![c].pc = "members", ![c].remote = none, ![c].msg = m]
    BY DEF GroupChat, TakeNumber, At, sessionVars
  <1>2. Owner[c] \in Users /\ MaxSeq \in Nat /\ g \in Conversations
    BY ConstantsAssumption DEF Conversations
  <1>3. seqno[g] \in 0..MaxSeq /\ seqno \in [Conversations -> 0..MaxSeq]
    BY <1>2 DEF ChatInv, TypeOK
  <1>4. m \in Messages /\ m.conv = g /\ m.from = Owner[c]
    BY <1>1, <1>2, <1>3 DEF Messages
  <1>5. none \in Seq(Users) /\ none = <<>> /\ Len(none) = 0
    BY EmptySeq
  <1>6. seqno' \in [Conversations -> 0..MaxSeq]
    BY <1>1, <1>2, <1>3
  <1> HIDE DEF m, none
  <1>7. op[c] \in Handler /\ op \in [Conns -> Handler] /\ HandlerOK(c)
    BY UsualTypes DEF ChatInv
  <1>8. /\ op' \in [Conns -> Handler]
        /\ op'[c].pc = "members" /\ op'[c].msg = m /\ op'[c].remote = none
        /\ op'[c].local = op[c].local /\ op'[c].rows = op[c].rows
        /\ \A d \in Conns \ {c} : op'[d] = op[d]
    BY <1>1, <1>4, <1>5, <1>7 DEF Handler, Places
  <1>9. TypeOK'
    BY <1>1, <1>6, <1>8 DEF ChatInv, TypeOK, redisVars, world
  <1>10. HandlerOK(c)'
    <2>1. \A x : Recipients(x)' = Recipients(x)
      BY <1>1 DEF Recipients, Rows
    <2>2. op'[c].local = <<>> /\ \A x \in op'[c].rows : Owner[c] \in Recipients(x)'
      BY <1>1, <1>7, <1>8, <2>1 DEF HandlerOK, At
    <2>3. ForThem(op[c].remote, op[c].msg)'
      BY <1>5, <1>8 DEF ForThem
    <2>4. Len(op'[c].local) = 0
      BY <2>2
    <2> QED
      BY <1>4, <1>5, <1>8, <2>2, <2>3, <2>4 DEF HandlerOK, At, ChatPlaces
  <1>11. NewIsForThem /\ UNCHANGED <<inbox, observer>>
    BY <1>1 DEF NewIsForThem, redisVars
  <1>12. ChatMove(c)
    BY <1>1, <1>8, <1>11 DEF ChatMove, ChatPlaces
  <1> QED
    BY <1>9, <1>10, <1>11, <1>12, ChatMoveKeeps

LEMMA SendEffect ==
    ASSUME TypeOK, NEW t \in Conns, NEW m \in Messages, Send(t, m)
    PROVE  /\ client' \in [Conns -> {"connected", "awaiting", "in", "deaf", "gone"}]
           /\ got' \in [Conns -> SUBSET Messages]
           /\ \A d \in Conns : client'[d] \in {client[d], "gone"}
           /\ \A d \in Conns \ {t} : got'[d] = got[d]
           /\ got'[t] \subseteq got[t] \cup {m} /\ \A d \in Conns : got[d] \subseteq got'[d]
  <1>1. client' \in [Conns -> {"connected", "awaiting", "in", "deaf", "gone"}]
        /\ \A d \in Conns : client'[d] \in {client[d], "gone"}
    BY UsualTypes DEF Send
  <1>2. /\ got' \in [Conns -> SUBSET Messages]
        /\ \A d \in Conns \ {t} : got'[d] = got[d]
        /\ got'[t] \subseteq got[t] \cup {m} /\ \A d \in Conns : got[d] \subseteq got'[d]
    <2>1. CASE got' = got
      BY <2>1, UsualTypes
    <2>2. CASE got' = [got EXCEPT ![t] = @ \cup {m}]
      BY <2>2, UsualTypes
    <2> QED
      BY <2>1, <2>2 DEF Send
  <1> QED
    BY <1>1, <1>2

\* What is sent to a connection of an addressee is for its user.
LEMMA SentIsForThem ==
    ASSUME TypeOK, NEW t \in Conns, NEW m \in Messages, Send(t, m),
           Owner[t] \in Recipients(m), UNCHANGED <<offline, members>>
    PROVE  NewIsForThem
  <1>1. \A x : Recipients(x)' = Recipients(x)
    BY DEF Recipients, Rows
  <1>2. \A d \in Conns : \A x \in got'[d] \ got[d] : Owner[d] \in Recipients(x)'
    BY <1>1, SendEffect
  <1> QED
    BY <1>2 DEF NewIsForThem

\* A handler that has an addressee list without connections in hand.
LEMMA ListHandler ==
    ASSUME NEW c \in Conns, HandlerOK(c), UNCHANGED members,
           op[c].pc \in ChatPlaces, op'[c].msg = op[c].msg, op'[c].rows = op[c].rows,
           op'[c].pc \in {"collect", "status", "publish", "store"}, op'[c].local = <<>>,
           op'[c].pc \in {"publish", "store"} => op'[c].remote # <<>>,
           ForThem(op'[c].remote, op[c].msg)
    PROVE  HandlerOK(c)'
  <1>1. \A x : Recipients(x)' = Recipients(x)
    BY DEF Recipients, Rows
  <1>2. op[c].msg \in Messages /\ \A x \in op[c].rows : Owner[c] \in Recipients(x)
    BY DEF HandlerOK
  <1>3. ForThem(op[c].remote, op[c].msg)'
    BY <1>1 DEF ForThem
  <1>4. \A x \in op'[c].rows : Owner[c] \in Recipients(x)'
    BY <1>1, <1>2
  <1>5. Len(op'[c].local) = 0
    OBVIOUS
  <1> QED
    BY <1>2, <1>3, <1>4, <1>5 DEF HandlerOK, At, ChatPlaces

\* What the first addressee of a list is, and what the list is without him.
LEMMA FirstAddressee ==
    ASSUME TypeOK, NEW c \in Conns, HandlerOK(c), op[c].pc \in ChatPlaces, op[c].remote # <<>>
    PROVE  /\ op[c].msg \in Messages
           /\ Head(op[c].remote) \in Users /\ Head(op[c].remote) \in Recipients(op[c].msg)
           /\ Tail(op[c].remote) \in Seq(Users) /\ ForThem(Tail(op[c].remote), op[c].msg)
  <1> DEFINE s == op[c].remote
  <1>1. s \in Seq(Users) /\ ForThem(s, op[c].msg) /\ op[c].msg \in Messages
    BY UsualTypes DEF Handler, HandlerOK
  <1>2. s # <<>>
    OBVIOUS
  <1> HIDE DEF s
  <1>3. /\ Len(s) \in Nat /\ Len(s) >= 1 /\ Head(s) = s[1] /\ s[1] \in Users
        /\ Tail(s) \in Seq(Users) /\ Len(Tail(s)) = Len(s) - 1
        /\ \A i \in 1..Len(Tail(s)) : Tail(s)[i] = s[i + 1]
    BY <1>1, <1>2, HeadTailProperties, EmptySeq, LenProperties, ElementOfSeq
  <1>4. ForThem(Tail(s), op[c].msg)
    BY <1>1, <1>3 DEF ForThem
  <1> QED
    BY <1>1, <1>3, <1>4 DEF ForThem, s

\* Who is found in the map of the node of c is the user he was looked up as.
LEMMA Found ==
    ASSUME ChatInv, NEW n \in Nodes, NEW u \in Users, connMap[n][u] # NoConn
    PROVE  /\ connMap[n][u] \in Conns /\ Owner[connMap[n][u]] = u /\ Home[connMap[n][u]] = n
           /\ Past(connMap[n][u])
           /\ link[connMap[n][u]] # "down" \/ client[connMap[n][u]] = "gone"
  <1> DEFINE d == connMap[n][u]
  <1>1. d \in Conns
    BY UsualTypes DEF ChatInv
  <1>2. SessionOK(d)
    BY <1>1 DEF ChatInv
  <1> QED
    BY <1>1, <1>2 DEF SessionOK, EntryOK, ClientInStep, Past, At

LEMMA ChatLookupKeeps ==
    ASSUME ChatInv, NEW c \in Conns, ChatLookup(c), UNCHANGED world
    PROVE  ChatInv'
  <1> DEFINE v == Head(op[c].remote)
             m == op[c].msg
             target == connMap[Home[c]][v]
  <1>1. /\ UNCHANGED <<link, connMap, state, offline, members, seqno, redisVars, faults, world>>
        /\ op[c].pc = "lookup" /\ op[c].pc \in ChatPlaces /\ TypeOK /\ HandlerOK(c)
        /\ UNCHANGED <<inbox, observer>>
    BY DEF ChatLookup, At, ChatInv, ChatPlaces, redisVars
  <1>2. op[c].remote # <<>>
    <2>1. Len(op[c].remote) = 1
      BY <1>1 DEF HandlerOK, At
    <2> QED
      BY <2>1
  <1>3. m \in Messages /\ v \in Users /\ v \in Recipients(m) /\ Home[c] \in Nodes
    BY <1>1, <1>2, FirstAddressee, ConstantsAssumption DEF ChatPlaces
  <1>4. \/ target # NoConn /\ Send(target, m) /\ Return(c)
        \/ Goto(c, "status") /\ UNCHANGED <<got, client>>
    BY DEF ChatLookup
  <1>5. op \in [Conns -> Handler]
    BY UsualTypes DEF ChatInv
  <1>6. CASE target # NoConn /\ Send(target, m) /\ Return(c)
    <2>1. target \in Conns /\ Owner[target] = v
      BY <1>3, <1>6, Found
    <2> HIDE DEF target, v, m
    <2>2. /\ client' \in [Conns -> {"connected", "awaiting", "in", "deaf", "gone"}]
          /\ got' \in [Conns -> SUBSET Messages]
          /\ \A d \in Conns : client'[d] \in {client[d], "gone"}
      BY <1>1, <1>3, <1>6, <2>1, SendEffect
    <2>3. NewIsForThem
      BY <1>1, <1>3, <1>6, <2>1, SentIsForThem
    <2>4. /\ op' \in [Conns -> Handler] /\ op'[c].pc = "idle" /\ HandlerOK(c)'
          /\ \A d \in Conns \ {c} : op'[d] = op[d]
      BY <1>5, <1>6, Returns DEF NoHandler
    <2>5. TypeOK'
      BY <1>1, <2>2, <2>4 DEF TypeOK, redisVars, world
    <2>6. ChatMove(c)
      BY <1>1, <2>2, <2>4 DEF ChatMove
    <2> QED
      BY <1>1, <2>3, <2>4, <2>5, <2>6, ChatMoveKeeps
  <1>7. CASE Goto(c, "status") /\ UNCHANGED <<got, client>>
    <2>1. /\ op' \in [Conns -> Handler] /\ op'[c].pc = "status"
          /\ op'[c].msg = op[c].msg /\ op'[c].local = op[c].local
          /\ op'[c].remote = op[c].remote /\ op'[c].rows = op[c].rows
          /\ \A d \in Conns \ {c} : op'[d] = op[d]
      BY <1>5, <1>7, Goes DEF Places
    <2>2. HandlerOK(c)'
      BY <1>1, <2>1, ListHandler DEF HandlerOK, At, ChatPlaces
    <2>3. TypeOK'
      BY <1>1, <1>7, <2>1 DEF TypeOK, redisVars, world
    <2>4. NewIsForThem
      BY <1>1, <1>7 DEF NewIsForThem
    <2>5. ChatMove(c)
      BY <1>1, <1>7, <2>1 DEF ChatMove, ChatPlaces
    <2> QED
      BY <1>1, <2>2, <2>3, <2>4, <2>5, ChatMoveKeeps
  <1> QED
    BY <1>4, <1>6, <1>7

LEMMA GroupMembersKeeps ==
    ASSUME ChatInv, NEW c \in Conns, GroupMembers(c), UNCHANGED world
    PROVE  ChatInv'
  <1> DEFINE m == op[c].msg
             s == members[op[c].msg.conv]
             to == Without(s, Owner[c])
  <1>1. /\ UNCHANGED <<client, link, connMap, state, offline, members, seqno, redisVars, got,
                       world>>
        /\ op[c].pc = "members" /\ op[c].pc \in ChatPlaces /\ TypeOK /\ HandlerOK(c)
        /\ UNCHANGED <<inbox, observer>>
    BY DEF GroupMembers, At, ChatInv, ChatPlaces, redisVars, sessionVars
  <1>2. /\ op[c].msg \in Messages /\ op[c].msg.conv \in Groups /\ op[c].msg.from = Owner[c]
        /\ op[c].local = <<>>
    BY <1>1 DEF HandlerOK, At
  <1>3. \/ /\ op' = [op EXCEPT ![c].pc = "collect", ![c].remote = to]
           /\ UNCHANGED faults
        \/ Fault /\ Return(c)
    BY DEF GroupMembers
  <1>4. NewIsForThem
    BY <1>1 DEF NewIsForThem
  <1>5. faults' \in 0..scene'.faults
    BY <1>1, <1>3, FaultTyped DEF world
  <1>6. CASE Fault /\ Return(c)
    <2>1. /\ op' \in [Conns -> Handler] /\ op'[c].pc = "idle" /\ HandlerOK(c)'
          /\ \A d \in Conns \ {c} : op'[d] = op[d]
      BY <1>1, <1>6, UsualTypes, Returns DEF NoHandler
    <2>2. TypeOK'
      BY <1>1, <1>5, <2>1 DEF TypeOK, redisVars, world
    <2>3. ChatMove(c)
      BY <1>1, <2>1 DEF ChatMove
    <2> QED
      BY <1>1, <1>4, <2>1, <2>2, <2>3, ChatMoveKeeps
  <1>7. CASE op' = [op EXCEPT ![c].pc = "collect", ![c].remote = to] /\ UNCHANGED faults
    <2>1. s \in Seq(Users)
      BY <1>1, <1>2 DEF TypeOK
    <2>2. /\ to \in Seq(Users)
          /\ \A k \in 1..Len(to) : to[k] \in Users \ {Owner[c]} /\ \E j \in 1..Len(s) : to[k] = s[j]
      <3> DEFINE T == Users \ {Owner[c]}
      <3>1. to = Selected(s, T)
        BY DEF Without
      <3> HIDE DEF s, to, T
      <3>2. /\ to \in Seq(Users)
            /\ \A k \in 1..Len(to) : to[k] \in T /\ \E j \in 1..Len(s) : to[k] = s[j]
        BY <2>1, <3>1, SelectedElements
      <3> QED
        BY <3>2 DEF T
    <2>3. ForThem(to, m)
      <3>1. Recipients(m) = Rows(m.conv) \ {Owner[c]}
        BY <1>2 DEF Recipients
      <3>2. \A j \in 1..Len(s) : s[j] \in Rows(m.conv)
        BY DEF Rows
      <3> HIDE DEF to, s, m
      <3> QED
        BY <2>2, <3>1, <3>2 DEF ForThem
    <2> HIDE DEF to
    <2>4. /\ op' \in [Conns -> Handler]
          /\ op'[c].pc = "collect" /\ op'[c].msg = op[c].msg /\ op'[c].local = op[c].local
          /\ op'[c].remote = to /\ op'[c].rows = op[c].rows
          /\ \A d \in Conns \ {c} : op'[d] = op[d]
      <3>1. op \in [Conns -> Handler]
        BY <1>1, UsualTypes
      <3> QED
        BY <1>7, <2>2, <3>1, ZenonT(30) DEF Handler, Places
    <2>5. HandlerOK(c)'
      BY <1>1, <1>2, <2>3, <2>4, ListHandler
    <2>6. TypeOK'
      BY <1>1, <1>5, <2>4 DEF TypeOK, redisVars, world
    <2>7. ChatMove(c)
      BY <1>1, <2>4 DEF ChatMove, ChatPlaces
    <2> QED
      BY <1>1, <1>4, <2>5, <2>6, <2>7, ChatMoveKeeps
  <1> QED
    BY <1>3, <1>6, <1>7

\* The addressees on this node are replaced by their connections; the others stay.
LEMMA GroupCollectKeeps ==
    ASSUME ChatInv, NEW c \in Conns, GroupCollect(c), UNCHANGED world
    PROVE  ChatInv'
  <1> DEFINE n == Home[c]
             m == op[c].msg
             s == op[c].remote
             near == Selected(s, InMap(n))
             far == Selected(s, Users \ InMap(n))
             local == [i \in 1..Len(near) |-> connMap[n][near[i]]]
  <1>1. /\ UNCHANGED <<client, link, connMap, state, offline, members, seqno, redisVars, got,
                       faults, world>>
        /\ op[c].pc = "collect" /\ op[c].pc \in ChatPlaces /\ TypeOK /\ HandlerOK(c)
        /\ UNCHANGED <<inbox, observer>>
    BY DEF GroupCollect, At, ChatInv, ChatPlaces, redisVars, sessionVars
  <1>2. op' = [op EXCEPT ![c].pc = "push", ![c].local = local, ![c].remote = far]
    BY DEF GroupCollect
  <1>3. n \in Nodes /\ Home[c] = n
    BY ConstantsAssumption
  <1>4. op \in [Conns -> Handler] /\ s \in Seq(Users) /\ s = op[c].remote /\ m = op[c].msg
    BY <1>1, UsualTypes DEF Handler
  <1>5. m \in Messages /\ ForThem(s, m)
    BY <1>1 DEF HandlerOK
  <1>6. /\ near \in Seq(Users) /\ Len(near) \in Nat
        /\ \A k \in 1..Len(near) : /\ near[k] \in InMap(n)
                                   /\ \E j \in 1..Len(s) : near[k] = s[j]
    BY <1>4, SelectedElements
  <1>7. /\ far \in Seq(Users)
        /\ \A k \in 1..Len(far) : \E j \in 1..Len(s) : far[k] = s[j]
    <2> DEFINE T == Users \ InMap(n)
    <2>1. far = Selected(s, T)
      OBVIOUS
    <2> HIDE DEF s, far, T
    <2> QED
      BY <1>4, <2>1, SelectedElements
  <1>8. local = [i \in 1..Len(near) |-> connMap[n][near[i]]]
    OBVIOUS
  <1> HIDE DEF n, m, s, near, far, local
  <1>9. \A i \in 1..Len(near) :
           /\ connMap[n][near[i]] \in Conns /\ Past(connMap[n][near[i]])
           /\ Home[connMap[n][near[i]]] = n
           /\ Owner[connMap[n][near[i]]] \in Recipients(m)
    <2> SUFFICES ASSUME NEW i \in 1..Len(near)
                 PROVE  /\ connMap[n][near[i]] \in Conns /\ Past(connMap[n][near[i]])
                        /\ Home[connMap[n][near[i]]] = n
                        /\ Owner[connMap[n][near[i]]] \in Recipients(m)
      OBVIOUS
    <2>1. near[i] \in Users /\ connMap[n][near[i]] # NoConn
      BY <1>6 DEF InMap
    <2>2. near[i] \in Recipients(m)
      BY <1>5, <1>6 DEF ForThem
    <2>3. /\ connMap[n][near[i]] \in Conns /\ Owner[connMap[n][near[i]]] = near[i]
          /\ Home[connMap[n][near[i]]] = n /\ Past(connMap[n][near[i]])
      BY <1>3, <2>1, Found
    <2> QED
      BY <2>2, <2>3
  <1>10. local \in Seq(Conns) /\ Len(local) = Len(near)
    BY <1>6, <1>8, <1>9, IsASeq, LenProperties
  <1>11. ForThem(far, m)
    BY <1>5, <1>7 DEF ForThem
  <1>12. /\ op' \in [Conns -> Handler]
         /\ op'[c].pc = "push" /\ op'[c].msg = m /\ op'[c].local = local
         /\ op'[c].remote = far /\ op'[c].rows = op[c].rows
         /\ \A d \in Conns \ {c} : op'[d] = op[d]
    <2> DEFINE e == [op[c] EXCEPT !.pc = "push", !.local = local, !.remote = far]
    <2>1. op[c] \in Handler
      BY <1>4
    <2>2. /\ e \in Handler /\ e.pc = "push" /\ e.msg = op[c].msg /\ e.local = local
          /\ e.remote = far /\ e.rows = op[c].rows
      BY <1>7, <1>10, <2>1 DEF Handler, Places
    <2>3. op' = [op EXCEPT ![c] = e]
      BY <1>2, <1>4, <2>1 DEF Handler
    <2> HIDE DEF e
    <2> QED
      BY <1>4, <2>2, <2>3
  <1>13. HandlerOK(c)'
    <2>1. \A x : Recipients(x)' = Recipients(x)
      BY <1>1 DEF Recipients, Rows
    <2>2. \A x \in op[c].rows : Owner[c] \in Recipients(x)
      BY <1>1 DEF HandlerOK
    <2>3. \A x \in op'[c].rows : Owner[c] \in Recipients(x)'
      BY <1>12, <2>1, <2>2
    <2>4. ForThem(op[c].remote, op[c].msg)'
      BY <1>11, <1>12, <2>1 DEF ForThem
    <2>5. \A d \in Conns : Past(d) => Past(d)'
      BY <1>1, <1>12 DEF Past, At
    <2>6. \A i \in 1..Len(op'[c].local) :
             /\ Past(op[c].local[i])' /\ Home[op'[c].local[i]] = Home[c]
             /\ Owner[op'[c].local[i]] \in Recipients(op[c].msg)'
      <3> SUFFICES ASSUME NEW i \in 1..Len(op'[c].local)
                   PROVE  /\ Past(op[c].local[i])' /\ Home[op'[c].local[i]] = Home[c]
                          /\ Owner[op'[c].local[i]] \in Recipients(op[c].msg)'
        OBVIOUS
      <3>1. i \in 1..Len(near) /\ op'[c].local[i] = connMap[n][near[i]]
        BY <1>8, <1>10, <1>12
      <3>2. PICK d \in Conns : d = connMap[n][near[i]]
        BY <1>9, <3>1
      <3>3. Past(d) /\ Home[d] = n /\ Owner[d] \in Recipients(m)
        BY <1>9, <3>1, <3>2
      <3>4. op'[c].local[i] = d /\ op'[c].msg = m
        BY <1>12, <3>1, <3>2
      <3>5. Past(d)' /\ Home[d] = Home[c] /\ Owner[d] \in Recipients(op[c].msg)'
        BY <1>3, <2>1, <2>5, <3>3, <3>4
      <3> QED
        BY <3>4, <3>5 DEF Past, At
    <2>7. op'[c].msg \in Messages
      BY <1>5, <1>12
    <2> QED
      BY <1>12, <2>3, <2>4, <2>6, <2>7 DEF HandlerOK, At, ChatPlaces
  <1>14. TypeOK'
    BY <1>1, <1>12 DEF TypeOK, redisVars, world
  <1>15. ChatMove(c) /\ NewIsForThem
    BY <1>1, <1>12 DEF ChatMove, ChatPlaces, NewIsForThem
  <1> QED
    BY <1>1, <1>13, <1>14, <1>15, ChatMoveKeeps

\* A connection of the list of GroupPush is one of an addressee on this node.
LEMMA FirstLocal ==
    ASSUME ChatInv, NEW c \in Conns, op[c].local # <<>>
    PROVE  /\ Head(op[c].local) \in Conns /\ Home[Head(op[c].local)] = Home[c]
           /\ Owner[Head(op[c].local)] \in Recipients(op[c].msg) /\ Past(Head(op[c].local))
           /\ op[c].msg \in Messages
           /\ Head(op[c].local) = op[c].local[1] /\ 1 \in 1..Len(op[c].local)
           /\ Tail(op[c].local) \in Seq(Conns)
           /\ Len(Tail(op[c].local)) = Len(op[c].local) - 1 /\ Len(op[c].local) \in Nat
           /\ \A i \in 1..Len(Tail(op[c].local)) :
                 Tail(op[c].local)[i] = op[c].local[i + 1] /\ i + 1 \in 1..Len(op[c].local)
  <1> DEFINE s == op[c].local
  <1>1. s \in Seq(Conns) /\ HandlerOK(c) /\ s # <<>>
    BY UsualTypes DEF Handler, ChatInv
  <1>2. op[c].pc = "push"
    BY <1>1 DEF HandlerOK, At
  <1>3. op[c].msg \in Messages
    BY <1>1, <1>2 DEF HandlerOK, ChatPlaces
  <1>4. \A i \in 1..Len(s) : Past(s[i]) /\ Home[s[i]] = Home[c] /\ Owner[s[i]] \in Recipients(op[c].msg)
    BY <1>1 DEF HandlerOK
  <1> HIDE DEF s
  <1>5. /\ Len(s) \in Nat /\ Len(s) >= 1 /\ Head(s) = s[1] /\ s[1] \in Conns
        /\ Tail(s) \in Seq(Conns) /\ Len(Tail(s)) = Len(s) - 1
        /\ \A i \in 1..Len(Tail(s)) : Tail(s)[i] = s[i + 1]
    BY <1>1, HeadTailProperties, EmptySeq, LenProperties, ElementOfSeq
  <1>6. \A i \in 1..Len(Tail(s)) : i + 1 \in 1..Len(s)
    BY <1>5
  <1>7. Past(s[1]) /\ Home[s[1]] = Home[c] /\ Owner[s[1]] \in Recipients(op[c].msg) /\ 1 \in 1..Len(s)
    BY <1>4, <1>5
  <1> QED
    BY <1>3, <1>5, <1>6, <1>7 DEF s

LEMMA GroupPushKeeps ==
    ASSUME ChatInv, NEW c \in Conns, GroupPush(c), UNCHANGED world
    PROVE  ChatInv'
  <1>1. /\ UNCHANGED <<link, connMap, state, offline, members, seqno, redisVars, faults, world>>
        /\ op[c].pc = "push" /\ op[c].pc \in ChatPlaces /\ TypeOK /\ HandlerOK(c)
        /\ UNCHANGED <<inbox, observer>> /\ op \in [Conns -> Handler]
    BY UsualTypes DEF GroupPush, At, ChatInv, ChatPlaces, redisVars
  <1>2. \A x : Recipients(x)' = Recipients(x)
    BY <1>1 DEF Recipients, Rows
  <1>3. CASE op[c].local = <<>>
    <2>1. Goto(c, "status") /\ UNCHANGED <<got, client>>
      BY <1>3 DEF GroupPush
    <2>2. /\ op' \in [Conns -> Handler] /\ op'[c].pc = "status"
          /\ op'[c].msg = op[c].msg /\ op'[c].local = op[c].local
          /\ op'[c].remote = op[c].remote /\ op'[c].rows = op[c].rows
          /\ \A d \in Conns \ {c} : op'[d] = op[d]
      BY <1>1, <2>1, Goes DEF Places
    <2>3. HandlerOK(c)'
      BY <1>1, <1>3, <2>2, ListHandler DEF HandlerOK, ChatPlaces
    <2>4. TypeOK'
      BY <1>1, <2>1, <2>2 DEF TypeOK, redisVars, world
    <2>5. ChatMove(c) /\ NewIsForThem
      BY <1>1, <2>1, <2>2 DEF ChatMove, ChatPlaces, NewIsForThem
    <2> QED
      BY <1>1, <2>3, <2>4, <2>5, ChatMoveKeeps
  <1>4. CASE op[c].local # <<>>
    <2> DEFINE t == Head(op[c].local)
               r == Tail(op[c].local)
               m == op[c].msg
    <2>1. Send(t, m) /\ op' = [op EXCEPT ![c].local = r]
      BY <1>4 DEF GroupPush
    <2>2. /\ t \in Conns /\ Owner[t] \in Recipients(m) /\ m \in Messages
          /\ r \in Seq(Conns) /\ m = op[c].msg
          /\ \A i \in 1..Len(r) : r[i] = op[c].local[i + 1] /\ i + 1 \in 1..Len(op[c].local)
      BY <1>4, FirstLocal
    <2> HIDE DEF t, r, m
    <2>3. /\ op' \in [Conns -> Handler] /\ op'[c].pc = "push"
          /\ op'[c].msg = m /\ op'[c].local = r
          /\ op'[c].remote = op[c].remote /\ op'[c].rows = op[c].rows
          /\ \A d \in Conns \ {c} : op'[d] = op[d]
      BY <1>1, <2>1, <2>2 DEF Handler
    <2>4. /\ client' \in [Conns -> {"connected", "awaiting", "in", "deaf", "gone"}]
          /\ got' \in [Conns -> SUBSET Messages]
          /\ \A d \in Conns : client'[d] \in {client[d], "gone"}
      BY <1>1, <2>1, <2>2, SendEffect
    <2>5. NewIsForThem
      BY <1>1, <2>1, <2>2, SentIsForThem
    <2>6. \A d \in Conns : Past(d) => Past(d)'
      BY <1>1, <2>3, <2>4 DEF Past, At
    <2>7. HandlerOK(c)'
      <3>1. \A i \in 1..Len(op'[c].local) :
               /\ Past(op[c].local[i])' /\ Home[op'[c].local[i]] = Home[c]
               /\ Owner[op'[c].local[i]] \in Recipients(op[c].msg)'
        <4> SUFFICES ASSUME NEW i \in 1..Len(op'[c].local)
                     PROVE  /\ Past(op[c].local[i])' /\ Home[op'[c].local[i]] = Home[c]
                            /\ Owner[op'[c].local[i]] \in Recipients(op[c].msg)'
          OBVIOUS
        <4>1. /\ i \in 1..Len(r) /\ op'[c].local[i] = op[c].local[i + 1]
              /\ i + 1 \in 1..Len(op[c].local)
          BY <2>2, <2>3
        <4>2. op[c].local \in Seq(Conns)
          BY <1>1 DEF Handler
        <4>3. PICK d \in Conns : d = op[c].local[i + 1]
          BY <4>1, <4>2, ElementOfSeq
        <4>4. Past(d) /\ Home[d] = Home[c] /\ Owner[d] \in Recipients(m)
          BY <1>1, <2>2, <4>1, <4>3 DEF HandlerOK
        <4>5. op'[c].local[i] = d
          BY <4>1, <4>3
        <4>6. Past(d)' /\ Owner[d] \in Recipients(op[c].msg)'
          BY <1>2, <2>3, <2>6, <4>4
        <4> QED
          BY <4>4, <4>5, <4>6 DEF Past, At
      <3>2. \A x \in op[c].rows : Owner[c] \in Recipients(x)
        BY <1>1 DEF HandlerOK
      <3>3. \A x \in op'[c].rows : Owner[c] \in Recipients(x)'
        BY <1>2, <2>3, <3>2
      <3>4. ForThem(op[c].remote, op[c].msg)'
        <4>1. ForThem(op[c].remote, op[c].msg)
          BY <1>1 DEF HandlerOK
        <4> QED
          BY <1>2, <2>2, <2>3, <4>1 DEF ForThem
      <3> QED
        BY <2>2, <2>3, <3>1, <3>3, <3>4 DEF HandlerOK, At, ChatPlaces
    <2>8. TypeOK'
      BY <1>1, <2>3, <2>4 DEF TypeOK, redisVars, world
    <2>9. ChatMove(c)
      BY <1>1, <2>3, <2>4 DEF ChatMove, ChatPlaces
    <2> QED
      BY <1>1, <2>5, <2>7, <2>8, <2>9, ChatMoveKeeps
  <1> QED
    BY <1>3, <1>4

\* A step from one addressee to the next, or on with the same one.
LEMMA ListMove ==
    ASSUME ChatInv, NEW c \in Conns, op[c].pc \in {"status", "publish", "store"},
           UNCHANGED <<client, link, connMap, members, observer, got>>,
           op' \in [Conns -> Handler], \A d \in Conns \ {c} : op'[d] = op[d],
           \/ op'[c] = NoHandler
           \/ /\ op'[c].msg = op[c].msg /\ op'[c].rows = op[c].rows
              /\ op'[c].pc \in {"status", "publish", "store"} /\ op'[c].local = op[c].local
              /\ op'[c].pc \in {"publish", "store"} => op'[c].remote # <<>>
              /\ ForThem(op'[c].remote, op[c].msg)
    PROVE  HandlerOK(c)' /\ ChatMove(c)
  <1>1. HandlerOK(c) /\ op[c].pc \in ChatPlaces
    BY DEF ChatInv, ChatPlaces
  <1>2. CASE op'[c] = NoHandler
    <2>1. /\ op'[c].pc = "idle" /\ op'[c].local = <<>> /\ op'[c].remote = <<>>
          /\ op'[c].rows = {} /\ Len(op'[c].local) = 0 /\ Len(op'[c].remote) = 0
      BY <1>2 DEF NoHandler
    <2>2. HandlerOK(c)'
      BY <2>1 DEF HandlerOK, ForThem, At, ChatPlaces
    <2>3. ChatMove(c)
      BY <1>1, <2>1 DEF ChatMove
    <2> QED
      BY <2>2, <2>3
  <1>3. CASE /\ op'[c].msg = op[c].msg /\ op'[c].rows = op[c].rows
             /\ op'[c].pc \in {"status", "publish", "store"} /\ op'[c].local = op[c].local
             /\ op'[c].pc \in {"publish", "store"} => op'[c].remote # <<>>
             /\ ForThem(op'[c].remote, op[c].msg)
    <2>1. op'[c].local = <<>>
      BY <1>1, <1>3 DEF HandlerOK, At
    <2>2. HandlerOK(c)'
      BY <1>1, <1>3, <2>1, ListHandler
    <2>3. ChatMove(c)
      BY <1>1, <1>3 DEF ChatMove, ChatPlaces
    <2> QED
      BY <2>2, <2>3
  <1> QED
    BY <1>2, <1>3

\* NextRemote drops the first addressee.
LEMMA NextRemoteEffect ==
    ASSUME ChatInv, NEW c \in Conns, op[c].pc \in {"publish", "store"}, NextRemote(c)
    PROVE  /\ op' \in [Conns -> Handler] /\ op'[c].pc = "status"
           /\ op'[c].msg = op[c].msg /\ op'[c].local = op[c].local /\ op'[c].rows = op[c].rows
           /\ op'[c].remote = Tail(op[c].remote) /\ ForThem(op'[c].remote, op[c].msg)
           /\ \A d \in Conns \ {c} : op'[d] = op[d]
  <1> DEFINE r == Tail(op[c].remote)
  <1>1. HandlerOK(c) /\ op[c].remote # <<>> /\ op \in [Conns -> Handler]
    BY UsualTypes DEF ChatInv, HandlerOK
  <1>2. r \in Seq(Users) /\ ForThem(r, op[c].msg)
    BY <1>1, FirstAddressee DEF ChatInv, ChatPlaces
  <1>3. op' = [op EXCEPT ![c].pc = "status", ![c].remote = r]
    BY DEF NextRemote
  <1>4. r = Tail(op[c].remote)
    OBVIOUS
  <1> HIDE DEF r
  <1>5. /\ op' \in [Conns -> Handler] /\ op'[c].pc = "status"
        /\ op'[c].msg = op[c].msg /\ op'[c].local = op[c].local /\ op'[c].rows = op[c].rows
        /\ op'[c].remote = r /\ \A d \in Conns \ {c} : op'[d] = op[d]
    BY <1>1, <1>2, <1>3 DEF Handler, Places
  <1> QED
    BY <1>2, <1>4, <1>5

LEMMA RemoteStatusKeeps ==
    ASSUME ChatInv, NEW c \in Conns, RemoteStatus(c), UNCHANGED world
    PROVE  ChatInv'
  <1>1. /\ UNCHANGED <<client, link, connMap, state, offline, members, seqno, redisVars, got,
                       world>>
        /\ op[c].pc = "status" /\ TypeOK /\ HandlerOK(c)
        /\ UNCHANGED <<inbox, observer>> /\ op \in [Conns -> Handler]
    BY UsualTypes DEF RemoteStatus, At, ChatInv, redisVars, sessionVars
  <1>2. faults' \in 0..scene'.faults
    BY <1>1, FaultTyped DEF RemoteStatus, world
  <1>3. \/ Return(c)
        \/ /\ op[c].remote # <<>>
           /\ \E p \in {"publish", "store"} : Goto(c, p)
    BY DEF RemoteStatus
  <1>4. op' \in [Conns -> Handler] /\ HandlerOK(c)' /\ ChatMove(c)
    <2>1. CASE Return(c)
      <3>1. /\ op' \in [Conns -> Handler] /\ op'[c] = NoHandler
            /\ \A d \in Conns \ {c} : op'[d] = op[d]
        BY <1>1, <2>1, Returns
      <3> QED
        BY <1>1, <3>1, ListMove
    <2>2. CASE op[c].remote # <<>> /\ \E p \in {"publish", "store"} : Goto(c, p)
      <3>1. PICK p \in {"publish", "store"} : Goto(c, p)
        BY <2>2
      <3>2. /\ op' \in [Conns -> Handler] /\ op'[c].pc = p
            /\ op'[c].msg = op[c].msg /\ op'[c].local = op[c].local
            /\ op'[c].remote = op[c].remote /\ op'[c].rows = op[c].rows
            /\ \A d \in Conns \ {c} : op'[d] = op[d]
        BY <1>1, <3>1, Goes DEF Places
      <3>3. ForThem(op'[c].remote, op[c].msg)
        BY <1>1, <3>2 DEF HandlerOK
      <3> QED
        BY <1>1, <2>2, <3>2, <3>3, ListMove
    <2> QED
      BY <1>3, <2>1, <2>2
  <1>5. TypeOK'
    BY <1>1, <1>2, <1>4 DEF TypeOK, redisVars, world
  <1>6. NewIsForThem
    BY <1>1 DEF NewIsForThem
  <1> QED
    BY <1>1, <1>4, <1>5, <1>6, ChatMoveKeeps

\* What is forwarded for an addressee is in the inboxes as it should be.
LEMMA ForwardEffect ==
    ASSUME ChatInv, NEW v \in Users, NEW m \in Messages, v \in Recipients(m), Forward(v, m),
           UNCHANGED members
    PROVE  /\ inbox' \in [Nodes -> Seq(Users \X Messages)]
           /\ UNCHANGED <<subs, commands, observer>>
           /\ \A n \in Nodes : InboxOK(n)'
  <1>1. /\ inbox' = [n \in Nodes |-> IF v \in subs[n] THEN Append(inbox[n], <<v, m>>)
                                     ELSE inbox[n]]
        /\ UNCHANGED <<subs, commands, observer>>
    BY DEF Forward
  <1>2. \A x : Recipients(x)' = Recipients(x)
    BY DEF Recipients, Rows
  <1>3. ASSUME NEW n \in Nodes PROVE inbox'[n] \in Seq(Users \X Messages) /\ InboxOK(n)'
    <2> DEFINE s == inbox[n]
               e == <<v, m>>
    <2>1. s \in Seq(Users \X Messages) /\ InboxOK(n) /\ e \in Users \X Messages
      BY DEF ChatInv, TypeOK
    <2>2. e[1] = v /\ e[2] = m
      OBVIOUS
    <2>3. \A i \in 1..Len(s) : s[i][1] \in Recipients(s[i][2])
      BY <2>1 DEF InboxOK
    <2>4. inbox'[n] = Append(s, e) \/ inbox'[n] = s
      BY <1>1
    <2> HIDE DEF s, e
    <2>5. /\ Append(s, e) \in Seq(Users \X Messages) /\ Len(Append(s, e)) = Len(s) + 1
          /\ Append(s, e)[Len(s) + 1] = e /\ Len(s) \in Nat
          /\ \A i \in 1..Len(s) : Append(s, e)[i] = s[i]
      BY <2>1, AppendProperties, LenProperties
    <2>6. ASSUME NEW i \in 1..Len(inbox'[n])
          PROVE  inbox'[n][i][1] \in Recipients(inbox'[n][i][2])
      <3>1. CASE i \in 1..Len(s)
        <4>1. inbox'[n][i] = s[i]
          BY <2>4, <2>5, <3>1
        <4> QED
          BY <2>3, <3>1, <4>1
      <3>2. CASE i \notin 1..Len(s)
        <4>1. inbox'[n][i] = e
          BY <2>4, <2>5, <3>2
        <4> QED
          BY <2>2, <4>1
      <3> QED
        BY <3>1, <3>2
    <2> QED
      BY <1>2, <2>1, <2>4, <2>5, <2>6 DEF InboxOK
  <1> QED
    BY <1>1, <1>3

LEMMA PublishKeeps ==
    ASSUME ChatInv, NEW c \in Conns, Publish(c), UNCHANGED world
    PROVE  ChatInv'
  <1>1. /\ UNCHANGED <<client, link, connMap, state, offline, members, seqno, got, faults, world>>
        /\ op[c].pc = "publish" /\ TypeOK /\ HandlerOK(c)
        /\ Forward(Head(op[c].remote), op[c].msg) /\ NextRemote(c)
    BY DEF Publish, At, ChatInv, sessionVars
  <1>2. op[c].remote # <<>> /\ op[c].pc \in ChatPlaces
    BY <1>1 DEF HandlerOK, ChatPlaces
  <1>3. /\ op[c].msg \in Messages /\ Head(op[c].remote) \in Users
        /\ Head(op[c].remote) \in Recipients(op[c].msg)
    BY <1>1, <1>2, FirstAddressee
  <1>4. /\ inbox' \in [Nodes -> Seq(Users \X Messages)]
        /\ UNCHANGED <<subs, commands, observer>>
        /\ \A n \in Nodes : InboxOK(n)'
    BY <1>1, <1>3, ForwardEffect
  <1>5. /\ op' \in [Conns -> Handler] /\ op'[c].pc = "status"
        /\ op'[c].msg = op[c].msg /\ op'[c].local = op[c].local /\ op'[c].rows = op[c].rows
        /\ op'[c].remote = Tail(op[c].remote) /\ ForThem(op'[c].remote, op[c].msg)
        /\ \A d \in Conns \ {c} : op'[d] = op[d]
    BY <1>1, NextRemoteEffect
  <1>6. HandlerOK(c)' /\ ChatMove(c)
    BY <1>1, <1>4, <1>5, ListMove
  <1>7. TypeOK'
    BY <1>1, <1>4, <1>5 DEF TypeOK, world
  <1>8. NewIsForThem
    BY <1>1 DEF NewIsForThem
  <1> QED
    BY <1>4, <1>6, <1>7, <1>8, ChatMoveKeeps

LEMMA PublishFailsKeeps ==
    ASSUME ChatInv, NEW c \in Conns, PublishFails(c), UNCHANGED world
    PROVE  ChatInv'
  <1>1. /\ UNCHANGED <<client, link, connMap, state, offline, members, seqno, got, world>>
        /\ op[c].pc = "publish" /\ TypeOK /\ HandlerOK(c) /\ op \in [Conns -> Handler]
        /\ Forward(Head(op[c].remote), op[c].msg) \/ UNCHANGED redisVars
        /\ Goto(c, "store")
    BY UsualTypes DEF PublishFails, At, ChatInv, sessionVars
  <1>2. op[c].remote # <<>> /\ op[c].pc \in ChatPlaces
    BY <1>1 DEF HandlerOK, ChatPlaces
  <1>3. /\ op[c].msg \in Messages /\ Head(op[c].remote) \in Users
        /\ Head(op[c].remote) \in Recipients(op[c].msg)
    BY <1>1, <1>2, FirstAddressee
  <1>4. /\ inbox' \in [Nodes -> Seq(Users \X Messages)]
        /\ UNCHANGED <<subs, commands, observer>>
        /\ UNCHANGED inbox \/ \A n \in Nodes : InboxOK(n)'
    <2>1. CASE Forward(Head(op[c].remote), op[c].msg)
      BY <1>1, <1>3, <2>1, ForwardEffect
    <2>2. CASE UNCHANGED redisVars
      BY <1>1, <2>2 DEF TypeOK, redisVars
    <2> QED
      BY <1>1, <2>1, <2>2
  <1>5. /\ op' \in [Conns -> Handler] /\ op'[c].pc = "store"
        /\ op'[c].msg = op[c].msg /\ op'[c].local = op[c].local
        /\ op'[c].remote = op[c].remote /\ op'[c].rows = op[c].rows
        /\ \A d \in Conns \ {c} : op'[d] = op[d]
    BY <1>1, Goes DEF Places
  <1>6. ForThem(op'[c].remote, op[c].msg)
    BY <1>1, <1>5 DEF HandlerOK
  <1>7. HandlerOK(c)' /\ ChatMove(c)
    BY <1>1, <1>2, <1>4, <1>5, <1>6, ListMove
  <1>8. faults' \in 0..scene'.faults
    BY <1>1, FaultTyped DEF PublishFails, world
  <1>9. TypeOK'
    BY <1>1, <1>4, <1>5, <1>8 DEF TypeOK, world
  <1>10. NewIsForThem
    BY <1>1 DEF NewIsForThem
  <1> QED
    BY <1>4, <1>7, <1>9, <1>10, ChatMoveKeeps

\* What is stored for an addressee is as it should be.
LEMMA StoredIsForHim ==
    ASSUME TypeOK, NEW v \in Users, NEW m \in Messages, v \in Recipients(m),
           offline' = [offline EXCEPT ![v] = @ \cup {m}] \/ UNCHANGED offline,
           UNCHANGED <<got, members>>
    PROVE  /\ offline' \in [Users \cup {NoUser} -> SUBSET Messages]
           /\ NewIsForThem
  <1>1. \A x : Recipients(x)' = Recipients(x)
    BY DEF Recipients, Rows
  <1>2. /\ offline' \in [Users \cup {NoUser} -> SUBSET Messages]
        /\ \A u \in Users : \A x \in offline'[u] \ offline[u] : u = v /\ x = m
    <2>1. CASE UNCHANGED offline
      BY <2>1, UsualTypes
    <2>2. CASE offline' = [offline EXCEPT ![v] = @ \cup {m}]
      BY <2>2, UsualTypes
    <2> QED
      BY <2>1, <2>2
  <1>3. \A u \in Users : \A x \in offline'[u] \ offline[u] : u \in Recipients(x)'
    BY <1>1, <1>2
  <1> QED
    BY <1>2, <1>3 DEF NewIsForThem

LEMMA StoreKeeps ==
    ASSUME ChatInv, NEW c \in Conns, Store(c), UNCHANGED world
    PROVE  ChatInv'
  <1>1. /\ UNCHANGED <<client, link, connMap, state, members, seqno, redisVars, got, world>>
        /\ op[c].pc = "store" /\ TypeOK /\ HandlerOK(c) /\ NextRemote(c)
        /\ UNCHANGED <<inbox, observer>>
    BY DEF Store, At, ChatInv, sessionVars, redisVars
  <1>2. op[c].remote # <<>> /\ op[c].pc \in ChatPlaces
    BY <1>1 DEF HandlerOK, ChatPlaces
  <1>3. /\ op[c].msg \in Messages /\ Head(op[c].remote) \in Users
        /\ Head(op[c].remote) \in Recipients(op[c].msg)
    BY <1>1, <1>2, FirstAddressee
  <1>4. \/ offline' = [offline EXCEPT ![Head(op[c].remote)] = @ \cup {op[c].msg}]
        \/ UNCHANGED offline
    BY DEF Store
  <1>5. /\ offline' \in [Users \cup {NoUser} -> SUBSET Messages]
        /\ NewIsForThem
    BY <1>1, <1>3, <1>4, StoredIsForHim
  <1>6. /\ op' \in [Conns -> Handler] /\ op'[c].pc = "status"
        /\ op'[c].msg = op[c].msg /\ op'[c].local = op[c].local /\ op'[c].rows = op[c].rows
        /\ op'[c].remote = Tail(op[c].remote) /\ ForThem(op'[c].remote, op[c].msg)
        /\ \A d \in Conns \ {c} : op'[d] = op[d]
    BY <1>1, NextRemoteEffect
  <1>7. HandlerOK(c)' /\ ChatMove(c)
    BY <1>1, <1>6, ListMove
  <1>8. faults' \in 0..scene'.faults
    BY <1>1, FaultTyped DEF Store, world
  <1>9. TypeOK'
    BY <1>1, <1>5, <1>6, <1>8 DEF TypeOK, redisVars, world
  <1> QED
    BY <1>1, <1>5, <1>7, <1>9, ChatMoveKeeps

\* Who joins a group becomes an addressee of what is already under way; nobody ceases
\* to be one.
LEMMA AddGroupKeeps ==
    ASSUME ChatInv, NEW c \in Conns, NEW g \in Groups, AddGroup(c, g), UNCHANGED world
    PROVE  ChatInv'
  <1> DEFINE r == Append(members[g], Owner[c])
  <1>1. /\ UNCHANGED <<client, link, connMap, state, op, offline, seqno, redisVars, got, faults,
                       world>>
        /\ members' = [members EXCEPT ![g] = r] /\ TypeOK
    BY DEF AddGroup, ChatInv, sessionVars
  <1>2. members \in [Groups -> Seq(Users)] /\ members[g] \in Seq(Users) /\ Owner[c] \in Users
    BY ConstantsAssumption DEF ChatInv, TypeOK
  <1>3. /\ r \in Seq(Users) /\ Len(r) = Len(members[g]) + 1 /\ Len(members[g]) \in Nat
        /\ \A i \in 1..Len(members[g]) : r[i] = members[g][i]
    BY <1>2, AppendProperties, LenProperties
  <1> HIDE DEF r
  <1>4. /\ members' \in [Groups -> Seq(Users)] /\ members'[g] = r
        /\ \A h \in Groups \ {g} : members'[h] = members[h]
    BY <1>1, <1>2, <1>3
  <1>5. MembersGrow
    <2> SUFFICES ASSUME NEW h \in Groups PROVE Rows(h) \subseteq Rows(h)'
      BY DEF MembersGrow
    <2>1. CASE h = g
      <3>1. \A i \in 1..Len(members[g]) : i \in 1..Len(r) /\ r[i] = members[g][i]
        BY <1>3
      <3>2. \A x \in Rows(g) : x \in Rows(g)'
        BY <1>4, <3>1 DEF Rows
      <3> QED
        BY <2>1, <3>2
    <2>2. CASE h # g
      BY <1>4, <2>2 DEF Rows
    <2> QED
      BY <2>1, <2>2
  <1>6. PastStays
    BY <1>1 DEF PastStays, Past, At
  <1>7. TypeOK'
    BY <1>1, <1>4 DEF TypeOK, redisVars, world
  <1>8. UNCHANGED <<inbox, observer>>
    BY <1>1 DEF redisVars
  <1>9. SessionOK(c)'
    BY <1>1, SessionStays DEF ChatInv
  <1>10. HandlerOK(c)'
    BY <1>1, <1>5, <1>6, HandlerStays DEF ChatInv
  <1>11. StepOf(c)
    BY <1>1 DEF StepOf, Past, At
  <1>12. NewIsForThem
    BY <1>1 DEF NewIsForThem
  <1> QED
    BY <1>5, <1>7, <1>8, <1>9, <1>10, <1>11, <1>12, OneHandler
-----------------------------------------------------------------------------
(* Redis and the observer *)

\* A step of the observer thread of n: no handler moves, a waiting client may die.
ObserverMove(n) ==
    /\ UNCHANGED <<link, op, connMap, members>>
    /\ \A d \in Conns : client'[d] \in {client[d], "gone"}
    /\ \A k \in Nodes \ {n} : observer'[k] = observer[k] /\ inbox'[k] = inbox[k]

LEMMA ObserverMoveKeeps ==
    ASSUME ChatInv, NEW n \in Nodes, ObserverMove(n), TypeOK', InboxOK(n)', ObserverOK(n)',
           NewIsForThem
    PROVE  ChatInv'
  <1> USE DEF ChatInv
  <1>1. \A d \in Conns : SessionOK(d)'
    BY SessionStays DEF ObserverMove
  <1>2. PastStays /\ MembersGrow
    BY RowsStay DEF ObserverMove, Past, At, PastStays
  <1>3. \A d \in Conns : HandlerOK(d)'
    BY <1>2, HandlerStays DEF ObserverMove
  <1>4. \A k \in Nodes \ {n} : InboxOK(k)' /\ ObserverOK(k)'
    BY <1>2, ForwardedStays DEF ObserverMove
  <1>5. ReachesOnlyAddressees'
    BY <1>2, ReachedStays
  <1> QED
    BY <1>1, <1>3, <1>4, <1>5

LEMMA RedisAppliesKeeps ==
    ASSUME ChatInv, NEW n \in Nodes, RedisApplies(n), UNCHANGED world
    PROVE  ChatInv'
  <1> DEFINE s == commands[n]
             u == Head(commands[n])[2]
  <1>1. /\ UNCHANGED <<client, link, connMap, state, op, offline, members, seqno, inbox,
                       observer, got, faults, world>>
        /\ TypeOK /\ s # <<>> /\ commands' = [commands EXCEPT ![n] = Tail(@)]
    BY DEF RedisApplies, ChatInv, sessionVars
  <1>2. s \in Seq({"subscribe", "unsubscribe"} \X Users) /\ s = commands[n] /\ u = Head(s)[2]
    BY <1>1 DEF TypeOK
  <1>3. subs' = [subs EXCEPT ![n] = @ \cup {u}] \/ subs' = [subs EXCEPT ![n] = @ \ {u}]
    BY DEF RedisApplies
  <1> HIDE DEF s, u
  <1>4. Head(s) \in {"subscribe", "unsubscribe"} \X Users
        /\ Tail(s) \in Seq({"subscribe", "unsubscribe"} \X Users)
    BY <1>1, <1>2, HeadTailProperties
  <1>5. u \in Users
    BY <1>2, <1>4
  <1>6. subs' \in [Nodes -> SUBSET Users]
    <2>1. subs \in [Nodes -> SUBSET Users]
      BY <1>1 DEF TypeOK
    <2>2. subs[n] \cup {u} \in SUBSET Users /\ subs[n] \ {u} \in SUBSET Users
      BY <1>5, <2>1
    <2> QED
      BY <1>3, <2>1, <2>2
  <1>7. commands' \in [Nodes -> Seq({"subscribe", "unsubscribe"} \X Users)]
    BY <1>1, <1>2, <1>4 DEF TypeOK
  <1>8. TypeOK'
    BY <1>1, <1>6, <1>7 DEF TypeOK, world
  <1>9. ObserverMove(n) /\ NewIsForThem
    BY <1>1 DEF ObserverMove, NewIsForThem
  <1>10. InboxOK(n)' /\ ObserverOK(n)'
    <2>1. PastStays /\ MembersGrow
      BY <1>1, RowsStay DEF Past, At, PastStays
    <2> QED
      BY <1>1, <2>1, ForwardedStays DEF ChatInv
  <1> QED
    BY <1>8, <1>9, <1>10, ObserverMoveKeeps

LEMMA ObserverTakesKeeps ==
    ASSUME ChatInv, NEW n \in Nodes, ObserverTakes(n), UNCHANGED world
    PROVE  ChatInv'
  <1> DEFINE s == inbox[n]
             v == Head(inbox[n])[1]
             m == Head(inbox[n])[2]
             o == [pc |-> "lookup", user |-> ElementInteger(v), msg |-> m, conn |-> NoConn]
  <1>1. /\ UNCHANGED <<client, link, connMap, state, op, offline, members, seqno, subs, commands,
                       got, faults, world>>
        /\ TypeOK /\ s # <<>> /\ inbox' = [inbox EXCEPT ![n] = Tail(s)]
        /\ observer' = [observer EXCEPT ![n] = o] /\ InboxOK(n)
    BY DEF ObserverTakes, ChatInv, sessionVars
  <1>2. s \in Seq(Users \X Messages) /\ s = inbox[n]
    BY <1>1 DEF TypeOK
  <1>3. v = Head(s)[1] /\ m = Head(s)[2]
    OBVIOUS
  <1>4. /\ o.pc = "lookup" /\ o.user = ElementInteger(v) /\ o.msg = m /\ o.conn = NoConn
        /\ o = [pc |-> "lookup", user |-> ElementInteger(v), msg |-> m, conn |-> NoConn]
    OBVIOUS
  <1> HIDE DEF s, v, m, o
  <1>5. /\ Len(s) \in Nat /\ Len(s) >= 1 /\ Head(s) = s[1] /\ s[1] \in Users \X Messages
        /\ Tail(s) \in Seq(Users \X Messages) /\ Len(Tail(s)) = Len(s) - 1
        /\ \A i \in 1..Len(Tail(s)) : Tail(s)[i] = s[i + 1]
    BY <1>1, <1>2, HeadTailProperties, EmptySeq, LenProperties, ElementOfSeq
  <1>6. v \in Users /\ m \in Messages
    BY <1>3, <1>5
  <1>7. v \in Recipients(m)
    BY <1>1, <1>2, <1>3, <1>5 DEF InboxOK
  <1>8. ElementInteger(v) \in {v, NoUser}
    BY DEF ElementInteger
  <1>9. o \in Observer
    BY <1>4, <1>6, <1>8 DEF Observer
  <1>10. /\ observer' \in [Nodes -> Observer] /\ observer'[n] = o
         /\ inbox' \in [Nodes -> Seq(Users \X Messages)] /\ inbox'[n] = Tail(s)
         /\ \A k \in Nodes \ {n} : observer'[k] = observer[k] /\ inbox'[k] = inbox[k]
    BY <1>1, <1>5, <1>9 DEF TypeOK
  <1>11. TypeOK'
    BY <1>1, <1>10 DEF TypeOK, world
  <1>12. ObserverMove(n) /\ NewIsForThem
    BY <1>1, <1>10 DEF ObserverMove, NewIsForThem
  <1>13. \A x : Recipients(x)' = Recipients(x)
    BY <1>1 DEF Recipients, Rows
  <1>14. InboxOK(n)'
    <2> SUFFICES ASSUME NEW i \in 1..Len(inbox'[n])
                 PROVE  inbox'[n][i][1] \in Recipients(inbox'[n][i][2])
      BY <1>13 DEF InboxOK
    <2>1. inbox'[n][i] = s[i + 1] /\ i + 1 \in 1..Len(s)
      BY <1>5, <1>10
    <2> QED
      BY <1>1, <1>2, <2>1 DEF InboxOK
  <1>15. ObserverOK(n)'
    BY <1>4, <1>6, <1>7, <1>8, <1>10, <1>13, ConstantsAssumption DEF ObserverOK
  <1> QED
    BY <1>11, <1>12, <1>14, <1>15, ObserverMoveKeeps

\* The pointer is copied from the entry of the user that the message is for.
LEMMA ObserverLooksUpKeeps ==
    ASSUME ChatInv, NEW n \in Nodes, ObserverLooksUp(n), UNCHANGED world
    PROVE  ChatInv'
  <1> DEFINE u == observer[n].user
             m == observer[n].msg
             target == IF u \in Users THEN connMap[n][u] ELSE NoConn
             p == IF target = NoConn THEN "store" ELSE "send"
  <1>1. /\ UNCHANGED <<client, link, connMap, state, op, offline, members, seqno, subs, commands,
                       inbox, got, faults, world>>
        /\ TypeOK /\ observer[n].pc = "lookup"
        /\ observer' = [observer EXCEPT ![n].pc = p, ![n].conn = target] /\ ObserverOK(n)
    BY DEF ObserverLooksUp, ChatInv, sessionVars
  <1>2. observer \in [Nodes -> Observer] /\ m \in Messages /\ u \in Users \cup {NoUser}
    BY <1>1 DEF TypeOK, ObserverOK, Observer
  <1>3. u \in Users => u \in Recipients(m)
    BY <1>1 DEF ObserverOK
  <1>4. target # NoConn => /\ u \in Users /\ target \in Conns /\ Owner[target] = u
                           /\ Home[target] = n /\ Past(target)
    BY Found
  <1>5. p \in {"store", "send"} /\ (p = "send" => target # NoConn)
        /\ target \in Conns \cup {NoConn} /\ u = observer[n].user /\ m = observer[n].msg
    BY <1>4
  <1> HIDE DEF u, m, target, p
  <1>6. /\ observer' \in [Nodes -> Observer]
        /\ observer'[n].pc = p /\ observer'[n].conn = target
        /\ observer'[n].user = u /\ observer'[n].msg = m
        /\ \A k \in Nodes \ {n} : observer'[k] = observer[k]
    BY <1>1, <1>2, <1>5 DEF Observer
  <1>7. TypeOK'
    BY <1>1, <1>6 DEF TypeOK, world
  <1>8. ObserverMove(n) /\ NewIsForThem
    BY <1>1, <1>6 DEF ObserverMove, NewIsForThem
  <1>9. InboxOK(n)'
    <2>1. PastStays /\ MembersGrow
      BY <1>1, RowsStay DEF Past, At, PastStays
    <2> QED
      BY <1>1, <2>1, ForwardedStays DEF ChatInv
  <1>10. ObserverOK(n)'
    <2>1. \A x : Recipients(x)' = Recipients(x)
      BY <1>1 DEF Recipients, Rows
    <2>2. p = "send" => Past(observer[n].conn)'
      BY <1>1, <1>4, <1>5, <1>6 DEF Past, At
    <2>3. u \in Users => observer'[n].user \in Recipients(observer[n].msg)'
      BY <1>3, <1>6, <2>1
    <2> QED
      BY <1>2, <1>4, <1>5, <1>6, <2>2, <2>3 DEF ObserverOK
  <1> QED
    BY <1>7, <1>8, <1>9, <1>10, ObserverMoveKeeps

\* The observer is done with a message.
LEMMA ObserverIsIdle ==
    ASSUME TypeOK, NEW n \in Nodes, observer' = [observer EXCEPT ![n] = NoObserver]
    PROVE  /\ observer' \in [Nodes -> Observer] /\ observer'[n] = NoObserver
           /\ \A k \in Nodes \ {n} : observer'[k] = observer[k]
           /\ ObserverOK(n)'
  <1>1. NoObserver \in Observer /\ NoObserver.pc = "idle"
    BY DEF NoObserver, Observer
  <1>2. /\ observer' \in [Nodes -> Observer] /\ observer'[n] = NoObserver
        /\ \A k \in Nodes \ {n} : observer'[k] = observer[k]
    BY <1>1 DEF TypeOK
  <1> QED
    BY <1>1, <1>2 DEF ObserverOK

LEMMA ObserverSendsKeeps ==
    ASSUME ChatInv, NEW n \in Nodes, ObserverSends(n), UNCHANGED world
    PROVE  ChatInv'
  <1> DEFINE t == observer[n].conn
             m == observer[n].msg
  <1>1. /\ UNCHANGED <<link, op, connMap, state, offline, members, seqno, subs, commands,
                       inbox, faults, world>>
        /\ TypeOK /\ observer[n].pc = "send" /\ Send(t, m) /\ ObserverOK(n)
        /\ observer' = [observer EXCEPT ![n] = NoObserver]
    BY DEF ObserverSends, ChatInv
  <1>2. t \in Conns /\ m \in Messages /\ Owner[t] \in Recipients(m)
    BY <1>1 DEF ObserverOK
  <1> HIDE DEF t, m
  <1>3. /\ observer' \in [Nodes -> Observer]
        /\ \A k \in Nodes \ {n} : observer'[k] = observer[k]
        /\ ObserverOK(n)'
    BY <1>1, ObserverIsIdle
  <1>4. /\ client' \in [Conns -> {"connected", "awaiting", "in", "deaf", "gone"}]
        /\ got' \in [Conns -> SUBSET Messages]
        /\ \A d \in Conns : client'[d] \in {client[d], "gone"}
    BY <1>1, <1>2, SendEffect
  <1>5. NewIsForThem
    BY <1>1, <1>2, SentIsForThem
  <1>6. TypeOK'
    BY <1>1, <1>3, <1>4 DEF TypeOK, world
  <1>7. ObserverMove(n)
    BY <1>1, <1>3, <1>4 DEF ObserverMove
  <1>8. InboxOK(n)'
    <2>1. PastStays /\ MembersGrow
      BY <1>1, <1>4, RowsStay DEF Past, At, PastStays
    <2> QED
      BY <1>1, <2>1, ForwardedStays DEF ChatInv
  <1> QED
    BY <1>3, <1>5, <1>6, <1>7, <1>8, ObserverMoveKeeps

\* What is stored for nobody (NoUser) is in no user's rows.
LEMMA ObserverStoresKeeps ==
    ASSUME ChatInv, NEW n \in Nodes, ObserverStores(n), UNCHANGED world
    PROVE  ChatInv'
  <1> DEFINE u == observer[n].user
             m == observer[n].msg
  <1>1. /\ UNCHANGED <<client, link, connMap, state, op, members, seqno, subs, commands,
                       inbox, got, world>>
        /\ TypeOK /\ observer[n].pc = "store" /\ ObserverOK(n)
        /\ observer' = [observer EXCEPT ![n] = NoObserver]
        /\ offline' = [offline EXCEPT ![u] = @ \cup {m}] \/ UNCHANGED offline
    BY DEF ObserverStores, ChatInv, sessionVars
  <1>2. u \in Users \cup {NoUser} /\ m \in Messages /\ (u \in Users => u \in Recipients(m))
    BY <1>1 DEF ObserverOK, TypeOK, Observer
  <1> HIDE DEF u, m
  <1>3. offline' \in [Users \cup {NoUser} -> SUBSET Messages] /\ NewIsForThem
    <2>1. CASE u \in Users
      BY <1>1, <1>2, <2>1, StoredIsForHim
    <2>2. CASE u = NoUser
      <3>1. /\ offline' \in [Users \cup {NoUser} -> SUBSET Messages]
            /\ \A v \in Users : offline'[v] = offline[v]
        <4>1. NoUser \notin Users /\ offline \in [Users \cup {NoUser} -> SUBSET Messages]
          BY <1>1, ConstantsAssumption DEF TypeOK
        <4>2. CASE UNCHANGED offline
          BY <4>1, <4>2
        <4>3. CASE offline' = [offline EXCEPT ![u] = @ \cup {m}]
          BY <1>2, <2>2, <4>1, <4>3
        <4> QED
          BY <1>1, <4>2, <4>3
      <3> QED
        BY <1>1, <3>1 DEF NewIsForThem
    <2> QED
      BY <1>2, <2>1, <2>2
  <1>4. /\ observer' \in [Nodes -> Observer]
        /\ \A k \in Nodes \ {n} : observer'[k] = observer[k]
        /\ ObserverOK(n)'
    BY <1>1, ObserverIsIdle
  <1>5. faults' \in 0..scene'.faults
    BY <1>1, FaultTyped DEF ObserverStores, world
  <1>6. TypeOK'
    BY <1>1, <1>3, <1>4, <1>5 DEF TypeOK, world
  <1>7. ObserverMove(n)
    BY <1>1, <1>4 DEF ObserverMove
  <1>8. InboxOK(n)'
    <2>1. PastStays /\ MembersGrow
      BY <1>1, RowsStay DEF Past, At, PastStays
    <2> QED
      BY <1>1, <2>1, ForwardedStays DEF ChatInv
  <1> QED
    BY <1>3, <1>4, <1>6, <1>7, <1>8, ObserverMoveKeeps
-----------------------------------------------------------------------------
(* The end of a node *)

LEMMA ResetStateKeeps ==
    ASSUME ChatInv, NEW n \in Nodes, ResetState(n)
    PROVE  ChatInv'
  <1>1. /\ UNCHANGED <<client, link, connMap, op, offline, members, seqno, redisVars, got, faults,
                       listening, scene>>
        /\ node' = [node EXCEPT ![n] = "closing"]
        /\ state' = [u \in Users |-> "offline"] \/ UNCHANGED state
    BY DEF ResetState
  <1>2. node' \in [Nodes -> {"up", "closing", "exited", "crashed"}]
        /\ state' \in [Users -> {"online", "offline"}]
    BY <1>1 DEF ChatInv, TypeOK
  <1>3. TypeOK'
    BY <1>1, <1>2 DEF ChatInv, TypeOK, redisVars
  <1>4. ObserverMove(n) /\ NewIsForThem
    BY <1>1 DEF ObserverMove, NewIsForThem, redisVars
  <1>5. InboxOK(n)' /\ ObserverOK(n)'
    <2>1. PastStays /\ MembersGrow
      BY <1>1, RowsStay DEF Past, At, PastStays
    <2> QED
      BY <1>1, <2>1, ForwardedStays DEF ChatInv, redisVars
  <1> QED
    BY <1>3, <1>4, <1>5, ObserverMoveKeeps

LEMMA ObserverQuitsKeeps ==
    ASSUME ChatInv, NEW n \in Nodes, ObserverQuits(n)
    PROVE  ChatInv'
  <1>1. /\ UNCHANGED <<client, link, connMap, state, op, offline, members, seqno, observer, got,
                       faults, node, scene>>
        /\ listening' = [listening EXCEPT ![n] = FALSE]
        /\ subs' = [subs EXCEPT ![n] = {}] /\ commands' = [commands EXCEPT ![n] = <<>>]
        /\ inbox' = [inbox EXCEPT ![n] = <<>>]
    BY DEF ObserverQuits, sessionVars
  <1>2. /\ <<>> \in Seq({"subscribe", "unsubscribe"} \X Users) /\ <<>> \in Seq(Users \X Messages)
    BY EmptySeq
  <1>3. /\ listening' \in [Nodes -> BOOLEAN] /\ subs' \in [Nodes -> SUBSET Users]
        /\ commands' \in [Nodes -> Seq({"subscribe", "unsubscribe"} \X Users)]
        /\ inbox' \in [Nodes -> Seq(Users \X Messages)]
        /\ inbox'[n] = <<>> /\ \A k \in Nodes \ {n} : inbox'[k] = inbox[k]
    BY <1>1, <1>2 DEF ChatInv, TypeOK
  <1>4. TypeOK'
    BY <1>1, <1>3 DEF ChatInv, TypeOK
  <1>5. ObserverMove(n) /\ NewIsForThem
    BY <1>1, <1>3 DEF ObserverMove, NewIsForThem
  <1>6. InboxOK(n)'
    <2>1. Len(inbox'[n]) = 0
      BY <1>3
    <2> QED
      BY <2>1 DEF InboxOK
  <1>7. ObserverOK(n)'
    <2>1. PastStays /\ MembersGrow
      BY <1>1, RowsStay DEF Past, At, PastStays
    <2> QED
      BY <1>1, <2>1, ForwardedStays DEF ChatInv
  <1> QED
    BY <1>4, <1>5, <1>6, <1>7, ObserverMoveKeeps

\* What the end of the process leaves and takes.
LEMMA ProcessEndsEffect ==
    ASSUME TypeOK, NEW n \in Nodes, ProcessEnds(n)
    PROVE  /\ UNCHANGED <<offline, members, seqno, got, faults, listening, scene>>
           /\ op' \in [Conns -> Handler] /\ link' \in [Conns -> {"up", "half", "down"}]
           /\ client' \in [Conns -> {"connected", "awaiting", "in", "deaf", "gone"}]
           /\ connMap' \in [Nodes -> [Users -> Conns \cup {NoConn}]]
           /\ subs' \in [Nodes -> SUBSET Users]
           /\ commands' \in [Nodes -> Seq({"subscribe", "unsubscribe"} \X Users)]
           /\ inbox' \in [Nodes -> Seq(Users \X Messages)]
           /\ observer' \in [Nodes -> Observer]
           /\ \A d \in Conns : Home[d] = n => /\ op'[d] = NoHandler /\ link'[d] = "down"
                                              /\ client'[d] \in {"gone", "connected", "deaf"}
           /\ \A d \in Conns : Home[d] # n => /\ op'[d] = op[d] /\ link'[d] = link[d]
                                              /\ client'[d] = client[d]
           /\ \A u \in Users : connMap'[n][u] = NoConn
           /\ inbox'[n] = <<>> /\ ObserverOK(n)'
           /\ \A k \in Nodes \ {n} : /\ inbox'[k] = inbox[k] /\ observer'[k] = observer[k]
                                     /\ connMap'[k] = connMap[k]
  <1>1. UNCHANGED <<offline, members, seqno, got, faults, listening, scene>>
    BY DEF ProcessEnds
  <1>2. /\ op' \in [Conns -> Handler]
        /\ \A d \in Conns : op'[d] = IF Home[d] = n THEN NoHandler ELSE op[d]
    BY NoHandlerTyped, UsualTypes DEF ProcessEnds
  <1>3. /\ link' \in [Conns -> {"up", "half", "down"}]
        /\ \A d \in Conns : link'[d] = IF Home[d] = n THEN "down" ELSE link[d]
    BY UsualTypes DEF ProcessEnds
  <1>4. /\ client' \in [Conns -> {"connected", "awaiting", "in", "deaf", "gone"}]
        /\ \A d \in Conns : Home[d] = n => client'[d] \in {"gone", "connected", "deaf"}
        /\ \A d \in Conns : Home[d] # n => client'[d] = client[d]
    BY UsualTypes DEF ProcessEnds
  <1>5. /\ connMap' \in [Nodes -> [Users -> Conns \cup {NoConn}]]
        /\ \A u \in Users : connMap'[n][u] = NoConn
        /\ \A k \in Nodes \ {n} : connMap'[k] = connMap[k]
    BY UsualTypes DEF ProcessEnds
  <1>6. <<>> \in Seq({"subscribe", "unsubscribe"} \X Users) /\ <<>> \in Seq(Users \X Messages)
    BY EmptySeq
  <1>7. /\ subs' \in [Nodes -> SUBSET Users]
        /\ commands' \in [Nodes -> Seq({"subscribe", "unsubscribe"} \X Users)]
        /\ inbox' \in [Nodes -> Seq(Users \X Messages)]
        /\ inbox'[n] = <<>> /\ \A k \in Nodes \ {n} : inbox'[k] = inbox[k]
    BY <1>6 DEF ProcessEnds, TypeOK
  <1>8. /\ observer' \in [Nodes -> Observer] /\ ObserverOK(n)'
        /\ \A k \in Nodes \ {n} : observer'[k] = observer[k]
    BY ObserverIsIdle DEF ProcessEnds
  <1> QED
    BY <1>1, <1>2, <1>3, <1>4, <1>5, <1>7, <1>8

\* With the process go all threads that may hold a pointer to one of its connections.
LEMMA ProcessEndsKeeps ==
    ASSUME ChatInv, NEW n \in Nodes, ProcessEnds(n),
           state' \in [Users -> {"online", "offline"}],
           node' \in [Nodes -> {"up", "closing", "exited", "crashed"}]
    PROVE  ChatInv'
  <1> USE DEF ChatInv
  <1>1. TypeOK'
    <2>1. /\ client' \in [Conns -> {"connected", "awaiting", "in", "deaf", "gone"}]
          /\ link' \in [Conns -> {"up", "half", "down"}] /\ op' \in [Conns -> Handler]
          /\ connMap' \in [Nodes -> [Users -> Conns \cup {NoConn}]]
          /\ subs' \in [Nodes -> SUBSET Users]
          /\ commands' \in [Nodes -> Seq({"subscribe", "unsubscribe"} \X Users)]
          /\ inbox' \in [Nodes -> Seq(Users \X Messages)]
          /\ observer' \in [Nodes -> Observer]
      BY ProcessEndsEffect
    <2>2. UNCHANGED <<offline, members, seqno, got, faults, listening, scene>>
      BY ProcessEndsEffect
    <2>3. /\ offline' \in [Users \cup {NoUser} -> SUBSET Messages]
          /\ members' \in [Groups -> Seq(Users)]
          /\ seqno' \in [Conversations -> 0..MaxSeq]
          /\ got' \in [Conns -> SUBSET Messages]
      BY <2>2 DEF TypeOK
    <2>4. faults' \in 0..scene'.faults /\ listening' \in [Nodes -> BOOLEAN] /\ scene' \in Scenes
      BY <2>2 DEF TypeOK
    <2> QED
      BY <2>1, <2>3, <2>4 DEF TypeOK
  <1>2. MembersGrow /\ NewIsForThem
    BY ProcessEndsEffect, RowsStay DEF NewIsForThem
  <1>3. \A k \in Nodes \ {n} : PastStaysAt(k)
    BY ProcessEndsEffect DEF PastStaysAt, Past, At
  <1>4. ASSUME NEW d \in Conns, Home[d] = n PROVE SessionOK(d)' /\ HandlerOK(d)'
    <2>1. op'[d] = NoHandler /\ link'[d] = "down" /\ client'[d] \in {"gone", "connected", "deaf"}
      BY <1>4, ProcessEndsEffect
    <2>2. /\ op'[d].pc = "idle" /\ op'[d].local = <<>> /\ op'[d].remote = <<>>
          /\ op'[d].rows = {} /\ Len(op'[d].local) = 0 /\ Len(op'[d].remote) = 0
      BY <2>1 DEF NoHandler
    <2>3. HandlerOK(d)'
      BY <2>2 DEF HandlerOK, ForThem, At, ChatPlaces
    <2>4. ClientInStep(d)'
      BY <2>1, <2>2 DEF ClientInStep, At, LoginPlaces
    <2>5. \A k \in Nodes, u \in Users : connMap'[k][u] # d
      <3> SUFFICES ASSUME NEW k \in Nodes, NEW u \in Users, connMap'[k][u] = d PROVE FALSE
        OBVIOUS
      <3>1. k # n /\ connMap[k][u] = d
        BY ProcessEndsEffect, ConstantsAssumption
      <3> QED
        BY <1>4, <3>1 DEF SessionOK, EntryOK, Past
    <2> QED
      BY <2>3, <2>4, <2>5 DEF SessionOK, EntryOK, Past
  <1>5. ASSUME NEW d \in Conns, Home[d] # n PROVE SessionOK(d)' /\ HandlerOK(d)'
    <2>1. op'[d] = op[d] /\ link'[d] = link[d] /\ client'[d] = client[d]
      BY <1>5, ProcessEndsEffect
    <2>2. \A k \in Nodes, u \in Users : connMap'[k][u] = d => connMap[k][u] = d
      <3> SUFFICES ASSUME NEW k \in Nodes, NEW u \in Users, connMap'[k][u] = d
                   PROVE  connMap[k][u] = d
        OBVIOUS
      <3>1. k # n
        BY ProcessEndsEffect, ConstantsAssumption
      <3> QED
        BY <3>1, ProcessEndsEffect
    <2>3. SessionOK(d)'
      BY <2>1, <2>2, SessionStays
    <2>4. PastStaysAt(Home[d])
      BY <1>3, <1>5, ConstantsAssumption
    <2> QED
      BY <1>2, <2>1, <2>3, <2>4, HandlerStaysAt
  <1>6. InboxOK(n)' /\ ObserverOK(n)'
    <2>1. Len(inbox'[n]) = 0
      BY ProcessEndsEffect
    <2> QED
      BY <2>1, ProcessEndsEffect DEF InboxOK
  <1>7. \A k \in Nodes \ {n} : InboxOK(k)' /\ ObserverOK(k)'
    BY <1>2, <1>3, ProcessEndsEffect, ForwardedStaysAt
  <1>8. ReachesOnlyAddressees'
    BY <1>2, ReachedStays
  <1> QED
    BY <1>1, <1>4, <1>5, <1>6, <1>7, <1>8

LEMMA ExitsKeeps ==
    ASSUME ChatInv, NEW n \in Nodes, Exits(n)
    PROVE  ChatInv'
  <1>1. state' \in [Users -> {"online", "offline"}]
    BY UsualTypes DEF ChatInv, Exits
  <1>2. node' \in [Nodes -> {"up", "closing", "exited", "crashed"}]
    BY DEF ChatInv, TypeOK, Exits
  <1> QED
    BY <1>1, <1>2, ProcessEndsKeeps DEF Exits

LEMMA CrashesKeeps ==
    ASSUME ChatInv, NEW n \in Nodes, Crashes(n)
    PROVE  ChatInv'
  <1>1. state' \in [Users -> {"online", "offline"}]
    BY UsualTypes DEF ChatInv, Crashes
  <1>2. node' \in [Nodes -> {"up", "closing", "exited", "crashed"}]
    BY DEF ChatInv, TypeOK, Crashes
  <1> QED
    BY <1>1, <1>2, ProcessEndsKeeps DEF Crashes
-----------------------------------------------------------------------------
(* The invariant holds *)

LEMMA InitInv ==
    ASSUME Init
    PROVE  ChatInv
  <1>1. /\ <<>> \in Seq({"subscribe", "unsubscribe"} \X Users)
        /\ <<>> \in Seq(Users \X Messages)
    BY EmptySeq
  <1>2. /\ \A s \in Scenes : s.faults \in Nat /\ 0 \in 0..s.faults
        /\ 0 \in 0..MaxSeq
    BY ConstantsAssumption
  <1>3. TypeOK
    <2>1. /\ op \in [Conns -> Handler] /\ observer \in [Nodes -> Observer]
          /\ members \in [Groups -> Seq(Users)] /\ faults \in 0..scene.faults
          /\ seqno \in [Conversations -> 0..MaxSeq]
      <3>1. NoObserver \in Observer
        BY DEF NoObserver, Observer
      <3>2. op \in [Conns -> Handler] /\ observer \in [Nodes -> Observer]
        BY <3>1, NoHandlerTyped DEF Init
      <3>3. members \in [Groups -> Seq(Users)] /\ faults \in 0..scene.faults
        BY <1>2, ConstantsAssumption DEF Init
      <3>4. seqno \in [Conversations -> 0..MaxSeq]
        BY <1>2 DEF Init
      <3> QED
        BY <3>2, <3>3, <3>4
    <2>2. /\ client \in [Conns -> {"connected", "awaiting", "in", "deaf", "gone"}]
          /\ link \in [Conns -> {"up", "half", "down"}]
          /\ connMap \in [Nodes -> [Users -> Conns \cup {NoConn}]]
          /\ state \in [Users -> {"online", "offline"}]
      BY DEF Init
    <2>3. /\ offline \in [Users \cup {NoUser} -> SUBSET Messages]
          /\ subs \in [Nodes -> SUBSET Users]
          /\ commands \in [Nodes -> Seq({"subscribe", "unsubscribe"} \X Users)]
          /\ inbox \in [Nodes -> Seq(Users \X Messages)]
          /\ got \in [Conns -> SUBSET Messages]
      BY <1>1 DEF Init
    <2>4. /\ node \in [Nodes -> {"up", "closing", "exited", "crashed"}]
          /\ listening \in [Nodes -> BOOLEAN] /\ scene \in Scenes
      BY DEF Init
    <2> QED
      BY <2>1, <2>2, <2>3, <2>4 DEF TypeOK
  <1>4. ASSUME NEW c \in Conns PROVE SessionOK(c) /\ HandlerOK(c)
    <2>1. /\ op[c].pc = "idle" /\ op[c].local = <<>> /\ op[c].remote = <<>>
          /\ op[c].rows = {} /\ Len(op[c].local) = 0 /\ Len(op[c].remote) = 0
      BY DEF Init, NoHandler
    <2>2. HandlerOK(c)
      BY <2>1 DEF HandlerOK, ForThem, At, ChatPlaces
    <2>3. ClientInStep(c)
      BY <2>1 DEF Init, ClientInStep, At, LoginPlaces
    <2>4. EntryOK(c)
      BY ConstantsAssumption DEF Init, EntryOK, Past
    <2> QED
      BY <2>2, <2>3, <2>4 DEF SessionOK
  <1>5. ASSUME NEW n \in Nodes PROVE InboxOK(n) /\ ObserverOK(n)
    <2>1. Len(inbox[n]) = 0 /\ observer[n].pc = "idle"
      BY DEF Init, NoObserver
    <2> QED
      BY <2>1 DEF InboxOK, ObserverOK
  <1>6. ReachesOnlyAddressees
    BY DEF Init, ReachesOnlyAddressees
  <1> QED
    BY <1>3, <1>4, <1>5, <1>6 DEF ChatInv

LEMMA StutterKeeps ==
    ASSUME ChatInv, UNCHANGED vars
    PROVE  ChatInv'
  <1>1. UNCHANGED <<client, link, op, connMap, state, offline, members, seqno, subs, commands,
                    inbox, observer, got, faults, node, listening, scene>>
    BY DEF vars
  <1> USE DEF ChatInv
  <1>2. TypeOK'
    BY <1>1 DEF TypeOK
  <1>3. MembersGrow /\ PastStays /\ NewIsForThem
    BY <1>1 DEF MembersGrow, Rows, PastStays, Past, At, NewIsForThem
  <1>4. \A c \in Conns : SessionOK(c)' /\ HandlerOK(c)'
    BY <1>1, <1>3, SessionStays, HandlerStays
  <1>5. \A n \in Nodes : InboxOK(n)' /\ ObserverOK(n)'
    BY <1>1, <1>3, ForwardedStays
  <1>6. ReachesOnlyAddressees'
    BY <1>3, ReachedStays
  <1> QED
    BY <1>2, <1>4, <1>5, <1>6

LEMMA InvStep ==
    ASSUME ChatInv, [Next]_vars
    PROVE  ChatInv'
  <1>1. CASE UNCHANGED vars
    BY <1>1, StutterKeeps
  <1>2. ASSUME NEW c \in Conns, ClientStep(c) PROVE ChatInv'
    BY <1>2, SendLoginKeeps, LogoutEraseKeeps, OneChatKeeps, GroupChatKeeps, AddGroupKeeps,
       ClientDiesKeeps, ShutdownKeeps, EndOfFileKeeps DEF ClientStep
  <1>3. ASSUME NEW c \in Conns, CloseStarts(c) PROVE ChatInv'
    BY <1>3, ConnectionDownKeeps DEF CloseStarts
  <1>4. ASSUME NEW c \in Conns, HandlerStep(c) PROVE ChatInv'
    <2>1. UNCHANGED world
      BY <1>4 DEF HandlerStep
    <2>2. CASE LoginStep(c)
      <3>1. CASE LoginRefused(c) \/ LoginUnknown(c)
        <4>1. At(c, "check") /\ Refuse(c) /\ faults' \in 0..scene.faults
          <5>1. TypeOK /\ faults \in 0..scene.faults
            BY DEF ChatInv, TypeOK
          <5>2. CASE LoginRefused(c)
            BY <5>1, <5>2 DEF LoginRefused
          <5>3. CASE LoginUnknown(c)
            <6>1. UNCHANGED scene
              BY <2>1 DEF world
            <6> QED
              BY <5>1, <5>3, <6>1, FaultTyped DEF LoginUnknown
          <5> QED
            BY <3>1, <5>2, <5>3
        <4> QED
          BY <2>1, <4>1, RefuseKeeps
      <3> QED
        BY <2>1, <2>2, <3>1, LoginCheckKeeps, LoginMapKeeps, LoginSubscribeKeeps,
           LoginOnlineKeeps, LoginQueryKeeps, LoginRemoveKeeps, LoginAckKeeps DEF LoginStep
    <2>3. CASE LogoutUnsubscribe(c) \/ LogoutOffline(c)
      BY <2>1, <2>3, LogoutUnsubscribeKeeps, LogoutOfflineKeeps
    <2>4. CASE CloseStep(c)
      BY <2>1, <2>4, CloseFindKeeps, CloseOfflineKeeps, CloseUnsubscribeKeeps DEF CloseStep
    <2>5. CASE ChatStep(c)
      BY <2>1, <2>5, ChatLookupKeeps, GroupMembersKeeps, GroupCollectKeeps, GroupPushKeeps,
         RemoteStatusKeeps, PublishKeeps, PublishFailsKeeps, StoreKeeps DEF ChatStep
    <2> QED
      BY <1>4, <2>2, <2>3, <2>4, <2>5 DEF HandlerStep
  <1>5. ASSUME NEW n \in Nodes, RedisStep(n) PROVE ChatInv'
    BY <1>5, RedisAppliesKeeps DEF RedisStep
  <1>6. ASSUME NEW n \in Nodes, ForwardStep(n) PROVE ChatInv'
    BY <1>6, ObserverTakesKeeps, ObserverLooksUpKeeps, ObserverSendsKeeps, ObserverStoresKeeps
       DEF ForwardStep, ObserverStep
  <1>7. ASSUME NEW n \in Nodes, NodeStep(n) PROVE ChatInv'
    BY <1>7, ResetStateKeeps, ExitsKeeps, CrashesKeeps, ObserverQuitsKeeps DEF NodeStep
  <1> QED
    BY <1>1, <1>2, <1>3, <1>4, <1>5, <1>6, <1>7 DEF Next

\* The sessions, the handlers and what is forwarded stay in step, however the clients,
\* the handlers of all nodes, Redis and the ends of nodes interleave.
THEOREM Invariance == Spec => []ChatInv
  <1>1. Init => ChatInv
    BY InitInv
  <1>2. ChatInv /\ [Next]_vars => ChatInv'
    BY InvStep
  <1> QED
    BY <1>1, <1>2, PTL DEF Spec

\* Every variable has its type: in particular no handler and no observer sends to a
\* pointer that is not a connection.
THEOREM TypeCorrect == Spec => []TypeOK
  <1>1. ChatInv => TypeOK
    BY DEF ChatInv
  <1> QED
    BY <1>1, Invariance, PTL

\* What clientCloseException and loginout leave in _userConnMap is never the pointer of
\* a connection that has been cleaned up, nor one of another user or node.
THEOREM MapSound == Spec => []MapIsSound
  <1>1. ChatInv => MapIsSound
    <2> SUFFICES ASSUME ChatInv, NEW n \in Nodes, NEW u \in Users, connMap[n][u] # NoConn
                 PROVE  LET c == connMap[n][u]
                        IN  /\ Owner[c] = u /\ Home[c] = n /\ client[c] # "connected"
                            /\ link[c] # "down" \/ At(c, "find")
      BY DEF MapIsSound
    <2>1. PICK c \in Conns : connMap[n][u] = c
      BY DEF ChatInv, TypeOK
    <2>2. EntryOK(c)
      BY DEF ChatInv, SessionOK
    <2> QED
      BY <2>1, <2>2 DEF EntryOK, Past
  <1> QED
    BY <1>1, Invariance, PTL

\* A message reaches, whichever of the three ways it takes, only users it is for: the
\* sender of a conversation of two never gets it back, nor anyone outside the group.
THEOREM OnlyAddressees == Spec => []ReachesOnlyAddressees
  <1>1. ChatInv => ReachesOnlyAddressees
    BY DEF ChatInv
  <1> QED
    BY <1>1, Invariance, PTL
-----------------------------------------------------------------------------
(* No message is lost but in the windows *)

\* What is to be shown of a step: m is still held, or the step is in a window.
Kept(m, v) == Held(m, v)' \/ LossWindow(m, v)

\* What is stored, received or forwarded stays, no observer moves, and of the handlers
\* only that of c.
HandlerAlone(c) ==
    /\ \A u \in Users : offline[u] \subseteq offline'[u]
    /\ \A d \in Conns : got[d] \subseteq got'[d]
    /\ \A n \in Nodes : \A i \in 1..Len(inbox[n]) :
          i \in 1..Len(inbox'[n]) /\ inbox'[n][i] = inbox[n][i]
    /\ UNCHANGED observer
    /\ \A d \in Conns \ {c} : op'[d] = op[d]

\* Then what the handler of c has is all there is to look at.
LEMMA KeptElsewhere ==
    ASSUME NEW c \in Conns, NEW v \in Users, NEW m, Held(m, v), HandlerAlone(c),
           ReadBy(c, m, v) \/ InHand(c, m, v) => Kept(m, v)
    PROVE  Kept(m, v)
  <1>1. CASE m \in offline[v]
    BY <1>1 DEF Kept, Held, Underway, HandlerAlone
  <1>2. CASE Received(m, v)
    <2>1. Received(m, v)'
      BY <1>2 DEF Received, HandlerAlone
    <2> QED
      BY <2>1 DEF Kept, Held, Underway
  <1>3. ASSUME NEW d \in Conns, ReadBy(d, m, v) \/ InHand(d, m, v) PROVE Kept(m, v)
    <2>1. CASE d = c
      BY <1>3, <2>1
    <2>2. CASE d # c
      <3>1. op'[d] = op[d]
        BY <2>2 DEF HandlerAlone
      <3>2. ReadBy(d, m, v)' \/ InHand(d, m, v)'
        BY <1>3, <3>1 DEF ReadBy, InHand
      <3> QED
        BY <3>2 DEF Kept, Held, Underway
    <2> QED
      BY <2>1, <2>2
  <1>4. ASSUME NEW n \in Nodes, Forwarded(n, m, v) PROVE Kept(m, v)
    <2>1. Forwarded(n, m, v)'
      BY <1>4 DEF Forwarded, HandlerAlone
    <2> QED
      BY <2>1 DEF Kept, Held, Underway
  <1>5. ASSUME NEW n \in Nodes, WithObserver(n, m, v) PROVE Kept(m, v)
    <2>1. WithObserver(n, m, v)'
      BY <1>5 DEF WithObserver, HandlerAlone
    <2> QED
      BY <2>1 DEF Kept, Held, Underway
  <1> QED
    BY <1>1, <1>2, <1>3, <1>4, <1>5 DEF Held, Underway

\* A handler outside the chats that is not about to answer a login has no message.
LEMMA EmptyHands ==
    ASSUME ChatInv, NEW c \in Conns, op[c].pc \notin ChatPlaces \cup {"remove", "ack"},
           NEW v, NEW m
    PROVE  ~ReadBy(c, m, v) /\ ~InHand(c, m, v)
  <1>1. op[c].remote = <<>> /\ op[c].local = <<>>
    BY DEF ChatInv, HandlerOK, At, ChatPlaces
  <1>2. Len(op[c].remote) = 0 /\ Len(op[c].local) = 0
    BY <1>1
  <1> QED
    BY <1>2 DEF ReadBy, InHand

\* A handler that does not move, or only goes on with the same chat in hand.
LEMMA SameInHand ==
    ASSUME NEW c \in Conns, NEW v, NEW m, InHand(c, m, v), op'[c].msg = op[c].msg,
           op'[c].remote = op[c].remote, op'[c].local = op[c].local
    PROVE  Kept(m, v)
  <1>1. InHand(c, m, v)'
    BY DEF InHand
  <1> QED
    BY <1>1 DEF Kept, Held, Underway

\* A message that is sent over a connection of the addressee is received, or nobody is
\* at its end who reads it.
LEMMA SentOrLost ==
    ASSUME TypeOK, NEW t \in Conns, NEW m \in Messages, Send(t, m), Sends(t, m)
    PROVE  Kept(m, Owner[t])
  <1>1. /\ got \in [Conns -> SUBSET Messages]
        /\ client \in [Conns -> {"connected", "awaiting", "in", "deaf", "gone"}]
    BY DEF TypeOK
  <1>2. CASE link[t] = "up" /\ client'[t] = "in"
    <2>1. client[t] = "in" /\ got' = [got EXCEPT ![t] = @ \cup {m}]
      BY <1>1, <1>2 DEF Send
    <2>2. m \in got'[t]
      BY <1>1, <2>1
    <2>3. Received(m, Owner[t])'
      BY <2>2 DEF Received
    <2> QED
      BY <2>3 DEF Kept, Held, Underway
  <1>3. CASE ~(link[t] = "up" /\ client'[t] = "in")
    BY <1>3 DEF Kept, LossWindow
  <1> QED
    BY <1>2, <1>3

\* The steps of a handler that neither look into an inbox nor deliver anything.
Still ==
    /\ UNCHANGED <<got, inbox, observer>>
    /\ \A u \in Users : offline[u] \subseteq offline'[u]

LEMMA StillAlone ==
    ASSUME NEW c \in Conns, Still, \A d \in Conns \ {c} : op'[d] = op[d]
    PROVE  HandlerAlone(c)
  BY DEF Still, HandlerAlone

LEMMA IdleStepKeeps ==
    ASSUME ChatInv, NEW c \in Conns, Still, \A d \in Conns \ {c} : op'[d] = op[d],
           op[c].pc \notin ChatPlaces \cup {"remove", "ack"},
           NEW v \in Users, NEW m, Held(m, v)
    PROVE  Kept(m, v)
  BY StillAlone, EmptyHands, KeptElsewhere

\* All steps of the client, of the end of its connection and of the login, but two.
LEMMA CalmHandlerKeepsHeld ==
    ASSUME ChatInv, NEW c \in Conns, NEW v \in Users, NEW m, Held(m, v),
           \/ SendLogin(c) \/ LogoutErase(c) \/ ConnectionDown(c)
           \/ \E u \in Users : OneChat(c, u)
           \/ \E g \in Groups : GroupChat(c, g)
           \/ LoginRefused(c) \/ LoginUnknown(c) \/ LoginCheck(c) \/ LoginMap(c)
           \/ LoginSubscribe(c) \/ LoginOnline(c) \/ LoginQuery(c)
           \/ LogoutUnsubscribe(c) \/ LogoutOffline(c)
           \/ CloseFind(c) \/ CloseOffline(c) \/ CloseUnsubscribe(c)
    PROVE  Kept(m, v)
  <1>1. TypeOK /\ Home[c] \in Nodes
    BY ConstantsAssumption DEF ChatInv
  <1>2. ASSUME NEW p, Goto(c, p) PROVE \A d \in Conns \ {c} : op'[d] = op[d]
    BY <1>1, <1>2, UsualTypes DEF Goto
  <1>3. ASSUME Return(c) PROVE \A d \in Conns \ {c} : op'[d] = op[d]
    BY <1>1, <1>3, UsualTypes DEF Return
  <1>4. ASSUME NEW what \in {"subscribe", "unsubscribe"}, Command(c, what)
        PROVE  UNCHANGED <<inbox, observer>>
    BY <1>1, <1>4, CommandTyped
  <1>5. CASE SendLogin(c) \/ LogoutErase(c) \/ ConnectionDown(c)
    <2>1. /\ op[c].pc = "idle" /\ Still
          /\ Goto(c, "check") \/ Goto(c, "unsubscribe") \/ Goto(c, "find")
      BY <1>5 DEF SendLogin, LogoutErase, ConnectionDown, At, Still, redisVars
    <2> QED
      BY <1>2, <2>1, IdleStepKeeps DEF ChatPlaces
  <1>6. CASE (\E u \in Users : OneChat(c, u)) \/ (\E g \in Groups : GroupChat(c, g))
    <2>1. \E k, p, to : TakeNumber(c, k, p, to)
      BY <1>6 DEF OneChat, GroupChat
    <2>2. PICK k, p, to : TakeNumber(c, k, p, to)
      BY <2>1
    <2>3. /\ op[c].pc = "idle" /\ Still /\ op \in [Conns -> Handler]
          /\ \A d \in Conns \ {c} : op'[d] = op[d]
      BY <1>1, <2>2, UsualTypes DEF TakeNumber, At, Still, redisVars
    <2> QED
      BY <2>3, IdleStepKeeps DEF ChatPlaces
  <1>7. CASE LoginRefused(c) \/ LoginUnknown(c) \/ LoginCheck(c) \/ LoginMap(c)
    <2>1. /\ op[c].pc \in {"check", "map"} /\ Still
          /\ Goto(c, "map") \/ Goto(c, "subscribe") \/ Return(c)
      BY <1>7 DEF LoginRefused, LoginUnknown, Refuse, LoginCheck, LoginMap, At, Still, redisVars
    <2> QED
      BY <1>2, <1>3, <2>1, IdleStepKeeps DEF ChatPlaces
  <1>8. CASE LoginSubscribe(c) \/ LogoutUnsubscribe(c) \/ CloseUnsubscribe(c)
    <2>1. /\ op[c].pc \in {"subscribe", "unsubscribe", "closeUnsubscribe"}
          /\ Goto(c, "online") \/ Goto(c, "offline") \/ Return(c)
          /\ UNCHANGED <<got, offline>>
          /\ Command(c, "subscribe") \/ Command(c, "unsubscribe")
      BY <1>8 DEF LoginSubscribe, LogoutUnsubscribe, CloseUnsubscribe, At
    <2>2. Still
      BY <1>4, <2>1 DEF Still
    <2> QED
      BY <1>2, <1>3, <2>1, <2>2, IdleStepKeeps DEF ChatPlaces
  <1>9. CASE LoginOnline(c) \/ LogoutOffline(c) \/ CloseOffline(c)
    <2>1. /\ op[c].pc \in {"online", "offline", "closeOffline"} /\ Still
          /\ Goto(c, "query") \/ Goto(c, "closeUnsubscribe") \/ Return(c)
      BY <1>9 DEF LoginOnline, LogoutOffline, CloseOffline, At, Still, redisVars
    <2> QED
      BY <1>2, <1>3, <2>1, IdleStepKeeps DEF ChatPlaces
  <1>10. CASE LoginQuery(c)
    <2>1. /\ op[c].pc = "query" /\ Still
          /\ \A d \in Conns \ {c} : op'[d] = op[d]
      BY <1>1, <1>10, UsualTypes DEF LoginQuery, At, Still, redisVars
    <2> QED
      BY <2>1, IdleStepKeeps DEF ChatPlaces
  <1>11. CASE CloseFind(c)
    <2>1. /\ op[c].pc = "find" /\ Still
          /\ Goto(c, "closeOffline") \/ Return(c)
      BY <1>11 DEF CloseFind, At, Still, redisVars
    <2> QED
      BY <1>2, <1>3, <2>1, IdleStepKeeps DEF ChatPlaces
  <1> QED
    BY <1>5, <1>6, <1>7, <1>8, <1>9, <1>10, <1>11

\* Nothing that has a message in hand moves.
LEMMA NothingMovesKeepsHeld ==
    ASSUME NEW v \in Users, NEW m, Held(m, v),
           UNCHANGED <<op, offline, got, inbox, observer>>
    PROVE  Kept(m, v)
  <1>1. Held(m, v)'
    BY DEF Held, Underway, Received, ReadBy, InHand, Forwarded, WithObserver
  <1> QED
    BY <1>1 DEF Kept

\* The client ends, or its stream, or a user joins a group: no handler moves.
LEMMA ClientOrGroupKeepsHeld ==
    ASSUME NEW c \in Conns, NEW v \in Users, NEW m, Held(m, v),
           \/ ClientDies(c) \/ Shutdown(c) \/ EndOfFile(c)
           \/ \E g \in Groups : AddGroup(c, g)
    PROVE  Kept(m, v)
  <1>1. UNCHANGED <<op, offline, got, inbox, observer>>
    BY DEF ClientDies, Shutdown, EndOfFile, AddGroup, redisVars
  <1> QED
    BY <1>1, NothingMovesKeepsHeld

\* "delete from OfflineMessage where userid=?": the rows that were read stay in the hand
\* of the handler, those that came since are gone.
LEMMA LoginRemoveKeepsHeld ==
    ASSUME ChatInv, NEW c \in Conns, NEW v \in Users, NEW m, Held(m, v), LoginRemove(c)
    PROVE  Kept(m, v)
  <1>1. /\ op[c].pc = "remove" /\ Goto(c, "ack") /\ UNCHANGED <<got, inbox, observer>>
        /\ TypeOK /\ op \in [Conns -> Handler]
        /\ offline' = [offline EXCEPT ![Owner[c]] = {}] \/ UNCHANGED offline
    BY UsualTypes DEF LoginRemove, At, redisVars, ChatInv
  <1>2. /\ op'[c].pc = "ack" /\ op'[c].rows = op[c].rows /\ op'[c].msg = op[c].msg
        /\ op'[c].remote = op[c].remote /\ op'[c].local = op[c].local
        /\ \A d \in Conns \ {c} : op'[d] = op[d]
    BY <1>1, Goes DEF Places
  <1>3. CASE UNCHANGED offline
    <2>1. HandlerAlone(c)
      BY <1>1, <1>2, <1>3 DEF HandlerAlone
    <2>2. ReadBy(c, m, v) => ReadBy(c, m, v)'
      BY <1>2 DEF ReadBy
    <2>3. ReadBy(c, m, v) => Kept(m, v)
      BY <2>2 DEF Kept, Held, Underway
    <2> QED
      BY <1>2, <2>1, <2>3, SameInHand, KeptElsewhere
  <1>4. CASE offline' = [offline EXCEPT ![Owner[c]] = {}]
    <2>1. offline \in [Users \cup {NoUser} -> SUBSET Messages]
      BY <1>1, UsualTypes
    <2>2. CASE ReadBy(c, m, v)
      <3>1. ReadBy(c, m, v)'
        BY <1>2, <2>2 DEF ReadBy
      <3> QED
        BY <3>1 DEF Kept, Held, Underway
    <2>3. CASE InHand(c, m, v)
      BY <1>2, <2>3, SameInHand
    <2>4. CASE m \in offline[v] /\ v # Owner[c]
      <3>1. m \in offline'[v]
        BY <1>4, <2>1, <2>4
      <3> QED
        BY <3>1 DEF Kept, Held, Underway
    <2>5. CASE m \in offline[v] /\ v = Owner[c]
      <3>1. CASE m \in op[c].rows
        <4>1. ReadBy(c, m, v)'
          BY <1>2, <2>5, <3>1 DEF ReadBy
        <4> QED
          BY <4>1 DEF Kept, Held, Underway
      <3>2. CASE m \notin op[c].rows
        BY <1>1, <1>2, <2>5, <3>2 DEF Kept, LossWindow, At
      <3> QED
        BY <3>1, <3>2
    <2>6. ASSUME NEW d \in Conns \ {c}, ReadBy(d, m, v) \/ InHand(d, m, v) PROVE Kept(m, v)
      <3>1. ReadBy(d, m, v)' \/ InHand(d, m, v)'
        BY <1>2, <2>6 DEF ReadBy, InHand
      <3> QED
        BY <3>1 DEF Kept, Held, Underway
    <2>7. CASE Received(m, v)
      <3>1. Received(m, v)'
        BY <1>1, <2>7 DEF Received
      <3> QED
        BY <3>1 DEF Kept, Held, Underway
    <2>8. ASSUME NEW n \in Nodes, Forwarded(n, m, v) \/ WithObserver(n, m, v) PROVE Kept(m, v)
      <3>1. Forwarded(n, m, v)' \/ WithObserver(n, m, v)'
        BY <1>1, <2>8 DEF Forwarded, WithObserver
      <3> QED
        BY <3>1 DEF Kept, Held, Underway
    <2> QED
      BY <2>2, <2>3, <2>4, <2>5, <2>6, <2>7, <2>8 DEF Held, Underway
  <1> QED
    BY <1>1, <1>3, <1>4

\* The offline messages reach the client with the login response, if it is there.
LEMMA LoginAckKeepsHeld ==
    ASSUME ChatInv, NEW c \in Conns, NEW v \in Users, NEW m, Held(m, v), LoginAck(c)
    PROVE  Kept(m, v)
  <1>1. /\ op[c].pc = "ack" /\ Return(c) /\ UNCHANGED <<offline, inbox, observer>>
        /\ op \in [Conns -> Handler] /\ got \in [Conns -> SUBSET Messages]
        /\ client[c] \in {"awaiting", "deaf", "gone"}
    BY UsualTypes DEF LoginAck, At, redisVars, ChatInv, SessionOK, ClientInStep, LoginPlaces
  <1>2. op'[c].pc = "idle" /\ \A d \in Conns \ {c} : op'[d] = op[d]
    BY <1>1, Returns DEF NoHandler
  <1>3. op[c].remote = <<>> /\ op[c].local = <<>>
    BY <1>1 DEF ChatInv, HandlerOK, At, ChatPlaces
  <1>4. ~InHand(c, m, v)
    <2>1. Len(op[c].remote) = 0 /\ Len(op[c].local) = 0
      BY <1>3
    <2> QED
      BY <2>1 DEF InHand
  <1>5. ReadBy(c, m, v) => Kept(m, v)
    <2> SUFFICES ASSUME ReadBy(c, m, v) PROVE Kept(m, v)
      OBVIOUS
    <2>1. CASE client'[c] # "in"
      BY <1>1, <1>2, <2>1 DEF Kept, LossWindow, ReadBy, At
    <2>2. CASE client'[c] = "in"
      <3>1. client \in [Conns -> {"connected", "awaiting", "in", "deaf", "gone"}]
        BY DEF ChatInv, TypeOK
      <3>2. got' = [got EXCEPT ![c] = @ \cup op[c].rows]
        BY <1>1, <2>2, <3>1 DEF LoginAck
      <3>3. m \in got'[c]
        BY <1>1, <3>2 DEF ReadBy
      <3>4. Received(m, v)'
        BY <3>3 DEF Received, ReadBy
      <3> QED
        BY <3>4 DEF Kept, Held, Underway
    <2> QED
      BY <2>1, <2>2
  <1>6. \A d \in Conns : got[d] \subseteq got'[d]
    BY <1>1 DEF LoginAck
  <1>7. HandlerAlone(c)
    BY <1>1, <1>2, <1>6 DEF HandlerAlone
  <1> QED
    BY <1>4, <1>5, <1>7, KeptElsewhere
-----------------------------------------------------------------------------
(* The chats *)

\* Whom a handler that works off its list has in hand: the first one, or one of the rest.
LEMMA ListInHand ==
    ASSUME ChatInv, NEW c \in Conns, op[c].pc \in {"lookup", "status", "publish", "store"},
           NEW v, NEW m, InHand(c, m, v)
    PROVE  /\ op[c].remote # <<>> /\ m = op[c].msg /\ m \in Messages
           /\ \/ v = Head(op[c].remote)
              \/ /\ Len(op[c].remote) # 1
                 /\ \E i \in 1..Len(Tail(op[c].remote)) : Tail(op[c].remote)[i] = v
  <1> DEFINE s == op[c].remote
  <1>1. /\ s \in Seq(Users) /\ op[c].local = <<>> /\ m = op[c].msg /\ m \in Messages
    BY UsualTypes DEF ChatInv, Handler, HandlerOK, At, ChatPlaces, InHand
  <1>2. PICK i \in 1..Len(s) : s[i] = v
    <2>1. Len(op[c].local) = 0
      BY <1>1
    <2> QED
      BY <2>1 DEF InHand
  <1> HIDE DEF s
  <1>3. Len(s) \in Nat /\ s # <<>>
    BY <1>1, <1>2, LenProperties
  <1>4. /\ Head(s) = s[1] /\ Len(Tail(s)) = Len(s) - 1
        /\ \A j \in 1..Len(Tail(s)) : Tail(s)[j] = s[j + 1]
    BY <1>1, <1>3, HeadTailProperties
  <1>5. i # 1 => i - 1 \in 1..Len(Tail(s)) /\ Tail(s)[i - 1] = v /\ Len(s) # 1
    BY <1>2, <1>3, <1>4
  <1> QED
    BY <1>1, <1>2, <1>3, <1>4, <1>5 DEF s

\* onechat under the lock: the addressee is sent the message or goes on being looked for.
LEMMA ChatLookupKeepsHeld ==
    ASSUME ChatInv, NEW c \in Conns, NEW v \in Users, NEW m, Held(m, v), ChatLookup(c)
    PROVE  Kept(m, v)
  <1> DEFINE u == Head(op[c].remote)
             target == connMap[Home[c]][u]
  <1>1. /\ op[c].pc = "lookup" /\ UNCHANGED <<offline, inbox, observer>> /\ TypeOK
        /\ Len(op[c].remote) = 1 /\ Home[c] \in Nodes /\ HandlerOK(c)
    BY ConstantsAssumption DEF ChatLookup, At, ChatInv, HandlerOK, redisVars
  <1>2. op[c].remote # <<>>
    <2> SUFFICES ASSUME op[c].remote = <<>> PROVE FALSE
      OBVIOUS
    <2>1. Len(op[c].remote) = 0
      OBVIOUS
    <2> QED
      BY <1>1, <2>1
  <1>3. op[c].msg \in Messages /\ u \in Users
    BY <1>1, <1>2, FirstAddressee DEF ChatPlaces
  <1>4. op \in [Conns -> Handler]
    BY <1>1, UsualTypes
  <1>5. CASE target # NoConn /\ Send(target, op[c].msg) /\ Return(c)
    <2>1. target \in Conns /\ Owner[target] = u /\ Past(target)
      BY <1>1, <1>3, <1>5, Found
    <2>2. \A d \in Conns : got[d] \subseteq got'[d]
      BY <1>1, <1>3, <1>5, <2>1, SendEffect
    <2>3. op'[c].pc = "idle" /\ \A d \in Conns \ {c} : op'[d] = op[d]
      BY <1>4, <1>5, Returns DEF NoHandler
    <2>4. HandlerAlone(c)
      BY <1>1, <2>2, <2>3 DEF HandlerAlone
    <2>5. ~ReadBy(c, m, v)
      BY <1>1 DEF ReadBy
    <2>6. ASSUME InHand(c, m, v) PROVE Kept(m, v)
      <3>1. v = u /\ m = op[c].msg
        BY <1>1, <2>6, ListInHand
      <3>2. Sends(target, m)
        BY <1>1, <2>3, <3>1 DEF Sends, At
      <3>3. Send(target, m) /\ m \in Messages
        BY <1>3, <1>5, <3>1
      <3> HIDE DEF target, u
      <3> QED
        BY <1>1, <2>1, <3>1, <3>2, <3>3, SentOrLost
    <2> QED
      BY <2>4, <2>5, <2>6, KeptElsewhere
  <1>6. CASE Goto(c, "status") /\ UNCHANGED <<got, client>>
    <2>1. /\ op'[c].msg = op[c].msg /\ op'[c].remote = op[c].remote
          /\ op'[c].local = op[c].local /\ \A d \in Conns \ {c} : op'[d] = op[d]
      BY <1>4, <1>6, Goes DEF Places
    <2>2. HandlerAlone(c)
      BY <1>1, <1>6, <2>1 DEF HandlerAlone
    <2>3. ~ReadBy(c, m, v)
      BY <1>1 DEF ReadBy
    <2> QED
      BY <2>1, <2>2, <2>3, SameInHand, KeptElsewhere
  <1> QED
    BY <1>5, <1>6 DEF ChatLookup

\* Until the rows are read there is nobody in hand; if they cannot be read the message
\* is for nobody.
LEMMA GroupMembersKeepsHeld ==
    ASSUME ChatInv, NEW c \in Conns, NEW v \in Users, NEW m, Held(m, v), GroupMembers(c)
    PROVE  Kept(m, v)
  <1>1. /\ op[c].pc = "members" /\ Still /\ op \in [Conns -> Handler]
    BY UsualTypes DEF GroupMembers, At, Still, redisVars, ChatInv
  <1>2. \A d \in Conns \ {c} : op'[d] = op[d]
    BY <1>1 DEF GroupMembers, Return
  <1>3. op[c].remote = <<>> /\ op[c].local = <<>>
    BY <1>1 DEF ChatInv, HandlerOK, At
  <1>4. ~InHand(c, m, v) /\ ~ReadBy(c, m, v)
    <2>1. Len(op[c].remote) = 0 /\ Len(op[c].local) = 0
      BY <1>3
    <2> QED
      BY <1>1, <2>1 DEF InHand, ReadBy
  <1> QED
    BY <1>1, <1>2, <1>4, StillAlone, KeptElsewhere

\* groupchat under the lock: every addressee is on one of the two lists.
LEMMA GroupCollectKeepsHeld ==
    ASSUME ChatInv, NEW c \in Conns, NEW v \in Users, NEW m, Held(m, v), GroupCollect(c)
    PROVE  Kept(m, v)
  <1> DEFINE s == op[c].remote
             here == InMap(Home[c])
             away == Users \ here
             near == Selected(s, here)
             far == Selected(s, away)
             loc == [i \in 1..Len(near) |-> connMap[Home[c]][near[i]]]
  <1>1. /\ op[c].pc = "collect" /\ Still /\ op \in [Conns -> Handler]
        /\ op' = [op EXCEPT ![c].pc = "push", ![c].local = loc, ![c].remote = far]
        /\ s \in Seq(Users) /\ Home[c] \in Nodes
    BY UsualTypes, ConstantsAssumption
       DEF GroupCollect, At, Still, redisVars, ChatInv, Handler
  <1>2. \A u \in here : connMap[Home[c]][u] # NoConn /\ u \in Users
    BY DEF InMap
  <1>3. /\ Len(near) \in Nat /\ \A k \in 1..Len(near) : near[k] \in here
        /\ \A j \in 1..Len(s) : s[j] \in here => \E k \in 1..Len(near) : near[k] = s[j]
    <2>1. near = Selected(s, here) /\ s \in Seq(Users)
      BY <1>1
    <2> HIDE DEF s, here, near, away, far, loc
    <2> QED
      BY <2>1, SelectedElements
  <1>4. /\ Len(far) \in Nat /\ \A k \in 1..Len(far) : far[k] \in away
        /\ \A j \in 1..Len(s) : s[j] \in away => \E k \in 1..Len(far) : far[k] = s[j]
    <2>1. far = Selected(s, away) /\ s \in Seq(Users)
      BY <1>1
    <2> HIDE DEF s, here, near, away, far, loc
    <2> QED
      BY <2>1, SelectedElements
  <1>5. \A k \in 1..Len(near) : Owner[loc[k]] = near[k]
    <2> SUFFICES ASSUME NEW k \in 1..Len(near) PROVE Owner[loc[k]] = near[k]
      OBVIOUS
    <2>1. near[k] \in Users /\ connMap[Home[c]][near[k]] # NoConn
      BY <1>2, <1>3
    <2>2. loc[k] = connMap[Home[c]][near[k]]
      OBVIOUS
    <2> HIDE DEF loc, near
    <2> QED
      BY <1>1, <2>1, <2>2, Found
  <1>6. Len(loc) = Len(near)
    BY <1>3
  <1> HIDE DEF s, here, away, near, far, loc
  <1>7. /\ op'[c].msg = op[c].msg /\ op'[c].local = loc /\ op'[c].remote = far
        /\ \A d \in Conns \ {c} : op'[d] = op[d]
    BY <1>1 DEF Handler
  <1>8. ~ReadBy(c, m, v)
    BY <1>1 DEF ReadBy
  <1>9. ASSUME InHand(c, m, v) PROVE Kept(m, v)
    <2>1. op[c].local = <<>> /\ op[c].msg = m
      BY <1>1, <1>9 DEF ChatInv, HandlerOK, At, InHand
    <2>2. Len(op[c].local) = 0
      BY <2>1
    <2>3. PICK j \in 1..Len(s) : s[j] = v
      BY <1>9, <2>2 DEF InHand, s
    <2>4. CASE v \in here
      <3>1. PICK k \in 1..Len(near) : near[k] = v
        BY <1>3, <2>3, <2>4
      <3>2. Owner[loc[k]] = v /\ k \in 1..Len(loc)
        BY <1>5, <1>6, <3>1
      <3>3. InHand(c, m, v)'
        BY <1>7, <2>1, <3>2 DEF InHand
      <3> QED
        BY <3>3 DEF Kept, Held, Underway
    <2>5. CASE v \notin here
      <3>1. PICK k \in 1..Len(far) : far[k] = v
        BY <1>4, <2>3, <2>5 DEF away
      <3>2. InHand(c, m, v)'
        BY <1>7, <2>1, <3>1 DEF InHand
      <3> QED
        BY <3>2 DEF Kept, Held, Underway
    <2> QED
      BY <2>4, <2>5
  <1> QED
    BY <1>1, <1>7, <1>8, <1>9, StillAlone, KeptElsewhere

\* The lists that GroupPush has copied: each connection is sent the message.
LEMMA GroupPushKeepsHeld ==
    ASSUME ChatInv, NEW c \in Conns, NEW v \in Users, NEW m, Held(m, v), GroupPush(c)
    PROVE  Kept(m, v)
  <1>1. /\ op[c].pc = "push" /\ UNCHANGED <<offline, inbox, observer>> /\ TypeOK
        /\ op \in [Conns -> Handler]
    BY UsualTypes DEF GroupPush, At, ChatInv, redisVars
  <1>2. ~ReadBy(c, m, v)
    BY <1>1 DEF ReadBy
  <1>3. CASE op[c].local = <<>>
    <2>1. Goto(c, "status") /\ UNCHANGED got
      BY <1>3 DEF GroupPush
    <2>2. /\ op'[c].msg = op[c].msg /\ op'[c].remote = op[c].remote
          /\ op'[c].local = op[c].local /\ \A d \in Conns \ {c} : op'[d] = op[d]
      BY <1>1, <2>1, Goes DEF Places
    <2>3. HandlerAlone(c)
      BY <1>1, <2>1, <2>2 DEF HandlerAlone
    <2> QED
      BY <1>2, <2>2, <2>3, SameInHand, KeptElsewhere
  <1>4. CASE op[c].local # <<>>
    <2> DEFINE t == Head(op[c].local)
               r == Tail(op[c].local)
    <2>1. Send(t, op[c].msg) /\ op' = [op EXCEPT ![c].local = r]
      BY <1>4 DEF GroupPush
    <2>2. /\ t \in Conns /\ Past(t) /\ op[c].msg \in Messages
          /\ t = op[c].local[1] /\ r \in Seq(Conns) /\ Head(op[c].local) = t
          /\ Len(r) = Len(op[c].local) - 1 /\ Len(op[c].local) \in Nat
          /\ \A i \in 1..Len(r) : r[i] = op[c].local[i + 1]
      BY <1>4, FirstLocal
    <2> HIDE DEF t, r
    <2>3. /\ op'[c].msg = op[c].msg /\ op'[c].local = r /\ op'[c].remote = op[c].remote
          /\ \A d \in Conns \ {c} : op'[d] = op[d]
      BY <1>1, <2>1 DEF Handler
    <2>4. op'[c] # op[c]
      BY <2>2, <2>3
    <2>5. \A d \in Conns : got[d] \subseteq got'[d]
      BY <1>1, <2>1, <2>2, SendEffect
    <2>6. HandlerAlone(c)
      BY <1>1, <2>3, <2>5 DEF HandlerAlone
    <2>7. ASSUME InHand(c, m, v) PROVE Kept(m, v)
      <3>1. op[c].msg = m
        BY <2>7 DEF InHand
      <3>2. CASE \E i \in 1..Len(op[c].remote) : op[c].remote[i] = v
        <4>1. InHand(c, m, v)'
          BY <2>3, <3>1, <3>2 DEF InHand
        <4> QED
          BY <4>1 DEF Kept, Held, Underway
      <3>3. ASSUME NEW i \in 1..Len(op[c].local), Owner[op[c].local[i]] = v PROVE Kept(m, v)
        <4>1. CASE i = 1
          <5>1. Sends(t, m)
            BY <1>1, <1>4, <2>2, <2>4, <3>1 DEF Sends, At
          <5>2. Owner[t] = v /\ m \in Messages
            BY <2>2, <3>1, <3>3, <4>1
          <5> QED
            BY <1>1, <2>1, <2>2, <3>1, <5>1, <5>2, SentOrLost
        <4>2. CASE i # 1
          <5>1. i - 1 \in 1..Len(r) /\ r[i - 1] = op[c].local[i]
            BY <2>2, <4>2
          <5>2. Owner[r[i - 1]] = v
            BY <3>3, <5>1
          <5>3. InHand(c, m, v)'
            BY <2>3, <3>1, <5>1, <5>2 DEF InHand
          <5> QED
            BY <5>3 DEF Kept, Held, Underway
        <4> QED
          BY <4>1, <4>2
      <3> QED
        BY <2>7, <3>2, <3>3 DEF InHand
    <2> QED
      BY <1>2, <2>6, <2>7, KeptElsewhere
  <1> QED
    BY <1>3, <1>4

\* The way a message takes is chosen; only when nobody is left does the handler return.
LEMMA RemoteStatusKeepsHeld ==
    ASSUME ChatInv, NEW c \in Conns, NEW v \in Users, NEW m, Held(m, v), RemoteStatus(c)
    PROVE  Kept(m, v)
  <1>1. op[c].pc = "status" /\ Still /\ op \in [Conns -> Handler]
    BY UsualTypes DEF RemoteStatus, At, Still, redisVars, ChatInv
  <1>2. ~ReadBy(c, m, v)
    BY <1>1 DEF ReadBy
  <1>3. CASE op[c].remote = <<>>
    <2>1. ~InHand(c, m, v)
      BY <1>1, <1>3, ListInHand
    <2>2. Return(c)
      BY <1>3 DEF RemoteStatus
    <2>3. \A d \in Conns \ {c} : op'[d] = op[d]
      BY <1>1, <2>2, Returns
    <2> QED
      BY <1>1, <1>2, <2>1, <2>3, StillAlone, KeptElsewhere
  <1>4. CASE op[c].remote # <<>>
    <2>1. \E p \in {"publish", "store"} : Goto(c, p)
      BY <1>4 DEF RemoteStatus
    <2>2. PICK p \in {"publish", "store"} : Goto(c, p)
      BY <2>1
    <2>3. /\ op'[c].msg = op[c].msg /\ op'[c].remote = op[c].remote
          /\ op'[c].local = op[c].local /\ \A d \in Conns \ {c} : op'[d] = op[d]
      BY <1>1, <2>2, Goes DEF Places
    <2> QED
      BY <1>1, <1>2, <2>3, StillAlone, SameInHand, KeptElsewhere
  <1> QED
    BY <1>3, <1>4

\* PUBLISH appends to the inboxes of the nodes that are subscribed.
LEMMA ForwardAppends ==
    ASSUME TypeOK, NEW u \in Users, NEW m \in Messages, Forward(u, m), NEW n \in Nodes
    PROVE  /\ \A i \in 1..Len(inbox[n]) : i \in 1..Len(inbox'[n]) /\ inbox'[n][i] = inbox[n][i]
           /\ u \in subs[n] => Forwarded(n, m, u)'
  <1> DEFINE s == inbox[n]
             e == <<u, m>>
  <1>1. s \in Seq(Users \X Messages) /\ e \in Users \X Messages
    BY DEF TypeOK
  <1>2. inbox'[n] = IF u \in subs[n] THEN Append(s, e) ELSE s
    BY DEF Forward
  <1>3. e = <<u, m>> /\ s = inbox[n]
    OBVIOUS
  <1> HIDE DEF s, e
  <1>4. /\ Len(Append(s, e)) = Len(s) + 1 /\ Len(s) \in Nat /\ Append(s, e)[Len(s) + 1] = e
        /\ \A i \in 1..Len(s) : Append(s, e)[i] = s[i]
    BY <1>1, AppendProperties, LenProperties
  <1>5. \A i \in 1..Len(s) : i \in 1..Len(inbox'[n]) /\ inbox'[n][i] = s[i]
    BY <1>2, <1>4
  <1>6. ASSUME u \in subs[n] PROVE Forwarded(n, m, u)'
    <2>1. Len(s) + 1 \in 1..Len(inbox'[n]) /\ inbox'[n][Len(s) + 1] = e
      BY <1>2, <1>4, <1>6
    <2> QED
      BY <1>3, <2>1 DEF Forwarded
  <1> QED
    BY <1>3, <1>5, <1>6

\* The first addressee is seen to, the others stay on the list.
LEMMA NextRemoteKeepsHeld ==
    ASSUME ChatInv, NEW c \in Conns, NEW v \in Users, NEW m, Held(m, v),
           op[c].pc \in {"publish", "store"}, HandlerAlone(c),
           op'[c].msg = op[c].msg, op'[c].remote = Tail(op[c].remote),
           m = op[c].msg /\ v = Head(op[c].remote) => Kept(m, v)
    PROVE  Kept(m, v)
  <1>1. ~ReadBy(c, m, v)
    BY DEF ReadBy
  <1>2. ASSUME InHand(c, m, v) PROVE Kept(m, v)
    <2>1. /\ m = op[c].msg
          /\ \/ v = Head(op[c].remote)
             \/ \E i \in 1..Len(Tail(op[c].remote)) : Tail(op[c].remote)[i] = v
      BY <1>2, ListInHand
    <2>2. CASE v = Head(op[c].remote)
      BY <2>1, <2>2
    <2>3. CASE \E i \in 1..Len(Tail(op[c].remote)) : Tail(op[c].remote)[i] = v
      <3>1. InHand(c, m, v)'
        BY <2>1, <2>3 DEF InHand
      <3> QED
        BY <3>1 DEF Kept, Held, Underway
    <2> QED
      BY <2>1, <2>2, <2>3
  <1> QED
    BY <1>1, <1>2, KeptElsewhere

\* A published message is forwarded to a node, unless no node is subscribed.
LEMMA PublishKeepsHeld ==
    ASSUME ChatInv, NEW c \in Conns, NEW v \in Users, NEW m, Held(m, v), Publish(c)
    PROVE  Kept(m, v)
  <1> DEFINE u == Head(op[c].remote)
  <1>1. /\ op[c].pc = "publish" /\ UNCHANGED <<offline, got>> /\ TypeOK
        /\ NextRemote(c) /\ Forward(u, op[c].msg) /\ HandlerOK(c)
    BY DEF Publish, At, ChatInv
  <1>2. op[c].remote # <<>>
    BY <1>1 DEF HandlerOK
  <1>3. op[c].msg \in Messages /\ u \in Users
    BY <1>1, <1>2, FirstAddressee DEF ChatPlaces
  <1>4. /\ op'[c].pc = "status" /\ op'[c].msg = op[c].msg
        /\ op'[c].remote = Tail(op[c].remote) /\ \A d \in Conns \ {c} : op'[d] = op[d]
    BY <1>1, NextRemoteEffect
  <1>5. UNCHANGED observer
    BY <1>1 DEF Forward
  <1>6. HandlerAlone(c)
    BY <1>1, <1>3, <1>4, <1>5, ForwardAppends DEF HandlerAlone
  <1>7. ASSUME m = op[c].msg, v = u PROVE Kept(m, v)
    <2>1. CASE \E n \in Nodes : v \in subs[n]
      <3>1. PICK n \in Nodes : v \in subs[n]
        BY <2>1
      <3>2. Forward(v, m) /\ m \in Messages
        BY <1>1, <1>3, <1>7
      <3>3. Forwarded(n, m, v)'
        BY <1>1, <3>1, <3>2, ForwardAppends
      <3> QED
        BY <3>3 DEF Kept, Held, Underway
    <2>2. CASE ~\E n \in Nodes : v \in subs[n]
      BY <1>1, <1>4, <1>7, <2>2 DEF Kept, LossWindow, At
    <2> QED
      BY <2>1, <2>2
  <1> QED
    BY <1>1, <1>4, <1>6, <1>7, NextRemoteKeepsHeld

\* Without a reply the handler keeps the message for the database.
LEMMA PublishFailsKeepsHeld ==
    ASSUME ChatInv, NEW c \in Conns, NEW v \in Users, NEW m, Held(m, v), PublishFails(c)
    PROVE  Kept(m, v)
  <1> DEFINE u == Head(op[c].remote)
  <1>1. /\ op[c].pc = "publish" /\ UNCHANGED <<offline, got, observer>> /\ TypeOK
        /\ Goto(c, "store") /\ (Forward(u, op[c].msg) \/ UNCHANGED inbox)
        /\ HandlerOK(c) /\ op \in [Conns -> Handler]
    BY UsualTypes DEF PublishFails, Forward, At, ChatInv, redisVars
  <1>2. op[c].remote # <<>>
    BY <1>1 DEF HandlerOK
  <1>3. op[c].msg \in Messages /\ u \in Users
    BY <1>1, <1>2, FirstAddressee DEF ChatPlaces
  <1>4. /\ op'[c].msg = op[c].msg /\ op'[c].remote = op[c].remote
        /\ op'[c].local = op[c].local /\ \A d \in Conns \ {c} : op'[d] = op[d]
    BY <1>1, Goes DEF Places
  <1>5. HandlerAlone(c)
    BY <1>1, <1>3, <1>4, ForwardAppends DEF HandlerAlone
  <1>6. ~ReadBy(c, m, v)
    BY <1>1 DEF ReadBy
  <1> QED
    BY <1>4, <1>5, <1>6, SameInHand, KeptElsewhere

\* The insert stores the message for the first addressee, or fails: that is a window.
LEMMA StoreKeepsHeld ==
    ASSUME ChatInv, NEW c \in Conns, NEW v \in Users, NEW m, Held(m, v), Store(c)
    PROVE  Kept(m, v)
  <1> DEFINE u == Head(op[c].remote)
  <1>1. /\ op[c].pc = "store" /\ UNCHANGED <<inbox, observer, got>> /\ TypeOK
        /\ NextRemote(c) /\ HandlerOK(c)
        /\ \/ offline' = [offline EXCEPT ![u] = @ \cup {op[c].msg}]
           \/ Fault /\ UNCHANGED offline
    BY DEF Store, At, ChatInv, redisVars
  <1>2. op[c].remote # <<>>
    BY <1>1 DEF HandlerOK
  <1>3. u \in Users /\ offline \in [Users \cup {NoUser} -> SUBSET Messages]
    BY <1>1, <1>2, FirstAddressee, UsualTypes DEF ChatPlaces
  <1>4. /\ op'[c].pc = "status" /\ op'[c].msg = op[c].msg
        /\ op'[c].remote = Tail(op[c].remote) /\ \A d \in Conns \ {c} : op'[d] = op[d]
    BY <1>1, NextRemoteEffect
  <1>5. CASE Fault /\ UNCHANGED offline
    <2>1. faults' # faults
      BY <1>1, <1>5, FaultCounts
    <2>2. HandlerAlone(c)
      BY <1>1, <1>4, <1>5 DEF HandlerAlone
    <2>3. m = op[c].msg /\ v = u => Kept(m, v)
      BY <1>1, <1>4, <2>1 DEF Kept, LossWindow, At
    <2> QED
      BY <1>1, <1>4, <2>2, <2>3, NextRemoteKeepsHeld
  <1>6. CASE offline' = [offline EXCEPT ![u] = @ \cup {op[c].msg}]
    <2>1. op[c].msg \in offline'[u] /\ \A w \in Users : offline[w] \subseteq offline'[w]
      BY <1>3, <1>6
    <2>2. HandlerAlone(c)
      BY <1>1, <1>4, <2>1 DEF HandlerAlone
    <2>3. m = op[c].msg /\ v = u => Kept(m, v)
      BY <2>1 DEF Kept, Held, Underway
    <2> QED
      BY <1>1, <1>4, <2>2, <2>3, NextRemoteKeepsHeld
  <1> QED
    BY <1>1, <1>5, <1>6
-----------------------------------------------------------------------------
(* Redis, the observers and the ends *)

\* No handler moves and nothing is taken back; of what is on its way only that of
\* node n moves.
ObserverAlone(n) ==
    /\ \A u \in Users : offline[u] \subseteq offline'[u]
    /\ \A d \in Conns : got[d] \subseteq got'[d]
    /\ UNCHANGED op
    /\ \A k \in Nodes \ {n} : inbox'[k] = inbox[k] /\ observer'[k] = observer[k]

LEMMA KeptAtOtherNodes ==
    ASSUME NEW n \in Nodes, NEW v \in Users, NEW m, Held(m, v), ObserverAlone(n),
           Forwarded(n, m, v) \/ WithObserver(n, m, v) => Kept(m, v)
    PROVE  Kept(m, v)
  <1>1. CASE m \in offline[v] \/ Received(m, v)
    <2>1. m \in offline'[v] \/ Received(m, v)'
      BY <1>1 DEF Received, ObserverAlone
    <2> QED
      BY <2>1 DEF Kept, Held, Underway
  <1>2. ASSUME NEW d \in Conns, ReadBy(d, m, v) \/ InHand(d, m, v) PROVE Kept(m, v)
    <2>1. ReadBy(d, m, v)' \/ InHand(d, m, v)'
      BY <1>2 DEF ReadBy, InHand, ObserverAlone
    <2> QED
      BY <2>1 DEF Kept, Held, Underway
  <1>3. ASSUME NEW k \in Nodes, Forwarded(k, m, v) \/ WithObserver(k, m, v) PROVE Kept(m, v)
    <2>1. CASE k = n
      BY <1>3, <2>1
    <2>2. CASE k # n
      <3>1. Forwarded(k, m, v)' \/ WithObserver(k, m, v)'
        BY <1>3, <2>2 DEF Forwarded, WithObserver, ObserverAlone
      <3> QED
        BY <3>1 DEF Kept, Held, Underway
    <2> QED
      BY <2>1, <2>2
  <1> QED
    BY <1>1, <1>2, <1>3 DEF Held, Underway

LEMMA RedisAppliesKeepsHeld ==
    ASSUME NEW n \in Nodes, NEW v \in Users, NEW m, Held(m, v), RedisApplies(n)
    PROVE  Kept(m, v)
  <1>1. UNCHANGED <<op, offline, got, inbox, observer>>
    BY DEF RedisApplies
  <1> QED
    BY <1>1, NothingMovesKeepsHeld

\* What the observer takes is for the user it was forwarded for, unless the integer of
\* the channel element is another: that is a window.
LEMMA ObserverTakesKeepsHeld ==
    ASSUME ChatInv, NEW n \in Nodes, NEW v \in Users, NEW m, Held(m, v), ObserverTakes(n)
    PROVE  Kept(m, v)
  <1> DEFINE s == inbox[n]
             e == [pc |-> "lookup", user |-> ElementInteger(Head(s)[1]),
                   msg |-> Head(s)[2], conn |-> NoConn]
  <1>1. /\ UNCHANGED <<op, offline, got>> /\ TypeOK /\ observer[n].pc = "idle" /\ s # <<>>
        /\ observer' = [observer EXCEPT ![n] = e] /\ inbox' = [inbox EXCEPT ![n] = Tail(s)]
    BY DEF ObserverTakes, ChatInv
  <1>2. e.pc = "lookup" /\ e.user = ElementInteger(Head(s)[1]) /\ e.msg = Head(s)[2]
    OBVIOUS
  <1>3. s \in Seq(Users \X Messages) /\ s = inbox[n]
    BY <1>1 DEF TypeOK
  <1> HIDE DEF e, s
  <1>4. /\ observer'[n] = e /\ inbox'[n] = Tail(s)
        /\ \A k \in Nodes \ {n} : inbox'[k] = inbox[k] /\ observer'[k] = observer[k]
    BY <1>1 DEF TypeOK
  <1>5. /\ Head(s) = s[1] /\ Len(Tail(s)) = Len(s) - 1 /\ Len(s) \in Nat
        /\ \A j \in 1..Len(Tail(s)) : Tail(s)[j] = s[j + 1]
    BY <1>1, <1>3, HeadTailProperties, LenProperties
  <1>6. ObserverAlone(n)
    BY <1>1, <1>4 DEF ObserverAlone
  <1>7. ~WithObserver(n, m, v)
    BY <1>1 DEF WithObserver
  <1>8. ASSUME Forwarded(n, m, v) PROVE Kept(m, v)
    <2>1. PICK i \in 1..Len(s) : s[i] = <<v, m>>
      BY <1>3, <1>8 DEF Forwarded
    <2>2. CASE i = 1
      <3>1. Head(s)[1] = v /\ Head(s)[2] = m
        BY <1>5, <2>1, <2>2
      <3>2. CASE e.user = v
        <4>1. WithObserver(n, m, v)'
          BY <1>2, <1>4, <3>1, <3>2 DEF WithObserver
        <4> QED
          BY <4>1 DEF Kept, Held, Underway
      <3>3. CASE e.user # v
        <4>1. Len(Tail(s)) # Len(s)
          BY <1>5
        <4>2. inbox'[n] # inbox[n]
          BY <1>3, <1>4, <4>1
        <4>3. Head(inbox[n]) = <<v, m>>
          BY <1>3, <1>5, <2>1, <2>2
        <4>4. observer'[n].pc = "lookup" /\ observer'[n].user # v
          BY <1>2, <1>4, <3>3
        <4> QED
          BY <4>2, <4>3, <4>4 DEF Kept, LossWindow
      <3> QED
        BY <3>2, <3>3
    <2>3. CASE i # 1
      <3>1. i - 1 \in 1..Len(Tail(s)) /\ Tail(s)[i - 1] = <<v, m>>
        BY <1>5, <2>1, <2>3
      <3>2. Forwarded(n, m, v)'
        BY <1>4, <3>1 DEF Forwarded
      <3> QED
        BY <3>2 DEF Kept, Held, Underway
    <2> QED
      BY <2>2, <2>3
  <1> QED
    BY <1>6, <1>7, <1>8, KeptAtOtherNodes

\* The user who is looked up is sent the message, or it will be stored for him.
LEMMA ObserverLooksUpKeepsHeld ==
    ASSUME ChatInv, NEW n \in Nodes, NEW v \in Users, NEW m, Held(m, v), ObserverLooksUp(n)
    PROVE  Kept(m, v)
  <1> DEFINE u == observer[n].user
             target == IF u \in Users THEN connMap[n][u] ELSE NoConn
  <1>1. /\ UNCHANGED <<op, offline, got, inbox>> /\ observer[n].pc = "lookup"
        /\ observer \in [Nodes -> Observer]
        /\ observer' = [observer EXCEPT ![n].pc = IF target = NoConn THEN "store" ELSE "send",
                                        ![n].conn = target]
    BY DEF ObserverLooksUp, ChatInv, TypeOK
  <1>2. u \in Users /\ target # NoConn => target = connMap[n][u] /\ Owner[target] = u
    BY Found
  <1> HIDE DEF target
  <1>3. /\ observer'[n].pc = IF target = NoConn THEN "store" ELSE "send"
        /\ observer'[n].msg = observer[n].msg /\ observer'[n].user = observer[n].user
        /\ observer'[n].conn = target
        /\ \A k \in Nodes \ {n} : observer'[k] = observer[k]
    BY <1>1 DEF Observer
  <1>4. ObserverAlone(n)
    BY <1>1, <1>3 DEF ObserverAlone
  <1>5. ASSUME Forwarded(n, m, v) PROVE Kept(m, v)
    <2>1. Forwarded(n, m, v)'
      BY <1>1, <1>5 DEF Forwarded
    <2> QED
      BY <2>1 DEF Kept, Held, Underway
  <1>6. ASSUME WithObserver(n, m, v) PROVE Kept(m, v)
    <2>1. u = v /\ observer[n].msg = m
      BY <1>1, <1>6 DEF WithObserver
    <2>2. WithObserver(n, m, v)'
      BY <1>2, <1>3, <2>1 DEF WithObserver
    <2> QED
      BY <2>2 DEF Kept, Held, Underway
  <1> QED
    BY <1>4, <1>5, <1>6, KeptAtOtherNodes

LEMMA ObserverSendsKeepsHeld ==
    ASSUME ChatInv, NEW n \in Nodes, NEW v \in Users, NEW m, Held(m, v), ObserverSends(n)
    PROVE  Kept(m, v)
  <1> DEFINE t == observer[n].conn
  <1>1. /\ UNCHANGED <<op, offline, inbox>> /\ observer[n].pc = "send" /\ TypeOK
        /\ Send(t, observer[n].msg) /\ observer' = [observer EXCEPT ![n] = NoObserver]
    BY DEF ObserverSends, ChatInv
  <1>2. t \in Conns /\ Past(t) /\ observer[n].msg \in Messages
    BY <1>1 DEF ChatInv, ObserverOK
  <1>3. /\ observer'[n].pc = "idle" /\ \A k \in Nodes \ {n} : observer'[k] = observer[k]
    BY <1>1, ObserverIsIdle DEF NoObserver
  <1>4. \A d \in Conns : got[d] \subseteq got'[d]
    BY <1>1, <1>2, SendEffect
  <1>5. ObserverAlone(n)
    BY <1>1, <1>3, <1>4 DEF ObserverAlone
  <1>6. ASSUME Forwarded(n, m, v) PROVE Kept(m, v)
    <2>1. Forwarded(n, m, v)'
      BY <1>1, <1>6 DEF Forwarded
    <2> QED
      BY <2>1 DEF Kept, Held, Underway
  <1>7. ASSUME WithObserver(n, m, v) PROVE Kept(m, v)
    <2>1. observer[n].msg = m /\ Owner[t] = v
      BY <1>1, <1>7 DEF WithObserver
    <2>2. Sends(t, m)
      BY <1>1, <1>3, <2>1 DEF Sends
    <2> QED
      BY <1>1, <1>2, <2>1, <2>2, SentOrLost
  <1> QED
    BY <1>5, <1>6, <1>7, KeptAtOtherNodes

LEMMA ObserverStoresKeepsHeld ==
    ASSUME ChatInv, NEW n \in Nodes, NEW v \in Users, NEW m, Held(m, v), ObserverStores(n)
    PROVE  Kept(m, v)
  <1> DEFINE u == observer[n].user
             x == observer[n].msg
  <1>1. /\ UNCHANGED <<op, inbox, got>> /\ observer[n].pc = "store" /\ TypeOK
        /\ \/ offline' = [offline EXCEPT ![u] = @ \cup {x}]
           \/ Fault /\ UNCHANGED offline
        /\ observer' = [observer EXCEPT ![n] = NoObserver]
    BY DEF ObserverStores, ChatInv
  <1>2. observer'[n].pc = "idle" /\ \A k \in Nodes \ {n} : observer'[k] = observer[k]
    BY <1>1, ObserverIsIdle DEF NoObserver
  <1>3. CASE Fault /\ UNCHANGED offline
    <2>1. faults' # faults
      BY <1>1, <1>3, FaultCounts
    <2>2. ObserverAlone(n)
      BY <1>1, <1>2, <1>3 DEF ObserverAlone
    <2>3. ASSUME Forwarded(n, m, v) PROVE Kept(m, v)
      <3>1. Forwarded(n, m, v)'
        BY <1>1, <2>3 DEF Forwarded
      <3> QED
        BY <3>1 DEF Kept, Held, Underway
    <2>4. ASSUME WithObserver(n, m, v) PROVE Kept(m, v)
      <3>1. u = v /\ x = m
        BY <1>1, <2>4 DEF WithObserver
      <3> QED
        BY <1>1, <1>2, <2>1, <3>1 DEF Kept, LossWindow
    <2> QED
      BY <2>2, <2>3, <2>4, KeptAtOtherNodes
  <1>4. CASE offline' = [offline EXCEPT ![u] = @ \cup {x}]
    <2>1. u \in Users \cup {NoUser} /\ offline \in [Users \cup {NoUser} -> SUBSET Messages]
      BY <1>1 DEF TypeOK, Observer
    <2>2. x \in offline'[u] /\ \A w \in Users : offline[w] \subseteq offline'[w]
      BY <1>4, <2>1
    <2>3. ObserverAlone(n)
      BY <1>1, <1>2, <2>2 DEF ObserverAlone
    <2>4. ASSUME Forwarded(n, m, v) PROVE Kept(m, v)
      <3>1. Forwarded(n, m, v)'
        BY <1>1, <2>4 DEF Forwarded
      <3> QED
        BY <3>1 DEF Kept, Held, Underway
    <2>5. ASSUME WithObserver(n, m, v) PROVE Kept(m, v)
      <3>1. u = v /\ x = m
        BY <1>1, <2>5 DEF WithObserver
      <3>2. m \in offline'[v]
        BY <2>2, <3>1
      <3> QED
        BY <3>2 DEF Kept, Held, Underway
    <2> QED
      BY <2>3, <2>4, <2>5, KeptAtOtherNodes
  <1> QED
    BY <1>1, <1>3, <1>4

\* What a process has at hand is lost with it, and nothing else.
LEMMA ProcessEndsKeepsHeld ==
    ASSUME ChatInv, NEW n \in Nodes, NEW v \in Users, NEW m, Held(m, v), ProcessEnds(n),
           node'[n] # node[n], node'[n] \in {"exited", "crashed"}
    PROVE  Kept(m, v)
  <1>1. /\ UNCHANGED <<offline, got>>
        /\ \A d \in Conns : Home[d] # n => op'[d] = op[d]
        /\ \A k \in Nodes \ {n} : inbox'[k] = inbox[k] /\ observer'[k] = observer[k]
    BY DEF ProcessEnds, ChatInv, TypeOK
  <1>2. CASE m \in offline[v] \/ Received(m, v)
    <2>1. m \in offline'[v] \/ Received(m, v)'
      BY <1>1, <1>2 DEF Received
    <2> QED
      BY <2>1 DEF Kept, Held, Underway
  <1>3. ASSUME NEW d \in Conns, ReadBy(d, m, v) \/ InHand(d, m, v) PROVE Kept(m, v)
    <2>1. CASE Home[d] = n
      BY <1>3, <2>1 DEF Kept, LossWindow
    <2>2. CASE Home[d] # n
      <3>1. ReadBy(d, m, v)' \/ InHand(d, m, v)'
        BY <1>1, <1>3, <2>2 DEF ReadBy, InHand
      <3> QED
        BY <3>1 DEF Kept, Held, Underway
    <2> QED
      BY <2>1, <2>2
  <1>4. ASSUME NEW k \in Nodes, Forwarded(k, m, v) \/ WithObserver(k, m, v) PROVE Kept(m, v)
    <2>1. CASE k = n
      BY <1>4, <2>1 DEF Kept, LossWindow
    <2>2. CASE k # n
      <3>1. Forwarded(k, m, v)' \/ WithObserver(k, m, v)'
        BY <1>1, <1>4, <2>2 DEF Forwarded, WithObserver
      <3> QED
        BY <3>1 DEF Kept, Held, Underway
    <2> QED
      BY <2>1, <2>2
  <1> QED
    BY <1>2, <1>3, <1>4 DEF Held, Underway

\* With the subscribe connection goes what was forwarded on it, not what the observer
\* has taken.
LEMMA ObserverQuitsKeepsHeld ==
    ASSUME ChatInv, NEW n \in Nodes, NEW v \in Users, NEW m, Held(m, v), ObserverQuits(n)
    PROVE  Kept(m, v)
  <1>1. /\ UNCHANGED <<op, offline, got, observer>>
        /\ listening'[n] # listening[n]
        /\ \A k \in Nodes \ {n} : inbox'[k] = inbox[k]
    BY DEF ObserverQuits, ChatInv, TypeOK
  <1>2. ObserverAlone(n)
    BY <1>1 DEF ObserverAlone
  <1>3. Forwarded(n, m, v) => Kept(m, v)
    BY <1>1 DEF Kept, LossWindow
  <1>4. WithObserver(n, m, v) => WithObserver(n, m, v)'
    BY <1>1 DEF WithObserver
  <1>5. WithObserver(n, m, v) => Kept(m, v)
    BY <1>4 DEF Kept, Held, Underway
  <1> QED
    BY <1>2, <1>3, <1>5, KeptAtOtherNodes

LEMMA NodeStepKeepsHeld ==
    ASSUME ChatInv, NEW n \in Nodes, NEW v \in Users, NEW m, Held(m, v), NodeStep(n)
    PROVE  Kept(m, v)
  <1>1. CASE ResetState(n)
    <2>1. UNCHANGED <<op, offline, got, inbox, observer>>
      BY <1>1 DEF ResetState, redisVars
    <2> QED
      BY <2>1, NothingMovesKeepsHeld
  <1>2. CASE Exits(n) \/ Crashes(n)
    <2>1. ProcessEnds(n) /\ node'[n] # node[n] /\ node'[n] \in {"exited", "crashed"}
      BY <1>2 DEF Exits, Crashes, ChatInv, TypeOK
    <2> QED
      BY <2>1, ProcessEndsKeepsHeld
  <1>3. CASE ObserverQuits(n)
    BY <1>3, ObserverQuitsKeepsHeld
  <1> QED
    BY <1>1, <1>2, <1>3 DEF NodeStep

\* Every step keeps every message or is in a window.
LEMMA StepKeepsHeld ==
    ASSUME ChatInv, Next, NEW v \in Users, NEW m, Held(m, v)
    PROVE  Kept(m, v)
  <1>1. ASSUME NEW c \in Conns, ClientStep(c) PROVE Kept(m, v)
    <2>1. CASE \/ ClientDies(c) \/ Shutdown(c) \/ EndOfFile(c)
               \/ \E g \in Groups : AddGroup(c, g)
      BY <2>1, ClientOrGroupKeepsHeld
    <2> QED
      BY <1>1, <2>1, CalmHandlerKeepsHeld DEF ClientStep
  <1>2. ASSUME NEW c \in Conns, CloseStarts(c) PROVE Kept(m, v)
    BY <1>2, CalmHandlerKeepsHeld DEF CloseStarts
  <1>3. ASSUME NEW c \in Conns, HandlerStep(c) PROVE Kept(m, v)
    <2>1. CASE LoginStep(c) \/ LogoutUnsubscribe(c) \/ LogoutOffline(c) \/ CloseStep(c)
      <3>1. CASE LoginRemove(c) \/ LoginAck(c)
        BY <3>1, LoginRemoveKeepsHeld, LoginAckKeepsHeld
      <3> QED
        BY <2>1, <3>1, CalmHandlerKeepsHeld DEF LoginStep, CloseStep
    <2>2. CASE ChatStep(c)
      BY <2>2, ChatLookupKeepsHeld, GroupMembersKeepsHeld, GroupCollectKeepsHeld,
         GroupPushKeepsHeld, RemoteStatusKeepsHeld, PublishKeepsHeld, PublishFailsKeepsHeld,
         StoreKeepsHeld DEF ChatStep
    <2> QED
      BY <1>3, <2>1, <2>2 DEF HandlerStep
  <1>4. ASSUME NEW n \in Nodes, RedisStep(n) PROVE Kept(m, v)
    BY <1>4, RedisAppliesKeepsHeld DEF RedisStep
  <1>5. ASSUME NEW n \in Nodes, ForwardStep(n) PROVE Kept(m, v)
    BY <1>5, ObserverTakesKeepsHeld, ObserverLooksUpKeepsHeld, ObserverSendsKeepsHeld,
       ObserverStoresKeepsHeld DEF ForwardStep, ObserverStep
  <1>6. ASSUME NEW n \in Nodes, NodeStep(n) PROVE Kept(m, v)
    BY <1>6, NodeStepKeepsHeld
  <1> QED
    BY <1>1, <1>2, <1>3, <1>4, <1>5, <1>6 DEF Next

\* No path of onechat, groupchat, the login, the close handler or the observer drops a
\* message it has accepted, whatever happens between its steps, but in the windows that
\* LossWindow names.
THEOREM NothingElseIsLost == Spec => LostOnlyInWindows
  <1> DEFINE ms == (UNION {offline[u] : u \in Users}) \cup {op[d].msg : d \in Conns}
                          \cup {observer[n].msg : n \in Nodes}
                          \cup (UNION {op[d].rows : d \in Conns})
                          \cup (UNION {{inbox[n][i][2] : i \in 1..Len(inbox[n])} : n \in Nodes})
             Lost == \A v \in Users : \A m \in ms : Held(m, v) => Held(m, v)' \/ LossWindow(m, v)
  <1>1. ChatInv /\ [Next]_vars => [Lost]_vars
    <2> SUFFICES ASSUME ChatInv, Next, NEW v \in Users, NEW m \in ms, Held(m, v)
                 PROVE  Held(m, v)' \/ LossWindow(m, v)
      OBVIOUS
    <2> HIDE DEF ms
    <2> QED
      BY StepKeepsHeld DEF Kept
  <1> QED
    BY <1>1, Invariance, PTL DEF Spec, LostOnlyInWindows
-----------------------------------------------------------------------------
(* Presence and subscriptions *)

\* The places of a handler whose user is in the map, and is not, when nobody else logs
\* in as that user at its node.
Listed == {"subscribe", "online", "query", "remove", "ack"}
Unlisted == {"unsubscribe", "offline", "closeOffline", "closeUnsubscribe"}

\* The map is ahead of the state, and of the subscription.
StateLags == {"subscribe", "online", "unsubscribe", "offline", "closeOffline"}
SubscriptionLags == {"subscribe", "unsubscribe", "closeOffline", "closeUnsubscribe"}

InItsMap(c) == connMap[Home[c]][Owner[c]] = c

\* c is the only connection of its user to its node.
Alone(c) == \A d \in scene.conns : Owner[d] = Owner[c] /\ Home[d] = Home[c] => d = c

\* A connection that is not made in this scene does nothing.
Absent(c) == c \notin scene.conns => client[c] = "gone" /\ link[c] = "down" /\ At(c, "idle")

EntryAt(c) ==
    c \in scene.conns /\ Alone(c) => /\ op[c].pc \in Listed => InItsMap(c)
                                     /\ op[c].pc \in Unlisted => ~InItsMap(c)

\* The state of c's user agrees with the map, or c's handler is about to make it, or his
\* node has ended, or a node has reset the states.
StateAt(c) ==
    /\ state[Owner[c]] = "online" /\ ~InItsMap(c) =>
          \/ op[c].pc \in {"unsubscribe", "offline", "closeOffline"}
          \/ node[Home[c]] \in {"exited", "crashed"}
    /\ state[Owner[c]] = "offline" /\ InItsMap(c) =>
          \/ op[c].pc \in {"subscribe", "online"}
          \/ \E n \in Nodes : node[n] \in {"closing", "exited"}

StatesAgree ==
    /\ \A u \in Users : state[u] = "online" => \E c \in scene.conns : Owner[c] = u
    /\ faults = 0 /\ OneConnectionEach => \A c \in scene.conns : StateAt(c)

\* When Redis has worked off the commands s and was subscribed to S before, it is to u:
\* the last command for u decides.
Wants(s, S, u) ==
    \/ \E i \in 1..Len(s) : /\ s[i][1] = "subscribe" /\ s[i][2] = u
                            /\ \A j \in 1..Len(s) : j > i => s[j][2] # u
    \/ u \in S /\ \A i \in 1..Len(s) : s[i][2] # u

Wanted(n, u) == Wants(commands[n], subs[n], u)

\* c is the only connection to its node.
Only(c) == \A d \in scene.conns : Home[d] = Home[c] => d = c

ItsUsers(n) == {Owner[c] : c \in {d \in scene.conns : Home[d] = n}}

ChannelsAt(n) ==
    /\ subs[n] \subseteq ItsUsers(n)
    /\ \A i \in 1..Len(commands[n]) : commands[n][i][2] \in ItsUsers(n)
    /\ ~listening[n] => subs[n] = {} /\ commands[n] = <<>>

\* The subscription of c's user follows the map, unless a command may have been lost to
\* another handler of the node.
SubscriptionAt(c) ==
    /\ Alone(c) /\ listening[Home[c]] /\ (faults = 0 \/ Only(c))
    /\ op[c].pc \notin SubscriptionLags
    => (Wanted(Home[c], Owner[c]) <=> InItsMap(c))

PresenceInv ==
    /\ \A c \in Conns : Absent(c) /\ EntryAt(c)
    /\ StatesAgree
    /\ \A n \in Nodes : ChannelsAt(n)
    /\ \A c \in scene.conns : SubscriptionAt(c)
-----------------------------------------------------------------------------
(* The commands on their way to Redis *)

CommandsOfNodes == {"subscribe", "unsubscribe"} \X Users

\* A new command decides for its user, and for nobody else.
LEMMA WantsAppend ==
    ASSUME NEW s \in Seq(CommandsOfNodes), NEW S, NEW w, NEW u \in Users,
           NEW what \in {"subscribe", "unsubscribe"}
    PROVE  Wants(Append(s, <<what, u>>), S, w) <=> IF w = u THEN what = "subscribe"
                                                  ELSE Wants(s, S, w)
  <1> DEFINE e == <<what, u>>
             r == Append(s, e)
  <1>1. e \in CommandsOfNodes /\ e[1] = what /\ e[2] = u
    BY DEF CommandsOfNodes
  <1> HIDE DEF e
  <1>2. /\ Len(s) \in Nat /\ Len(r) = Len(s) + 1 /\ r[Len(s) + 1] = e
        /\ \A i \in 1..Len(s) : r[i] = s[i]
    BY <1>1, AppendProperties, LenProperties
  <1> HIDE DEF r
  <1>3. \A i \in 1..Len(r) : i \in 1..Len(s) \/ i = Len(s) + 1
    BY <1>2
  <1>4. CASE w = u
    <2>1. Len(s) + 1 \in 1..Len(r) /\ r[Len(s) + 1][1] = what /\ r[Len(s) + 1][2] = w
      BY <1>1, <1>2, <1>4
    <2>2. \A i \in 1..Len(r) : ~(i > Len(s) + 1)
      BY <1>2
    <2>3. \A i \in 1..Len(r) : i # Len(s) + 1 => Len(s) + 1 > i
      BY <1>2
    <2>4. ASSUME what = "subscribe" PROVE Wants(r, S, w)
      BY <2>1, <2>2, <2>4 DEF Wants
    <2>5. ASSUME Wants(r, S, w) PROVE what = "subscribe"
      <3>1. PICK i \in 1..Len(r) : /\ r[i][1] = "subscribe" /\ r[i][2] = w
                                  /\ \A j \in 1..Len(r) : j > i => r[j][2] # w
        BY <2>1, <2>5 DEF Wants
      <3>2. i = Len(s) + 1
        BY <2>1, <2>3, <3>1
      <3> QED
        BY <2>1, <3>1, <3>2
    <2> QED
      BY <1>4, <2>4, <2>5 DEF r, e
  <1>5. CASE w # u
    <2>1. r[Len(s) + 1][2] # w
      BY <1>1, <1>2, <1>5
    <2>2. ASSUME NEW i \in 1..Len(r), r[i][2] = w PROVE i \in 1..Len(s) /\ s[i] = r[i]
      BY <1>2, <1>3, <2>1, <2>2
    <2>3. \A i \in 1..Len(s) : i \in 1..Len(r) /\ r[i] = s[i]
      BY <1>2
    <2>4. (\A i \in 1..Len(r) : r[i][2] # w) <=> (\A i \in 1..Len(s) : s[i][2] # w)
      BY <2>2, <2>3
    <2>5. ASSUME NEW i \in 1..Len(s)
          PROVE  (\A j \in 1..Len(r) : j > i => r[j][2] # w)
                 <=> (\A j \in 1..Len(s) : j > i => s[j][2] # w)
      BY <2>2, <2>3
    <2>6. Wants(r, S, w) <=> Wants(s, S, w)
      BY <2>2, <2>3, <2>4, <2>5 DEF Wants
    <2> QED
      BY <1>5, <2>6 DEF r, e
  <1> QED
    BY <1>4, <1>5

\* Executing a command changes nothing about what will be in the end.
LEMMA WantsTail ==
    ASSUME NEW s \in Seq(CommandsOfNodes), s # <<>>, NEW S, NEW w
    PROVE  LET u == Head(s)[2]
           IN  Wants(Tail(s), IF Head(s)[1] = "subscribe" THEN S \cup {u} ELSE S \ {u}, w)
               <=> Wants(s, S, w)
  <1> DEFINE r == Tail(s)
             u == Head(s)[2]
             what == Head(s)[1]
             R == IF what = "subscribe" THEN S \cup {u} ELSE S \ {u}
  <1>1. /\ Head(s) = s[1] /\ Len(s) \in Nat \ {0} /\ Len(r) = Len(s) - 1
        /\ \A i \in 1..Len(r) : r[i] = s[i + 1]
    BY HeadTailProperties, LenProperties, EmptySeq
  <1>2. u = s[1][2] /\ what = s[1][1]
    BY <1>1
  <1> HIDE DEF r, u, what
  <1>3. /\ \A i \in 1..Len(r) : i + 1 \in 1..Len(s) /\ s[i + 1] = r[i] /\ i + 1 > 1
        /\ \A i \in 1..Len(s) : i # 1 => i - 1 \in 1..Len(r) /\ r[i - 1] = s[i]
        /\ 1 \in 1..Len(s)
    BY <1>1
  <1>4. (\A i \in 1..Len(s) : s[i][2] # w) <=> u # w /\ (\A i \in 1..Len(r) : r[i][2] # w)
    <2>1. ASSUME \A i \in 1..Len(s) : s[i][2] # w
          PROVE  u # w /\ \A i \in 1..Len(r) : r[i][2] # w
      BY <1>2, <1>3, <2>1
    <2>2. ASSUME u # w, \A i \in 1..Len(r) : r[i][2] # w, NEW i \in 1..Len(s)
          PROVE  s[i][2] # w
      <3>1. CASE i = 1
        BY <1>2, <2>2, <3>1
      <3>2. CASE i # 1
        <4>1. i - 1 \in 1..Len(r) /\ r[i - 1] = s[i]
          BY <1>3, <3>2
        <4> QED
          BY <2>2, <4>1
      <3> QED
        BY <3>1, <3>2
    <2> QED
      BY <2>1, <2>2
  <1>5. (\A j \in 1..Len(s) : j > 1 => s[j][2] # w) <=> (\A i \in 1..Len(r) : r[i][2] # w)
    <2>1. \A j \in 1..Len(s) : j > 1 <=> j # 1
      OBVIOUS
    <2> QED
      BY <1>3, <2>1
  <1>6. ASSUME NEW i \in 1..Len(r)
        PROVE  (\A j \in 1..Len(s) : j > i + 1 => s[j][2] # w)
               <=> (\A j \in 1..Len(r) : j > i => r[j][2] # w)
    <2>1. \A j \in 1..Len(r) : j > i <=> j + 1 > i + 1
      OBVIOUS
    <2>2. \A j \in 1..Len(s) : j > i + 1 => j # 1 /\ j - 1 > i
      OBVIOUS
    <2> QED
      BY <1>3, <2>1, <2>2
  <1> DEFINE Last(q) == \E i \in 1..Len(q) : /\ q[i][1] = "subscribe" /\ q[i][2] = w
                                            /\ \A j \in 1..Len(q) : j > i => q[j][2] # w
             Never(q) == \A i \in 1..Len(q) : q[i][2] # w
  <1>7. Last(s) <=> Last(r) \/ (what = "subscribe" /\ u = w /\ Never(r))
    <2>1. ASSUME Last(r) PROVE Last(s)
      BY <1>3, <1>6, <2>1
    <2>2. ASSUME what = "subscribe", u = w, Never(r) PROVE Last(s)
      BY <1>2, <1>3, <1>5, <2>2
    <2>3. ASSUME Last(s) PROVE Last(r) \/ (what = "subscribe" /\ u = w /\ Never(r))
      <3>1. PICK i \in 1..Len(s) : /\ s[i][1] = "subscribe" /\ s[i][2] = w
                                  /\ \A j \in 1..Len(s) : j > i => s[j][2] # w
        BY <2>3
      <3>2. CASE i = 1
        BY <1>2, <1>5, <3>1, <3>2
      <3>3. CASE i # 1
        <4>1. i - 1 \in 1..Len(r) /\ r[i - 1] = s[i] /\ (i - 1) + 1 = i
          BY <1>3, <3>3
        <4>2. \A j \in 1..Len(r) : j > i - 1 => r[j][2] # w
          BY <1>6, <3>1, <4>1
        <4> QED
          BY <3>1, <4>1, <4>2
      <3> QED
        BY <3>2, <3>3
    <2> QED
      BY <2>1, <2>2, <2>3
  <1> HIDE DEF Last
  <1>8. /\ Wants(s, S, w) <=> Last(s) \/ (w \in S /\ Never(s))
        /\ Wants(r, R, w) <=> Last(r) \/ (w \in R /\ Never(r))
    BY DEF Wants, Last
  <1>9. Never(s) <=> u # w /\ Never(r)
    BY <1>4
  <1> HIDE DEF Never
  <1>10. w \in R <=> \/ what = "subscribe" /\ (w \in S \/ w = u)
                     \/ what # "subscribe" /\ w \in S /\ w # u
    OBVIOUS
  <1>11. Wants(r, R, w) <=> Wants(s, S, w)
    BY <1>7, <1>8, <1>9, <1>10
  <1> QED
    BY <1>11 DEF r, u, what

LEMMA SameWanted ==
    ASSUME UNCHANGED <<subs, commands>>
    PROVE  \A n \in Nodes, u \in Users : Wanted(n, u)' <=> Wanted(n, u)
  BY DEF Wanted, Wants
-----------------------------------------------------------------------------
(* Steps of one connection *)

\* No client comes back and no link.
ClientsOnlyGo ==
    \A e \in Conns : /\ client[e] = "gone" => client'[e] = "gone"
                     /\ link[e] = "down" => link'[e] = "down"

\* A step of connection d: it concerns the entry, the state and the channel of its
\* user only.
ConnectionStep(d) ==
    /\ d \in scene.conns
    /\ \A e \in Conns \ {d} : op'[e] = op[e]
    /\ ClientsOnlyGo
    /\ \A n \in Nodes, u \in Users :
          n # Home[d] \/ u # Owner[d] => connMap'[n][u] = connMap[n][u]
    /\ \A u \in Users \ {Owner[d]} : state'[u] = state[u]
    /\ \A n \in Nodes \ {Home[d]} : commands'[n] = commands[n]
    /\ \A n \in Nodes, u \in Users :
          n # Home[d] \/ u # Owner[d] => (Wanted(n, u)' <=> Wanted(n, u))
    /\ UNCHANGED <<subs, node, listening, scene>>
    /\ Fault \/ UNCHANGED faults

LEMMA FaultsGrow ==
    ASSUME TypeOK, Fault \/ UNCHANGED faults, faults' = 0
    PROVE  faults = 0
  <1>1. scene.faults \in Nat
    BY ConstantsAssumption DEF TypeOK
  <1>2. faults \in Nat
    BY <1>1 DEF TypeOK
  <1> QED
    BY <1>2 DEF Fault

\* What is left to show of such a step is what it does to d itself.
LEMMA OneConnection ==
    ASSUME ChatInv, PresenceInv, NEW d \in Conns, ConnectionStep(d),
           EntryAt(d)', faults' = 0 /\ OneConnectionEach => StateAt(d)',
           ChannelsAt(Home[d])', SubscriptionAt(d)'
    PROVE  PresenceInv'
  <1>1. /\ TypeOK /\ scene.conns \subseteq Conns /\ d \in scene.conns
        /\ scene'.conns = scene.conns /\ Home \in [Conns -> Nodes] /\ Owner \in [Conns -> Users]
        /\ UNCHANGED <<subs, node, listening, scene>>
    BY ConstantsAssumption DEF ChatInv, TypeOK, ConnectionStep
  <1>2. ASSUME NEW e \in Conns PROVE Absent(e)' /\ EntryAt(e)'
    <2>1. CASE e = d
      BY <1>1, <2>1 DEF Absent
    <2>2. CASE e # d
      <3>1. op'[e] = op[e] /\ Absent(e) /\ EntryAt(e)
        BY <2>2 DEF ConnectionStep, PresenceInv
      <3>2. Absent(e)'
        BY <1>1, <3>1 DEF Absent, At, ConnectionStep, ClientsOnlyGo
      <3>3. Alone(e)' <=> Alone(e)
        BY <1>1 DEF Alone
      <3>4. e \in scene.conns /\ Alone(e) => (InItsMap(e)' <=> InItsMap(e))
        BY <1>1, <2>2 DEF Alone, InItsMap, ConnectionStep
      <3>5. EntryAt(e)'
        BY <1>1, <3>1, <3>3, <3>4 DEF EntryAt
      <3> QED
        BY <3>2, <3>5
    <2> QED
      BY <2>1, <2>2
  <1>3. StatesAgree'
    <2>1. ASSUME NEW u \in Users, state'[u] = "online" PROVE \E c \in scene'.conns : Owner[c] = u
      <3>1. CASE u = Owner[d]
        BY <1>1, <3>1
      <3>2. CASE u # Owner[d]
        BY <1>1, <2>1, <3>2 DEF PresenceInv, StatesAgree, ConnectionStep
      <3> QED
        BY <3>1, <3>2
    <2>2. ASSUME faults' = 0, OneConnectionEach', NEW c \in scene'.conns PROVE StateAt(c)'
      <3>1. OneConnectionEach /\ c \in Conns
        BY <1>1, <2>2 DEF OneConnectionEach
      <3>2. faults = 0
        BY <1>1, <2>2, FaultsGrow DEF ConnectionStep
      <3>3. CASE c = d
        BY <2>2, <3>1, <3>3
      <3>4. CASE c # d
        <4>1. Owner[c] # Owner[d] /\ StateAt(c)
          BY <1>1, <3>1, <3>2, <3>4 DEF OneConnectionEach, PresenceInv, StatesAgree
        <4>2. /\ op'[c] = op[c] /\ state'[Owner[c]] = state[Owner[c]]
              /\ connMap'[Home[c]][Owner[c]] = connMap[Home[c]][Owner[c]]
          BY <1>1, <3>1, <3>4, <4>1 DEF ConnectionStep
        <4> QED
          BY <1>1, <4>1, <4>2 DEF StateAt, InItsMap
      <3> QED
        BY <3>3, <3>4
    <2> QED
      BY <2>1, <2>2 DEF StatesAgree
  <1>4. ASSUME NEW n \in Nodes PROVE ChannelsAt(n)'
    <2>1. CASE n = Home[d]
      BY <2>1
    <2>2. CASE n # Home[d]
      <3>1. ChannelsAt(n) /\ commands'[n] = commands[n]
        BY <2>2 DEF PresenceInv, ConnectionStep
      <3>2. ItsUsers(n)' = ItsUsers(n)
        BY <1>1 DEF ItsUsers
      <3> QED
        BY <1>1, <3>1, <3>2 DEF ChannelsAt
    <2> QED
      BY <2>1, <2>2
  <1>5. ASSUME NEW c \in scene'.conns PROVE SubscriptionAt(c)'
    <2>1. CASE c = d
      BY <2>1
    <2>2. CASE c # d
      <3>1. c \in scene.conns /\ c \in Conns /\ SubscriptionAt(c) /\ op'[c] = op[c]
        BY <1>1, <2>2 DEF PresenceInv, ConnectionStep
      <3>2. Only(c)' <=> Only(c)
        BY <1>1 DEF Only
      <3>3. Alone(c) => Home[c] # Home[d] \/ Owner[c] # Owner[d]
        BY <1>1, <2>2 DEF Alone
      <3>4. Alone(c) => /\ Wanted(Home[c], Owner[c])' <=> Wanted(Home[c], Owner[c])
                        /\ connMap'[Home[c]][Owner[c]] = connMap[Home[c]][Owner[c]]
        BY <1>1, <3>1, <3>3 DEF ConnectionStep
      <3>5. Alone(c)' <=> Alone(c)
        BY <1>1 DEF Alone
      <3>6. Alone(c) => (InItsMap(c)' <=> InItsMap(c))
        BY <3>4 DEF InItsMap
      <3>7. faults' = 0 => faults = 0
        BY <1>1, FaultsGrow DEF ConnectionStep
      <3> QED
        BY <1>1, <3>1, <3>2, <3>4, <3>5, <3>6, <3>7 DEF SubscriptionAt
    <2> QED
      BY <2>1, <2>2
  <1> QED
    BY <1>2, <1>3, <1>4, <1>5 DEF PresenceInv

\* A step of d without effect on maps, states and channels.
QuietStep(d) ==
    /\ UNCHANGED <<connMap, state, subs, commands, node, listening, scene>>
    /\ \A e \in Conns \ {d} : op'[e] = op[e]
    /\ ClientsOnlyGo
    /\ Fault \/ UNCHANGED faults
    /\ client[d] # "gone" \/ link[d] # "down" \/ ~At(d, "idle")

\* It leaves no place in which the map is ahead of the rest, and enters none.
LEMMA QuietStepKeeps ==
    ASSUME ChatInv, PresenceInv, NEW d \in Conns, QuietStep(d),
           op[d].pc \notin StateLags \cup SubscriptionLags,
           op'[d].pc \in Listed => op[d].pc \in Listed,
           op'[d].pc \in Unlisted => op[d].pc \in Unlisted \/ ~InItsMap(d)
    PROVE  PresenceInv'
  <1>1. /\ TypeOK /\ d \in scene.conns /\ EntryAt(d) /\ ChannelsAt(Home[d])
        /\ SubscriptionAt(d)
        /\ UNCHANGED <<connMap, state, subs, commands, node, listening, scene>>
    BY ConstantsAssumption DEF ChatInv, PresenceInv, Absent, QuietStep
  <1>2. ConnectionStep(d)
    BY <1>1, SameWanted DEF ConnectionStep, QuietStep
  <1>3. EntryAt(d)'
    BY <1>1 DEF EntryAt, Alone, InItsMap
  <1>4. faults' = 0 /\ OneConnectionEach => StateAt(d)'
    <2>1. faults' = 0 => faults = 0
      BY <1>1, FaultsGrow DEF QuietStep
    <2>2. faults' = 0 /\ OneConnectionEach => StateAt(d)
      BY <1>1, <2>1 DEF PresenceInv, StatesAgree
    <2> QED
      BY <1>1, <2>2 DEF StateAt, InItsMap, StateLags
  <1>5. ChannelsAt(Home[d])'
    BY <1>1 DEF ChannelsAt, ItsUsers
  <1>6. SubscriptionAt(d)'
    <2>1. faults' = 0 => faults = 0
      BY <1>1, FaultsGrow DEF QuietStep
    <2>2. Wanted(Home[d], Owner[d])' <=> Wanted(Home[d], Owner[d])
      BY <1>1 DEF Wanted
    <2> QED
      BY <1>1, <2>1, <2>2 DEF SubscriptionAt, Only, Alone, InItsMap
  <1> QED
    BY <1>2, <1>3, <1>4, <1>5, <1>6, OneConnection

\* A step of a client, of an observer or of nobody, in which no handler moves.
NoHandlerMoves ==
    /\ UNCHANGED <<connMap, state, subs, commands, node, listening, scene, op>>
    /\ ClientsOnlyGo
    /\ Fault \/ UNCHANGED faults

LEMMA NoHandlerMovesKeeps ==
    ASSUME ChatInv, PresenceInv, NoHandlerMoves
    PROVE  PresenceInv'
  <1>1. /\ UNCHANGED <<connMap, state, subs, commands, node, listening, scene, op>>
        /\ scene.conns \subseteq Conns /\ TypeOK
    BY ConstantsAssumption DEF NoHandlerMoves, ChatInv, TypeOK
  <1>2. \A c \in Conns : Absent(c)' /\ EntryAt(c)'
    BY <1>1 DEF NoHandlerMoves, ClientsOnlyGo, PresenceInv, Absent, EntryAt, At, Alone, InItsMap
  <1>3. StatesAgree'
    <2>1. faults' = 0 => faults = 0
      BY <1>1, FaultsGrow DEF NoHandlerMoves
    <2>2. \A c : StateAt(c) => StateAt(c)'
      BY <1>1 DEF StateAt, InItsMap
    <2> QED
      BY <1>1, <2>1, <2>2 DEF PresenceInv, StatesAgree, OneConnectionEach
  <1>4. \A n \in Nodes : ChannelsAt(n)'
    BY <1>1 DEF PresenceInv, ChannelsAt, ItsUsers
  <1>5. \A c \in scene'.conns : SubscriptionAt(c)'
    <2>1. faults' = 0 => faults = 0
      BY <1>1, FaultsGrow DEF NoHandlerMoves
    <2>2. \A c : Wanted(Home[c], Owner[c])' <=> Wanted(Home[c], Owner[c])
      BY <1>1 DEF Wanted
    <2> QED
      BY <1>1, <2>1, <2>2 DEF PresenceInv, SubscriptionAt, Only, Alone, InItsMap
  <1> QED
    BY <1>2, <1>3, <1>4, <1>5 DEF PresenceInv

\* Where a login goes that is neither in the map nor about to be, or has its state set.
LEMMA LoginQuiet ==
    ASSUME ChatInv, PresenceInv, NEW c \in Conns, UNCHANGED world,
           \/ SendLogin(c) \/ LoginRefused(c) \/ LoginUnknown(c) \/ LoginCheck(c)
           \/ LoginQuery(c) \/ LoginRemove(c) \/ LoginAck(c)
    PROVE  PresenceInv'
  <1>1. /\ op \in [Conns -> Handler] /\ client \in [Conns -> {"connected", "awaiting", "in", "deaf", "gone"}]
        /\ UNCHANGED <<node, listening, scene>>
    BY UsualTypes DEF ChatInv, world
  <1>2. CASE SendLogin(c)
    <2>1. op'[c].pc = "check" /\ \A e \in Conns \ {c} : op'[e] = op[e]
      BY <1>1, <1>2, Goes DEF SendLogin, Places
    <2>3. QuietStep(c)
      BY <1>1, <1>2, <2>1 DEF SendLogin, QuietStep, ClientsOnlyGo, redisVars
    <2>4. op[c].pc = "idle"
      BY <1>2 DEF SendLogin, At
    <2> QED
      BY <2>1, <2>3, <2>4, QuietStepKeeps
      DEF Listed, Unlisted, StateLags, SubscriptionLags
  <1>3. CASE LoginRefused(c) \/ LoginUnknown(c) \/ LoginAck(c)
    <2>1. Return(c) /\ op[c].pc \in {"check", "ack"}
      BY <1>3 DEF LoginRefused, LoginUnknown, LoginAck, Refuse, At
    <2>2. op'[c].pc = "idle" /\ \A e \in Conns \ {c} : op'[e] = op[e]
      BY <1>1, <2>1, Returns DEF NoHandler
    <2>3. ClientsOnlyGo
      BY <1>1, <1>3 DEF LoginRefused, LoginUnknown, LoginAck, Refuse, ClientsOnlyGo
    <2>4. QuietStep(c)
      BY <1>1, <1>3, <2>1, <2>2, <2>3
      DEF LoginRefused, LoginUnknown, LoginAck, Refuse, QuietStep, redisVars, At
    <2> QED
      BY <2>1, <2>2, <2>4, QuietStepKeeps DEF Listed, Unlisted, StateLags, SubscriptionLags
  <1>4. CASE LoginCheck(c)
    <2>1. op'[c].pc = "map" /\ op[c].pc = "check" /\ \A e \in Conns \ {c} : op'[e] = op[e]
      BY <1>1, <1>4, Goes DEF LoginCheck, Places, At
    <2>2. QuietStep(c)
      BY <1>1, <1>4, <2>1 DEF LoginCheck, QuietStep, ClientsOnlyGo, sessionVars, redisVars, At
    <2> QED
      BY <2>1, <2>2, QuietStepKeeps DEF Listed, Unlisted, StateLags, SubscriptionLags
  <1>5. CASE LoginQuery(c) \/ LoginRemove(c)
    <2>1. /\ op'[c].pc \in {"remove", "ack"} /\ op[c].pc \in {"query", "remove"}
          /\ \A e \in Conns \ {c} : op'[e] = op[e]
      <3>1. CASE LoginQuery(c)
        BY <1>1, <3>1 DEF LoginQuery, Handler, At
      <3>2. CASE LoginRemove(c)
        BY <1>1, <3>2, Goes DEF LoginRemove, Places, At
      <3> QED
        BY <1>5, <3>1, <3>2
    <2>2. Fault \/ UNCHANGED faults
      BY <1>5 DEF LoginQuery, LoginRemove
    <2>3. QuietStep(c)
      BY <1>1, <1>5, <2>1, <2>2
      DEF LoginQuery, LoginRemove, QuietStep, ClientsOnlyGo, sessionVars, redisVars, At
    <2> QED
      BY <2>1, <2>3, QuietStepKeeps DEF Listed, Unlisted, StateLags, SubscriptionLags
  <1> QED
    BY <1>2, <1>3, <1>4, <1>5

\* A chat is sent, and the close handler is called, from places where all agree.
LEMMA ChatQuiet ==
    ASSUME ChatInv, PresenceInv, NEW c \in Conns, UNCHANGED world,
           \/ \E v \in Users : OneChat(c, v)
           \/ \E g \in Groups : GroupChat(c, g)
           \/ ConnectionDown(c)
           \/ ChatStep(c)
    PROVE  PresenceInv'
  <1> DEFINE On == ChatPlaces \cup {"idle", "find"}
  <1>1. /\ op \in [Conns -> Handler] /\ TypeOK /\ UNCHANGED <<node, listening, scene>>
    BY UsualTypes DEF ChatInv, world
  <1> SUFFICES /\ op[c].pc \in On /\ op'[c].pc \in On
               /\ \A e \in Conns \ {c} : op'[e] = op[e]
               /\ QuietStep(c)
    BY QuietStepKeeps DEF Listed, Unlisted, StateLags, SubscriptionLags, ChatPlaces
  <1>2. CASE (\E v \in Users : OneChat(c, v)) \/ (\E g \in Groups : GroupChat(c, g))
    <2>1. \E k, to : TakeNumber(c, k, "lookup", to) \/ TakeNumber(c, k, "members", to)
      BY <1>2 DEF OneChat, GroupChat
    <2>2. PICK k, to : TakeNumber(c, k, "lookup", to) \/ TakeNumber(c, k, "members", to)
      BY <2>1
    <2>3. \E x : \/ op' = [op EXCEPT ![c].pc = "lookup", ![c].remote = to, ![c].msg = x]
                \/ op' = [op EXCEPT ![c].pc = "members", ![c].remote = to, ![c].msg = x]
      BY <2>2 DEF TakeNumber
    <2>4. /\ op[c].pc = "idle" /\ op'[c].pc \in {"lookup", "members"}
          /\ \A e \in Conns \ {c} : op'[e] = op[e]
      BY <1>1, <2>2, <2>3 DEF TakeNumber, Handler, At
    <2> QED
      BY <1>1, <2>2, <2>4
      DEF TakeNumber, QuietStep, ClientsOnlyGo, sessionVars, redisVars, ChatPlaces
  <1>3. CASE ConnectionDown(c)
    <2>1. op[c].pc = "idle" /\ op'[c].pc = "find" /\ \A e \in Conns \ {c} : op'[e] = op[e]
      BY <1>1, <1>3, Goes DEF ConnectionDown, Places, At
    <2>2. ClientsOnlyGo
      BY <1>1, <1>3 DEF ConnectionDown, ClientsOnlyGo, TypeOK
    <2> QED
      BY <1>1, <1>3, <2>1, <2>2 DEF ConnectionDown, QuietStep, redisVars, ChatPlaces
  <1>4. CASE ChatStep(c)
    <2>1. /\ op[c].pc \in ChatPlaces /\ op'[c].pc \in ChatPlaces \cup {"idle"}
          /\ \A e \in Conns \ {c} : op'[e] = op[e]
      <3>1. CASE ChatLookup(c) \/ RemoteStatus(c) \/ PublishFails(c)
        <4>1. Return(c) \/ \E p \in {"status", "store", "publish"} : Goto(c, p)
          BY <3>1 DEF ChatLookup, RemoteStatus, PublishFails
        <4>2. /\ op'[c].pc \in ChatPlaces \cup {"idle"}
              /\ \A e \in Conns \ {c} : op'[e] = op[e]
          BY <1>1, <4>1, Goes, Returns DEF NoHandler, ChatPlaces, Places
        <4> QED
          BY <3>1, <4>2 DEF ChatLookup, RemoteStatus, PublishFails, At, ChatPlaces
      <3>2. CASE GroupMembers(c)
        <4>1. Return(c) \/ \E r : op' = [op EXCEPT ![c].pc = "collect", ![c].remote = r]
          BY <3>2 DEF GroupMembers
        <4>2. CASE Return(c)
          BY <1>1, <3>2, <4>2, Returns DEF NoHandler, ChatPlaces, GroupMembers, At
        <4>3. CASE \E r : op' = [op EXCEPT ![c].pc = "collect", ![c].remote = r]
          BY <1>1, <3>2, <4>3 DEF ChatPlaces, GroupMembers, At, Handler
        <4> QED
          BY <4>1, <4>2, <4>3
      <3>3. CASE GroupCollect(c)
        <4>1. \E r, s : op' = [op EXCEPT ![c].pc = "push", ![c].local = r, ![c].remote = s]
          BY <3>3 DEF GroupCollect
        <4>2. PICK r, s : op' = [op EXCEPT ![c].pc = "push", ![c].local = r, ![c].remote = s]
          BY <4>1
        <4>3. op[c].pc = "collect"
          BY <3>3 DEF GroupCollect, At
        <4> QED
          BY <1>1, <4>2, <4>3 DEF ChatPlaces, Handler
      <3>4. CASE GroupPush(c)
        <4>1. Goto(c, "status") \/ \E r : op' = [op EXCEPT ![c].local = r]
          BY <3>4 DEF GroupPush
        <4>2. op[c].pc = "push"
          BY <3>4 DEF GroupPush, At
        <4>3. CASE Goto(c, "status")
          BY <1>1, <4>2, <4>3, Goes DEF ChatPlaces, Places
        <4>4. CASE \E r : op' = [op EXCEPT ![c].local = r]
          BY <1>1, <4>2, <4>4 DEF ChatPlaces, Handler
        <4> QED
          BY <4>1, <4>3, <4>4
      <3>5. CASE Publish(c) \/ Store(c)
        <4>1. NextRemote(c) /\ op[c].pc \in {"publish", "store"}
          BY <3>5 DEF Publish, Store, At
        <4> QED
          BY <4>1, NextRemoteEffect DEF ChatPlaces
      <3> QED
        BY <1>4, <3>1, <3>2, <3>3, <3>4, <3>5 DEF ChatStep
    <2>2. ClientsOnlyGo
      <3>1. CASE UNCHANGED <<client, link>>
        BY <3>1 DEF ClientsOnlyGo
      <3>2. CASE \E t, m : Send(t, m) /\ UNCHANGED link
        BY <1>1, <3>2 DEF Send, ClientsOnlyGo, TypeOK
      <3>3. (\E t, m : Send(t, m) /\ UNCHANGED link) \/ UNCHANGED <<client, link>>
        BY <1>4 DEF ChatStep, ChatLookup, GroupMembers, GroupCollect, GroupPush, RemoteStatus,
                    Publish, PublishFails, Store, sessionVars
      <3> QED
        BY <3>1, <3>2, <3>3
    <2>3. Fault \/ UNCHANGED faults
      BY <1>4 DEF ChatStep, ChatLookup, GroupMembers, GroupCollect, GroupPush, RemoteStatus,
                  Publish, PublishFails, Store
    <2>4. UNCHANGED <<connMap, state, subs, commands>>
      BY <1>4 DEF ChatStep, ChatLookup, GroupMembers, GroupCollect, GroupPush, RemoteStatus,
                  Publish, PublishFails, Store, Forward, sessionVars, redisVars
    <2>5. QuietStep(c)
      BY <1>1, <2>1, <2>2, <2>3, <2>4 DEF QuietStep, At, ChatPlaces
    <2> QED
      BY <2>1, <2>5
  <1> QED
    BY <1>2, <1>3, <1>4
-----------------------------------------------------------------------------
(* The steps that change a map, a state or a subscription *)

\* The entry of a user with one connection to a node is that connection or none.
LEMMA EntryIsMine ==
    ASSUME ChatInv, PresenceInv, NEW c \in Conns, Alone(c)
    PROVE  connMap[Home[c]][Owner[c]] \in {c, NoConn}
  <1> DEFINE e == connMap[Home[c]][Owner[c]]
  <1> SUFFICES ASSUME e # NoConn PROVE e = c
    OBVIOUS
  <1>1. e \in Conns /\ Home[c] \in Nodes /\ Owner[c] \in Users
    BY UsualTypes, ConstantsAssumption DEF ChatInv
  <1>2. EntryOK(e) /\ Absent(e)
    BY <1>1 DEF ChatInv, SessionOK, PresenceInv
  <1>3. Owner[e] = Owner[c] /\ Home[e] = Home[c] /\ (link[e] # "down" \/ At(e, "find"))
    BY <1>1, <1>2 DEF EntryOK, Past
  <1>4. e \in scene.conns
    BY <1>2, <1>3 DEF Absent, At
  <1> QED
    BY <1>3, <1>4 DEF Alone

LEMMA LoginMapPresent ==
    ASSUME ChatInv, PresenceInv, NEW c \in Conns, LoginMap(c), UNCHANGED world
    PROVE  PresenceInv'
  <1>1. /\ op \in [Conns -> Handler] /\ connMap \in [Nodes -> [Users -> Conns \cup {NoConn}]]
        /\ UNCHANGED <<node, listening, scene, client, link, state, subs, commands, faults>>
        /\ Home[c] \in Nodes /\ Owner[c] \in Users /\ At(c, "map") /\ Goto(c, "subscribe")
    BY UsualTypes, ConstantsAssumption DEF ChatInv, LoginMap, world, redisVars
  <1>2. op'[c].pc = "subscribe" /\ \A e \in Conns \ {c} : op'[e] = op[e]
    BY <1>1, Goes DEF Places
  <1>3. c \in scene.conns /\ ChannelsAt(Home[c])
    BY <1>1 DEF PresenceInv, Absent, At
  <1>4. /\ connMap'[Home[c]][Owner[c]] = IF connMap[Home[c]][Owner[c]] = NoConn THEN c
                                         ELSE connMap[Home[c]][Owner[c]]
        /\ \A n \in Nodes, u \in Users :
              n # Home[c] \/ u # Owner[c] => connMap'[n][u] = connMap[n][u]
    BY <1>1 DEF LoginMap
  <1>5. Alone(c) => InItsMap(c)'
    BY <1>4, EntryIsMine DEF InItsMap
  <1>6. ConnectionStep(c)
    BY <1>1, <1>2, <1>3, <1>4, SameWanted DEF ConnectionStep, ClientsOnlyGo
  <1>7. EntryAt(c)'
    BY <1>1, <1>2, <1>5 DEF EntryAt, Alone, Listed, Unlisted
  <1>8. OneConnectionEach => StateAt(c)'
    BY <1>1, <1>2, <1>3, <1>5 DEF StateAt, OneConnectionEach, Alone
  <1>9. ChannelsAt(Home[c])' /\ SubscriptionAt(c)'
    BY <1>1, <1>2, <1>3 DEF ChannelsAt, ItsUsers, SubscriptionAt, SubscriptionLags
  <1> QED
    BY <1>6, <1>7, <1>8, <1>9, OneConnection

\* The entry of c goes, and its handler to p; or there was none.
LEMMA ErasePresent ==
    ASSUME ChatInv, PresenceInv, NEW c \in Conns, UNCHANGED world,
           LogoutErase(c) \/ CloseFind(c)
    PROVE  PresenceInv'
  <1>1. /\ op \in [Conns -> Handler] /\ connMap \in [Nodes -> [Users -> Conns \cup {NoConn}]]
        /\ UNCHANGED <<node, listening, scene, client, link, state, subs, commands, faults>>
        /\ Home[c] \in Nodes /\ Owner[c] \in Users /\ c # NoConn
    BY UsualTypes, ConstantsAssumption DEF ChatInv, LogoutErase, CloseFind, world, redisVars
  <1>2. /\ c \in scene.conns /\ ChannelsAt(Home[c]) /\ SubscriptionAt(c)
        /\ op[c].pc \in {"idle", "find"}
    BY <1>1 DEF PresenceInv, Absent, At, LogoutErase, CloseFind
  <1>3. \/ /\ connMap' = [connMap EXCEPT ![Home[c]][Owner[c]] = NoConn]
           /\ Goto(c, "unsubscribe") \/ Goto(c, "closeOffline")
        \/ UNCHANGED connMap /\ ~InItsMap(c) /\ Return(c)
    BY DEF LogoutErase, CloseFind, InItsMap
  <1>4. /\ \A e \in Conns \ {c} : op'[e] = op[e]
        /\ op'[c].pc \in {"unsubscribe", "closeOffline", "idle"}
        /\ op'[c].pc = "idle" => connMap' = connMap /\ ~InItsMap(c)
        /\ ~InItsMap(c)'
        /\ \A n \in Nodes, u \in Users :
              n # Home[c] \/ u # Owner[c] => connMap'[n][u] = connMap[n][u]
    <2>1. CASE /\ connMap' = [connMap EXCEPT ![Home[c]][Owner[c]] = NoConn]
               /\ Goto(c, "unsubscribe") \/ Goto(c, "closeOffline")
      <3>1. /\ \A e \in Conns \ {c} : op'[e] = op[e]
            /\ op'[c].pc \in {"unsubscribe", "closeOffline"}
        BY <1>1, <2>1, Goes DEF Places
      <3> QED
        BY <1>1, <2>1, <3>1 DEF InItsMap
    <2>2. CASE UNCHANGED connMap /\ ~InItsMap(c) /\ Return(c)
      <3>1. op'[c].pc = "idle" /\ \A e \in Conns \ {c} : op'[e] = op[e]
        BY <1>1, <2>2, Returns DEF NoHandler
      <3> QED
        BY <2>2, <3>1 DEF InItsMap
    <2> QED
      BY <1>3, <2>1, <2>2
  <1>5. ConnectionStep(c)
    BY <1>1, <1>2, <1>4, SameWanted DEF ConnectionStep, ClientsOnlyGo
  <1>6. EntryAt(c)'
    BY <1>4 DEF EntryAt, Listed
  <1>7. faults' = 0 /\ OneConnectionEach => StateAt(c)'
    <2>1. faults' = 0 /\ OneConnectionEach => StateAt(c)
      BY <1>1, <1>2 DEF PresenceInv, StatesAgree
    <2> QED
      BY <1>1, <1>2, <1>4, <2>1 DEF StateAt
  <1>8. ChannelsAt(Home[c])'
    BY <1>1, <1>2 DEF ChannelsAt, ItsUsers
  <1>9. SubscriptionAt(c)'
    <2>1. Wanted(Home[c], Owner[c])' <=> Wanted(Home[c], Owner[c])
      BY <1>1, SameWanted
    <2> QED
      BY <1>1, <1>2, <1>4, <2>1 DEF SubscriptionAt, SubscriptionLags, Only, Alone, InItsMap
  <1> QED
    BY <1>5, <1>6, <1>7, <1>8, <1>9, OneConnection

\* The state of c's user is written after the map, which it is to agree with.
LEMMA StatePresent ==
    ASSUME ChatInv, PresenceInv, NEW c \in Conns, UNCHANGED world,
           LoginOnline(c) \/ LogoutOffline(c) \/ CloseOffline(c)
    PROVE  PresenceInv'
  <1>1. /\ op \in [Conns -> Handler] /\ state \in [Users -> {"online", "offline"}]
        /\ UNCHANGED <<node, listening, scene, client, link, connMap, subs, commands>>
        /\ Home[c] \in Nodes /\ Owner[c] \in Users /\ TypeOK
    BY UsualTypes, ConstantsAssumption
    DEF ChatInv, LoginOnline, LogoutOffline, CloseOffline, world, redisVars
  <1>2. /\ c \in scene.conns /\ ChannelsAt(Home[c]) /\ SubscriptionAt(c) /\ EntryAt(c)
    BY <1>1 DEF PresenceInv, Absent, At, LoginOnline, LogoutOffline, CloseOffline
  <1>3. /\ \A e \in Conns \ {c} : op'[e] = op[e]
        /\ \/ op[c].pc = "online" /\ op'[c].pc = "query"
           \/ op[c].pc = "offline" /\ op'[c].pc = "idle"
           \/ op[c].pc = "closeOffline" /\ op'[c].pc = "closeUnsubscribe"
    <2>1. CASE LoginOnline(c)
      BY <1>1, <2>1, Goes DEF LoginOnline, Places, At
    <2>2. CASE LogoutOffline(c)
      BY <1>1, <2>2, Returns DEF LogoutOffline, NoHandler, At
    <2>3. CASE CloseOffline(c)
      BY <1>1, <2>3, Goes DEF CloseOffline, Places, At
    <2> QED
      BY <2>1, <2>2, <2>3
  <1>4. \/ /\ faults' = faults
           /\ state' = [state EXCEPT ![Owner[c]] = IF op[c].pc = "online" THEN "online"
                                                   ELSE "offline"]
        \/ Fault /\ UNCHANGED state
    BY DEF LoginOnline, LogoutOffline, CloseOffline, At
  <1>5. ConnectionStep(c)
    <2>1. \A u \in Users \ {Owner[c]} : state'[u] = state[u]
      BY <1>1, <1>4
    <2> QED
      BY <1>1, <1>2, <1>3, <1>4, <2>1, SameWanted DEF ConnectionStep, ClientsOnlyGo
  <1>6. EntryAt(c)'
    BY <1>1, <1>2, <1>3 DEF EntryAt, Alone, InItsMap, Listed, Unlisted
  <1>7. faults' = 0 /\ OneConnectionEach => StateAt(c)'
    <2> SUFFICES ASSUME faults' = 0, OneConnectionEach PROVE StateAt(c)'
      OBVIOUS
    <2>1. Alone(c)
      BY <1>2 DEF OneConnectionEach, Alone
    <2>2. ~Fault
      <3>1. scene.faults \in Nat
        BY <1>1, ConstantsAssumption DEF TypeOK
      <3>2. faults \in Nat
        BY <1>1, <3>1 DEF TypeOK
      <3> QED
        BY <3>2 DEF Fault
    <2>3. state'[Owner[c]] = IF op[c].pc = "online" THEN "online" ELSE "offline"
      BY <1>1, <1>4, <2>2
    <2>4. InItsMap(c)' <=> op[c].pc = "online"
      BY <1>1, <1>2, <1>3, <2>1 DEF EntryAt, InItsMap, Listed, Unlisted
    <2> QED
      BY <2>3, <2>4 DEF StateAt
  <1>8. ChannelsAt(Home[c])'
    BY <1>1, <1>2 DEF ChannelsAt, ItsUsers
  <1>9. SubscriptionAt(c)'
    <2>1. CASE op[c].pc = "online" \/ op[c].pc = "offline"
      <3>1. faults' = 0 => faults = 0
        BY <1>1, <1>4, FaultsGrow
      <3>2. Wanted(Home[c], Owner[c])' <=> Wanted(Home[c], Owner[c])
        BY <1>1, SameWanted
      <3> QED
        BY <1>1, <1>2, <2>1, <3>1, <3>2
        DEF SubscriptionAt, SubscriptionLags, Only, Alone, InItsMap
    <2>2. CASE op'[c].pc = "closeUnsubscribe"
      BY <2>2 DEF SubscriptionAt, SubscriptionLags
    <2> QED
      BY <1>3, <2>1, <2>2
  <1> QED
    BY <1>5, <1>6, <1>7, <1>8, <1>9, OneConnection

\* A command is the last of its node; it is lost only if the subscribe connection has
\* failed, or to a fault where c is not alone.
LEMMA CommandEffect ==
    ASSUME ChatInv, PresenceInv, NEW c \in Conns, c \in scene.conns,
           NEW what \in {"subscribe", "unsubscribe"}, Command(c, what),
           UNCHANGED <<listening, scene>>
    PROVE  /\ UNCHANGED subs
           /\ \A n \in Nodes \ {Home[c]} : commands'[n] = commands[n]
           /\ ChannelsAt(Home[c])'
           /\ \A w \in Users \ {Owner[c]} : Wanted(Home[c], w)' <=> Wanted(Home[c], w)
           /\ listening[Home[c]] /\ (faults' = 0 \/ Only(c)) =>
                 (Wanted(Home[c], Owner[c])' <=> what = "subscribe")
  <1> DEFINE n == Home[c]
             T == CommandsOfNodes
  <1>1. /\ n \in Nodes /\ Owner[c] \in Users /\ TypeOK /\ ChannelsAt(n)
        /\ commands \in [Nodes -> Seq(T)]
    BY UsualTypes, ConstantsAssumption DEF ChatInv, PresenceInv, CommandsOfNodes
  <1>2. UNCHANGED subs
    BY <1>1, CommandTyped
  <1>3. ItsUsers(n)' = ItsUsers(n) /\ Owner[c] \in ItsUsers(n)
    BY DEF ItsUsers
  <1>4. CASE /\ listening[n]
             /\ commands' = [commands EXCEPT ![n] = Append(@, <<what, Owner[c]>>)]
    <2> DEFINE s == commands[n]
               e == <<what, Owner[c]>>
    <2>1. /\ commands'[n] = Append(s, e) /\ s \in Seq(T) /\ e \in T
          /\ \A k \in Nodes \ {n} : commands'[k] = commands[k]
      BY <1>1, <1>4 DEF CommandsOfNodes
    <2>0. \A w : Wants(Append(s, e), subs[n], w) <=> IF w = Owner[c] THEN what = "subscribe"
                                                   ELSE Wants(s, subs[n], w)
      BY <1>1, <2>1, WantsAppend
    <2>7. \A w : Wanted(n, w)' <=> IF w = Owner[c] THEN what = "subscribe" ELSE Wanted(n, w)
      BY <1>2, <2>0, <2>1 DEF Wanted
    <2>2. e[1] = what /\ e[2] = Owner[c]
      OBVIOUS
    <2>3. \A i \in 1..Len(s) : s[i][2] \in ItsUsers(n)
      BY <1>1 DEF ChannelsAt
    <2> HIDE DEF s, e, T
    <2>4. /\ Len(Append(s, e)) = Len(s) + 1 /\ Len(s) \in Nat
          /\ Append(s, e)[Len(s) + 1] = e
          /\ \A i \in 1..Len(s) : Append(s, e)[i] = s[i]
      BY <2>1, AppendProperties, LenProperties
    <2>5. \A i \in 1..Len(commands'[n]) : commands'[n][i][2] \in ItsUsers(n)
      <3> SUFFICES ASSUME NEW i \in 1..Len(commands'[n])
                   PROVE  commands'[n][i][2] \in ItsUsers(n)
        OBVIOUS
      <3>1. CASE i \in 1..Len(s)
        BY <2>1, <2>3, <2>4, <3>1
      <3>2. CASE i \notin 1..Len(s)
        <4>1. i = Len(s) + 1
          BY <2>1, <2>4, <3>2
        <4> QED
          BY <1>3, <2>1, <2>2, <2>4, <4>1
      <3> QED
        BY <3>1, <3>2
    <2>6. ChannelsAt(n)'
      BY <1>1, <1>2, <1>3, <1>4, <2>5 DEF ChannelsAt
    <2> QED
      BY <1>2, <2>1, <2>6, <2>7
  <1>5. CASE UNCHANGED commands /\ (~listening[n] \/ (Collides(c) /\ Fault))
    <2>0. Fault => faults' # 0
      <3>1. scene.faults \in Nat
        BY <1>1, ConstantsAssumption DEF TypeOK
      <3>2. faults \in Nat
        BY <1>1, <3>1 DEF TypeOK
      <3> QED
        BY <3>2 DEF Fault
    <2>1. ~(listening[n] /\ (faults' = 0 \/ Only(c)))
      <3> SUFFICES ASSUME Only(c), Collides(c) PROVE FALSE
        BY <1>5, <2>0
      <3>1. PICK d \in Conns \ {c} : Home[d] = n /\ ~At(d, "idle")
        BY DEF Collides, At
      <3>2. d \in scene.conns
        BY <3>1 DEF PresenceInv, Absent
      <3> QED
        BY <3>1, <3>2 DEF Only
    <2> QED
      BY <1>1, <1>2, <1>3, <1>5, <2>1, SameWanted DEF ChannelsAt
  <1> QED
    BY <1>4, <1>5 DEF Command, redisVars

\* The channel follows the map, except where another thread may write at the same time.
LEMMA ChannelPresent ==
    ASSUME ChatInv, PresenceInv, NEW c \in Conns, UNCHANGED world,
           LoginSubscribe(c) \/ LogoutUnsubscribe(c) \/ CloseUnsubscribe(c)
    PROVE  PresenceInv'
  <1>1. /\ op \in [Conns -> Handler]
        /\ UNCHANGED <<node, listening, scene, client, link, connMap, state>>
        /\ Home[c] \in Nodes /\ Owner[c] \in Users /\ TypeOK
    BY UsualTypes, ConstantsAssumption
    DEF ChatInv, LoginSubscribe, LogoutUnsubscribe, CloseUnsubscribe, world, sessionVars
  <1>2. c \in scene.conns /\ EntryAt(c)
    BY <1>1 DEF PresenceInv, Absent, At, LoginSubscribe, LogoutUnsubscribe, CloseUnsubscribe
  <1>3. /\ \A e \in Conns \ {c} : op'[e] = op[e]
        /\ \/ op[c].pc = "subscribe" /\ op'[c].pc = "online" /\ Command(c, "subscribe")
           \/ op[c].pc = "unsubscribe" /\ op'[c].pc = "offline" /\ Command(c, "unsubscribe")
           \/ op[c].pc = "closeUnsubscribe" /\ op'[c].pc = "idle" /\ Command(c, "unsubscribe")
    <2>1. CASE LoginSubscribe(c)
      BY <1>1, <2>1, Goes DEF LoginSubscribe, Places, At
    <2>2. CASE LogoutUnsubscribe(c)
      BY <1>1, <2>2, Goes DEF LogoutUnsubscribe, Places, At
    <2>3. CASE CloseUnsubscribe(c)
      BY <1>1, <2>3, Returns DEF CloseUnsubscribe, NoHandler, At
    <2> QED
      BY <2>1, <2>2, <2>3
  <1>4. /\ UNCHANGED subs
        /\ \A n \in Nodes \ {Home[c]} : commands'[n] = commands[n]
        /\ ChannelsAt(Home[c])'
        /\ \A w \in Users \ {Owner[c]} : Wanted(Home[c], w)' <=> Wanted(Home[c], w)
        /\ listening[Home[c]] /\ (faults' = 0 \/ Only(c)) =>
              (Wanted(Home[c], Owner[c])' <=> op[c].pc = "subscribe")
    BY <1>1, <1>2, <1>3, CommandEffect
  <1>0. Fault \/ UNCHANGED faults
    BY <1>3, CommandFaults
  <1>5. ConnectionStep(c)
    <2>1. ASSUME NEW n \in Nodes, NEW u \in Users, n # Home[c] \/ u # Owner[c]
          PROVE  Wanted(n, u)' <=> Wanted(n, u)
      <3>1. CASE n = Home[c]
        BY <1>4, <2>1, <3>1
      <3>2. CASE n # Home[c]
        BY <1>4, <3>2 DEF Wanted
      <3> QED
        BY <3>1, <3>2
    <2> QED
      BY <1>0, <1>1, <1>2, <1>3, <1>4, <2>1 DEF ConnectionStep, ClientsOnlyGo
  <1>6. EntryAt(c)'
    BY <1>1, <1>2, <1>3 DEF EntryAt, Alone, InItsMap, Listed, Unlisted
  <1>7. faults' = 0 /\ OneConnectionEach => StateAt(c)'
    <2>1. faults' = 0 /\ OneConnectionEach => StateAt(c)
      BY <1>0, <1>1, <1>2, FaultsGrow DEF PresenceInv, StatesAgree
    <2> QED
      BY <1>1, <1>3, <2>1 DEF StateAt, InItsMap
  <1>8. SubscriptionAt(c)'
    <2> SUFFICES ASSUME Alone(c), listening[Home[c]], faults' = 0 \/ Only(c)
                 PROVE  Wanted(Home[c], Owner[c])' <=> InItsMap(c)'
      BY <1>1 DEF SubscriptionAt, Only, Alone
    <2>2. InItsMap(c)' <=> op[c].pc = "subscribe"
      BY <1>1, <1>2, <1>3 DEF EntryAt, InItsMap, Listed, Unlisted
    <2> QED
      BY <1>4, <2>2
  <1> QED
    BY <1>4, <1>5, <1>6, <1>7, <1>8, OneConnection
-----------------------------------------------------------------------------
(* Redis and the ends of nodes *)

LEMMA RedisAppliesPresent ==
    ASSUME ChatInv, PresenceInv, NEW n \in Nodes, RedisApplies(n), UNCHANGED world
    PROVE  PresenceInv'
  <1> DEFINE s == commands[n]
             T == CommandsOfNodes
             w == Head(s)[1]
             u == Head(s)[2]
  <1>1. /\ UNCHANGED <<client, link, connMap, state, op, faults, node, listening, scene>>
        /\ subs \in [Nodes -> SUBSET Users] /\ commands \in [Nodes -> Seq(T)]
        /\ s # <<>> /\ s \in Seq(T)
        /\ scene.conns \subseteq Conns /\ Home \in [Conns -> Nodes] /\ Owner \in [Conns -> Users]
    BY UsualTypes, ConstantsAssumption
    DEF ChatInv, TypeOK, RedisApplies, sessionVars, world, CommandsOfNodes
  <1>2. /\ subs'[n] = IF w = "subscribe" THEN subs[n] \cup {u} ELSE subs[n] \ {u}
        /\ commands'[n] = Tail(s)
        /\ \A k \in Nodes \ {n} : subs'[k] = subs[k] /\ commands'[k] = commands[k]
    BY <1>1 DEF RedisApplies
  <1>3. s = commands[n] /\ w = Head(s)[1] /\ u = Head(s)[2]
    OBVIOUS
  <1> HIDE DEF s, T, w, u
  <1>4. /\ Head(s) = s[1] /\ Len(Tail(s)) = Len(s) - 1 /\ Len(s) \in Nat \ {0}
        /\ Tail(s) \in Seq(T)
        /\ \A i \in 1..Len(Tail(s)) : Tail(s)[i] = s[i + 1]
    BY <1>1, HeadTailProperties, LenProperties, EmptySeq
  <1>5. /\ ChannelsAt(n) /\ \A k \in Nodes : ItsUsers(k)' = ItsUsers(k)
        /\ \A k \in Nodes : ChannelsAt(k)
    BY <1>1 DEF PresenceInv, ItsUsers
  <1>6. u \in ItsUsers(n) /\ listening[n]
    BY <1>1, <1>3, <1>4, <1>5 DEF ChannelsAt
  <1>7. ASSUME NEW k \in Nodes PROVE ChannelsAt(k)'
    <2>1. CASE k = n
      <3>1. \A i \in 1..Len(Tail(s)) : Tail(s)[i][2] \in ItsUsers(n)
        BY <1>3, <1>4, <1>5 DEF ChannelsAt
      <3> QED
        BY <1>1, <1>2, <1>5, <1>6, <2>1, <3>1 DEF ChannelsAt
    <2>2. CASE k # n
      BY <1>1, <1>2, <1>5, <2>2 DEF ChannelsAt
    <2> QED
      BY <2>1, <2>2
  <1>8. \A c \in Conns : Absent(c)' /\ EntryAt(c)'
    BY <1>1 DEF PresenceInv, Absent, EntryAt, At, Alone, InItsMap
  <1>9. StatesAgree'
    BY <1>1 DEF PresenceInv, StatesAgree, OneConnectionEach, StateAt, InItsMap
  <1>10. ASSUME NEW c \in scene'.conns PROVE SubscriptionAt(c)'
    <2>1. /\ c \in scene.conns /\ c \in Conns /\ SubscriptionAt(c)
          /\ (Only(c)' <=> Only(c)) /\ (Alone(c)' <=> Alone(c))
      BY <1>1 DEF PresenceInv, Only, Alone
    <2>2. Wanted(Home[c], Owner[c])' <=> Wanted(Home[c], Owner[c])
      <3>1. CASE Home[c] # n
        <4>1. Home[c] \in Nodes \ {n}
          BY <1>1, <2>1, <3>1
        <4> QED
          BY <1>2, <4>1 DEF Wanted
      <3>2. CASE Home[c] = n
        <4>0. subs'[n] = IF Head(s)[1] = "subscribe" THEN subs[n] \cup {Head(s)[2]}
                         ELSE subs[n] \ {Head(s)[2]}
          BY <1>2, <1>3
        <4>2. s \in Seq(CommandsOfNodes)
          BY <1>1 DEF T
        <4>3. Wants(Tail(s), IF Head(s)[1] = "subscribe" THEN subs[n] \cup {Head(s)[2]}
                             ELSE subs[n] \ {Head(s)[2]}, Owner[c])
              <=> Wants(s, subs[n], Owner[c])
          BY <1>1, <4>2, WantsTail
        <4>1. Wants(Tail(s), subs'[n], Owner[c]) <=> Wants(s, subs[n], Owner[c])
          BY <4>0, <4>3
        <4> QED
          BY <1>2, <1>3, <3>2, <4>1 DEF Wanted
      <3> QED
        BY <3>1, <3>2
    <2> QED
      BY <1>1, <2>1, <2>2 DEF SubscriptionAt, InItsMap
  <1> QED
    BY <1>7, <1>8, <1>9, <1>10 DEF PresenceInv

\* The end of a process takes its entries, its subscriptions and its handlers.
LEMMA ProcessEndsPresent ==
    ASSUME ChatInv, PresenceInv, NEW n \in Nodes, ProcessEnds(n),
           \/ /\ node' = [node EXCEPT ![n] = "exited"]
              /\ node[n] = "closing"
              /\ \A u \in Users : state'[u] = "online" => state[u] = "online"
           \/ /\ node[n] = "up" /\ node' = [node EXCEPT ![n] = "crashed"] /\ UNCHANGED state
    PROVE  PresenceInv'
  <1>1. /\ TypeOK /\ scene.conns \subseteq Conns /\ n \in Nodes
        /\ node \in [Nodes -> {"up", "closing", "exited", "crashed"}]
        /\ Home \in [Conns -> Nodes] /\ Owner \in [Conns -> Users]
        /\ UNCHANGED <<faults, listening, scene>>
    BY ConstantsAssumption DEF ChatInv, TypeOK, ProcessEnds
  <1>2. /\ \A d \in Conns : Home[d] = n => /\ op'[d] = NoHandler /\ link'[d] = "down"
                                           /\ client'[d] = "gone" \/ client[d] # "gone"
        /\ \A d \in Conns : Home[d] # n => /\ op'[d] = op[d] /\ link'[d] = link[d]
                                           /\ client'[d] = client[d]
        /\ \A u \in Users : connMap'[n][u] = NoConn
        /\ \A k \in Nodes \ {n} : connMap'[k] = connMap[k]
    <2>1. \A d \in Conns : Home[d] = n /\ client[d] = "gone" => client'[d] = "gone"
      BY DEF ProcessEnds
    <2> QED
      BY <1>1, <2>1, ProcessEndsEffect
  <1>3. /\ subs'[n] = {} /\ commands'[n] = <<>>
        /\ \A k \in Nodes \ {n} : subs'[k] = subs[k] /\ commands'[k] = commands[k]
    <2>1. subs \in [Nodes -> SUBSET Users] /\ DOMAIN commands = Nodes
      BY <1>1 DEF TypeOK
    <2> QED
      BY <2>1 DEF ProcessEnds
  <1>4. \A c \in Conns : Home[c] = n => op'[c].pc = "idle" /\ ~InItsMap(c)'
    BY <1>1, <1>2, ConstantsAssumption DEF NoHandler, InItsMap
  <1>5. \A c \in Conns : Home[c] # n => (InItsMap(c)' <=> InItsMap(c))
    BY <1>1, <1>2 DEF InItsMap
  <1>6. ASSUME NEW c \in Conns PROVE Absent(c)' /\ EntryAt(c)'
    <2>1. Absent(c) /\ EntryAt(c)
      BY DEF PresenceInv
    <2>2. Absent(c)'
      BY <1>1, <1>2, <1>4, <2>1 DEF Absent, At
    <2>3. EntryAt(c)'
      <3>1. CASE Home[c] = n
        BY <1>4, <3>1 DEF EntryAt, Listed, Unlisted
      <3>2. CASE Home[c] # n
        BY <1>1, <1>2, <1>5, <2>1, <3>2 DEF EntryAt, Alone
      <3> QED
        BY <3>1, <3>2
    <2> QED
      BY <2>2, <2>3
  <1>7. StatesAgree'
    <2>1. \A u \in Users : state'[u] = "online" => \E c \in scene'.conns : Owner[c] = u
      BY <1>1 DEF PresenceInv, StatesAgree
    <2>2. ASSUME faults' = 0, OneConnectionEach', NEW c \in scene'.conns PROVE StateAt(c)'
      <3>1. StateAt(c) /\ c \in Conns /\ c \in scene.conns
        BY <1>1, <2>2 DEF PresenceInv, StatesAgree, OneConnectionEach
      <3>2. CASE node' = [node EXCEPT ![n] = "exited"]
        <4>1. node'[n] = "exited" /\ \A k \in Nodes \ {n} : node'[k] = node[k]
          BY <1>1, <3>2
        <4>2. state'[Owner[c]] = "online" => state[Owner[c]] = "online"
          BY <1>1, <3>1, <3>2
        <4>3. state'[Owner[c]] = "online" /\ ~InItsMap(c)' =>
                 \/ op'[c].pc \in {"unsubscribe", "offline", "closeOffline"}
                 \/ node'[Home[c]] \in {"exited", "crashed"}
          <5>1. CASE Home[c] = n
            BY <4>1, <5>1
          <5>2. CASE Home[c] # n
            BY <1>1, <1>2, <1>5, <3>1, <4>1, <4>2, <5>2 DEF StateAt
          <5> QED
            BY <5>1, <5>2
        <4> QED
          BY <4>1, <4>3 DEF StateAt
      <3>3. CASE node[n] = "up" /\ node' = [node EXCEPT ![n] = "crashed"] /\ UNCHANGED state
        <4>1. /\ node'[n] = "crashed"
              /\ \A k \in Nodes : node[k] \in {"closing", "exited"} => node'[k] = node[k]
          BY <1>1, <3>3
        <4>2. state'[Owner[c]] = "offline" /\ InItsMap(c)' =>
                 \/ op'[c].pc \in {"subscribe", "online"}
                 \/ \E k \in Nodes : node'[k] \in {"closing", "exited"}
          BY <1>2, <1>4, <1>5, <3>1, <3>3, <4>1 DEF StateAt
        <4>3. state'[Owner[c]] = "online" /\ ~InItsMap(c)' =>
                 \/ op'[c].pc \in {"unsubscribe", "offline", "closeOffline"}
                 \/ node'[Home[c]] \in {"exited", "crashed"}
          <5>1. CASE Home[c] = n
            BY <4>1, <5>1
          <5>2. CASE Home[c] # n
            BY <1>1, <1>2, <1>5, <3>1, <3>3, <5>2 DEF StateAt
          <5> QED
            BY <5>1, <5>2
        <4> QED
          BY <4>2, <4>3 DEF StateAt
      <3> QED
        BY <3>2, <3>3
    <2> QED
      BY <2>1, <2>2 DEF StatesAgree
  <1>8. ASSUME NEW k \in Nodes PROVE ChannelsAt(k)'
    <2>1. ItsUsers(k)' = ItsUsers(k) /\ ChannelsAt(k)
      BY <1>1 DEF ItsUsers, PresenceInv
    <2>2. CASE k = n
      <3>1. Len(commands'[n]) = 0
        BY <1>3
      <3> QED
        BY <1>1, <1>3, <2>2, <3>1 DEF ChannelsAt
    <2>3. CASE k # n
      BY <1>1, <1>3, <2>1, <2>3 DEF ChannelsAt
    <2> QED
      BY <2>2, <2>3
  <1>9. ASSUME NEW c \in scene'.conns PROVE SubscriptionAt(c)'
    <2>1. c \in scene.conns /\ c \in Conns /\ SubscriptionAt(c)
      BY <1>1 DEF PresenceInv
    <2>2. CASE Home[c] = n
      <3>1. Len(commands'[n]) = 0
        BY <1>3
      <3> QED
        BY <1>3, <1>4, <2>1, <2>2, <3>1 DEF SubscriptionAt, Wanted, Wants
    <2>3. CASE Home[c] # n
      <3>1. Home[c] \in Nodes
        BY <1>1, <2>1
      <3>2. Wanted(Home[c], Owner[c])' <=> Wanted(Home[c], Owner[c])
        BY <1>3, <2>3, <3>1 DEF Wanted
      <3>3. (Only(c)' <=> Only(c)) /\ (Alone(c)' <=> Alone(c))
        BY <1>1 DEF Only, Alone
      <3> QED
        BY <1>1, <1>2, <1>5, <2>1, <2>3, <3>2, <3>3 DEF SubscriptionAt
    <2> QED
      BY <2>2, <2>3
  <1> QED
    BY <1>6, <1>7, <1>8, <1>9 DEF PresenceInv

\* The reset sets users offline that are in the maps of other nodes.
LEMMA ResetStatePresent ==
    ASSUME ChatInv, PresenceInv, NEW n \in Nodes, ResetState(n)
    PROVE  PresenceInv'
  <1>1. /\ UNCHANGED <<client, link, connMap, op, subs, commands, faults, listening, scene>>
        /\ TypeOK /\ scene.conns \subseteq Conns /\ Owner \in [Conns -> Users]
    BY ConstantsAssumption DEF ResetState, redisVars, ChatInv, TypeOK
  <1>2. /\ node'[n] = "closing"
        /\ \A k \in Nodes : node[k] \in {"exited", "crashed"} => node'[k] = node[k]
        /\ \A u \in Users : state'[u] = "online" => state[u] = "online"
    BY <1>1 DEF ResetState, TypeOK
  <1>3. \A c \in Conns : Absent(c)' /\ EntryAt(c)'
    BY <1>1 DEF PresenceInv, Absent, EntryAt, At, Alone, InItsMap
  <1>4. \A c \in scene.conns : StateAt(c) => StateAt(c)'
    BY <1>1, <1>2, ConstantsAssumption DEF StateAt, InItsMap
  <1>5. StatesAgree'
    BY <1>1, <1>2, <1>4 DEF PresenceInv, StatesAgree, OneConnectionEach
  <1>6. \A k \in Nodes : ChannelsAt(k)'
    BY <1>1 DEF PresenceInv, ChannelsAt, ItsUsers
  <1>7. \A c \in scene'.conns : SubscriptionAt(c)'
    BY <1>1 DEF PresenceInv, SubscriptionAt, Only, Alone, Wanted, InItsMap
  <1> QED
    BY <1>3, <1>5, <1>6, <1>7 DEF PresenceInv

LEMMA ObserverQuitsPresent ==
    ASSUME ChatInv, PresenceInv, NEW n \in Nodes, ObserverQuits(n)
    PROVE  PresenceInv'
  <1>1. /\ UNCHANGED <<client, link, connMap, state, op, faults, node, scene>>
        /\ TypeOK /\ scene.conns \subseteq Conns /\ Home \in [Conns -> Nodes]
    BY ConstantsAssumption DEF ObserverQuits, sessionVars, ChatInv, TypeOK
  <1>2. /\ subs'[n] = {} /\ commands'[n] = <<>> /\ ~listening'[n]
        /\ \A k \in Nodes \ {n} : /\ subs'[k] = subs[k] /\ commands'[k] = commands[k]
                                  /\ listening'[k] = listening[k]
    <2>1. subs \in [Nodes -> SUBSET Users] /\ DOMAIN commands = Nodes
          /\ listening \in [Nodes -> BOOLEAN]
      BY <1>1 DEF TypeOK
    <2> QED
      BY <2>1 DEF ObserverQuits
  <1>3. \A c \in Conns : Absent(c)' /\ EntryAt(c)'
    BY <1>1 DEF PresenceInv, Absent, EntryAt, At, Alone, InItsMap
  <1>4. StatesAgree'
    BY <1>1 DEF PresenceInv, StatesAgree, OneConnectionEach, StateAt, InItsMap
  <1>5. ASSUME NEW k \in Nodes PROVE ChannelsAt(k)'
    <2>1. ItsUsers(k)' = ItsUsers(k) /\ ChannelsAt(k)
      BY <1>1 DEF ItsUsers, PresenceInv
    <2>2. CASE k = n
      <3>1. Len(commands'[n]) = 0
        BY <1>2
      <3> QED
        BY <1>2, <2>2, <3>1 DEF ChannelsAt
    <2>3. CASE k # n
      BY <1>2, <2>1, <2>3 DEF ChannelsAt
    <2> QED
      BY <2>2, <2>3
  <1>6. ASSUME NEW c \in scene'.conns PROVE SubscriptionAt(c)'
    <2>1. c \in scene.conns /\ Home[c] \in Nodes /\ SubscriptionAt(c)
      BY <1>1 DEF PresenceInv
    <2>2. CASE Home[c] = n
      BY <1>2, <2>2 DEF SubscriptionAt
    <2>3. CASE Home[c] # n
      BY <1>1, <1>2, <2>1, <2>3 DEF SubscriptionAt, Only, Alone, Wanted, InItsMap
    <2> QED
      BY <2>2, <2>3
  <1> QED
    BY <1>3, <1>4, <1>5, <1>6 DEF PresenceInv

\* No handler moves when a client ends or a member joins, and when an observer works.
LEMMA OthersPresent ==
    ASSUME ChatInv, PresenceInv, UNCHANGED world,
           \/ \E c \in Conns : \/ ClientDies(c) \/ Shutdown(c) \/ EndOfFile(c)
                              \/ \E g \in Groups : AddGroup(c, g)
           \/ \E n \in Nodes : ObserverStep(n)
    PROVE  PresenceInv'
  <1>0. /\ client \in [Conns -> {"connected", "awaiting", "in", "deaf", "gone"}]
        /\ link \in [Conns -> {"up", "half", "down"}]
    BY DEF ChatInv, TypeOK
  <1>1. CASE \E c \in Conns : \/ ClientDies(c) \/ Shutdown(c) \/ EndOfFile(c)
                              \/ \E g \in Groups : AddGroup(c, g)
    <2>0. ClientsOnlyGo
      BY <1>0, <1>1
      DEF ClientDies, Shutdown, EndOfFile, AddGroup, ClientsOnlyGo, sessionVars
    <2>1. NoHandlerMoves
      BY <1>1, <2>0
      DEF ClientDies, Shutdown, EndOfFile, AddGroup, NoHandlerMoves, world, sessionVars, redisVars
    <2> QED
      BY <2>1, NoHandlerMovesKeeps
  <1>2. CASE \E n \in Nodes : ObserverStep(n)
    <2>1. PICK n \in Nodes : ObserverStep(n)
      BY <1>2
    <2>2. ClientsOnlyGo
      <3>1. CASE ObserverSends(n)
        BY <1>0, <3>1 DEF ObserverSends, Send, ClientsOnlyGo
      <3> QED
        BY <2>1, <3>1
        DEF ObserverStep, ObserverTakes, ObserverLooksUp, ObserverStores, ClientsOnlyGo,
            sessionVars
    <2>3. Fault \/ UNCHANGED faults
      BY <2>1
      DEF ObserverStep, ObserverTakes, ObserverLooksUp, ObserverSends, ObserverStores
    <2>4. UNCHANGED <<connMap, state, subs, commands, op>>
      BY <2>1
      DEF ObserverStep, ObserverTakes, ObserverLooksUp, ObserverSends, ObserverStores,
          sessionVars
    <2>5. NoHandlerMoves
      BY <2>2, <2>3, <2>4 DEF NoHandlerMoves, world
    <2> QED
      BY <2>5, NoHandlerMovesKeeps
  <1> QED
    BY <1>1, <1>2
-----------------------------------------------------------------------------
LEMMA InitPresent ==
    ASSUME Init
    PROVE  PresenceInv
  <1>1. /\ scene \in Scenes /\ scene.conns \subseteq Conns
        /\ Home \in [Conns -> Nodes] /\ Owner \in [Conns -> Users] /\ NoConn \notin Conns
    BY ConstantsAssumption DEF Init
  <1>2. /\ \A c \in Conns : op[c].pc = "idle" /\ ~InItsMap(c)
        /\ \A u \in Users : state[u] = "offline"
        /\ \A n \in Nodes : subs[n] = {} /\ commands[n] = <<>> /\ listening[n]
        /\ \A c \in Conns \ scene.conns : client[c] = "gone" /\ link[c] = "down"
    BY <1>1 DEF Init, NoHandler, InItsMap
  <1>3. \A c \in Conns : Absent(c) /\ EntryAt(c)
    BY <1>2 DEF Absent, At, EntryAt, Listed, Unlisted
  <1>4. StatesAgree
    BY <1>1, <1>2 DEF StatesAgree, StateAt
  <1>5. ASSUME NEW n \in Nodes PROVE ChannelsAt(n)
    <2>1. Len(commands[n]) = 0
      BY <1>2
    <2> QED
      BY <1>2, <2>1 DEF ChannelsAt
  <1>6. \A c \in scene.conns : SubscriptionAt(c)
    <2>1. \A n \in Nodes : Len(commands[n]) = 0
      BY <1>2
    <2> QED
      BY <1>1, <1>2, <2>1 DEF SubscriptionAt, Wanted, Wants
  <1> QED
    BY <1>3, <1>4, <1>5, <1>6 DEF PresenceInv

LEMMA PresenceStep ==
    ASSUME ChatInv, PresenceInv, [Next]_vars
    PROVE  PresenceInv'
  <1>1. CASE UNCHANGED vars
    <2>1. NoHandlerMoves
      BY <1>1 DEF vars, NoHandlerMoves, ClientsOnlyGo, redisVars
    <2> QED
      BY <2>1, NoHandlerMovesKeeps
  <1>2. ASSUME NEW c \in Conns, ClientStep(c) PROVE PresenceInv'
    <2>1. UNCHANGED world
      BY <1>2 DEF ClientStep
    <2> QED
      BY <1>2, <2>1, LoginQuiet, ErasePresent, ChatQuiet, OthersPresent DEF ClientStep
  <1>3. ASSUME NEW c \in Conns, CloseStarts(c) PROVE PresenceInv'
    BY <1>3, ChatQuiet DEF CloseStarts
  <1>4. ASSUME NEW c \in Conns, HandlerStep(c) PROVE PresenceInv'
    <2>1. UNCHANGED world
      BY <1>4 DEF HandlerStep
    <2>2. CASE LoginStep(c)
      BY <2>1, <2>2, LoginQuiet, LoginMapPresent, StatePresent, ChannelPresent DEF LoginStep
    <2>3. CASE LogoutUnsubscribe(c) \/ LogoutOffline(c) \/ CloseStep(c)
      BY <2>1, <2>3, ErasePresent, StatePresent, ChannelPresent DEF CloseStep
    <2>4. CASE ChatStep(c)
      BY <2>1, <2>4, ChatQuiet
    <2> QED
      BY <1>4, <2>2, <2>3, <2>4 DEF HandlerStep
  <1>5. ASSUME NEW n \in Nodes, RedisStep(n) PROVE PresenceInv'
    BY <1>5, RedisAppliesPresent DEF RedisStep
  <1>6. ASSUME NEW n \in Nodes, ForwardStep(n) PROVE PresenceInv'
    BY <1>6, OthersPresent DEF ForwardStep
  <1>7. ASSUME NEW n \in Nodes, NodeStep(n) PROVE PresenceInv'
    <2>1. CASE Exits(n)
      <3>1. /\ ProcessEnds(n) /\ node' = [node EXCEPT ![n] = "exited"]
            /\ node[n] = "closing"
            /\ \A u \in Users : state'[u] = "online" => state[u] = "online"
        BY <2>1 DEF Exits
      <3> QED
        BY <3>1, ProcessEndsPresent
    <2>2. CASE Crashes(n)
      BY <2>2, ProcessEndsPresent DEF Crashes
    <2> QED
      BY <1>7, <2>1, <2>2, ResetStatePresent, ObserverQuitsPresent DEF NodeStep
  <1> QED
    BY <1>1, <1>2, <1>3, <1>4, <1>5, <1>6, <1>7 DEF Next

\* Maps, states and subscriptions follow each other.
THEOREM PresenceInvariance == Spec => []PresenceInv
  <1>1. Init => PresenceInv
    BY InitPresent
  <1>2. ChatInv /\ PresenceInv /\ [Next]_vars => PresenceInv'
    BY PresenceStep
  <1> QED
    BY <1>1, <1>2, Invariance, PTL DEF Spec

\* Where a user has one connection and no statement fails, the column state and the maps
\* of the nodes agree as soon as nothing is under way, but for what the exit of a node
\* resets and the end of a node leaves.
THEOREM PresenceTrue == Spec => []PresenceIsTrue
  <1>1. ChatInv /\ PresenceInv => PresenceIsTrue
    <2> SUFFICES ASSUME ChatInv, PresenceInv, Quiet, faults = 0, OneConnectionEach,
                        NEW u \in Users
                 PROVE  LET here == \E n \in Nodes : u \in InMap(n)
                        IN  /\ state[u] = "online" /\ ~here =>
                                  \E c \in scene.conns : /\ Owner[c] = u
                                                         /\ node[Home[c]] \in {"exited", "crashed"}
                            /\ state[u] = "offline" /\ here =>
                                  \E n \in Nodes : node[n] \in {"closing", "exited"}
      BY DEF PresenceIsTrue
    <2>1. scene.conns \subseteq Conns /\ NoConn \notin Conns
          /\ Home \in [Conns -> Nodes] /\ Owner \in [Conns -> Users]
      BY ConstantsAssumption DEF ChatInv, TypeOK
    <2>2. \A c \in scene.conns : StateAt(c) /\ op[c].pc = "idle"
      BY <2>1 DEF PresenceInv, StatesAgree, Quiet, At
    <2>3. ASSUME NEW n \in Nodes, u \in InMap(n)
          PROVE  \E c \in scene.conns : Owner[c] = u /\ InItsMap(c)
      <3>1. connMap[n][u] \in Conns
        BY <2>3, UsualTypes DEF ChatInv, InMap
      <3>2. PICK c \in Conns : connMap[n][u] = c
        BY <3>1
      <3>3. EntryOK(c) /\ Absent(c)
        BY DEF ChatInv, SessionOK, PresenceInv
      <3>4. Owner[c] = u /\ Home[c] = n /\ (link[c] # "down" \/ At(c, "find"))
        BY <3>2, <3>3 DEF EntryOK, Past
      <3>5. c \in scene.conns
        BY <3>3, <3>4 DEF Absent, At
      <3> QED
        BY <3>2, <3>4, <3>5 DEF InItsMap
    <2>4. ASSUME NEW c \in scene.conns, Owner[c] = u, InItsMap(c)
          PROVE  \E n \in Nodes : u \in InMap(n)
      BY <2>1, <2>4 DEF InItsMap, InMap
    <2>5. state[u] = "online" => \E c \in scene.conns : Owner[c] = u
      BY DEF PresenceInv, StatesAgree
    <2> QED
      BY <2>2, <2>3, <2>4, <2>5 DEF StateAt
  <1> QED
    BY <1>1, Invariance, PresenceInvariance, PTL

\* When nothing is under way, a node is subscribed to the channel of a user exactly if he
\* is in its map, whatever he, the others and the ends of their connections have done
\* before at the same time; after the failure of its subscribe connection it is subscribed
\* to none.
THEOREM Subscribed == Spec => []SubscribedToItsUsers
  <1>1. ChatInv /\ PresenceInv => SubscribedToItsUsers
    <2> SUFFICES ASSUME ChatInv, PresenceInv, Quiet, NEW n \in Nodes
                 PROVE  IF ~listening[n] THEN subs[n] = {}
                        ELSE \A u \in Users :
                               /\ \A c, d \in Over(n, u) : c = d
                               /\ \/ faults = 0
                                  \/ \A c, d \in scene.conns :
                                        Home[c] = n /\ Home[d] = n => c = d
                               => (u \in subs[n] <=> u \in InMap(n))
      BY DEF SubscribedToItsUsers
    <2>1. scene.conns \subseteq Conns /\ NoConn \notin Conns
          /\ Home \in [Conns -> Nodes] /\ Owner \in [Conns -> Users]
      BY ConstantsAssumption DEF ChatInv, TypeOK
    <2>2. ChannelsAt(n) /\ Len(commands[n]) = 0
      BY DEF PresenceInv, Quiet
    <2>3. CASE ~listening[n]
      BY <2>2, <2>3 DEF ChannelsAt
    <2>4. ASSUME listening[n], NEW u \in Users, \A c, d \in Over(n, u) : c = d,
                 \/ faults = 0
                 \/ \A c, d \in scene.conns : Home[c] = n /\ Home[d] = n => c = d
          PROVE  u \in subs[n] <=> u \in InMap(n)
      <3>1. ASSUME NEW c \in Over(n, u) PROVE u \in subs[n] <=> InItsMap(c)
        <4>1. c \in scene.conns /\ Home[c] = n /\ Owner[c] = u /\ op[c].pc = "idle"
          BY <2>1 DEF Over, Quiet, At
        <4>2. Alone(c) /\ (faults = 0 \/ Only(c))
          BY <2>4, <4>1 DEF Over, Alone, Only
        <4>3. Wanted(n, u) <=> InItsMap(c)
          BY <2>4, <4>1, <4>2 DEF PresenceInv, SubscriptionAt, SubscriptionLags
        <4> QED
          BY <2>2, <4>3 DEF Wanted, Wants
      <3>2. ASSUME u \in subs[n] PROVE \E c \in Over(n, u) : TRUE
        BY <2>2, <3>2 DEF ChannelsAt, ItsUsers, Over
      <3>3. ASSUME u \in InMap(n) PROVE \E c \in Over(n, u) : InItsMap(c)
        <4>1. connMap[n][u] \in Conns
          BY <3>3, UsualTypes DEF ChatInv, InMap
        <4>2. PICK c \in Conns : connMap[n][u] = c
          BY <4>1
        <4>3. EntryOK(c) /\ Absent(c)
          BY DEF ChatInv, SessionOK, PresenceInv
        <4>4. Owner[c] = u /\ Home[c] = n /\ (link[c] # "down" \/ At(c, "find"))
          BY <4>2, <4>3 DEF EntryOK, Past
        <4>5. c \in scene.conns
          BY <4>3, <4>4 DEF Absent, At
        <4> QED
          BY <4>2, <4>4, <4>5 DEF InItsMap, Over
      <3>4. ASSUME NEW c \in Over(n, u), InItsMap(c) PROVE u \in InMap(n)
        BY <2>1, <3>4 DEF InItsMap, InMap, Over
      <3> QED
        BY <3>1, <3>2, <3>3, <3>4
    <2> QED
      BY <2>3, <2>4
  <1> QED
    BY <1>1, Invariance, PresenceInvariance, PTL
-----------------------------------------------------------------------------
(* No message is delivered twice *)

PairMessages == {m \in Messages : m.conv \in Pairs}

\* The handler of a message of a pair has one addressee at most, and no list of
\* connections.
PairHandler(c) ==
    op[c].msg.conv \in Pairs => /\ Len(op[c].remote) =< 1
                                /\ op[c].pc \notin {"members", "collect", "push"}

OneCopy(m, v) == \A s, t \in Copies(m, v) : s = t

\* As long as nothing has failed and every user has one connection: a message is in one
\* place at most, and in none before its number is given out.
OnceInv ==
    faults = 0 /\ OneConnectionEach =>
        /\ \A c \in Conns : PairHandler(c)
        /\ \A m \in PairMessages, v \in Users :
              OneCopy(m, v) /\ (Copies(m, v) # {} => m.seq =< seqno[m.conv])

\* The places of which Copies speaks.
RowAt(m, v) == m \in offline[v] /\ \A c \in Conns : ReadBy(c, m, v) => op[c].pc = "ack"
GotBy(c, m, v) == Owner[c] = v /\ m \in got[c]
AtObserver(n, m, v) == observer[n].msg = m /\ observer[n].user = v
InboxAt(n, i, m, v) == i \in 1..Len(inbox[n]) /\ inbox[n][i] = <<v, m>>

CopyAt(t, m, v) ==
    \/ t = <<"row">> /\ RowAt(m, v)
    \/ \E c \in Conns : \/ t = <<"read", c>> /\ ReadBy(c, m, v)
                        \/ t = <<"got", c>> /\ GotBy(c, m, v)
                        \/ t = <<"handler", c>> /\ InHand(c, m, v)
    \/ \E n \in Nodes : \/ t = <<"observer", n>> /\ AtObserver(n, m, v)
                        \/ \E i : t = <<"inbox", n, i>> /\ InboxAt(n, i, m, v)

CopiesAreThere == \A m, v, t : t \in Copies(m, v) <=> CopyAt(t, m, v)

LEMMA CopiesNow == CopiesAreThere
  <1> SUFFICES ASSUME NEW m, NEW v, NEW t PROVE t \in Copies(m, v) <=> CopyAt(t, m, v)
    BY Zenon DEF CopiesAreThere
  <1> DEFINE reads == {<<"read", c>> : c \in {d \in Conns : ReadBy(d, m, v)}}
             row == IF m \in offline[v] /\ \A c \in {d \in Conns : ReadBy(d, m, v)} : op[c].pc = "ack"
                    THEN {<<"row">>} ELSE {}
             gots == {<<"got", c>> : c \in {d \in Conns : Owner[d] = v /\ m \in got[d]}}
             hands == {<<"handler", c>> : c \in {d \in Conns : InHand(d, m, v)}}
             boxes == (UNION {{<<"inbox", n, i>> :
                                i \in {j \in 1..Len(inbox[n]) : inbox[n][j] = <<v, m>>}}
                             : n \in Nodes})
             obs == {<<"observer", n>> : n \in {k \in Nodes : observer[k].msg = m
                                                             /\ observer[k].user = v}}
  <1>1. t \in Copies(m, v) <=> t \in row \cup reads \cup gots \cup hands \cup boxes \cup obs
    BY Zenon DEF Copies
  <1>2. t \in row <=> t = <<"row">> /\ RowAt(m, v)
    BY DEF RowAt
  <1>3. /\ t \in reads <=> \E c \in Conns : t = <<"read", c>> /\ ReadBy(c, m, v)
        /\ t \in gots <=> \E c \in Conns : t = <<"got", c>> /\ GotBy(c, m, v)
        /\ t \in hands <=> \E c \in Conns : t = <<"handler", c>> /\ InHand(c, m, v)
    BY DEF GotBy
  <1>4. /\ t \in obs <=> \E n \in Nodes : t = <<"observer", n>> /\ AtObserver(n, m, v)
        /\ t \in boxes <=> \E n \in Nodes : \E i : t = <<"inbox", n, i>> /\ InboxAt(n, i, m, v)
    BY DEF AtObserver, InboxAt
  <1> HIDE DEF row, reads, gots, hands, boxes, obs
  <1>5. t \in Copies(m, v) <=> \/ t \in row \/ t \in reads \/ t \in gots
                               \/ t \in hands \/ t \in boxes \/ t \in obs
    BY <1>1
  <1> QED
    BY <1>2, <1>3, <1>4, <1>5 DEF CopyAt

LEMMA CopiesThen == CopiesAreThere'
  BY CopiesNow, PTL

-----------------------------------------------------------------------------
(* What a step does to the copies of a message *)

\* A step without a fault.
Careful ==
    /\ ChatInv /\ PresenceInv /\ OneConnectionEach
    /\ \A c \in Conns : PairHandler(c)
    /\ \A m \in PairMessages, v \in Users :
          OneCopy(m, v) /\ (Copies(m, v) # {} => m.seq =< seqno[m.conv])

Single(m, v) == OneCopy(m, v)' /\ (Copies(m, v)' # {} => m.seq =< seqno'[m.conv])

Once == /\ \A c \in Conns : PairHandler(c)'
        /\ \A m \in PairMessages, v \in Users : Single(m, v)

\* What is at t after the step and was not there before.
NewAt(t, m, v) ==
    \/ t = <<"row">> /\ m \in offline'[v] /\ m \notin offline[v]
    \/ \E c \in Conns : \/ t = <<"read", c>> /\ ReadBy(c, m, v)' /\ ~ReadBy(c, m, v)
                        \/ t = <<"got", c>> /\ GotBy(c, m, v)' /\ ~GotBy(c, m, v)
                        \/ t = <<"handler", c>> /\ InHand(c, m, v)' /\ ~InHand(c, m, v)
    \/ \E n \in Nodes : \/ t = <<"observer", n>> /\ AtObserver(n, m, v)' /\ ~AtObserver(n, m, v)
                        \/ \E i : t = <<"inbox", n, i>> /\ InboxAt(n, i, m, v)'
                                  /\ ~InboxAt(n, i, m, v)

\* No login handler that is about to delete what it has read moves.
NoRemove == \A c \in Conns : op[c].pc = "remove" => op'[c] = op[c]

LEMMA OldOrNew ==
    ASSUME NoRemove, NEW m, NEW v, NEW t, CopyAt(t, m, v)'
    PROVE  CopyAt(t, m, v) \/ NewAt(t, m, v)
  <1>1. ASSUME RowAt(m, v)' PROVE RowAt(m, v) \/ m \notin offline[v]
    BY <1>1 DEF RowAt, ReadBy, NoRemove
  <1>2. RowAt(m, v)' => m \in offline'[v]
    BY DEF RowAt
  <1> QED
    BY <1>1, <1>2 DEF CopyAt, NewAt

\* There is nothing new, or a copy moves from a to b.
LEMMA NothingNew ==
    ASSUME Careful, NEW m \in PairMessages, NEW v \in Users,
           seqno'[m.conv] = seqno[m.conv],
           \A t : CopyAt(t, m, v)' => CopyAt(t, m, v)
    PROVE  Single(m, v)
  <1>1. \A t : /\ t \in Copies(m, v) <=> CopyAt(t, m, v)
               /\ t \in Copies(m, v)' <=> CopyAt(t, m, v)'
    BY CopiesNow, CopiesThen, Zenon DEF CopiesAreThere
  <1>2. Copies(m, v)' \subseteq Copies(m, v)
    BY <1>1
  <1>3. OneCopy(m, v) /\ (Copies(m, v) # {} => m.seq =< seqno[m.conv])
    BY DEF Careful
  <1> QED
    BY <1>2, <1>3 DEF Single, OneCopy

LEMMA CopyMoves ==
    ASSUME Careful, NEW m \in PairMessages, NEW v \in Users,
           seqno'[m.conv] = seqno[m.conv],
           NEW a, NEW b, CopyAt(a, m, v), ~CopyAt(a, m, v)',
           \A t : CopyAt(t, m, v)' => CopyAt(t, m, v) \/ t = b
    PROVE  Single(m, v)
  <1>1. \A t : /\ t \in Copies(m, v) <=> CopyAt(t, m, v)
               /\ t \in Copies(m, v)' <=> CopyAt(t, m, v)'
    BY CopiesNow, CopiesThen, Zenon DEF CopiesAreThere
  <1>2. a \in Copies(m, v) /\ a \notin Copies(m, v)' /\ Copies(m, v)' \subseteq Copies(m, v) \cup {b}
    BY <1>1
  <1>3. OneCopy(m, v) /\ (Copies(m, v) # {} => m.seq =< seqno[m.conv])
    BY DEF Careful
  <1> QED
    BY <1>2, <1>3 DEF Single, OneCopy

LEMMA AllMove ==
    ASSUME Careful, NEW m \in PairMessages, NEW v \in Users, seqno'[m.conv] = seqno[m.conv],
           NEW a, NEW b, CopyAt(a, m, v), \A t : CopyAt(t, m, v)' => t = b
    PROVE  Single(m, v)
  <1>1. \A t : /\ t \in Copies(m, v) <=> CopyAt(t, m, v)
               /\ t \in Copies(m, v)' <=> CopyAt(t, m, v)'
    BY CopiesNow, CopiesThen, Zenon DEF CopiesAreThere
  <1>2. a \in Copies(m, v) /\ Copies(m, v)' \subseteq {b}
    BY <1>1
  <1>3. OneCopy(m, v) /\ (Copies(m, v) # {} => m.seq =< seqno[m.conv])
    BY DEF Careful
  <1> QED
    BY <1>2, <1>3 DEF Single, OneCopy

\* There is one.
LEMMA OnlyOne ==
    ASSUME Careful, NEW m \in PairMessages, NEW v \in Users, NEW s, NEW t,
           CopyAt(s, m, v), CopyAt(t, m, v)
    PROVE  s = t
  <1>1. \A r : r \in Copies(m, v) <=> CopyAt(r, m, v)
    BY CopiesNow, Zenon DEF CopiesAreThere
  <1> QED
    BY <1>1 DEF Careful, OneCopy

LEMMA NothingNewAt ==
    ASSUME Careful, NoRemove, NEW m \in PairMessages, NEW v \in Users,
           seqno'[m.conv] = seqno[m.conv],
           \A t : ~NewAt(t, m, v)
    PROVE  Single(m, v)
  BY OldOrNew, NothingNew

LEMMA NewCopyMoves ==
    ASSUME Careful, NoRemove, NEW m \in PairMessages, NEW v \in Users,
           seqno'[m.conv] = seqno[m.conv],
           NEW a, NEW b, CopyAt(a, m, v), ~CopyAt(a, m, v)',
           \A t : NewAt(t, m, v) => t = b
    PROVE  Single(m, v)
  BY OldOrNew, CopyMoves
-----------------------------------------------------------------------------
(* Steps that bring no copy anywhere *)

LEMMA PairMessage ==
    ASSUME NEW m \in PairMessages
    PROVE  m \in Messages /\ m.conv \in Pairs /\ m.conv \notin Groups /\ m # NoMessage
  <1>1. m \in Messages /\ m.conv \in Pairs
    BY DEF PairMessages
  <1>2. PICK u \in Users, v \in Users : m.conv = {u, v}
    BY <1>1 DEF Pairs
  <1>3. m.conv \notin Groups
    BY <1>2, ConstantsAssumption
  <1>4. NoMessage.conv = {}
    BY DEF NoMessage
  <1> QED
    BY <1>1, <1>2, <1>3, <1>4

LEMMA EmptyHandler ==
    ASSUME NEW c \in Conns, op'[c] = NoHandler
    PROVE  PairHandler(c)' /\ \A m, v : ~InHand(c, m, v)' /\ ~ReadBy(c, m, v)'
  <1>1. /\ op'[c].pc = "idle" /\ op'[c].local = <<>> /\ op'[c].remote = <<>>
        /\ Len(op'[c].local) = 0 /\ Len(op'[c].remote) = 0
    BY DEF NoHandler
  <1> QED
    BY <1>1 DEF PairHandler, InHand, ReadBy

\* A handler that moves with nothing new for anybody.
HandStays(c) ==
    /\ PairHandler(c)'
    /\ \A m \in PairMessages, v \in Users : /\ ReadBy(c, m, v)' => ReadBy(c, m, v)
                                            /\ InHand(c, m, v)' => InHand(c, m, v)

LEMMA SameHand ==
    ASSUME Careful, NEW c \in Conns, op'[c] = op[c]
    PROVE  HandStays(c)
  BY DEF Careful, HandStays, PairHandler, ReadBy, InHand

\* Places where no row is in hand and no list of a group.
Plain == Places \ {"remove", "ack", "members", "collect", "push"}

LEMMA GoesOn ==
    ASSUME Careful, NEW c \in Conns, NEW p \in Plain, Goto(c, p)
    PROVE  HandStays(c) /\ \A d \in Conns \ {c} : op'[d] = op[d]
  <1>1. /\ op'[c].pc = p /\ op'[c].msg = op[c].msg /\ op'[c].local = op[c].local
        /\ op'[c].remote = op[c].remote /\ op'[c].rows = op[c].rows
        /\ \A d \in Conns \ {c} : op'[d] = op[d]
    BY Goes, UsualTypes DEF Plain, Careful, ChatInv
  <1>2. PairHandler(c)
    BY DEF Careful
  <1> QED
    BY <1>1, <1>2 DEF HandStays, PairHandler, ReadBy, InHand, Plain

LEMMA GoesIdle ==
    ASSUME Careful, NEW c \in Conns, Return(c)
    PROVE  HandStays(c) /\ \A d \in Conns \ {c} : op'[d] = op[d]
  <1>1. op'[c] = NoHandler /\ \A d \in Conns \ {c} : op'[d] = op[d]
    BY Returns, UsualTypes DEF Careful, ChatInv
  <1> QED
    BY <1>1, EmptyHandler DEF HandStays

\* A step of handlers that delivers nothing.
LEMMA HandsOnly ==
    ASSUME Careful, NoRemove, UNCHANGED <<seqno, got, offline, observer>>,
           \A c \in Conns : HandStays(c),
           \A n \in Nodes : inbox'[n] = inbox[n] \/ inbox'[n] = <<>>
    PROVE  Once
  <1>1. \A c \in Conns : PairHandler(c)'
    BY DEF HandStays
  <1>2. ASSUME NEW m \in PairMessages, NEW v \in Users PROVE Single(m, v)
    <2>1. ASSUME NEW n \in Nodes, NEW i, InboxAt(n, i, m, v)' PROVE InboxAt(n, i, m, v)
      <3>1. inbox'[n] # <<>>
        <4>1. ASSUME inbox'[n] = <<>> PROVE FALSE
          <5>1. Len(inbox'[n]) = 0
            BY <4>1
          <5> QED
            BY <2>1, <5>1 DEF InboxAt
        <4> QED
          BY <4>1
      <3> QED
        BY <2>1, <3>1 DEF InboxAt
    <2>2. ASSUME NEW n \in Nodes, AtObserver(n, m, v)' PROVE AtObserver(n, m, v)
      BY <2>2 DEF AtObserver
    <2>3. ASSUME NEW c \in Conns, GotBy(c, m, v)' PROVE GotBy(c, m, v)
      BY <2>3 DEF GotBy
    <2>4. \A t : ~NewAt(t, m, v)
      BY <2>1, <2>2, <2>3 DEF NewAt, HandStays
    <2> QED
      BY <2>4, NothingNewAt
  <1> QED
    BY <1>1, <1>2 DEF Once

LEMMA OneHandMoves ==
    ASSUME Careful, NEW c \in Conns, op[c].pc # "remove",
           UNCHANGED <<seqno, got, offline, observer, inbox>>,
           Return(c) \/ \E p \in Plain : Goto(c, p)
    PROVE  Once
  <1>1. HandStays(c) /\ \A d \in Conns \ {c} : op'[d] = op[d]
    BY GoesOn, GoesIdle
  <1>2. NoRemove
    BY <1>1 DEF NoRemove
  <1>3. \A d \in Conns : HandStays(d)
    BY <1>1, SameHand
  <1>4. \A n \in Nodes : inbox'[n] = inbox[n]
    OBVIOUS
  <1> QED
    BY <1>2, <1>3, <1>4, HandsOnly

LEMMA NoHandMoves ==
    ASSUME Careful, UNCHANGED <<seqno, got, offline, observer, op>>,
           \A n \in Nodes : inbox'[n] = inbox[n] \/ inbox'[n] = <<>>
    PROVE  Once
  <1>1. NoRemove
    BY DEF NoRemove
  <1>2. \A d \in Conns : HandStays(d)
    BY SameHand
  <1> QED
    BY <1>1, <1>2, HandsOnly

\* All steps of the login, the logout and the close but those with the offline messages.
LEMMA CalmEffect ==
    ASSUME TypeOK, NEW c \in Conns,
           \/ SendLogin(c) \/ LogoutErase(c) \/ ConnectionDown(c)
           \/ LoginRefused(c) \/ LoginUnknown(c) \/ LoginCheck(c) \/ LoginMap(c)
           \/ LoginSubscribe(c) \/ LoginOnline(c) \/ LogoutUnsubscribe(c) \/ LogoutOffline(c)
           \/ CloseFind(c) \/ CloseOffline(c) \/ CloseUnsubscribe(c) \/ RemoteStatus(c)
    PROVE  /\ UNCHANGED <<seqno, got, offline, observer, inbox>>
           /\ op[c].pc # "remove" /\ (Return(c) \/ \E p \in Plain : Goto(c, p))
  <1>1. ASSUME NEW what \in {"subscribe", "unsubscribe"}, Command(c, what)
        PROVE  UNCHANGED <<inbox, observer>>
    BY <1>1, CommandTyped
  <1>2. UNCHANGED <<seqno, got, offline, observer, inbox>>
    <2>1. CASE LoginSubscribe(c) \/ LogoutUnsubscribe(c) \/ CloseUnsubscribe(c)
      BY <1>1, <2>1 DEF LoginSubscribe, LogoutUnsubscribe, CloseUnsubscribe
    <2>2. CASE SendLogin(c) \/ LogoutErase(c) \/ ConnectionDown(c)
               \/ LoginRefused(c) \/ LoginUnknown(c) \/ LoginCheck(c) \/ LoginMap(c)
      BY <2>2 DEF SendLogin, LogoutErase, ConnectionDown, LoginRefused, LoginUnknown, Refuse,
                  LoginCheck, LoginMap, redisVars
    <2>3. CASE LoginOnline(c) \/ LogoutOffline(c) \/ CloseFind(c) \/ CloseOffline(c)
               \/ RemoteStatus(c)
      BY <2>3 DEF LoginOnline, LogoutOffline, CloseFind, CloseOffline, RemoteStatus, redisVars
    <2> QED
      BY <2>1, <2>2, <2>3
  <1>3. op[c].pc # "remove" /\ (Return(c) \/ \E p \in Plain : Goto(c, p))
    <2>1. CASE SendLogin(c) \/ LogoutErase(c) \/ ConnectionDown(c)
               \/ LoginRefused(c) \/ LoginUnknown(c) \/ LoginCheck(c) \/ LoginMap(c)
      BY <2>1 DEF SendLogin, LogoutErase, ConnectionDown, LoginRefused, LoginUnknown, Refuse,
                  LoginCheck, LoginMap, At, Plain, Places
    <2>2. CASE LoginSubscribe(c) \/ LogoutUnsubscribe(c) \/ CloseUnsubscribe(c)
               \/ LoginOnline(c) \/ LogoutOffline(c)
      BY <2>2 DEF LoginSubscribe, LogoutUnsubscribe, CloseUnsubscribe, LoginOnline,
                  LogoutOffline, At, Plain, Places
    <2>3. CASE CloseFind(c) \/ CloseOffline(c) \/ RemoteStatus(c)
      BY <2>3 DEF CloseFind, CloseOffline, RemoteStatus, At, Plain, Places
    <2> QED
      BY <2>1, <2>2, <2>3
  <1> QED
    BY <1>2, <1>3

LEMMA CalmOnce ==
    ASSUME Careful, NEW c \in Conns,
           \/ SendLogin(c) \/ LogoutErase(c) \/ ConnectionDown(c)
           \/ LoginRefused(c) \/ LoginUnknown(c) \/ LoginCheck(c) \/ LoginMap(c)
           \/ LoginSubscribe(c) \/ LoginOnline(c) \/ LogoutUnsubscribe(c) \/ LogoutOffline(c)
           \/ CloseFind(c) \/ CloseOffline(c) \/ CloseUnsubscribe(c) \/ RemoteStatus(c)
    PROVE  Once
  BY CalmEffect, OneHandMoves DEF Careful, ChatInv

\* No handler moves and nothing is delivered.
LEMMA AsideEffect ==
    ASSUME TypeOK,
           \/ \E c \in Conns : \/ ClientDies(c) \/ Shutdown(c) \/ EndOfFile(c)
                              \/ \E g \in Groups : AddGroup(c, g)
           \/ \E n \in Nodes : RedisApplies(n) \/ ResetState(n) \/ ObserverQuits(n)
           \/ UNCHANGED vars
    PROVE  /\ UNCHANGED <<seqno, got, offline, observer, op>>
           /\ \A n \in Nodes : inbox'[n] = inbox[n] \/ inbox'[n] = <<>>
  <1>1. UNCHANGED <<seqno, got, offline, observer, op>>
    BY DEF ClientDies, Shutdown, EndOfFile, AddGroup, RedisApplies, ResetState, ObserverQuits,
           vars, redisVars
  <1>2. ASSUME NEW n \in Nodes PROVE inbox'[n] = inbox[n] \/ inbox'[n] = <<>>
    <2>1. CASE \E k \in Nodes : ObserverQuits(k)
      BY <2>1 DEF ObserverQuits, TypeOK
    <2>2. CASE UNCHANGED inbox
      BY <2>2
    <2> QED
      BY <2>1, <2>2 DEF ClientDies, Shutdown, EndOfFile, AddGroup, RedisApplies, ResetState,
                        vars, redisVars
  <1> QED
    BY <1>1, <1>2

LEMMA AsideOnce ==
    ASSUME Careful,
           \/ \E c \in Conns : \/ ClientDies(c) \/ Shutdown(c) \/ EndOfFile(c)
                              \/ \E g \in Groups : AddGroup(c, g)
           \/ \E n \in Nodes : RedisApplies(n) \/ ResetState(n) \/ ObserverQuits(n)
           \/ UNCHANGED vars
    PROVE  Once
  BY AsideEffect, NoHandMoves DEF Careful, ChatInv
-----------------------------------------------------------------------------
(* The offline messages at the login *)

LEMMA LoginQueryOnce ==
    ASSUME Careful, NEW c \in Conns, LoginQuery(c), UNCHANGED faults
    PROVE  Once
  <1>1. /\ UNCHANGED <<seqno, got, offline, observer, inbox>> /\ op[c].pc = "query"
        /\ op \in [Conns -> Handler] /\ Owner[c] \in Users
    BY UsualTypes, ConstantsAssumption DEF LoginQuery, At, redisVars, Careful, ChatInv
  <1>2. PICK rows : /\ rows = offline[Owner[c]] \/ rows = {}
                    /\ op' = [op EXCEPT ![c].rows = rows,
                                        ![c].pc = IF rows = {} THEN "ack" ELSE "remove"]
    BY DEF LoginQuery
  <1>3. /\ op'[c].pc = IF rows = {} THEN "ack" ELSE "remove"
        /\ op'[c].msg = op[c].msg /\ op'[c].local = op[c].local
        /\ op'[c].remote = op[c].remote /\ op'[c].rows = rows
        /\ \A d \in Conns \ {c} : op'[d] = op[d]
    BY <1>1, <1>2 DEF Handler
  <1>4. NoRemove
    BY <1>1, <1>3 DEF NoRemove
  <1>5. ASSUME NEW d \in Conns PROVE PairHandler(d)'
    <2>1. PairHandler(d)
      BY DEF Careful
    <2> QED
      BY <1>3, <2>1 DEF PairHandler
  <1>6. ASSUME NEW m \in PairMessages, NEW v \in Users PROVE Single(m, v)
    <2>1. ASSUME NEW d \in Conns PROVE InHand(d, m, v)' => InHand(d, m, v)
      BY <1>3 DEF InHand
    <2>2. ASSUME NEW d \in Conns, d # c PROVE ReadBy(d, m, v)' => ReadBy(d, m, v)
      BY <1>3, <2>2 DEF ReadBy
    <2>3. ASSUME NEW t, NewAt(t, m, v)
          PROVE  ReadBy(c, m, v)' /\ t = <<"read", c>>
      BY <1>1, <2>1, <2>2, <2>3 DEF NewAt, AtObserver, InboxAt, GotBy
    <2>4. CASE ~ReadBy(c, m, v)'
      BY <1>1, <1>4, <2>3, <2>4, NothingNewAt
    <2>5. CASE ReadBy(c, m, v)'
      <3>1. Owner[c] = v /\ m \in rows /\ rows # {} /\ op'[c].pc = "remove"
        BY <1>3, <2>5 DEF ReadBy
      <3>2. m \in offline[v]
        BY <1>2, <3>1
      <3>3. ASSUME NEW d \in Conns, ReadBy(d, m, v) PROVE FALSE
        <4>1. d # c
          BY <1>1, <3>3 DEF ReadBy
        <4>2. op[d].pc # "idle" /\ op[c].pc # "idle" /\ Owner[d] = Owner[c]
          BY <1>1, <3>1, <3>3 DEF ReadBy
        <4>3. d \in scene.conns /\ c \in scene.conns
          BY <4>2 DEF Careful, PresenceInv, Absent, At
        <4> QED
          BY <4>1, <4>2, <4>3 DEF Careful, OneConnectionEach
      <3>4. RowAt(m, v)
        BY <3>2, <3>3 DEF RowAt
      <3>5. ~RowAt(m, v)'
        BY <2>5, <3>1 DEF RowAt
      <3>6. CopyAt(<<"row">>, m, v) /\ ~CopyAt(<<"row">>, m, v)'
        BY <3>4, <3>5 DEF CopyAt
      <3> QED
        BY <1>1, <1>4, <2>3, <3>6, NewCopyMoves
    <2> QED
      BY <2>4, <2>5
  <1> QED
    BY <1>5, <1>6 DEF Once

LEMMA LoginRemoveOnce ==
    ASSUME Careful, NEW c \in Conns, LoginRemove(c), offline' = [offline EXCEPT ![Owner[c]] = {}]
    PROVE  Once
  <1>1. /\ UNCHANGED <<seqno, got, observer, inbox>> /\ op[c].pc = "remove" /\ Goto(c, "ack")
        /\ op \in [Conns -> Handler] /\ Owner[c] \in Users
        /\ offline \in [Users \cup {NoUser} -> SUBSET Messages]
    BY UsualTypes, ConstantsAssumption DEF LoginRemove, At, redisVars, Careful, ChatInv
  <1>2. /\ op'[c].pc = "ack" /\ op'[c].msg = op[c].msg /\ op'[c].local = op[c].local
        /\ op'[c].remote = op[c].remote /\ op'[c].rows = op[c].rows
        /\ \A d \in Conns \ {c} : op'[d] = op[d]
    BY <1>1, Goes DEF Places
  <1>3. ASSUME NEW d \in Conns PROVE PairHandler(d)'
    <2>1. PairHandler(d)
      BY DEF Careful
    <2> QED
      BY <1>2, <2>1 DEF PairHandler
  <1>4. ASSUME NEW m \in PairMessages, NEW v \in Users PROVE Single(m, v)
    <2>1. ASSUME NEW d \in Conns
          PROVE  /\ InHand(d, m, v)' => InHand(d, m, v)
                 /\ ReadBy(d, m, v)' <=> ReadBy(d, m, v)
      BY <1>1, <1>2 DEF InHand, ReadBy
    <2>2. RowAt(m, v)' => RowAt(m, v)
      <3>1. CASE v = Owner[c]
        BY <1>1, <3>1 DEF RowAt
      <3>2. CASE v # Owner[c]
        <4>1. offline'[v] = offline[v]
          BY <1>1, <3>2
        <4>2. \A d \in Conns : ReadBy(d, m, v) => op'[d] = op[d]
          BY <1>2, <3>2 DEF ReadBy
        <4> QED
          BY <2>1, <4>1, <4>2 DEF RowAt
      <3> QED
        BY <3>1, <3>2
    <2>3. \A t : CopyAt(t, m, v)' => CopyAt(t, m, v)
      BY <1>1, <2>1, <2>2 DEF CopyAt, GotBy, AtObserver, InboxAt
    <2> QED
      BY <1>1, <2>3, NothingNew
  <1> QED
    BY <1>3, <1>4 DEF Once

LEMMA LoginAckOnce ==
    ASSUME Careful, NEW c \in Conns, LoginAck(c)
    PROVE  Once
  <1>1. /\ UNCHANGED <<seqno, offline, observer, inbox>> /\ op[c].pc = "ack" /\ Return(c)
        /\ op \in [Conns -> Handler] /\ got \in [Conns -> SUBSET Messages]
        /\ got' = got \/ got' = [got EXCEPT ![c] = @ \cup op[c].rows]
    BY UsualTypes DEF LoginAck, At, redisVars, Careful, ChatInv
  <1>2. /\ op'[c] = NoHandler /\ HandStays(c) /\ \A d \in Conns \ {c} : op'[d] = op[d]
    BY <1>1, Returns, GoesIdle
  <1>3. NoRemove
    BY <1>1, <1>2 DEF NoRemove
  <1>4. \A d \in Conns : HandStays(d)
    BY <1>2, SameHand
  <1>5. ASSUME NEW m \in PairMessages, NEW v \in Users PROVE Single(m, v)
    <2>1. ASSUME NEW d \in Conns, GotBy(d, m, v)', ~GotBy(d, m, v)
          PROVE  d = c /\ ReadBy(c, m, v)
      <3>1. Owner[d] = v /\ m \in got'[d] /\ m \notin got[d]
        BY <2>1 DEF GotBy
      <3>2. d = c /\ m \in op[c].rows
        BY <1>1, <3>1
      <3> QED
        BY <1>1, <3>1, <3>2 DEF ReadBy
    <2>2. ASSUME NEW t, NewAt(t, m, v) PROVE ReadBy(c, m, v) /\ t = <<"got", c>>
      BY <1>1, <1>4, <2>1, <2>2 DEF NewAt, AtObserver, InboxAt, HandStays
    <2>3. CASE ~ReadBy(c, m, v)
      BY <1>1, <1>3, <2>2, <2>3, NothingNewAt
    <2>4. CASE ReadBy(c, m, v)
      <3>1. ~ReadBy(c, m, v)'
        BY <1>2, EmptyHandler
      <3>2. CopyAt(<<"read", c>>, m, v) /\ ~CopyAt(<<"read", c>>, m, v)'
        BY <2>4, <3>1 DEF CopyAt
      <3> QED
        BY <1>1, <1>3, <2>2, <3>2, NewCopyMoves
    <2> QED
      BY <2>3, <2>4
  <1>6. \A d \in Conns : PairHandler(d)'
    BY <1>4 DEF HandStays
  <1> QED
    BY <1>5, <1>6 DEF Once

\* What a login has read and not yet deleted stays in the table when its node ends.
LEMMA ProcessEndsOnce ==
    ASSUME Careful, NEW n \in Nodes, ProcessEnds(n)
    PROVE  Once
  <1>1. /\ UNCHANGED <<seqno, got, offline>>
        /\ \A d \in Conns : op'[d] = NoHandler \/ op'[d] = op[d]
        /\ \A d \in Conns : Home[d] # n => op'[d] = op[d]
        /\ \A d \in Conns : Home[d] = n => op'[d] = NoHandler
        /\ inbox'[n] = <<>>
        /\ \A k \in Nodes \ {n} : inbox'[k] = inbox[k] /\ observer'[k] = observer[k]
    BY ProcessEndsEffect DEF Careful, ChatInv
  <1>2. observer'[n] = NoObserver
    BY DEF ProcessEnds, Careful, ChatInv, TypeOK
  <1>3. Len(inbox'[n]) = 0
    BY <1>1
  <1>4. ASSUME NEW d \in Conns PROVE HandStays(d)
    <2>1. CASE op'[d] = NoHandler
      BY <2>1, EmptyHandler DEF HandStays
    <2>2. CASE op'[d] = op[d]
      BY <2>2, SameHand
    <2> QED
      BY <1>1, <2>1, <2>2
  <1>5. ASSUME NEW m \in PairMessages, NEW v \in Users PROVE Single(m, v)
    <2>1. m # NoObserver.msg
      BY PairMessage DEF NoObserver
    <2>2. ASSUME NEW k \in Nodes
          PROVE  /\ AtObserver(k, m, v)' => AtObserver(k, m, v)
                 /\ \A i : InboxAt(k, i, m, v)' => InboxAt(k, i, m, v)
      <3>1. CASE k = n
        BY <1>2, <1>3, <2>1, <3>1 DEF AtObserver, InboxAt
      <3>2. CASE k # n
        BY <1>1, <3>2 DEF AtObserver, InboxAt
      <3> QED
        BY <3>1, <3>2
    <2>3. ASSUME NEW t, CopyAt(t, m, v)'
          PROVE  CopyAt(t, m, v) \/ (t = <<"row">> /\ RowAt(m, v)' /\ ~RowAt(m, v))
      BY <1>1, <1>4, <2>2, <2>3 DEF CopyAt, GotBy, HandStays
    <2>4. CASE RowAt(m, v)' => RowAt(m, v)
      BY <1>1, <2>3, <2>4, NothingNew
    <2>5. CASE RowAt(m, v)' /\ ~RowAt(m, v)
      <3>1. PICK c \in Conns : ReadBy(c, m, v) /\ op[c].pc # "ack"
        BY <1>1, <2>5 DEF RowAt
      <3>2. op'[c] = NoHandler
        <4>1. op'[c] # op[c]
          BY <2>5, <3>1 DEF RowAt, ReadBy
        <4> QED
          BY <1>1, <4>1
      <3>3. ~ReadBy(c, m, v)'
        BY <3>2, EmptyHandler
      <3>4. CopyAt(<<"read", c>>, m, v) /\ ~CopyAt(<<"read", c>>, m, v)'
        BY <3>1, <3>3 DEF CopyAt
      <3>5. \A t : CopyAt(t, m, v)' => CopyAt(t, m, v) \/ t = <<"row">>
        BY <2>3
      <3> QED
        BY <1>1, <3>4, <3>5, CopyMoves
    <2> QED
      BY <2>4, <2>5
  <1>6. \A d \in Conns : PairHandler(d)'
    BY <1>4 DEF HandStays
  <1> QED
    BY <1>5, <1>6 DEF Once
-----------------------------------------------------------------------------
(* The chats *)

\* What the handler of a chat between two has in hand: the message, for one addressee.
LEMMA PairHand ==
    ASSUME Careful, NEW c \in Conns, op[c].msg \in PairMessages, op[c].pc \in ChatPlaces
    PROVE  /\ op[c].pc \notin {"members", "collect", "push"}
           /\ \A v : InHand(c, op[c].msg, v) => op[c].remote # <<>> /\ Head(op[c].remote) = v
           /\ op[c].remote # <<>> => /\ InHand(c, op[c].msg, Head(op[c].remote))
                                     /\ Head(op[c].remote) \in Users
                                     /\ Len(Tail(op[c].remote)) = 0
           /\ Len(op[c].local) = 0
  <1> DEFINE s == op[c].remote
  <1>1. /\ op[c].pc \notin {"members", "collect", "push"} /\ Len(s) =< 1
        /\ s \in Seq(Users) /\ op[c].local = <<>> /\ s = op[c].remote
    BY PairMessage, UsualTypes DEF Careful, PairHandler, ChatInv, HandlerOK, At, Handler
  <1>2. Len(op[c].local) = 0
    BY <1>1
  <1> HIDE DEF s
  <1>3. Len(s) \in Nat /\ (Len(s) = 0 => s = <<>>)
    BY <1>1, LenProperties, EmptySeq
  <1>4. ASSUME s # <<>>
        PROVE  Len(s) = 1 /\ Head(s) = s[1] /\ s[1] \in Users /\ Len(Tail(s)) = 0
    <2>1. Len(s) = 1
      <3>1. Len(s) # 0
        BY <1>3, <1>4
      <3>2. Len(s) =< 1 /\ Len(s) \in Nat
        BY <1>1, <1>3
      <3>3. \A k \in Nat : k # 0 /\ k =< 1 => k = 1
        OBVIOUS
      <3> QED
        BY <3>1, <3>2, <3>3
    <2>2. Head(s) = s[1] /\ Len(Tail(s)) = Len(s) - 1
      BY <1>1, <1>4, HeadTailProperties
    <2>3. s[1] \in Users
      BY <1>1, <2>1, ElementOfSeq
    <2> QED
      BY <2>1, <2>2, <2>3
  <1>5. ASSUME NEW v, InHand(c, op[c].msg, v) PROVE s # <<>> /\ Head(s) = v
    <2>1. PICK i \in 1..Len(s) : s[i] = v
      BY <1>1, <1>2, <1>5 DEF InHand
    <2>2. s # <<>>
      <3>1. s = <<>> => Len(s) = 0
        OBVIOUS
      <3> QED
        BY <2>1, <3>1
    <2>3. Len(s) = 1 /\ Head(s) = s[1]
      BY <1>4, <2>2
    <2>4. i = 1
      BY <2>1, <2>3
    <2> QED
      BY <2>1, <2>2, <2>3, <2>4
  <1>6. ASSUME s # <<>> PROVE InHand(c, op[c].msg, Head(s))
    <2>1. 1 \in 1..Len(s) /\ s[1] = Head(s)
      BY <1>4, <1>6
    <2> QED
      BY <1>1, <2>1 DEF InHand
  <1> QED
    BY <1>1, <1>2, <1>4, <1>5, <1>6

\* A new message is nowhere.
LEMMA OneChatOnce ==
    ASSUME Careful, NEW c \in Conns, NEW u \in Users, OneChat(c, u)
    PROVE  Once
  <1> DEFINE k == {Owner[c], u}
             to == <<u>>
             new == [conv |-> k, seq |-> seqno[k] + 1, from |-> Owner[c]]
  <1>1. /\ UNCHANGED <<offline, observer, inbox, got>> /\ op[c].pc = "idle"
        /\ op \in [Conns -> Handler] /\ seqno' = [seqno EXCEPT ![k] = @ + 1]
        /\ op' = [op EXCEPT ![c].pc = "lookup", ![c].remote = to, ![c].msg = new]
    BY UsualTypes DEF OneChat, TakeNumber, At, redisVars, Careful, ChatInv
  <1>2. /\ Owner[c] \in Users /\ k \in Pairs /\ k \in Conversations
        /\ seqno \in [Conversations -> 0..MaxSeq] /\ MaxSeq \in Nat
    BY ConstantsAssumption DEF Pairs, Conversations, Careful, ChatInv, TypeOK
  <1>3. new.conv = k /\ new.seq = seqno[k] + 1
    OBVIOUS
  <1>4. Len(to) = 1 /\ \A i \in 1..Len(to) : to[i] = u
    OBVIOUS
  <1> HIDE DEF k, to, new
  <1>5. /\ op'[c].pc = "lookup" /\ op'[c].msg = new /\ op'[c].remote = to
        /\ op'[c].local = op[c].local /\ \A d \in Conns \ {c} : op'[d] = op[d]
    BY <1>1 DEF Handler
  <1>6. NoRemove
    BY <1>1, <1>5 DEF NoRemove
  <1>7. Len(op'[c].local) = 0
    <2>1. op[c].local = <<>>
      BY <1>1 DEF Careful, ChatInv, HandlerOK, At
    <2> QED
      BY <1>5, <2>1
  <1>8. ASSUME NEW d \in Conns PROVE PairHandler(d)'
    <2>1. CASE d = c
      <3>1. Len(op'[c].remote) = 1 /\ op'[c].pc = "lookup"
        BY <1>4, <1>5
      <3> QED
        BY <2>1, <3>1 DEF PairHandler
    <2>2. CASE d # c
      BY <1>5, <2>2 DEF Careful, PairHandler
    <2> QED
      BY <2>1, <2>2
  <1>9. ASSUME NEW m \in PairMessages, NEW v \in Users PROVE Single(m, v)
    <2>1. /\ m.conv \in Conversations /\ m.seq \in Nat
          /\ seqno[m.conv] \in Nat /\ seqno'[m.conv] \in Nat /\ seqno'[m.conv] >= seqno[m.conv]
          /\ seqno'[k] = seqno[k] + 1 /\ seqno[k] \in Nat
      BY <1>1, <1>2 DEF PairMessages, Messages
    <2>2. OneCopy(m, v) /\ (Copies(m, v) # {} => m.seq =< seqno[m.conv])
      BY DEF Careful
    <2>3. ASSUME NEW t, CopyAt(t, m, v)'
          PROVE  CopyAt(t, m, v) \/ (m = new /\ t = <<"handler", c>>)
      <3>1. ASSUME NEW d \in Conns, InHand(d, m, v)', ~InHand(d, m, v) PROVE d = c /\ m = new
        BY <1>5, <3>1 DEF InHand
      <3>2. ASSUME NEW d \in Conns, ReadBy(d, m, v)' PROVE ReadBy(d, m, v)
        BY <1>5, <3>2 DEF ReadBy
      <3>3. CopyAt(t, m, v) \/ NewAt(t, m, v)
        BY <1>6, <2>3, OldOrNew
      <3>4. ASSUME NEW n \in Nodes, NEW i
            PROVE  /\ AtObserver(n, m, v)' => AtObserver(n, m, v)
                   /\ InboxAt(n, i, m, v)' => InboxAt(n, i, m, v)
        BY <1>1 DEF AtObserver, InboxAt
      <3>5. \A d \in Conns : GotBy(d, m, v)' => GotBy(d, m, v)
        BY <1>1 DEF GotBy
      <3> QED
        BY <1>1, <3>1, <3>2, <3>3, <3>4, <3>5 DEF NewAt
    <2>4. \A t : /\ t \in Copies(m, v) <=> CopyAt(t, m, v)
                 /\ t \in Copies(m, v)' <=> CopyAt(t, m, v)'
      BY CopiesNow, CopiesThen, Zenon DEF CopiesAreThere
    <2>5. CASE m # new
      <3>1. Copies(m, v)' \subseteq Copies(m, v)
        BY <2>3, <2>4, <2>5
      <3>2. OneCopy(m, v)' /\ (Copies(m, v)' # {} => Copies(m, v) # {})
        BY <2>2, <3>1 DEF OneCopy
      <3>3. Copies(m, v)' # {} => m.seq =< seqno'[m.conv]
        <4>1. m.seq =< seqno[m.conv] => m.seq =< seqno'[m.conv]
          BY <2>1
        <4> QED
          BY <2>2, <3>2, <4>1
      <3> QED
        BY <3>2, <3>3 DEF Single
    <2>6. CASE m = new
      <3>1. m.seq = seqno[m.conv] + 1 /\ m.conv = k
        BY <1>3, <2>6
      <3>2. Copies(m, v) = {}
        BY <2>1, <2>2, <3>1
      <3>3. Copies(m, v)' \subseteq {<<"handler", c>>}
        BY <2>3, <2>4, <3>2
      <3>4. OneCopy(m, v)'
        BY <3>3 DEF OneCopy
      <3>5. m.seq =< seqno'[m.conv]
        BY <2>1, <3>1
      <3> QED
        BY <3>4, <3>5 DEF Single
    <2> QED
      BY <2>5, <2>6
  <1> QED
    BY <1>8, <1>9 DEF Once

\* A step of a handler that has the message of a group in hand, or will have it.
LEMMA OtherMessage ==
    ASSUME Careful, NEW c \in Conns, \A d \in Conns \ {c} : op'[d] = op[d],
           op[c].pc # "remove", op'[c].pc \notin {"remove", "ack"}, op'[c].msg.conv \notin Pairs,
           UNCHANGED <<offline, observer, inbox>>,
           \A k \in Pairs : seqno'[k] = seqno[k],
           \A d \in Conns : \A m : m \in got'[d] /\ m \notin got[d] => m.conv \notin Pairs
    PROVE  Once
  <1>1. NoRemove
    BY DEF NoRemove
  <1>2. ASSUME NEW d \in Conns PROVE HandStays(d)
    <2>1. CASE d = c
      <3>1. PairHandler(c)' /\ \A m \in PairMessages, v \in Users :
                                  ~ReadBy(c, m, v)' /\ ~InHand(c, m, v)'
        BY PairMessage DEF PairHandler, ReadBy, InHand
      <3> QED
        BY <2>1, <3>1 DEF HandStays
    <2>2. CASE d # c
      BY <2>2, SameHand
    <2> QED
      BY <2>1, <2>2
  <1>3. ASSUME NEW m \in PairMessages, NEW v \in Users PROVE Single(m, v)
    <2>1. m.conv \in Pairs
      BY PairMessage
    <2>2. \A d \in Conns : GotBy(d, m, v)' => GotBy(d, m, v)
      BY <2>1 DEF GotBy
    <2>3. ASSUME NEW n \in Nodes, NEW i
          PROVE  /\ AtObserver(n, m, v)' => AtObserver(n, m, v)
                 /\ InboxAt(n, i, m, v)' => InboxAt(n, i, m, v)
      BY DEF AtObserver, InboxAt
    <2>4. \A t : ~NewAt(t, m, v)
      BY <1>2, <2>2, <2>3 DEF NewAt, HandStays
    <2> QED
      BY <1>1, <2>1, <2>4, NothingNewAt
  <1>4. \A d \in Conns : PairHandler(d)'
    BY <1>2 DEF HandStays
  <1> QED
    BY <1>3, <1>4 DEF Once

LEMMA GroupChatOnce ==
    ASSUME Careful, NEW c \in Conns, NEW g \in Groups, GroupChat(c, g)
    PROVE  Once
  <1> DEFINE none == <<>>
             new == [conv |-> g, seq |-> seqno[g] + 1, from |-> Owner[c]]
  <1>1. /\ UNCHANGED <<offline, observer, inbox, got>> /\ op[c].pc = "idle"
        /\ op \in [Conns -> Handler] /\ seqno' = [seqno EXCEPT ![g] = @ + 1]
        /\ op' = [op EXCEPT ![c].pc = "members", ![c].remote = none, ![c].msg = new]
    BY UsualTypes DEF GroupChat, TakeNumber, At, redisVars, Careful, ChatInv
  <1>2. new.conv = g
    OBVIOUS
  <1> HIDE DEF none, new
  <1>3. g \notin Pairs
    BY ConstantsAssumption DEF Pairs
  <1>4. /\ op'[c].pc = "members" /\ op'[c].msg = new /\ \A d \in Conns \ {c} : op'[d] = op[d]
    BY <1>1 DEF Handler
  <1>5. seqno \in [Conversations -> 0..MaxSeq]
    BY DEF Careful, ChatInv, TypeOK
  <1>6. \A k \in Pairs : seqno'[k] = seqno[k]
    BY <1>1, <1>3, <1>5 DEF Conversations
  <1> QED
    BY <1>1, <1>2, <1>3, <1>4, <1>6, OtherMessage

LEMMA GroupOnce ==
    ASSUME Careful, NEW c \in Conns, GroupMembers(c) \/ GroupCollect(c) \/ GroupPush(c)
    PROVE  Once
  <1>1. /\ UNCHANGED <<seqno, offline, observer, inbox>>
        /\ op[c].pc \in {"members", "collect", "push"}
        /\ op \in [Conns -> Handler] /\ HandlerOK(c) /\ PairHandler(c)
    BY UsualTypes DEF GroupMembers, GroupCollect, GroupPush, At, redisVars, Careful, ChatInv
  <1>2. op[c].msg.conv \notin Pairs /\ op[c].msg \in Messages
    BY <1>1 DEF PairHandler, HandlerOK, ChatPlaces
  <1>3. CASE Return(c) /\ UNCHANGED got
    BY <1>1, <1>3, OneHandMoves
  <1>4. CASE GroupMembers(c)
    <2>1. UNCHANGED got
      BY <1>4 DEF GroupMembers
    <2>2. Return(c) \/ \E r : op' = [op EXCEPT ![c].pc = "collect", ![c].remote = r]
      BY <1>4 DEF GroupMembers
    <2>3. ASSUME NEW r, op' = [op EXCEPT ![c].pc = "collect", ![c].remote = r] PROVE Once
      <3>1. /\ op'[c].pc = "collect" /\ op'[c].msg = op[c].msg
            /\ \A d \in Conns \ {c} : op'[d] = op[d]
        BY <1>1, <2>3 DEF Handler
      <3> QED
        BY <1>1, <1>2, <2>1, <3>1, OtherMessage
    <2> QED
      BY <1>3, <2>1, <2>2, <2>3
  <1>5. CASE GroupCollect(c)
    <2>1. /\ UNCHANGED got
          /\ \E l, r : op' = [op EXCEPT ![c].pc = "push", ![c].local = l, ![c].remote = r]
      BY <1>5 DEF GroupCollect
    <2>2. PICK l, r : op' = [op EXCEPT ![c].pc = "push", ![c].local = l, ![c].remote = r]
      BY <2>1
    <2>3. op'[c].pc = "push" /\ op'[c].msg = op[c].msg /\ \A d \in Conns \ {c} : op'[d] = op[d]
      BY <1>1, <2>2 DEF Handler
    <2> QED
      BY <1>1, <1>2, <2>1, <2>3, OtherMessage
  <1>6. CASE GroupPush(c)
    <2>1. CASE op[c].local = <<>>
      BY <1>1, <1>6, <2>1, OneHandMoves DEF GroupPush, Plain, Places
    <2>2. CASE op[c].local # <<>>
      <3>1. PICK l : op' = [op EXCEPT ![c].local = l]
        BY <1>6, <2>2 DEF GroupPush
      <3>2. /\ op'[c].pc = op[c].pc /\ op'[c].msg = op[c].msg
            /\ \A d \in Conns \ {c} : op'[d] = op[d]
        BY <1>1, <3>1 DEF Handler
      <3>3. PICK t \in Conns : Send(t, op[c].msg)
        BY <1>6, <2>2, FirstLocal DEF GroupPush, Careful
      <3>4. \A d \in Conns : \A m : m \in got'[d] /\ m \notin got[d] => m = op[c].msg
        BY <1>2, <3>3, SendEffect DEF Careful, ChatInv
      <3> QED
        BY <1>1, <1>2, <3>2, <3>4, OtherMessage
    <2> QED
      BY <2>1, <2>2
  <1> QED
    BY <1>4, <1>5, <1>6

LEMMA ChatLookupOnce ==
    ASSUME Careful, NEW c \in Conns, ChatLookup(c)
    PROVE  Once
  <1> DEFINE u == Head(op[c].remote)
             t == connMap[Home[c]][u]
             x == op[c].msg
  <1>1. /\ UNCHANGED <<seqno, offline, observer, inbox>> /\ op[c].pc = "lookup"
        /\ op \in [Conns -> Handler] /\ HandlerOK(c) /\ op[c].pc \in ChatPlaces
    BY UsualTypes DEF ChatLookup, At, redisVars, Careful, ChatInv, ChatPlaces
  <1>2. CASE t = NoConn
    BY <1>1, <1>2, OneHandMoves DEF ChatLookup, Plain, Places
  <1>3. CASE t # NoConn
    <2>1. op[c].remote # <<>> /\ x \in Messages
      <3>1. Len(op[c].remote) = 1 /\ x \in Messages
        BY <1>1 DEF HandlerOK, At
      <3>2. op[c].remote = <<>> => Len(op[c].remote) = 0
        OBVIOUS
      <3> QED
        BY <3>1, <3>2
    <2>2. u \in Users /\ Home[c] \in Nodes
      BY <1>1, <2>1, FirstAddressee, ConstantsAssumption DEF Careful, ChatInv
    <2>3. Send(t, x) /\ Return(c)
      BY <1>3 DEF ChatLookup
    <2>4. t \in Conns /\ Owner[t] = u
      BY <1>3, <2>2, Found DEF Careful
    <2>5. x \in PairMessages => InHand(c, x, u)
      BY <1>1, <2>1, PairHand
    <2>6. x = op[c].msg
      OBVIOUS
    <2> HIDE DEF u, t, x
    <2>7. \A d \in Conns : \A m : m \in got'[d] /\ m \notin got[d] => d = t /\ m = x
      BY <2>1, <2>3, <2>4, SendEffect DEF Careful, ChatInv
    <2>8. op'[c] = NoHandler /\ HandStays(c) /\ \A d \in Conns \ {c} : op'[d] = op[d]
      BY <1>1, <2>3, Returns, GoesIdle
    <2>9. NoRemove
      BY <1>1, <2>8 DEF NoRemove
    <2>10. \A d \in Conns : HandStays(d)
      BY <2>8, SameHand
    <2>11. ASSUME NEW m \in PairMessages, NEW v \in Users PROVE Single(m, v)
      <3>1. ASSUME NEW d \in Conns, GotBy(d, m, v)', ~GotBy(d, m, v)
            PROVE  d = t /\ m = x /\ v = u
        BY <2>4, <2>7, <3>1 DEF GotBy
      <3>2. ASSUME NEW n \in Nodes, NEW i
            PROVE  /\ AtObserver(n, m, v)' => AtObserver(n, m, v)
                   /\ InboxAt(n, i, m, v)' => InboxAt(n, i, m, v)
        BY <1>1 DEF AtObserver, InboxAt
      <3>3. ASSUME NEW s, NewAt(s, m, v) PROVE m = x /\ v = u /\ s = <<"got", t>>
        BY <1>1, <2>10, <3>1, <3>2, <3>3 DEF NewAt, HandStays
      <3>4. CASE ~(m = x /\ v = u)
        BY <1>1, <2>9, <3>3, <3>4, NothingNewAt
      <3>5. CASE m = x /\ v = u
        <4>1. InHand(c, m, v) /\ ~InHand(c, m, v)'
          BY <2>5, <2>8, <3>5, EmptyHandler
        <4>2. CopyAt(<<"handler", c>>, m, v) /\ ~CopyAt(<<"handler", c>>, m, v)'
          BY <4>1 DEF CopyAt
        <4> QED
          BY <1>1, <2>9, <3>3, <4>2, NewCopyMoves
      <3> QED
        BY <3>4, <3>5
    <2>12. \A d \in Conns : PairHandler(d)'
      BY <2>10 DEF HandStays
    <2> QED
      BY <2>11, <2>12 DEF Once
  <1> QED
    BY <1>2, <1>3

\* The first addressee has been seen to: the handler of a chat between two has nobody left.
LEMMA NextOnce ==
    ASSUME Careful, NEW c \in Conns, op[c].pc \in {"publish", "store"}, NextRemote(c)
    PROVE  /\ NoRemove /\ \A d \in Conns : HandStays(d)
           /\ \A m \in PairMessages, v \in Users : ~InHand(c, m, v)'
           /\ op[c].remote # <<>> /\ op[c].msg \in Messages /\ Head(op[c].remote) \in Users
           /\ op[c].msg \in PairMessages => InHand(c, op[c].msg, Head(op[c].remote))
  <1>1. /\ op'[c].pc = "status" /\ op'[c].msg = op[c].msg /\ op'[c].local = op[c].local
        /\ op'[c].remote = Tail(op[c].remote) /\ \A d \in Conns \ {c} : op'[d] = op[d]
    BY NextRemoteEffect DEF Careful
  <1>2. op[c].pc \in ChatPlaces /\ HandlerOK(c) /\ op[c].remote # <<>>
    BY DEF Careful, ChatInv, HandlerOK, ChatPlaces
  <1>3. op[c].msg \in Messages /\ Head(op[c].remote) \in Users
    BY <1>2, FirstAddressee DEF Careful, ChatInv
  <1>4. op[c].msg \in PairMessages =>
           /\ InHand(c, op[c].msg, Head(op[c].remote))
           /\ Len(op'[c].remote) = 0 /\ Len(op'[c].local) = 0
    BY <1>1, <1>2, PairHand
  <1>5. \A m \in PairMessages, v \in Users : ~InHand(c, m, v)'
    BY <1>1, <1>4 DEF InHand
  <1>6. HandStays(c)
    <2>1. PairHandler(c)'
      <3>1. CASE op[c].msg.conv \in Pairs
        <4>1. op[c].msg \in PairMessages
          BY <1>3, <3>1 DEF PairMessages
        <4>2. Len(op'[c].remote) = 0 /\ op'[c].pc = "status"
          BY <1>1, <1>4, <4>1
        <4> QED
          BY <4>2 DEF PairHandler
      <3> QED
        BY <1>1, <3>1 DEF PairHandler
    <2>2. \A m, v : ~ReadBy(c, m, v)'
      BY <1>1 DEF ReadBy
    <2> QED
      BY <1>5, <2>1, <2>2 DEF HandStays
  <1>7. \A d \in Conns : HandStays(d)
    BY <1>1, <1>6, SameHand
  <1>8. NoRemove
    BY <1>1 DEF NoRemove
  <1> QED
    BY <1>2, <1>3, <1>4, <1>5, <1>7, <1>8

LEMMA StoreOnce ==
    ASSUME Careful, NEW c \in Conns, Store(c), UNCHANGED faults,
           offline' = [offline EXCEPT ![Head(op[c].remote)] = @ \cup {op[c].msg}]
    PROVE  Once
  <1> DEFINE u == Head(op[c].remote)
             x == op[c].msg
  <1>1. /\ UNCHANGED <<seqno, got, observer, inbox>> /\ op[c].pc = "store" /\ NextRemote(c)
        /\ offline \in [Users \cup {NoUser} -> SUBSET Messages]
    BY UsualTypes DEF Store, At, redisVars, Careful, ChatInv
  <1>2. /\ NoRemove /\ \A d \in Conns : HandStays(d)
        /\ \A m \in PairMessages, v \in Users : ~InHand(c, m, v)'
        /\ u \in Users /\ x \in PairMessages => InHand(c, x, u)
    BY <1>1, NextOnce
  <1>3. offline' = [offline EXCEPT ![u] = @ \cup {x}]
    OBVIOUS
  <1> HIDE DEF u, x
  <1>4. ASSUME NEW m \in PairMessages, NEW v \in Users PROVE Single(m, v)
    <2>1. ASSUME m \in offline'[v], m \notin offline[v] PROVE m = x /\ v = u
      BY <1>1, <1>3, <2>1
    <2>2. ASSUME NEW n \in Nodes, NEW i
          PROVE  /\ AtObserver(n, m, v)' => AtObserver(n, m, v)
                 /\ InboxAt(n, i, m, v)' => InboxAt(n, i, m, v)
      BY <1>1 DEF AtObserver, InboxAt
    <2>3. \A d \in Conns : GotBy(d, m, v)' => GotBy(d, m, v)
      BY <1>1 DEF GotBy
    <2>4. ASSUME NEW s, NewAt(s, m, v) PROVE m = x /\ v = u /\ s = <<"row">>
      BY <1>2, <2>1, <2>2, <2>3, <2>4 DEF NewAt, HandStays
    <2>5. CASE ~(m = x /\ v = u)
      BY <1>1, <1>2, <2>4, <2>5, NothingNewAt
    <2>6. CASE m = x /\ v = u
      <3>1. InHand(c, m, v) /\ ~InHand(c, m, v)'
        BY <1>2, <2>6
      <3>2. CopyAt(<<"handler", c>>, m, v) /\ ~CopyAt(<<"handler", c>>, m, v)'
        BY <3>1 DEF CopyAt
      <3> QED
        BY <1>1, <1>2, <2>4, <3>2, NewCopyMoves
    <2> QED
      BY <2>5, <2>6
  <1>5. \A d \in Conns : PairHandler(d)'
    BY <1>2 DEF HandStays
  <1> QED
    BY <1>4, <1>5 DEF Once

\* What Redis adds to an inbox.
LEMMA ForwardNew ==
    ASSUME ChatInv, NEW u \in Users, NEW x \in Messages, Forward(u, x), NEW n \in Nodes,
           NEW i, NEW m, NEW v, InboxAt(n, i, m, v)', ~InboxAt(n, i, m, v)
    PROVE  u \in subs[n] /\ i = Len(inbox[n]) + 1 /\ m = x /\ v = u
  <1> DEFINE s == inbox[n]
             e == <<u, x>>
  <1>1. s \in Seq(Users \X Messages) /\ e \in Users \X Messages
    BY DEF ChatInv, TypeOK
  <1>2. inbox'[n] = IF u \in subs[n] THEN Append(s, e) ELSE s
    BY DEF Forward
  <1>3. e = <<u, x>> /\ s = inbox[n]
    OBVIOUS
  <1> HIDE DEF s, e
  <1>4. /\ Len(Append(s, e)) = Len(s) + 1 /\ Len(s) \in Nat /\ Append(s, e)[Len(s) + 1] = e
        /\ \A j \in 1..Len(s) : Append(s, e)[j] = s[j]
    BY <1>1, AppendProperties, LenProperties
  <1>5. u \in subs[n]
    BY <1>2, <1>3 DEF InboxAt
  <1>6. i \in 1..(Len(s) + 1) /\ Append(s, e)[i] = <<v, m>>
    BY <1>2, <1>4, <1>5 DEF InboxAt
  <1>7. i \notin 1..Len(s)
    BY <1>3, <1>4, <1>6 DEF InboxAt
  <1>8. i = Len(s) + 1
    BY <1>4, <1>6, <1>7
  <1>9. e = <<v, m>>
    BY <1>4, <1>6, <1>8
  <1> QED
    BY <1>3, <1>5, <1>8, <1>9

\* No two nodes are subscribed to the channel of a user who has one connection.
LEMMA OneSubscribed ==
    ASSUME Careful, NEW u, NEW n \in Nodes, NEW k \in Nodes, u \in subs[n], u \in subs[k]
    PROVE  n = k
  <1>1. u \in ItsUsers(n) /\ u \in ItsUsers(k)
    BY DEF Careful, PresenceInv, ChannelsAt
  <1>2. PICK c \in scene.conns : Home[c] = n /\ Owner[c] = u
    BY <1>1 DEF ItsUsers
  <1>3. PICK d \in scene.conns : Home[d] = k /\ Owner[d] = u
    BY <1>1 DEF ItsUsers
  <1> QED
    BY <1>2, <1>3 DEF Careful, OneConnectionEach

LEMMA PublishOnce ==
    ASSUME Careful, NEW c \in Conns, Publish(c)
    PROVE  Once
  <1> DEFINE u == Head(op[c].remote)
             x == op[c].msg
  <1>1. /\ UNCHANGED <<seqno, got, observer, offline>> /\ op[c].pc = "publish" /\ NextRemote(c)
        /\ Forward(u, x)
    BY DEF Publish, At, Forward
  <1>2. /\ NoRemove /\ \A d \in Conns : HandStays(d)
        /\ \A m \in PairMessages, v \in Users : ~InHand(c, m, v)'
        /\ u \in Users /\ x \in Messages
    BY <1>1, NextOnce
  <1>3. x \in PairMessages => InHand(c, x, u)
    BY <1>1, NextOnce
  <1> HIDE DEF u, x
  <1>4. ASSUME NEW m \in PairMessages, NEW v \in Users PROVE Single(m, v)
    <2>1. ASSUME NEW n \in Nodes, NEW i, InboxAt(n, i, m, v)', ~InboxAt(n, i, m, v)
          PROVE  u \in subs[n] /\ i = Len(inbox[n]) + 1 /\ m = x /\ v = u
      BY <1>1, <1>2, <2>1, ForwardNew DEF Careful
    <2>2. \A n \in Nodes : AtObserver(n, m, v)' => AtObserver(n, m, v)
      BY <1>1 DEF AtObserver
    <2>3. \A d \in Conns : GotBy(d, m, v)' => GotBy(d, m, v)
      BY <1>1 DEF GotBy
    <2>4. ASSUME NEW s, NewAt(s, m, v)
          PROVE  m = x /\ v = u /\ \E n \in Nodes : /\ u \in subs[n]
                                                    /\ s = <<"inbox", n, Len(inbox[n]) + 1>>
      BY <1>1, <1>2, <2>1, <2>2, <2>3, <2>4 DEF NewAt, HandStays
    <2>5. CASE ~(m = x /\ v = u /\ \E n \in Nodes : u \in subs[n])
      BY <1>1, <1>2, <2>4, <2>5, NothingNewAt
    <2>6. CASE m = x /\ v = u /\ \E n \in Nodes : u \in subs[n]
      <3>1. PICK n \in Nodes : u \in subs[n]
        BY <2>6
      <3>2. InHand(c, m, v) /\ ~InHand(c, m, v)'
        BY <1>2, <1>3, <2>6
      <3>3. CopyAt(<<"handler", c>>, m, v) /\ ~CopyAt(<<"handler", c>>, m, v)'
        BY <3>2 DEF CopyAt
      <3>4. \A s : NewAt(s, m, v) => s = <<"inbox", n, Len(inbox[n]) + 1>>
        BY <2>4, <3>1, OneSubscribed
      <3> QED
        BY <1>1, <1>2, <3>3, <3>4, NewCopyMoves
    <2> QED
      BY <2>5, <2>6
  <1>5. \A d \in Conns : PairHandler(d)'
    BY <1>2 DEF HandStays
  <1> QED
    BY <1>4, <1>5 DEF Once
-----------------------------------------------------------------------------
(* The observer *)

LEMMA ObserverTakesOnce ==
    ASSUME Careful, NEW n \in Nodes, ObserverTakes(n)
    PROVE  Once
  <1> DEFINE s == inbox[n]
             w == Head(s)[1]
             x == Head(s)[2]
             o == [pc |-> "lookup", user |-> ElementInteger(w), msg |-> x, conn |-> NoConn]
  <1>1. /\ UNCHANGED <<seqno, op, offline, got>> /\ s # <<>>
        /\ inbox' = [inbox EXCEPT ![n] = Tail(s)]
        /\ observer' = [observer EXCEPT ![n] = o] /\ TypeOK
    BY DEF ObserverTakes, Careful, ChatInv
  <1>2. s \in Seq(Users \X Messages) /\ s = inbox[n]
    BY <1>1 DEF TypeOK
  <1>3. w = Head(s)[1] /\ x = Head(s)[2] /\ o.user = ElementInteger(w) /\ o.msg = x
    OBVIOUS
  <1> HIDE DEF s, w, x, o
  <1>4. /\ observer'[n] = o /\ inbox'[n] = Tail(s)
        /\ \A k \in Nodes \ {n} : inbox'[k] = inbox[k] /\ observer'[k] = observer[k]
    BY <1>1 DEF TypeOK
  <1>5. /\ Len(s) \in Nat /\ Len(s) >= 1 /\ Head(s) = s[1] /\ s[1] \in Users \X Messages
        /\ Len(Tail(s)) = Len(s) - 1
        /\ \A i \in 1..Len(Tail(s)) : Tail(s)[i] = s[i + 1]
    BY <1>1, <1>2, HeadTailProperties, EmptySeq, LenProperties, ElementOfSeq
  <1>6. w \in Users /\ x \in Messages /\ s[1] = <<w, x>>
    BY <1>3, <1>5
  <1>7. ElementInteger(w) \in {w, NoUser} /\ NoUser \notin Users
    BY <1>6, ConstantsAssumption DEF ElementInteger
  <1>8. NoRemove
    BY <1>1 DEF NoRemove
  <1>9. ASSUME NEW m \in PairMessages, NEW v \in Users PROVE Single(m, v)
    <2>1. AtObserver(n, m, v)' => InboxAt(n, 1, m, v)
      <3>1. ASSUME AtObserver(n, m, v)' PROVE m = x /\ v = w
        BY <1>3, <1>4, <1>7, <3>1 DEF AtObserver
      <3>2. 1 \in 1..Len(s)
        BY <1>5
      <3> QED
        BY <1>2, <1>6, <3>1, <3>2 DEF InboxAt
    <2>2. ASSUME NEW i, InboxAt(n, i, m, v)' PROVE InboxAt(n, i + 1, m, v) /\ i + 1 # 1 /\ i \in Nat
      <3>1. i \in 1..Len(Tail(s)) /\ Tail(s)[i] = <<v, m>>
        BY <1>4, <2>2 DEF InboxAt
      <3>2. i + 1 \in 1..Len(s) /\ i + 1 # 1 /\ i \in Nat
        BY <1>5, <3>1
      <3>3. s[i + 1] = <<v, m>>
        BY <1>5, <3>1
      <3> QED
        BY <1>2, <3>2, <3>3 DEF InboxAt
    <2>3. \A k \in Nodes \ {n} : /\ AtObserver(k, m, v)' => AtObserver(k, m, v)
                                 /\ \A i : InboxAt(k, i, m, v)' => InboxAt(k, i, m, v)
      BY <1>4 DEF InboxAt, AtObserver
    <2>4. \A d \in Conns : /\ GotBy(d, m, v)' => GotBy(d, m, v)
                           /\ ReadBy(d, m, v)' => ReadBy(d, m, v)
                           /\ InHand(d, m, v)' => InHand(d, m, v)
      BY <1>1 DEF GotBy, ReadBy, InHand
    <2>5. RowAt(m, v)' => RowAt(m, v)
      BY <1>1 DEF RowAt, ReadBy
    <2>6. ASSUME NEW t, CopyAt(t, m, v)'
          PROVE  \/ CopyAt(t, m, v) /\ \A i : t # <<"inbox", n, i>>
                 \/ t = <<"observer", n>> /\ AtObserver(n, m, v)'
                 \/ \E i : t = <<"inbox", n, i>> /\ InboxAt(n, i, m, v)'
      BY <2>3, <2>4, <2>5, <2>6 DEF CopyAt
    <2>7. CASE \A i : ~InboxAt(n, i, m, v)
      <3>1. \A t : CopyAt(t, m, v)' => CopyAt(t, m, v)
        BY <2>1, <2>2, <2>6, <2>7
      <3> QED
        BY <1>1, <3>1, NothingNew
    <2>8. ASSUME NEW j, InboxAt(n, j, m, v) PROVE Single(m, v)
      <3> DEFINE a == <<"inbox", n, j>>
                 b == IF j = 1 THEN <<"observer", n>> ELSE <<"inbox", n, j - 1>>
      <3>1. CopyAt(a, m, v)
        BY <2>8 DEF CopyAt
      <3>2. ASSUME NEW i, InboxAt(n, i, m, v) PROVE i = j
        <4>1. CopyAt(<<"inbox", n, i>>, m, v)
          BY <3>2 DEF CopyAt
        <4>2. <<"inbox", n, i>> = a
          BY <3>1, <4>1, OnlyOne
        <4> QED
          BY <4>2
      <3>3. ASSUME NEW t, CopyAt(t, m, v)' PROVE t = b
        <4>1. CASE CopyAt(t, m, v) /\ \A i : t # <<"inbox", n, i>>
          BY <3>1, <4>1, OnlyOne
        <4>2. CASE t = <<"observer", n>> /\ AtObserver(n, m, v)'
          BY <2>1, <3>2, <4>2
        <4>3. CASE \E i : t = <<"inbox", n, i>> /\ InboxAt(n, i, m, v)'
          <5>1. PICK i : t = <<"inbox", n, i>> /\ InboxAt(n, i, m, v)'
            BY <4>3
          <5>2. i + 1 = j /\ i + 1 # 1 /\ i \in Nat
            BY <2>2, <3>2, <5>1
          <5>3. j # 1 /\ j - 1 = i
            BY <5>2
          <5> QED
            BY <5>1, <5>3
        <4> QED
          BY <2>6, <3>3, <4>1, <4>2, <4>3
      <3> HIDE DEF a, b
      <3> QED
        BY <1>1, <3>1, <3>3, AllMove
    <2> QED
      BY <2>7, <2>8
  <1>10. \A d \in Conns : PairHandler(d)'
    BY <1>1, SameHand DEF HandStays
  <1> QED
    BY <1>9, <1>10 DEF Once

LEMMA ObserverLooksUpOnce ==
    ASSUME Careful, NEW n \in Nodes, ObserverLooksUp(n)
    PROVE  Once
  <1>1. /\ UNCHANGED <<seqno, op, offline, got, inbox>> /\ TypeOK
        /\ \E p, t : observer' = [observer EXCEPT ![n].pc = p, ![n].conn = t]
    BY DEF ObserverLooksUp, Careful, ChatInv
  <1>2. PICK p, t : observer' = [observer EXCEPT ![n].pc = p, ![n].conn = t]
    BY <1>1
  <1>3. \A k \in Nodes : observer'[k].msg = observer[k].msg /\ observer'[k].user = observer[k].user
    BY <1>1, <1>2 DEF TypeOK, Observer
  <1>4. \A d \in Conns : HandStays(d)
    BY <1>1, SameHand
  <1>5. NoRemove
    BY <1>1 DEF NoRemove
  <1>6. ASSUME NEW m \in PairMessages, NEW v \in Users PROVE Single(m, v)
    <2>1. ASSUME NEW k \in Nodes, NEW i
          PROVE  /\ AtObserver(k, m, v)' => AtObserver(k, m, v)
                 /\ InboxAt(k, i, m, v)' => InboxAt(k, i, m, v)
      BY <1>1, <1>3 DEF AtObserver, InboxAt
    <2>2. \A d \in Conns : GotBy(d, m, v)' => GotBy(d, m, v)
      BY <1>1 DEF GotBy
    <2>3. \A t1 : ~NewAt(t1, m, v)
      BY <1>1, <1>4, <2>1, <2>2 DEF NewAt, HandStays
    <2> QED
      BY <1>1, <1>5, <2>3, NothingNewAt
  <1>7. \A d \in Conns : PairHandler(d)'
    BY <1>4 DEF HandStays
  <1> QED
    BY <1>6, <1>7 DEF Once

\* The observer is done with a message; what it had in hand is with b, if anywhere new.
LEMMA ObserverDone ==
    ASSUME Careful, NEW n \in Nodes, UNCHANGED <<seqno, op, inbox>>,
           observer' = [observer EXCEPT ![n] = NoObserver], NEW b,
           \A m \in PairMessages, v \in Users :
              /\ m \in offline'[v] /\ m \notin offline[v] =>
                    AtObserver(n, m, v) /\ b = <<"row">>
              /\ \A d \in Conns : GotBy(d, m, v)' /\ ~GotBy(d, m, v) =>
                    AtObserver(n, m, v) /\ b = <<"got", d>>
    PROVE  Once
  <1>1. /\ observer'[n] = NoObserver /\ \A k \in Nodes \ {n} : observer'[k] = observer[k]
    BY ObserverIsIdle DEF Careful, ChatInv
  <1>2. \A d \in Conns : HandStays(d)
    BY SameHand
  <1>3. NoRemove
    BY DEF NoRemove
  <1>4. ASSUME NEW m \in PairMessages, NEW v \in Users PROVE Single(m, v)
    <2>1. ~AtObserver(n, m, v)'
      BY <1>1, PairMessage DEF AtObserver, NoObserver
    <2>2. ASSUME NEW k \in Nodes, NEW i
          PROVE  /\ AtObserver(k, m, v)' => AtObserver(k, m, v)
                 /\ InboxAt(k, i, m, v)' => InboxAt(k, i, m, v)
      <3>1. CASE k = n
        BY <2>1, <3>1 DEF InboxAt
      <3>2. CASE k # n
        BY <1>1, <3>2 DEF AtObserver, InboxAt
      <3> QED
        BY <3>1, <3>2
    <2>3. ASSUME NEW s, NewAt(s, m, v) PROVE AtObserver(n, m, v) /\ s = b
      BY <1>2, <2>2, <2>3 DEF NewAt, HandStays
    <2>4. CASE ~AtObserver(n, m, v)
      BY <1>3, <2>3, <2>4, NothingNewAt
    <2>5. CASE AtObserver(n, m, v)
      <3>1. CopyAt(<<"observer", n>>, m, v) /\ ~CopyAt(<<"observer", n>>, m, v)'
        BY <2>1, <2>5 DEF CopyAt
      <3> QED
        BY <1>3, <2>3, <3>1, NewCopyMoves
    <2> QED
      BY <2>4, <2>5
  <1>5. \A d \in Conns : PairHandler(d)'
    BY <1>2 DEF HandStays
  <1> QED
    BY <1>4, <1>5 DEF Once

LEMMA ObserverSendsOnce ==
    ASSUME Careful, NEW n \in Nodes, ObserverSends(n)
    PROVE  Once
  <1> DEFINE t == observer[n].conn
             x == observer[n].msg
  <1>1. /\ UNCHANGED <<seqno, op, offline, inbox>> /\ observer[n].pc = "send"
        /\ Send(t, x) /\ observer' = [observer EXCEPT ![n] = NoObserver]
    BY DEF ObserverSends
  <1>2. t \in Conns /\ x \in Messages /\ Owner[t] = observer[n].user
    BY <1>1 DEF Careful, ChatInv, ObserverOK
  <1>3. x = observer[n].msg
    OBVIOUS
  <1> HIDE DEF t, x
  <1>4. \A d \in Conns : \A m : m \in got'[d] /\ m \notin got[d] => d = t /\ m = x
    BY <1>1, <1>2, SendEffect DEF Careful, ChatInv
  <1>5. \A m \in PairMessages, v \in Users : \A d \in Conns :
           GotBy(d, m, v)' /\ ~GotBy(d, m, v) => AtObserver(n, m, v) /\ <<"got", t>> = <<"got", d>>
    BY <1>2, <1>3, <1>4 DEF GotBy, AtObserver
  <1> QED
    BY <1>1, <1>5, ObserverDone

LEMMA ObserverStoresOnce ==
    ASSUME Careful, NEW n \in Nodes, ObserverStores(n), UNCHANGED faults,
           offline' = [offline EXCEPT ![observer[n].user] = @ \cup {observer[n].msg}]
    PROVE  Once
  <1>1. /\ UNCHANGED <<seqno, op, got, inbox>> /\ observer' = [observer EXCEPT ![n] = NoObserver]
        /\ offline \in [Users \cup {NoUser} -> SUBSET Messages]
    BY UsualTypes DEF ObserverStores, Careful, ChatInv
  <1>2. \A m \in PairMessages, v \in Users :
           m \in offline'[v] /\ m \notin offline[v] => AtObserver(n, m, v)
    BY <1>1 DEF AtObserver
  <1>3. \A m \in PairMessages, v \in Users : \A d \in Conns : GotBy(d, m, v)' => GotBy(d, m, v)
    BY <1>1 DEF GotBy
  <1> QED
    BY <1>1, <1>2, <1>3, ObserverDone
-----------------------------------------------------------------------------
(* All steps *)

LEMMA StepOnce ==
    ASSUME Careful, [Next]_vars, UNCHANGED faults
    PROVE  Once
  <1>1. ~Fault
    <2>1. faults \in Nat
      <3>1. scene.faults \in Nat /\ faults \in 0..scene.faults
        BY ConstantsAssumption DEF Careful, ChatInv, TypeOK
      <3> QED
        BY <3>1
    <2> QED
      BY <2>1 DEF Fault
  <1>2. ASSUME NEW c \in Conns, ClientStep(c) PROVE Once
    BY <1>2, CalmOnce, AsideOnce, OneChatOnce, GroupChatOnce DEF ClientStep
  <1>3. ASSUME NEW c \in Conns, CloseStarts(c) PROVE Once
    BY <1>3, CalmOnce DEF CloseStarts
  <1>4. ASSUME NEW c \in Conns, HandlerStep(c) PROVE Once
    <2>1. CASE LoginStep(c)
      <3>1. CASE LoginRemove(c)
        <4>1. offline' = [offline EXCEPT ![Owner[c]] = {}]
          BY <1>1, <3>1 DEF LoginRemove
        <4> QED
          BY <3>1, <4>1, LoginRemoveOnce
      <3> QED
        BY <2>1, <3>1, CalmOnce, LoginQueryOnce, LoginAckOnce DEF LoginStep
    <2>2. CASE LogoutUnsubscribe(c) \/ LogoutOffline(c) \/ CloseStep(c)
      BY <2>2, CalmOnce DEF CloseStep
    <2>3. CASE ChatStep(c)
      <3>1. CASE Store(c)
        <4>1. offline' = [offline EXCEPT ![Head(op[c].remote)] = @ \cup {op[c].msg}]
          BY <1>1, <3>1 DEF Store
        <4> QED
          BY <3>1, <4>1, StoreOnce
      <3>2. ~PublishFails(c)
        BY <1>1 DEF PublishFails
      <3> QED
        BY <2>3, <3>1, <3>2, CalmOnce, ChatLookupOnce, GroupOnce, PublishOnce DEF ChatStep
    <2> QED
      BY <1>4, <2>1, <2>2, <2>3 DEF HandlerStep
  <1>5. ASSUME NEW n \in Nodes, RedisStep(n) PROVE Once
    BY <1>5, AsideOnce DEF RedisStep
  <1>6. ASSUME NEW n \in Nodes, ForwardStep(n) PROVE Once
    <2>1. CASE ObserverStores(n)
      <3>1. offline' = [offline EXCEPT ![observer[n].user] = @ \cup {observer[n].msg}]
        BY <1>1, <2>1 DEF ObserverStores
      <3> QED
        BY <2>1, <3>1, ObserverStoresOnce
    <2> QED
      BY <1>6, <2>1, ObserverTakesOnce, ObserverLooksUpOnce, ObserverSendsOnce
         DEF ForwardStep, ObserverStep
  <1>7. ASSUME NEW n \in Nodes, NodeStep(n) PROVE Once
    BY <1>7, AsideOnce, ProcessEndsOnce DEF NodeStep, Exits, Crashes
  <1> QED
    BY <1>2, <1>3, <1>4, <1>5, <1>6, <1>7, AsideOnce DEF Next

LEMMA FaultOrNot ==
    ASSUME [Next]_vars
    PROVE  UNCHANGED scene /\ (Fault \/ UNCHANGED faults)
  <1>1. CASE UNCHANGED vars
    BY <1>1 DEF vars
  <1>2. ASSUME NEW c \in Conns, ClientStep(c) \/ CloseStarts(c)
        PROVE  UNCHANGED scene /\ (Fault \/ UNCHANGED faults)
    BY <1>2 DEF ClientStep, CloseStarts, world, SendLogin, LogoutErase, OneChat, GroupChat,
                TakeNumber, AddGroup, ClientDies, Shutdown, EndOfFile, ConnectionDown
  <1>3. ASSUME NEW c \in Conns, HandlerStep(c)
        PROVE  UNCHANGED scene /\ (Fault \/ UNCHANGED faults)
    <2>1. UNCHANGED scene
      BY <1>3 DEF HandlerStep, world
    <2>2. CASE LoginStep(c)
      BY <2>1, <2>2, CommandFaults DEF LoginStep, LoginRefused, LoginUnknown, Refuse, LoginCheck, LoginMap,
                   LoginSubscribe, LoginOnline, LoginQuery, LoginRemove, LoginAck
    <2>3. CASE LogoutUnsubscribe(c) \/ LogoutOffline(c) \/ CloseStep(c)
      BY <2>1, <2>3, CommandFaults DEF LogoutUnsubscribe, LogoutOffline, CloseStep, CloseFind, CloseOffline,
                   CloseUnsubscribe
    <2>4. CASE ChatStep(c)
      BY <2>1, <2>4 DEF ChatStep, ChatLookup, GroupMembers, GroupCollect, GroupPush,
                   RemoteStatus, Publish, PublishFails, Store
    <2> QED
      BY <1>3, <2>2, <2>3, <2>4 DEF HandlerStep
  <1>4. ASSUME NEW n \in Nodes, RedisStep(n) \/ ForwardStep(n)
        PROVE  UNCHANGED scene /\ (Fault \/ UNCHANGED faults)
    BY <1>4 DEF RedisStep, ForwardStep, world, RedisApplies, ObserverStep, ObserverTakes,
                ObserverLooksUp, ObserverSends, ObserverStores
  <1>5. ASSUME NEW n \in Nodes, NodeStep(n)
        PROVE  UNCHANGED scene /\ (Fault \/ UNCHANGED faults)
    BY <1>5 DEF NodeStep, ResetState, Exits, Crashes, ProcessEnds, ObserverQuits
  <1> QED
    BY <1>1, <1>2, <1>3, <1>4, <1>5 DEF Next

LEMMA OnceStep ==
    ASSUME ChatInv, PresenceInv, OnceInv, [Next]_vars
    PROVE  OnceInv'
  <1> SUFFICES ASSUME faults' = 0, OneConnectionEach'
               PROVE  /\ \A c \in Conns : PairHandler(c)'
                      /\ \A m \in PairMessages, v \in Users : Single(m, v)
    BY DEF OnceInv, Single
  <1>1. UNCHANGED scene /\ (Fault \/ UNCHANGED faults)
    BY FaultOrNot
  <1>2. faults = 0
    BY <1>1, FaultsGrow DEF ChatInv
  <1>3. OneConnectionEach
    BY <1>1 DEF OneConnectionEach
  <1>4. Careful
    BY <1>2, <1>3 DEF Careful, OnceInv
  <1> QED
    BY <1>2, <1>4, StepOnce DEF Once

LEMMA OnceInit ==
    ASSUME Init
    PROVE  OnceInv
  <1>1. ASSUME NEW c \in Conns
        PROVE  /\ PairHandler(c) /\ \A m, v : ~InHand(c, m, v) /\ ~ReadBy(c, m, v)
               /\ got[c] = {}
    <2>1. op[c] = NoHandler /\ got[c] = {}
      BY DEF Init
    <2>2. /\ op[c].pc = "idle" /\ op[c].local = <<>> /\ op[c].remote = <<>>
          /\ Len(op[c].local) = 0 /\ Len(op[c].remote) = 0
      BY <2>1 DEF NoHandler
    <2> QED
      BY <2>1, <2>2 DEF PairHandler, InHand, ReadBy
  <1>2. ASSUME NEW m \in PairMessages, NEW v \in Users PROVE Copies(m, v) = {}
    <2>1. offline[v] = {}
      BY DEF Init
    <2>2. ASSUME NEW n \in Nodes PROVE ~AtObserver(n, m, v) /\ \A i : ~InboxAt(n, i, m, v)
      <3>1. observer[n].msg = NoMessage /\ inbox[n] = <<>>
        BY DEF Init, NoObserver
      <3>2. Len(inbox[n]) = 0
        BY <3>1
      <3> QED
        BY <3>1, <3>2, PairMessage DEF AtObserver, InboxAt
    <2>3. \A t : ~CopyAt(t, m, v)
      BY <1>1, <2>1, <2>2 DEF CopyAt, RowAt, GotBy
    <2>4. \A t : t \in Copies(m, v) <=> CopyAt(t, m, v)
      BY CopiesNow, Zenon DEF CopiesAreThere
    <2> QED
      BY <2>3, <2>4
  <1>3. ASSUME NEW m \in PairMessages, NEW v \in Users
        PROVE  OneCopy(m, v) /\ (Copies(m, v) # {} => m.seq =< seqno[m.conv])
    BY <1>2 DEF OneCopy
  <1> QED
    BY <1>1, <1>3 DEF OnceInv

\* No delivery leaves a copy behind where it took the message from.
THEOREM OnceInvariance == Spec => []OnceInv
  <1>1. Init => OnceInv
    BY OnceInit
  <1>2. ChatInv /\ PresenceInv /\ OnceInv /\ [Next]_vars => OnceInv'
    BY OnceStep
  <1> QED
    BY <1>1, <1>2, Invariance, PresenceInvariance, PTL DEF Spec

\* As long as every user has one connection and no statement or publication has failed,
\* onechat, the observer and the login between them hold a message for its addressee in
\* one place at most: it is not delivered and stored as well, and not delivered twice.
THEOREM AtMostOnce == Spec => []DeliveredAtMostOnce
  <1>1. TypeOK /\ OnceInv => DeliveredAtMostOnce
    <2> SUFFICES ASSUME TypeOK, OnceInv, faults = 0, OneConnectionEach,
                        NEW k \in scene.active \cap Pairs, NEW u \in k, NEW v \in k,
                        NEW s \in 1..seqno[k]
                 PROVE  Cardinality(Copies([conv |-> k, seq |-> s, from |-> u], v)) =< 1
      BY DEF DeliveredAtMostOnce
    <2> DEFINE m == [conv |-> k, seq |-> s, from |-> u]
    <2>1. k \subseteq Users /\ k \in Conversations
      BY DEF Pairs, Conversations
    <2>2. s \in 1..MaxSeq
      <3>1. seqno[k] \in 0..MaxSeq /\ MaxSeq \in Nat
        BY <2>1, ConstantsAssumption DEF TypeOK
      <3> QED
        BY <3>1
    <2>3. m \in PairMessages
      BY <2>1, <2>2 DEF PairMessages, Messages
    <2> HIDE DEF m
    <2>4. OneCopy(m, v)
      BY <2>1, <2>3 DEF OnceInv
    <2>5. CASE Copies(m, v) = {}
      BY <2>5, FS_EmptySet DEF m
    <2>6. CASE Copies(m, v) # {}
      <3>1. PICK t : t \in Copies(m, v)
        BY <2>6
      <3>2. Copies(m, v) = {t}
        BY <2>4, <3>1 DEF OneCopy
      <3>3. Cardinality({t}) = 1
        BY FS_Singleton
      <3>4. Cardinality(Copies(m, v)) = 1
        BY <3>2, <3>3
      <3> QED
        BY <3>4 DEF m
    <2> QED
      BY <2>5, <2>6
  <1> QED
    BY <1>1, TypeCorrect, OnceInvariance, PTL
-----------------------------------------------------------------------------
(* ChatService implements MessageDelivery *)

\* A handler moves, and has nothing that it did not have before.
HandKeeps(c) ==
    /\ \A m \in Messages, v \in Users : /\ ReadBy(c, m, v)' => ReadBy(c, m, v)
                                        /\ InHand(c, m, v)' => InHand(c, m, v)
    /\ op'[c].pc = "members" => op'[c] = op[c]

LEMMA StillHand ==
    ASSUME NEW c \in Conns, op'[c] = op[c]
    PROVE  HandKeeps(c)
  BY DEF HandKeeps, ReadBy, InHand

LEMMA NoHand ==
    ASSUME NEW c \in Conns, op'[c] = NoHandler
    PROVE  HandKeeps(c)
  <1>1. op'[c].pc # "members"
    BY DEF NoHandler
  <1> QED
    BY <1>1, EmptyHandler DEF HandKeeps

LEMMA HandGoesOn ==
    ASSUME TypeOK, NEW c \in Conns, Return(c) \/ \E p \in Plain : Goto(c, p)
    PROVE  \A d \in Conns : HandKeeps(d)
  <1>1. \A d \in Conns \ {c} : op'[d] = op[d]
    BY Returns, Goes, UsualTypes DEF Plain
  <1>2. CASE Return(c)
    <2>1. op'[c] = NoHandler
      BY <1>2, Returns, UsualTypes
    <2> QED
      BY <1>1, <2>1, NoHand, StillHand
  <1>3. ASSUME NEW p \in Plain, Goto(c, p) PROVE HandKeeps(c)
    <2>1. /\ op'[c].pc = p /\ op'[c].msg = op[c].msg /\ op'[c].local = op[c].local
          /\ op'[c].remote = op[c].remote /\ op'[c].rows = op[c].rows
      BY <1>3, Goes, UsualTypes DEF Plain
    <2> QED
      BY <2>1 DEF HandKeeps, ReadBy, InHand, Plain
  <1> QED
    BY <1>1, <1>2, <1>3, StillHand

\* What the abstract step Proceed allows a message and a user, apart from what is read
\* being on its way no more.
Grounded(m, v) ==
    /\ Underway(m, v)' => Underway(m, v)
    /\ Received(m, v) => Received(m, v)'
    /\ Received(m, v)' => Received(m, v) \/ Underway(m, v)

Proceeds ==
    /\ UNCHANGED seqno
    /\ \A c \in Conns : op'[c].pc = "members" => op'[c] = op[c]
    /\ \A m \in Messages, v \in Users : Grounded(m, v)

\* Whatever is new at a place was on its way before.
LEMMA FromSomewhere ==
    ASSUME NEW m, NEW v \in Users,
           m \in offline'[v] => Underway(m, v),
           \A c \in Conns : ReadBy(c, m, v)' \/ InHand(c, m, v)' => Underway(m, v),
           \A n \in Nodes : Forwarded(n, m, v)' \/ WithObserver(n, m, v)' => Underway(m, v),
           \A c \in Conns : /\ m \in got[c] => m \in got'[c]
                            /\ m \in got'[c] => m \in got[c] \/ (Owner[c] = v => Underway(m, v))
    PROVE  Grounded(m, v)
  <1>1. Underway(m, v)' => Underway(m, v)
    BY DEF Underway
  <1>2. Received(m, v) => Received(m, v)'
    BY DEF Received
  <1>3. Received(m, v)' => Received(m, v) \/ Underway(m, v)
    BY DEF Received
  <1> QED
    BY <1>1, <1>2, <1>3 DEF Grounded

\* A step that delivers nothing.
LEMMA HandsProceed ==
    ASSUME UNCHANGED <<seqno, got, offline, observer>>,
           \A c \in Conns : HandKeeps(c),
           \A n \in Nodes : inbox'[n] = inbox[n] \/ inbox'[n] = <<>>
    PROVE  Proceeds
  <1>1. ASSUME NEW m \in Messages, NEW v \in Users PROVE Grounded(m, v)
    <2>1. m \in offline'[v] => Underway(m, v)
      BY DEF Underway
    <2>2. \A c \in Conns : ReadBy(c, m, v)' \/ InHand(c, m, v)' => Underway(m, v)
      BY DEF Underway, HandKeeps
    <2>3. ASSUME NEW n \in Nodes, Forwarded(n, m, v)' PROVE Forwarded(n, m, v)
      <3>1. inbox'[n] # <<>>
        <4>1. ASSUME inbox'[n] = <<>> PROVE FALSE
          <5>1. Len(inbox'[n]) = 0
            BY <4>1
          <5> QED
            BY <2>3, <5>1 DEF Forwarded
        <4> QED
          BY <4>1
      <3> QED
        BY <2>3, <3>1 DEF Forwarded
    <2>4. ASSUME NEW n \in Nodes, WithObserver(n, m, v)' PROVE WithObserver(n, m, v)
      BY <2>4 DEF WithObserver
    <2>5. \A n \in Nodes : Forwarded(n, m, v)' \/ WithObserver(n, m, v)' => Underway(m, v)
      BY <2>3, <2>4 DEF Underway
    <2> QED
      BY <2>1, <2>2, <2>5, FromSomewhere
  <1> QED
    BY <1>1 DEF Proceeds, HandKeeps

LEMMA CalmProceeds ==
    ASSUME TypeOK, NEW c \in Conns,
           \/ SendLogin(c) \/ LogoutErase(c) \/ ConnectionDown(c)
           \/ LoginRefused(c) \/ LoginUnknown(c) \/ LoginCheck(c) \/ LoginMap(c)
           \/ LoginSubscribe(c) \/ LoginOnline(c) \/ LogoutUnsubscribe(c) \/ LogoutOffline(c)
           \/ CloseFind(c) \/ CloseOffline(c) \/ CloseUnsubscribe(c) \/ RemoteStatus(c)
    PROVE  Proceeds
  <1>1. UNCHANGED <<seqno, got, offline, observer, inbox>> /\ (Return(c) \/ \E p \in Plain : Goto(c, p))
    BY CalmEffect
  <1>2. \A n \in Nodes : inbox'[n] = inbox[n]
    BY <1>1
  <1> QED
    BY <1>1, <1>2, HandGoesOn, HandsProceed

LEMMA AsideProceeds ==
    ASSUME TypeOK,
           \/ \E c \in Conns : \/ ClientDies(c) \/ Shutdown(c) \/ EndOfFile(c)
                              \/ \E g \in Groups : AddGroup(c, g)
           \/ \E n \in Nodes : RedisApplies(n) \/ ResetState(n) \/ ObserverQuits(n)
           \/ UNCHANGED vars
    PROVE  Proceeds
  <1>1. /\ UNCHANGED <<seqno, got, offline, observer, op>>
        /\ \A n \in Nodes : inbox'[n] = inbox[n] \/ inbox'[n] = <<>>
    BY AsideEffect
  <1> QED
    BY <1>1, StillHand, HandsProceed

\* A step of the handler of c alone, with all that is new taken from what was underway.
LEMMA HandlerGrounds ==
    ASSUME NEW c \in Conns, UNCHANGED <<inbox, observer>>,
           \A d \in Conns \ {c} : op'[d] = op[d],
           NEW m \in Messages, NEW v \in Users,
           m \in offline'[v] => Underway(m, v),
           ReadBy(c, m, v)' \/ InHand(c, m, v)' => Underway(m, v),
           \A d \in Conns : /\ m \in got[d] => m \in got'[d]
                            /\ m \in got'[d] => m \in got[d] \/ (Owner[d] = v => Underway(m, v))
    PROVE  Grounded(m, v)
  <1>1. ASSUME NEW d \in Conns, ReadBy(d, m, v)' \/ InHand(d, m, v)' PROVE Underway(m, v)
    <2>1. CASE d = c
      BY <1>1, <2>1
    <2>2. CASE d # c
      <3>1. ReadBy(d, m, v) \/ InHand(d, m, v)
        BY <1>1, <2>2 DEF ReadBy, InHand
      <3> QED
        BY <3>1 DEF Underway
    <2> QED
      BY <2>1, <2>2
  <1>2. ASSUME NEW n \in Nodes, Forwarded(n, m, v)' \/ WithObserver(n, m, v)' PROVE Underway(m, v)
    <2>1. Forwarded(n, m, v) \/ WithObserver(n, m, v)
      BY <1>2 DEF Forwarded, WithObserver
    <2> QED
      BY <2>1 DEF Underway
  <1> QED
    BY <1>1, <1>2, FromSomewhere

LEMMA LoginQueryProceeds ==
    ASSUME TypeOK, NEW c \in Conns, LoginQuery(c)
    PROVE  Proceeds
  <1>1. /\ UNCHANGED <<seqno, got, offline, observer, inbox>>
        /\ op \in [Conns -> Handler] /\ Owner[c] \in Users
    BY UsualTypes, ConstantsAssumption DEF LoginQuery, redisVars
  <1>2. PICK rows : /\ rows = offline[Owner[c]] \/ rows = {}
                    /\ op' = [op EXCEPT ![c].rows = rows,
                                        ![c].pc = IF rows = {} THEN "ack" ELSE "remove"]
    BY DEF LoginQuery
  <1>3. /\ op'[c].pc = IF rows = {} THEN "ack" ELSE "remove"
        /\ op'[c].msg = op[c].msg /\ op'[c].local = op[c].local
        /\ op'[c].remote = op[c].remote /\ op'[c].rows = rows
        /\ \A d \in Conns \ {c} : op'[d] = op[d]
    BY <1>1, <1>2 DEF Handler
  <1>4. ASSUME NEW m \in Messages, NEW v \in Users PROVE Grounded(m, v)
    <2>1. m \in offline'[v] => Underway(m, v)
      BY <1>1 DEF Underway
    <2>2. ReadBy(c, m, v)' => Underway(m, v)
      <3>1. ReadBy(c, m, v)' => m \in offline[v]
        BY <1>2, <1>3 DEF ReadBy
      <3> QED
        BY <3>1 DEF Underway
    <2>3. InHand(c, m, v)' => Underway(m, v)
      <3>1. InHand(c, m, v)' => InHand(c, m, v)
        BY <1>3 DEF InHand
      <3> QED
        BY <3>1 DEF Underway
    <2> QED
      BY <1>1, <1>3, <2>1, <2>2, <2>3, HandlerGrounds
  <1>5. \A d \in Conns : op'[d].pc = "members" => op'[d] = op[d]
    BY <1>3
  <1> QED
    BY <1>1, <1>4, <1>5 DEF Proceeds

LEMMA LoginRemoveProceeds ==
    ASSUME TypeOK, NEW c \in Conns, LoginRemove(c)
    PROVE  Proceeds
  <1>1. /\ UNCHANGED <<seqno, got, observer, inbox>> /\ op[c].pc = "remove" /\ Goto(c, "ack")
        /\ offline \in [Users \cup {NoUser} -> SUBSET Messages] /\ Owner[c] \in Users
        /\ offline' = offline \/ offline' = [offline EXCEPT ![Owner[c]] = {}]
    BY UsualTypes, ConstantsAssumption DEF LoginRemove, At, redisVars
  <1>2. /\ op'[c].pc = "ack" /\ op'[c].msg = op[c].msg /\ op'[c].local = op[c].local
        /\ op'[c].remote = op[c].remote /\ op'[c].rows = op[c].rows
        /\ \A d \in Conns \ {c} : op'[d] = op[d]
    BY <1>1, Goes, UsualTypes DEF Places
  <1>3. ASSUME NEW m \in Messages, NEW v \in Users PROVE Grounded(m, v)
    <2>1. m \in offline'[v] => Underway(m, v)
      BY <1>1 DEF Underway
    <2>2. ReadBy(c, m, v)' \/ InHand(c, m, v)' => Underway(m, v)
      <3>1. ReadBy(c, m, v)' => ReadBy(c, m, v)
        BY <1>1, <1>2 DEF ReadBy
      <3>2. InHand(c, m, v)' => InHand(c, m, v)
        BY <1>2 DEF InHand
      <3> QED
        BY <3>1, <3>2 DEF Underway
    <2> QED
      BY <1>1, <1>2, <2>1, <2>2, HandlerGrounds
  <1>4. \A d \in Conns : op'[d].pc = "members" => op'[d] = op[d]
    BY <1>2
  <1> QED
    BY <1>1, <1>3, <1>4 DEF Proceeds

LEMMA LoginAckProceeds ==
    ASSUME TypeOK, NEW c \in Conns, LoginAck(c)
    PROVE  Proceeds
  <1>1. /\ UNCHANGED <<seqno, offline, observer, inbox>> /\ op[c].pc = "ack" /\ Return(c)
        /\ got \in [Conns -> SUBSET Messages]
        /\ got' = got \/ got' = [got EXCEPT ![c] = @ \cup op[c].rows]
    BY UsualTypes DEF LoginAck, At, redisVars
  <1>2. op'[c] = NoHandler /\ \A d \in Conns \ {c} : op'[d] = op[d]
    BY <1>1, Returns, UsualTypes
  <1>3. ASSUME NEW m \in Messages, NEW v \in Users PROVE Grounded(m, v)
    <2>1. m \in offline'[v] => Underway(m, v)
      BY <1>1 DEF Underway
    <2>2. ~ReadBy(c, m, v)' /\ ~InHand(c, m, v)'
      BY <1>2, EmptyHandler
    <2>3. ASSUME NEW d \in Conns
          PROVE  /\ m \in got[d] => m \in got'[d]
                 /\ m \in got'[d] => m \in got[d] \/ (Owner[d] = v => Underway(m, v))
      <3>1. m \in got'[d] => m \in got[d] \/ (d = c /\ m \in op[c].rows)
        BY <1>1
      <3>2. Owner[c] = v /\ m \in op[c].rows => Underway(m, v)
        BY <1>1 DEF ReadBy, Underway
      <3> QED
        BY <1>1, <3>1, <3>2
    <2> QED
      BY <1>1, <1>2, <2>1, <2>2, <2>3, HandlerGrounds
  <1>4. \A d \in Conns : op'[d].pc = "members" => op'[d] = op[d]
    BY <1>2 DEF NoHandler
  <1> QED
    BY <1>1, <1>3, <1>4 DEF Proceeds

LEMMA ProcessEndsProceeds ==
    ASSUME ChatInv, NEW n \in Nodes, ProcessEnds(n)
    PROVE  Proceeds
  <1>1. /\ UNCHANGED <<seqno, got, offline>>
        /\ \A d \in Conns : op'[d] = NoHandler \/ op'[d] = op[d]
        /\ inbox'[n] = <<>>
        /\ \A k \in Nodes \ {n} : inbox'[k] = inbox[k] /\ observer'[k] = observer[k]
    BY ProcessEndsEffect DEF ChatInv
  <1>2. observer'[n] = NoObserver /\ Len(inbox'[n]) = 0
    BY <1>1 DEF ProcessEnds, ChatInv, TypeOK
  <1>3. \A d \in Conns : HandKeeps(d)
    BY <1>1, NoHand, StillHand
  <1>4. ASSUME NEW m \in Messages, NEW v \in Users PROVE Grounded(m, v)
    <2>1. m \in offline'[v] => Underway(m, v)
      BY <1>1 DEF Underway
    <2>2. \A d \in Conns : ReadBy(d, m, v)' \/ InHand(d, m, v)' => Underway(m, v)
      BY <1>3 DEF Underway, HandKeeps
    <2>3. ASSUME NEW k \in Nodes, Forwarded(k, m, v)' \/ WithObserver(k, m, v)' PROVE Underway(m, v)
      <3>1. k # n
        BY <1>2, <2>3 DEF Forwarded, WithObserver, NoObserver
      <3>2. Forwarded(k, m, v) \/ WithObserver(k, m, v)
        BY <1>1, <2>3, <3>1 DEF Forwarded, WithObserver
      <3> QED
        BY <3>2 DEF Underway
    <2> QED
      BY <1>1, <2>1, <2>2, <2>3, FromSomewhere
  <1> QED
    BY <1>1, <1>3, <1>4 DEF Proceeds, HandKeeps

\* The first of a list of addressees has the message under way to him.
LEMMA HandHas ==
    ASSUME TypeOK, NEW c \in Conns
    PROVE  /\ op[c].remote # <<>> => Underway(op[c].msg, Head(op[c].remote))
           /\ op[c].local # <<>> => Underway(op[c].msg, Owner[Head(op[c].local)])
           /\ \A m, v : InHand(c, m, v) => Underway(m, v)
  <1>1. op[c].remote \in Seq(Users) /\ op[c].local \in Seq(Conns)
    BY UsualTypes DEF Handler
  <1>2. \A m, v : InHand(c, m, v) => Underway(m, v)
    BY DEF Underway
  <1>3. ASSUME NEW S, NEW s \in Seq(S), s # <<>>
        PROVE  1 \in 1..Len(s) /\ Head(s) = s[1]
    <2>1. Len(s) \in Nat /\ Len(s) >= 1 /\ Head(s) = s[1]
      BY <1>3, HeadTailProperties, EmptySeq, LenProperties
    <2> QED
      BY <2>1
  <1>4. op[c].remote # <<>> => InHand(c, op[c].msg, Head(op[c].remote))
    BY <1>1, <1>3 DEF InHand
  <1>5. op[c].local # <<>> => InHand(c, op[c].msg, Owner[Head(op[c].local)])
    BY <1>1, <1>3 DEF InHand
  <1> QED
    BY <1>2, <1>4, <1>5

\* The handler of c sends what is under way to the user of t, and keeps the rest.
LEMMA SendProceeds ==
    ASSUME ChatInv, NEW c \in Conns, NEW t \in Conns, NEW x \in Messages, Send(t, x),
           Underway(x, Owner[t]), UNCHANGED <<seqno, offline, observer, inbox>>,
           \A d \in Conns : HandKeeps(d)
    PROVE  Proceeds
  <1>1. /\ \A d \in Conns : got[d] \subseteq got'[d]
        /\ \A d \in Conns : \A m : m \in got'[d] /\ m \notin got[d] => d = t /\ m = x
    BY SendEffect DEF ChatInv, Send, TypeOK
  <1>2. ASSUME NEW m \in Messages, NEW v \in Users PROVE Grounded(m, v)
    <2>1. m \in offline'[v] => Underway(m, v)
      BY DEF Underway
    <2>2. \A d \in Conns : ReadBy(d, m, v)' \/ InHand(d, m, v)' => Underway(m, v)
      BY DEF Underway, HandKeeps
    <2>3. \A n \in Nodes : Forwarded(n, m, v)' \/ WithObserver(n, m, v)' => Underway(m, v)
      BY DEF Forwarded, WithObserver, Underway
    <2>4. \A d \in Conns : /\ m \in got[d] => m \in got'[d]
                           /\ m \in got'[d] => m \in got[d] \/ (Owner[d] = v => Underway(m, v))
      BY <1>1
    <2> QED
      BY <2>1, <2>2, <2>3, <2>4, FromSomewhere
  <1> QED
    BY <1>2 DEF Proceeds, HandKeeps

LEMMA ChatLookupProceeds ==
    ASSUME ChatInv, NEW c \in Conns, ChatLookup(c)
    PROVE  Proceeds
  <1> DEFINE u == Head(op[c].remote)
             t == connMap[Home[c]][u]
             x == op[c].msg
  <1>1. /\ UNCHANGED <<seqno, offline, observer, inbox>> /\ op[c].pc = "lookup" /\ TypeOK
        /\ op \in [Conns -> Handler] /\ HandlerOK(c) /\ op[c].pc \in ChatPlaces
    BY UsualTypes DEF ChatLookup, At, redisVars, ChatInv, ChatPlaces
  <1>2. CASE t = NoConn
    <2>1. UNCHANGED got /\ \E p \in Plain : Goto(c, p)
      BY <1>2 DEF ChatLookup, Plain, Places
    <2> QED
      BY <1>1, <2>1, HandGoesOn, HandsProceed
  <1>3. CASE t # NoConn
    <2>1. op[c].remote # <<>> /\ x \in Messages
      <3>1. Len(op[c].remote) = 1 /\ x \in Messages
        BY <1>1 DEF HandlerOK, At
      <3>2. op[c].remote = <<>> => Len(op[c].remote) = 0
        OBVIOUS
      <3> QED
        BY <3>1, <3>2
    <2>2. u \in Users /\ Home[c] \in Nodes
      BY <1>1, <2>1, FirstAddressee, ConstantsAssumption
    <2>3. Send(t, x) /\ Return(c)
      BY <1>3 DEF ChatLookup
    <2>4. t \in Conns /\ Owner[t] = u
      BY <1>3, <2>2, Found
    <2>5. Underway(x, u)
      BY <1>1, <2>1, HandHas
    <2>6. Underway(x, Owner[t])
      BY <2>4, <2>5
    <2> HIDE DEF u, t, x
    <2>7. \A d \in Conns : HandKeeps(d)
      BY <1>1, <2>3, HandGoesOn
    <2> QED
      BY <1>1, <2>1, <2>3, <2>4, <2>6, <2>7, SendProceeds
  <1> QED
    BY <1>2, <1>3

LEMMA GroupCollectProceeds ==
    ASSUME ChatInv, NEW c \in Conns, GroupCollect(c)
    PROVE  Proceeds
  <1> DEFINE n == Home[c]
             s == op[c].remote
             near == Selected(s, InMap(n))
             far == Selected(s, Users \ InMap(n))
             local == [i \in 1..Len(near) |-> connMap[n][near[i]]]
  <1>1. UNCHANGED <<seqno, offline, observer, inbox, got>> /\ n \in Nodes
    BY ConstantsAssumption DEF GroupCollect, redisVars
  <1>2. op' = [op EXCEPT ![c].pc = "push", ![c].local = local, ![c].remote = far]
    BY DEF GroupCollect
  <1>3. op \in [Conns -> Handler] /\ s \in Seq(Users) /\ s = op[c].remote
    BY UsualTypes DEF ChatInv, Handler
  <1>4. /\ Len(near) \in Nat
        /\ \A k \in 1..Len(near) : near[k] \in InMap(n) /\ \E j \in 1..Len(s) : near[k] = s[j]
    BY <1>3, SelectedElements
  <1>5. \A k \in 1..Len(far) : \E j \in 1..Len(s) : far[k] = s[j]
    <2> DEFINE T == Users \ InMap(n)
    <2>1. far = Selected(s, T)
      OBVIOUS
    <2> HIDE DEF s, far, T
    <2> QED
      BY <1>3, <2>1, SelectedElements
  <1>6. local = [i \in 1..Len(near) |-> connMap[n][near[i]]]
    OBVIOUS
  <1> HIDE DEF n, s, near, far, local
  <1>7. /\ op'[c].pc = "push" /\ op'[c].msg = op[c].msg /\ op'[c].local = local
        /\ op'[c].remote = far /\ \A d \in Conns \ {c} : op'[d] = op[d]
    BY <1>2, <1>3 DEF Handler
  <1>8. Len(local) = Len(near) /\ \A i \in 1..Len(local) : local[i] = connMap[n][near[i]]
    <2>1. \A i \in 1..Len(near) : connMap[n][near[i]] \in Conns \cup {NoConn}
      BY <1>1, <1>4, UsualTypes DEF InMap, ChatInv
    <2>2. local \in Seq(Conns \cup {NoConn}) /\ Len(local) = Len(near)
      BY <1>4, <1>6, <2>1, IsASeq, LenProperties
    <2> QED
      BY <1>6, <2>2
  <1>9. ASSUME NEW m, NEW v, InHand(c, m, v)' PROVE InHand(c, m, v)
    <2>1. CASE \E i \in 1..Len(far) : far[i] = v
      BY <1>3, <1>5, <1>7, <1>9, <2>1 DEF InHand
    <2>2. CASE \E i \in 1..Len(local) : Owner[local[i]] = v
      <3>1. PICK i \in 1..Len(near) : Owner[connMap[n][near[i]]] = v
        BY <1>8, <2>2
      <3>2. near[i] \in Users /\ connMap[n][near[i]] # NoConn
        BY <1>4 DEF InMap
      <3>3. near[i] = v
        BY <1>1, <3>1, <3>2, Found
      <3>4. \E j \in 1..Len(s) : s[j] = v
        BY <1>4, <3>3
      <3> QED
        BY <1>3, <1>7, <1>9, <3>4 DEF InHand
    <2> QED
      BY <1>7, <1>9, <2>1, <2>2 DEF InHand
  <1>10. \A m, v : ~ReadBy(c, m, v)'
    BY <1>7 DEF ReadBy
  <1>11. \A d \in Conns : HandKeeps(d)
    BY <1>7, <1>9, <1>10, StillHand DEF HandKeeps
  <1>12. \A k \in Nodes : inbox'[k] = inbox[k]
    BY <1>1
  <1> QED
    BY <1>1, <1>11, <1>12, HandsProceed

LEMMA GroupPushProceeds ==
    ASSUME ChatInv, NEW c \in Conns, GroupPush(c)
    PROVE  Proceeds
  <1>1. /\ UNCHANGED <<seqno, offline, observer, inbox>> /\ op[c].pc = "push" /\ TypeOK
        /\ op \in [Conns -> Handler] /\ op[c].msg \in Messages
    BY UsualTypes DEF GroupPush, At, redisVars, ChatInv, HandlerOK, ChatPlaces
  <1>2. CASE op[c].local = <<>>
    <2>1. UNCHANGED got /\ \E p \in Plain : Goto(c, p)
      BY <1>2 DEF GroupPush, Plain, Places
    <2> QED
      BY <1>1, <2>1, HandGoesOn, HandsProceed
  <1>3. CASE op[c].local # <<>>
    <2> DEFINE t == Head(op[c].local)
               r == Tail(op[c].local)
    <2>1. Send(t, op[c].msg) /\ op' = [op EXCEPT ![c].local = r]
      BY <1>3 DEF GroupPush
    <2>2. Underway(op[c].msg, Owner[t])
      BY <1>1, <1>3, HandHas
    <2>3. /\ t \in Conns
          /\ \A i \in 1..Len(r) : r[i] = op[c].local[i + 1] /\ i + 1 \in 1..Len(op[c].local)
      BY <1>3, FirstLocal
    <2> HIDE DEF t, r
    <2>4. /\ op'[c].pc = "push" /\ op'[c].msg = op[c].msg /\ op'[c].local = r
          /\ op'[c].remote = op[c].remote /\ \A d \in Conns \ {c} : op'[d] = op[d]
      BY <1>1, <2>1 DEF Handler
    <2>5. ASSUME NEW m, NEW v, InHand(c, m, v)' PROVE InHand(c, m, v)
      <3>1. CASE \E i \in 1..Len(op'[c].remote) : op'[c].remote[i] = v
        BY <2>4, <2>5, <3>1 DEF InHand
      <3>2. CASE \E i \in 1..Len(r) : Owner[r[i]] = v
        <4>1. PICK i \in 1..Len(r) : Owner[r[i]] = v
          BY <3>2
        <4>2. Owner[op[c].local[i + 1]] = v /\ i + 1 \in 1..Len(op[c].local)
          BY <2>3, <4>1
        <4> QED
          BY <2>4, <2>5, <4>2 DEF InHand
      <3> QED
        BY <2>4, <2>5, <3>1, <3>2 DEF InHand
    <2>6. HandKeeps(c)
      BY <2>4, <2>5 DEF HandKeeps, ReadBy
    <2>7. \A d \in Conns : HandKeeps(d)
      BY <2>4, <2>6, StillHand
    <2> QED
      BY <1>1, <2>1, <2>2, <2>3, <2>7, SendProceeds
  <1> QED
    BY <1>2, <1>3

\* Of the list only the first goes.
LEMMA NextKeeps ==
    ASSUME ChatInv, NEW c \in Conns, op[c].pc \in {"publish", "store"}, NextRemote(c)
    PROVE  \A d \in Conns : HandKeeps(d)
  <1>1. /\ op'[c].pc = "status" /\ op'[c].msg = op[c].msg /\ op'[c].local = op[c].local
        /\ op'[c].remote = Tail(op[c].remote) /\ \A d \in Conns \ {c} : op'[d] = op[d]
    BY NextRemoteEffect
  <1>2. op[c].remote # <<>> /\ op[c].remote \in Seq(Users)
    BY UsualTypes DEF ChatInv, HandlerOK, Handler
  <1>3. ASSUME NEW m, NEW v, InHand(c, m, v)' PROVE InHand(c, m, v)
    <2>1. CASE \E i \in 1..Len(op'[c].local) : Owner[op'[c].local[i]] = v
      BY <1>1, <1>3, <2>1 DEF InHand
    <2>2. CASE \E i \in 1..Len(op'[c].remote) : op'[c].remote[i] = v
      <3> DEFINE s == op[c].remote
                 r == Tail(op[c].remote)
      <3>1. PICK i \in 1..Len(r) : r[i] = v
        BY <1>1, <2>2
      <3>2. s \in Seq(Users) /\ s # <<>> /\ r = Tail(s) /\ s = op[c].remote
        BY <1>2
      <3> HIDE DEF s, r
      <3>3. i + 1 \in 1..Len(s) /\ s[i + 1] = v
        <4>1. /\ Len(s) \in Nat /\ Len(r) = Len(s) - 1 /\ \A j \in 1..Len(r) : r[j] = s[j + 1]
          BY <3>2, HeadTailProperties, EmptySeq, LenProperties
        <4> QED
          BY <3>1, <4>1
      <3> QED
        BY <1>1, <1>3, <3>2, <3>3 DEF InHand
    <2> QED
      BY <1>3, <2>1, <2>2 DEF InHand
  <1>4. HandKeeps(c)
    BY <1>1, <1>3 DEF HandKeeps, ReadBy
  <1> QED
    BY <1>1, <1>4, StillHand

\* Redis forwards what the handler of c has for the first of its list.
LEMMA ForwardProceeds ==
    ASSUME ChatInv, NEW c \in Conns, op[c].pc \in {"publish", "store"},
           Forward(Head(op[c].remote), op[c].msg),
           UNCHANGED <<seqno, got, offline, observer>>, \A d \in Conns : HandKeeps(d)
    PROVE  Proceeds
  <1> DEFINE u == Head(op[c].remote)
             x == op[c].msg
  <1>1. op[c].remote # <<>> /\ TypeOK /\ HandlerOK(c) /\ op[c].pc \in ChatPlaces
    BY DEF ChatInv, HandlerOK, ChatPlaces
  <1>2. u \in Users /\ x \in Messages
    BY <1>1, FirstAddressee
  <1>3. Underway(x, u)
    BY <1>1, HandHas
  <1>4. Forward(u, x)
    OBVIOUS
  <1> HIDE DEF u, x
  <1>5. ASSUME NEW m \in Messages, NEW v \in Users PROVE Grounded(m, v)
    <2>1. m \in offline'[v] => Underway(m, v)
      BY DEF Underway
    <2>2. \A d \in Conns : ReadBy(d, m, v)' \/ InHand(d, m, v)' => Underway(m, v)
      BY DEF Underway, HandKeeps
    <2>3. ASSUME NEW n \in Nodes, Forwarded(n, m, v)' PROVE Underway(m, v)
      <3>1. PICK i : InboxAt(n, i, m, v)'
        BY <2>3 DEF Forwarded, InboxAt
      <3>2. CASE InboxAt(n, i, m, v)
        BY <3>2 DEF InboxAt, Forwarded, Underway
      <3>3. CASE ~InboxAt(n, i, m, v)
        <4>1. m = x /\ v = u
          BY <1>2, <1>4, <3>1, <3>3, ForwardNew
        <4> QED
          BY <1>3, <4>1
      <3> QED
        BY <3>2, <3>3
    <2>4. \A n \in Nodes : WithObserver(n, m, v)' => Underway(m, v)
      BY DEF WithObserver, Underway
    <2> QED
      BY <2>1, <2>2, <2>3, <2>4, FromSomewhere
  <1> QED
    BY <1>5 DEF Proceeds, HandKeeps

LEMMA PublishProceeds ==
    ASSUME ChatInv, NEW c \in Conns, Publish(c) \/ PublishFails(c)
    PROVE  Proceeds
  <1>1. UNCHANGED <<seqno, got, offline>> /\ op[c].pc = "publish" /\ TypeOK
    BY DEF Publish, PublishFails, At, ChatInv
  <1>2. \A d \in Conns : HandKeeps(d)
    <2>1. CASE Publish(c)
      BY <1>1, <2>1, NextKeeps DEF Publish
    <2>2. CASE PublishFails(c)
      <3>1. Goto(c, "store") /\ "store" \in Plain
        BY <2>2 DEF PublishFails, Plain, Places
      <3> QED
        BY <1>1, <3>1, HandGoesOn
    <2> QED
      BY <2>1, <2>2
  <1>3. CASE Forward(Head(op[c].remote), op[c].msg)
    <2>1. UNCHANGED observer
      BY <1>3 DEF Forward
    <2> QED
      BY <1>1, <1>2, <1>3, <2>1, ForwardProceeds
  <1>4. CASE UNCHANGED redisVars
    <2>1. UNCHANGED observer /\ \A n \in Nodes : inbox'[n] = inbox[n]
      BY <1>4 DEF redisVars
    <2> QED
      BY <1>1, <1>2, <2>1, HandsProceed
  <1> QED
    BY <1>3, <1>4 DEF Publish, PublishFails

LEMMA StoreProceeds ==
    ASSUME ChatInv, NEW c \in Conns, Store(c)
    PROVE  Proceeds
  <1> DEFINE u == Head(op[c].remote)
             x == op[c].msg
  <1>1. /\ UNCHANGED <<seqno, got, inbox, observer>> /\ op[c].pc = "store" /\ NextRemote(c)
        /\ op[c].remote # <<>> /\ TypeOK /\ HandlerOK(c) /\ op[c].pc \in ChatPlaces
        /\ offline \in [Users \cup {NoUser} -> SUBSET Messages]
        /\ offline' = offline \/ offline' = [offline EXCEPT ![u] = @ \cup {x}]
    BY UsualTypes DEF Store, At, redisVars, ChatInv, HandlerOK, ChatPlaces
  <1>2. Underway(x, u)
    BY <1>1, HandHas
  <1> HIDE DEF u, x
  <1>3. \A d \in Conns : HandKeeps(d)
    BY <1>1, NextKeeps
  <1>4. ASSUME NEW m \in Messages, NEW v \in Users PROVE Grounded(m, v)
    <2>1. m \in offline'[v] => Underway(m, v)
      <3>1. m \in offline'[v] => m \in offline[v] \/ (m = x /\ v = u)
        BY <1>1
      <3> QED
        BY <1>2, <3>1 DEF Underway
    <2>2. \A d \in Conns : ReadBy(d, m, v)' \/ InHand(d, m, v)' => Underway(m, v)
      BY <1>3 DEF Underway, HandKeeps
    <2>3. \A n \in Nodes : Forwarded(n, m, v)' \/ WithObserver(n, m, v)' => Underway(m, v)
      BY <1>1 DEF Forwarded, WithObserver, Underway
    <2> QED
      BY <1>1, <2>1, <2>2, <2>3, FromSomewhere
  <1> QED
    BY <1>1, <1>3, <1>4 DEF Proceeds, HandKeeps

\* A step of the observer of n alone, with all that is new taken from what was underway.
LEMMA ObserverGrounds ==
    ASSUME NEW n \in Nodes, UNCHANGED op,
           \A k \in Nodes \ {n} : observer'[k] = observer[k] /\ inbox'[k] = inbox[k],
           NEW m \in Messages, NEW v \in Users,
           m \in offline'[v] => Underway(m, v),
           Forwarded(n, m, v)' \/ WithObserver(n, m, v)' => Underway(m, v),
           \A d \in Conns : /\ m \in got[d] => m \in got'[d]
                            /\ m \in got'[d] => m \in got[d] \/ (Owner[d] = v => Underway(m, v))
    PROVE  Grounded(m, v)
  <1>1. ASSUME NEW d \in Conns, ReadBy(d, m, v)' \/ InHand(d, m, v)' PROVE Underway(m, v)
    <2>1. ReadBy(d, m, v) \/ InHand(d, m, v)
      BY <1>1 DEF ReadBy, InHand
    <2> QED
      BY <2>1 DEF Underway
  <1>2. ASSUME NEW k \in Nodes, Forwarded(k, m, v)' \/ WithObserver(k, m, v)' PROVE Underway(m, v)
    <2>1. CASE k = n
      BY <1>2, <2>1
    <2>2. CASE k # n
      <3>1. Forwarded(k, m, v) \/ WithObserver(k, m, v)
        BY <1>2, <2>2 DEF Forwarded, WithObserver
      <3> QED
        BY <3>1 DEF Underway
    <2> QED
      BY <2>1, <2>2
  <1> QED
    BY <1>1, <1>2, FromSomewhere

LEMMA ObserverTakesProceeds ==
    ASSUME ChatInv, NEW n \in Nodes, ObserverTakes(n)
    PROVE  Proceeds
  <1> DEFINE s == inbox[n]
             w == Head(inbox[n])[1]
             x == Head(inbox[n])[2]
  <1>1. /\ UNCHANGED <<op, seqno, got, offline>> /\ TypeOK
        /\ s # <<>> /\ inbox' = [inbox EXCEPT ![n] = Tail(s)]
        /\ observer' = [observer EXCEPT ![n] =
              [pc |-> "lookup", user |-> ElementInteger(w), msg |-> x, conn |-> NoConn]]
    BY DEF ObserverTakes, ChatInv
  <1>2. /\ s = inbox[n] /\ w = Head(s)[1] /\ x = Head(s)[2]
        /\ s \in Seq(Users \X Messages) /\ n \in DOMAIN inbox /\ n \in DOMAIN observer
    BY <1>1 DEF TypeOK
  <1> HIDE DEF s, w, x
  <1>3. /\ Len(s) \in Nat /\ Len(s) >= 1 /\ Head(s) = s[1] /\ s[1] \in Users \X Messages
        /\ Len(Tail(s)) = Len(s) - 1 /\ \A i \in 1..Len(Tail(s)) : Tail(s)[i] = s[i + 1]
    BY <1>1, <1>2, HeadTailProperties, EmptySeq, LenProperties, ElementOfSeq
  <1>4. w \in Users /\ s[1] = <<w, x>> /\ ElementInteger(w) \in {w, NoUser} /\ NoUser \notin Users
    BY <1>2, <1>3, ConstantsAssumption DEF ElementInteger
  <1>5. /\ inbox'[n] = Tail(s) /\ observer'[n].pc = "lookup" /\ observer'[n].msg = x
        /\ observer'[n].user = ElementInteger(w)
        /\ \A k \in Nodes \ {n} : observer'[k] = observer[k] /\ inbox'[k] = inbox[k]
    BY <1>1, <1>2 DEF TypeOK
  <1>6. ASSUME NEW m \in Messages, NEW v \in Users PROVE Grounded(m, v)
    <2>1. m \in offline'[v] => Underway(m, v)
      BY <1>1 DEF Underway
    <2>2. ASSUME Forwarded(n, m, v)' PROVE Forwarded(n, m, v)
      <3>1. PICK i \in 1..Len(Tail(s)) : Tail(s)[i] = <<v, m>>
        BY <1>5, <2>2 DEF Forwarded
      <3>2. i + 1 \in 1..Len(s) /\ s[i + 1] = <<v, m>>
        BY <1>3, <3>1
      <3> QED
        BY <1>2, <3>2 DEF Forwarded
    <2>3. ASSUME WithObserver(n, m, v)' PROVE Forwarded(n, m, v)
      <3>1. m = x /\ v = w
        BY <1>4, <1>5, <2>3 DEF WithObserver
      <3>2. 1 \in 1..Len(s)
        BY <1>3
      <3> QED
        BY <1>2, <1>4, <3>1, <3>2 DEF Forwarded
    <2>4. Forwarded(n, m, v)' \/ WithObserver(n, m, v)' => Underway(m, v)
      BY <2>2, <2>3 DEF Underway
    <2> QED
      BY <1>1, <1>5, <2>1, <2>4, ObserverGrounds
  <1> QED
    BY <1>1, <1>6 DEF Proceeds

LEMMA ObserverLooksUpProceeds ==
    ASSUME ChatInv, NEW n \in Nodes, ObserverLooksUp(n)
    PROVE  Proceeds
  <1> DEFINE u == observer[n].user
             target == IF u \in Users THEN connMap[n][u] ELSE NoConn
             p == IF target = NoConn THEN "store" ELSE "send"
  <1>1. /\ UNCHANGED <<op, seqno, got, offline, inbox>> /\ observer[n].pc = "lookup"
        /\ observer' = [observer EXCEPT ![n].pc = p, ![n].conn = target]
        /\ observer \in [Nodes -> Observer]
    BY DEF ObserverLooksUp, ChatInv, TypeOK
  <1>2. target # NoConn => u \in Users /\ Owner[target] = u
    BY Found
  <1>3. u = observer[n].user /\ p \in {"store", "send"} /\ (p = "send" => target # NoConn)
    OBVIOUS
  <1> HIDE DEF u, target, p
  <1>4. /\ observer'[n].pc = p /\ observer'[n].conn = target
        /\ observer'[n].user = u /\ observer'[n].msg = observer[n].msg
        /\ \A k \in Nodes \ {n} : observer'[k] = observer[k] /\ inbox'[k] = inbox[k]
    BY <1>1, <1>3 DEF Observer
  <1>5. ASSUME NEW m \in Messages, NEW v \in Users PROVE Grounded(m, v)
    <2>1. m \in offline'[v] => Underway(m, v)
      BY <1>1 DEF Underway
    <2>2. Forwarded(n, m, v)' => Forwarded(n, m, v)
      BY <1>1 DEF Forwarded
    <2>3. WithObserver(n, m, v)' => WithObserver(n, m, v)
      BY <1>1, <1>2, <1>3, <1>4 DEF WithObserver
    <2>4. Forwarded(n, m, v)' \/ WithObserver(n, m, v)' => Underway(m, v)
      BY <2>2, <2>3 DEF Underway
    <2> QED
      BY <1>1, <1>4, <2>1, <2>4, ObserverGrounds
  <1> QED
    BY <1>1, <1>5 DEF Proceeds

LEMMA ObserverSendsProceeds ==
    ASSUME ChatInv, NEW n \in Nodes, ObserverSends(n)
    PROVE  Proceeds
  <1> DEFINE t == observer[n].conn
             x == observer[n].msg
  <1>1. /\ UNCHANGED <<op, seqno, offline, inbox>> /\ observer[n].pc = "send" /\ TypeOK
        /\ Send(t, x) /\ observer' = [observer EXCEPT ![n] = NoObserver]
    BY DEF ObserverSends, ChatInv
  <1>2. t \in Conns /\ x \in Messages
    BY <1>1 DEF ChatInv, ObserverOK
  <1>3. WithObserver(n, x, Owner[t])
    BY <1>1 DEF WithObserver
  <1> HIDE DEF t, x
  <1>4. Underway(x, Owner[t])
    BY <1>3 DEF Underway
  <1>5. observer'[n] = NoObserver /\ \A k \in Nodes \ {n} : observer'[k] = observer[k]
    BY <1>1, ObserverIsIdle
  <1>6. /\ \A d \in Conns : got[d] \subseteq got'[d]
        /\ \A d \in Conns : \A m : m \in got'[d] /\ m \notin got[d] => d = t /\ m = x
    BY <1>1, <1>2, SendEffect
  <1>7. ASSUME NEW m \in Messages, NEW v \in Users PROVE Grounded(m, v)
    <2>1. m \in offline'[v] => Underway(m, v)
      BY <1>1 DEF Underway
    <2>2. Forwarded(n, m, v)' => Forwarded(n, m, v)
      BY <1>1 DEF Forwarded
    <2>3. ~WithObserver(n, m, v)'
      BY <1>5 DEF WithObserver, NoObserver
    <2>4. Forwarded(n, m, v)' \/ WithObserver(n, m, v)' => Underway(m, v)
      BY <2>2, <2>3 DEF Underway
    <2>5. \A d \in Conns : /\ m \in got[d] => m \in got'[d]
                           /\ m \in got'[d] => m \in got[d] \/ (Owner[d] = v => Underway(m, v))
      BY <1>4, <1>6
    <2> QED
      BY <1>1, <1>5, <2>1, <2>4, <2>5, ObserverGrounds
  <1> QED
    BY <1>1, <1>7 DEF Proceeds

LEMMA ObserverStoresProceeds ==
    ASSUME ChatInv, NEW n \in Nodes, ObserverStores(n)
    PROVE  Proceeds
  <1> DEFINE u == observer[n].user
             x == observer[n].msg
  <1>1. /\ UNCHANGED <<op, seqno, got, inbox>> /\ observer[n].pc = "store" /\ TypeOK
        /\ observer' = [observer EXCEPT ![n] = NoObserver]
        /\ offline \in [Users \cup {NoUser} -> SUBSET Messages]
        /\ offline' = offline \/ offline' = [offline EXCEPT ![u] = @ \cup {x}]
    BY UsualTypes DEF ObserverStores, ChatInv
  <1>2. Underway(x, u)
    BY <1>1 DEF WithObserver, Underway
  <1> HIDE DEF u, x
  <1>3. observer'[n] = NoObserver /\ \A k \in Nodes \ {n} : observer'[k] = observer[k]
    BY <1>1, ObserverIsIdle
  <1>4. ASSUME NEW m \in Messages, NEW v \in Users PROVE Grounded(m, v)
    <2>1. m \in offline'[v] => Underway(m, v)
      <3>1. m \in offline'[v] => m \in offline[v] \/ (m = x /\ v = u)
        BY <1>1
      <3> QED
        BY <1>2, <3>1 DEF Underway
    <2>2. Forwarded(n, m, v)' => Forwarded(n, m, v)
      BY <1>1 DEF Forwarded
    <2>3. ~WithObserver(n, m, v)'
      BY <1>3 DEF WithObserver, NoObserver
    <2>4. Forwarded(n, m, v)' \/ WithObserver(n, m, v)' => Underway(m, v)
      BY <2>2, <2>3 DEF Underway
    <2> QED
      BY <1>1, <1>3, <2>1, <2>4, ObserverGrounds
  <1> QED
    BY <1>1, <1>4 DEF Proceeds

\* What the handler of c takes in hand is under way, and nothing else is new or gone.
LEMMA TakenInHand ==
    ASSUME NEW c \in Conns, UNCHANGED <<offline, inbox, observer>>,
           \A d \in Conns \ {c} : op'[d] = op[d], NEW m, NEW v,
           ~ReadBy(c, m, v), ~ReadBy(c, m, v)', InHand(c, m, v) => InHand(c, m, v)'
    PROVE  Underway(m, v)' <=> Underway(m, v) \/ InHand(c, m, v)'
  <1>1. ASSUME NEW d \in Conns \ {c}
        PROVE  (ReadBy(d, m, v) \/ InHand(d, m, v))' <=> ReadBy(d, m, v) \/ InHand(d, m, v)
    BY DEF ReadBy, InHand
  <1>2. ASSUME NEW n \in Nodes
        PROVE  (Forwarded(n, m, v) \/ WithObserver(n, m, v))'
                 <=> Forwarded(n, m, v) \/ WithObserver(n, m, v)
    BY DEF Forwarded, WithObserver
  <1>3. Underway(m, v)' => Underway(m, v) \/ InHand(c, m, v)'
    BY <1>1, <1>2 DEF Underway
  <1>4. Underway(m, v) => Underway(m, v)'
    BY <1>1, <1>2 DEF Underway
  <1>5. InHand(c, m, v)' => Underway(m, v)'
    BY DEF Underway
  <1> QED
    BY <1>3, <1>4, <1>5

\* A handler without a list has nothing in hand.
LEMMA EmptyLists ==
    ASSUME NEW c \in Conns, op[c].remote = <<>>, op[c].local = <<>>
    PROVE  \A m, v : ~InHand(c, m, v)
  <1>1. Len(op[c].remote) = 0 /\ Len(op[c].local) = 0
    OBVIOUS
  <1> QED
    BY <1>1 DEF InHand

\* The step numbers m and has it at place p, for the users in to.
Numbers(c, m, p, V) ==
    /\ m \in Messages /\ m.from = Owner[c] /\ m.seq = seqno[m.conv] + 1
    /\ seqno' = [seqno EXCEPT ![m.conv] = m.seq]
    /\ UNCHANGED <<got, faults>>
    /\ op[c].pc = "idle" /\ op'[c].pc = p /\ op'[c].msg = m
    /\ \A d \in Conns \ {c} : op'[d] = op[d]
    /\ \A x \in Messages, w \in Users : Underway(x, w)' <=> Underway(x, w) \/ (x = m /\ w \in V)

LEMMA OneChatNumbers ==
    ASSUME ChatInv, NEW c \in Conns, NEW v \in Users, OneChat(c, v)
    PROVE  \E m \in Messages : m.conv = {m.from, v} /\ m.conv \in Pairs /\ Numbers(c, m, "lookup", {v})
  <1> DEFINE k == {Owner[c], v}
             m == [conv |-> k, seq |-> seqno[k] + 1, from |-> Owner[c]]
             s == <<v>>
  <1>1. /\ UNCHANGED <<offline, inbox, observer, got, faults>>
        /\ op[c].pc = "idle" /\ seqno[k] < MaxSeq
        /\ seqno' = [seqno EXCEPT ![k] = @ + 1]
        /\ op' = [op EXCEPT ![c].pc = "lookup", ![c].remote = s, ![c].msg = m]
    BY DEF OneChat, TakeNumber, At, redisVars
  <1>2. Owner[c] \in Users /\ MaxSeq \in Nat /\ k \in Pairs /\ k \in Conversations
    BY ConstantsAssumption DEF Pairs, Conversations
  <1>3. seqno[k] \in 0..MaxSeq /\ seqno \in [Conversations -> 0..MaxSeq]
    BY <1>2 DEF ChatInv, TypeOK
  <1>4. m \in Messages /\ m.conv = k /\ m.from = Owner[c] /\ m.seq = seqno[k] + 1
    BY <1>1, <1>2, <1>3 DEF Messages
  <1>5. Len(s) = 1 /\ s[1] = v /\ k = {Owner[c], v}
    OBVIOUS
  <1> HIDE DEF k, m, s
  <1>6. /\ op \in [Conns -> Handler] /\ op[c].remote = <<>> /\ op[c].local = <<>>
    BY <1>1, UsualTypes DEF ChatInv, HandlerOK, At, ChatPlaces
  <1>7. /\ op'[c].pc = "lookup" /\ op'[c].msg = m /\ op'[c].remote = s /\ op'[c].local = <<>>
        /\ \A d \in Conns \ {c} : op'[d] = op[d]
    BY <1>1, <1>6 DEF Handler
  <1>8. ASSUME NEW x \in Messages, NEW w \in Users
        PROVE  Underway(x, w)' <=> Underway(x, w) \/ (x = m /\ w \in {v})
    <2>1. ~ReadBy(c, x, w) /\ ~ReadBy(c, x, w)' /\ ~InHand(c, x, w)
      BY <1>1, <1>6, <1>7, EmptyLists DEF ReadBy
    <2>2. InHand(c, x, w)' <=> x = m /\ w = v
      <3>1. Len(op'[c].local) = 0
        BY <1>7
      <3>2. 1 \in 1..Len(s) /\ \A i \in 1..Len(s) : s[i] = v
        BY <1>5
      <3>3. (\E i \in 1..Len(op'[c].remote) : op'[c].remote[i] = w) <=> w = v
        BY <1>7, <3>2
      <3>4. ~\E i \in 1..Len(op'[c].local) : Owner[op'[c].local[i]] = w
        BY <3>1
      <3> QED
        BY <1>7, <3>3, <3>4 DEF InHand
    <2> QED
      BY <1>1, <1>7, <2>1, <2>2, TakenInHand
  <1>9. seqno' = [seqno EXCEPT ![m.conv] = m.seq]
    BY <1>1, <1>4
  <1>10. Numbers(c, m, "lookup", {v})
    BY <1>1, <1>4, <1>7, <1>8, <1>9 DEF Numbers
  <1> QED
    BY <1>2, <1>4, <1>5, <1>10

LEMMA GroupChatNumbers ==
    ASSUME ChatInv, NEW c \in Conns, NEW g \in Groups, GroupChat(c, g)
    PROVE  \E m \in Messages : m.conv = g /\ Numbers(c, m, "members", {})
  <1> DEFINE m == [conv |-> g, seq |-> seqno[g] + 1, from |-> Owner[c]]
             s == <<>>
  <1>1. /\ UNCHANGED <<offline, inbox, observer, got, faults>>
        /\ op[c].pc = "idle" /\ seqno[g] < MaxSeq
        /\ seqno' = [seqno EXCEPT ![g] = @ + 1]
        /\ op' = [op EXCEPT ![c].pc = "members", ![c].remote = s, ![c].msg = m]
    BY DEF GroupChat, TakeNumber, At, redisVars
  <1>2. Owner[c] \in Users /\ MaxSeq \in Nat /\ g \in Conversations
    BY ConstantsAssumption DEF Conversations
  <1>3. seqno[g] \in 0..MaxSeq /\ seqno \in [Conversations -> 0..MaxSeq]
    BY <1>2 DEF ChatInv, TypeOK
  <1>4. m \in Messages /\ m.conv = g /\ m.from = Owner[c] /\ m.seq = seqno[g] + 1 /\ s = <<>>
    BY <1>1, <1>2, <1>3 DEF Messages
  <1> HIDE DEF m, s
  <1>5. /\ op \in [Conns -> Handler] /\ op[c].remote = <<>> /\ op[c].local = <<>>
    BY <1>1, UsualTypes DEF ChatInv, HandlerOK, At, ChatPlaces
  <1>6. /\ op'[c].pc = "members" /\ op'[c].msg = m /\ op'[c].remote = <<>> /\ op'[c].local = <<>>
        /\ \A d \in Conns \ {c} : op'[d] = op[d]
    BY <1>1, <1>4, <1>5 DEF Handler
  <1>7. ASSUME NEW x \in Messages, NEW w \in Users
        PROVE  Underway(x, w)' <=> Underway(x, w) \/ (x = m /\ w \in {})
    <2>1. ~ReadBy(c, x, w) /\ ~ReadBy(c, x, w)' /\ ~InHand(c, x, w)
      BY <1>1, <1>5, <1>6, EmptyLists DEF ReadBy
    <2>2. ~InHand(c, x, w)'
      <3>1. Len(op'[c].local) = 0 /\ Len(op'[c].remote) = 0
        BY <1>6
      <3> QED
        BY <3>1 DEF InHand
    <2> QED
      BY <1>1, <1>6, <2>1, <2>2, TakenInHand
  <1>8. seqno' = [seqno EXCEPT ![m.conv] = m.seq]
    BY <1>1, <1>4
  <1>9. Numbers(c, m, "members", {})
    BY <1>1, <1>4, <1>6, <1>7, <1>8 DEF Numbers
  <1> QED
    BY <1>4, <1>9

\* The addressees of the message of c are V from now on.
Addresses(c, V) ==
    /\ op[c].pc = "members" /\ op'[c].pc # "members"
    /\ op[c].msg \in Messages /\ op[c].msg.conv \in Groups
    /\ V \subseteq Users \ {op[c].msg.from}
    /\ UNCHANGED <<seqno, got>>
    /\ \A d \in Conns \ {c} : op'[d] = op[d]
    /\ \A x \in Messages, w \in Users :
          Underway(x, w)' <=> Underway(x, w) \/ (x = op[c].msg /\ w \in V)

LEMMA GroupMembersAddresses ==
    ASSUME ChatInv, NEW c \in Conns, GroupMembers(c)
    PROVE  \E V \in SUBSET Users : Addresses(c, V)
  <1> DEFINE m == op[c].msg
             s == members[op[c].msg.conv]
             T == Users \ {Owner[c]}
             to == Selected(s, T)
  <1>1. /\ UNCHANGED <<seqno, got, offline, inbox, observer>> /\ TypeOK /\ HandlerOK(c)
        /\ op[c].pc = "members" /\ op \in [Conns -> Handler]
    BY UsualTypes DEF GroupMembers, At, ChatInv, redisVars
  <1>2. /\ m \in Messages /\ m.conv \in Groups /\ m.from = Owner[c]
        /\ op[c].remote = <<>> /\ op[c].local = <<>>
    BY <1>1 DEF HandlerOK, At, ChatPlaces
  <1>3. \/ op' = [op EXCEPT ![c].pc = "collect", ![c].remote = to]
        \/ Return(c)
    BY DEF GroupMembers, Without
  <1>4. \A x, w : ~ReadBy(c, x, w) /\ ~InHand(c, x, w)
    BY <1>1, <1>2, EmptyLists DEF ReadBy
  <1>5. CASE Return(c)
    <2>1. op'[c] = NoHandler /\ \A d \in Conns \ {c} : op'[d] = op[d]
      BY <1>1, <1>5, Returns
    <2>2. \A x, w : ~ReadBy(c, x, w)' /\ ~InHand(c, x, w)'
      BY <2>1, EmptyHandler
    <2>3. \A x \in Messages, w \in Users :
             Underway(x, w)' <=> Underway(x, w) \/ (x = op[c].msg /\ w \in {})
      BY <1>1, <1>4, <2>1, <2>2, TakenInHand
    <2>4. op'[c].pc # "members"
      BY <2>1 DEF NoHandler
    <2>5. Addresses(c, {})
      BY <1>1, <1>2, <2>1, <2>3, <2>4 DEF Addresses
    <2> QED
      BY <2>5
  <1>6. CASE op' = [op EXCEPT ![c].pc = "collect", ![c].remote = to]
    <2> DEFINE V == {w \in Users : \E i \in 1..Len(to) : to[i] = w}
    <2>1. \A i \in 1..Len(to) : to[i] \in T
      <3>1. s \in Seq(Users) /\ to = Selected(s, T)
        BY <1>1, <1>2 DEF TypeOK
      <3> HIDE DEF s, T, to
      <3> QED
        BY <3>1, SelectedElements
    <2>2. T = Users \ {Owner[c]} /\ m = op[c].msg
      OBVIOUS
    <2> HIDE DEF m, s, T, to
    <2>3. /\ op'[c].pc = "collect" /\ op'[c].msg = m /\ op'[c].local = <<>> /\ op'[c].remote = to
          /\ \A d \in Conns \ {c} : op'[d] = op[d]
      BY <1>1, <1>2, <1>6, <2>2 DEF Handler
    <2>4. ASSUME NEW x \in Messages, NEW w \in Users
          PROVE  Underway(x, w)' <=> Underway(x, w) \/ (x = m /\ w \in V)
      <3>1. ~ReadBy(c, x, w)'
        BY <2>3 DEF ReadBy
      <3>2. InHand(c, x, w)' <=> x = m /\ w \in V
        <4>1. Len(op'[c].local) = 0
          BY <2>3
        <4> QED
          BY <2>3, <4>1 DEF InHand
      <3> QED
        BY <1>1, <1>4, <2>3, <3>1, <3>2, TakenInHand
    <2>5. V \subseteq Users \ {m.from}
      BY <1>2, <2>1, <2>2
    <2> HIDE DEF V
    <2>6. Addresses(c, V)
      BY <1>1, <1>2, <2>2, <2>3, <2>4, <2>5 DEF Addresses
    <2> QED
      BY <2>5, <2>6
  <1> QED
    BY <1>3, <1>5, <1>6
-----------------------------------------------------------------------------
(* The refinement *)

\* A step numbers a message, finds out for whom one is, or keeps to Proceeds.
LEMMA KindsOfStep ==
    ASSUME ChatInv, [Next]_vars
    PROVE  \/ Proceeds
           \/ \E c \in Conns : \/ \E v \in Users : OneChat(c, v)
                               \/ \E g \in Groups : GroupChat(c, g)
                               \/ GroupMembers(c)
  <1>1. TypeOK
    BY DEF ChatInv
  <1>2. CASE UNCHANGED vars
    BY <1>1, <1>2, AsideProceeds
  <1>3. ASSUME NEW c \in Conns, ClientStep(c)
        PROVE  Proceeds \/ (\E v \in Users : OneChat(c, v)) \/ \E g \in Groups : GroupChat(c, g)
    BY <1>1, <1>3, CalmProceeds, AsideProceeds DEF ClientStep
  <1>4. ASSUME NEW c \in Conns, CloseStarts(c) PROVE Proceeds
    BY <1>1, <1>4, CalmProceeds DEF CloseStarts
  <1>5. ASSUME NEW c \in Conns, HandlerStep(c) PROVE Proceeds \/ GroupMembers(c)
    <2>1. CASE LoginStep(c)
      BY <1>1, <2>1, CalmProceeds, LoginQueryProceeds, LoginRemoveProceeds, LoginAckProceeds
         DEF LoginStep
    <2>2. CASE LogoutUnsubscribe(c) \/ LogoutOffline(c) \/ CloseStep(c)
      BY <1>1, <2>2, CalmProceeds DEF CloseStep
    <2>3. CASE ChatStep(c)
      BY <1>1, <2>3, CalmProceeds, ChatLookupProceeds, GroupCollectProceeds, GroupPushProceeds,
         PublishProceeds, StoreProceeds DEF ChatStep
    <2> QED
      BY <1>5, <2>1, <2>2, <2>3 DEF HandlerStep
  <1>6. ASSUME NEW n \in Nodes, RedisStep(n) PROVE Proceeds
    BY <1>1, <1>6, AsideProceeds DEF RedisStep
  <1>7. ASSUME NEW n \in Nodes, ForwardStep(n) PROVE Proceeds
    BY <1>7, ObserverTakesProceeds, ObserverLooksUpProceeds, ObserverSendsProceeds,
       ObserverStoresProceeds DEF ForwardStep, ObserverStep
  <1>8. ASSUME NEW n \in Nodes, NodeStep(n) PROVE Proceeds
    BY <1>1, <1>8, AsideProceeds, ProcessEndsProceeds DEF NodeStep, Exits, Crashes
  <1> QED
    BY <1>2, <1>3, <1>4, <1>5, <1>6, <1>7, <1>8 DEF Next

\* The messages whose members are being queried are different ones: their numbers have
\* been given out, each once.
UndecidedOnce ==
    \A c \in Conns : At(c, "members") =>
        /\ op[c].msg.seq =< seqno[op[c].msg.conv]
        /\ \A d \in Conns \ {c} : At(d, "members") => op[d].msg # op[c].msg

LEMMA NumbersUndecided ==
    ASSUME ChatInv, UndecidedOnce, NEW c \in Conns, NEW m, NEW p, NEW V, Numbers(c, m, p, V)
    PROVE  UndecidedOnce'
  <1>1. /\ seqno \in [Conversations -> 0..MaxSeq] /\ MaxSeq \in Nat
        /\ m.conv \in Conversations /\ m.seq = seqno[m.conv] + 1
        /\ seqno' = [seqno EXCEPT ![m.conv] = m.seq]
        /\ op'[c].msg = m /\ \A d \in Conns \ {c} : op'[d] = op[d]
    BY ConstantsAssumption DEF Numbers, Messages, ChatInv, TypeOK
  <1>2. \A d \in Conns : At(d, "members") => op[d].msg \in Messages
    BY DEF ChatInv, HandlerOK, At, ChatPlaces
  <1>3. ASSUME NEW d \in Conns \ {c}, At(d, "members")
        PROVE  op[d].msg # m /\ op[d].msg.seq =< seqno'[op[d].msg.conv]
    <2> DEFINE x == op[d].msg
    <2>1. /\ x \in Messages /\ x.seq =< seqno[x.conv] /\ x.seq \in Int /\ x.conv \in Conversations
      BY <1>2, <1>3 DEF UndecidedOnce, Messages
    <2> HIDE DEF x
    <2>2. x # m
      BY <1>1, <2>1
    <2>3. x.seq =< seqno'[x.conv]
      <3>1. seqno[x.conv] \in 0..MaxSeq /\ seqno[m.conv] \in 0..MaxSeq
        BY <1>1, <2>1
      <3>2. CASE x.conv = m.conv
        BY <1>1, <2>1, <3>1, <3>2
      <3>3. CASE x.conv # m.conv
        BY <1>1, <2>1, <3>3
      <3> QED
        BY <3>2, <3>3
    <2> QED
      BY <2>2, <2>3 DEF x
  <1>4. m.seq =< seqno'[m.conv]
    <2>1. seqno'[m.conv] = m.seq /\ m.seq \in Int
      BY <1>1
    <2> QED
      BY <2>1
  <1> QED
    BY <1>1, <1>3, <1>4 DEF UndecidedOnce, At

LEMMA UndecidedStep ==
    ASSUME ChatInv, UndecidedOnce, [Next]_vars
    PROVE  UndecidedOnce'
  <1>1. CASE UNCHANGED seqno /\ \A c \in Conns : op'[c].pc = "members" => op'[c] = op[c]
    BY <1>1 DEF UndecidedOnce, At
  <1>2. CASE Proceeds
    BY <1>1, <1>2 DEF Proceeds
  <1>3. ASSUME NEW c \in Conns, GroupMembers(c) PROVE UndecidedOnce'
    <2>1. PICK V \in SUBSET Users : Addresses(c, V)
      BY <1>3, GroupMembersAddresses
    <2> QED
      BY <1>1, <2>1 DEF Addresses
  <1>4. ASSUME NEW c \in Conns, NEW v \in Users, OneChat(c, v) PROVE UndecidedOnce'
    BY <1>4, OneChatNumbers, NumbersUndecided
  <1>5. ASSUME NEW c \in Conns, NEW g \in Groups, GroupChat(c, g) PROVE UndecidedOnce'
    BY <1>5, GroupChatNumbers, NumbersUndecided
  <1> QED
    BY <1>2, <1>3, <1>4, <1>5, KindsOfStep

\* What is read of two users' messages is on its way no more, while nothing has failed.
ReadIsGone ==
    faults = 0 /\ OneConnectionEach =>
        \A m \in PairMessages, v \in Users : Received(m, v) => ~Underway(m, v)

LEMMA OneCopyOnly ==
    ASSUME ChatInv, OnceInv
    PROVE  ReadIsGone
  <1> SUFFICES ASSUME faults = 0, OneConnectionEach, NEW m \in PairMessages, NEW v \in Users,
                      Received(m, v), Underway(m, v)
               PROVE  FALSE
    BY DEF ReadIsGone
  <1>1. \A s, t : CopyAt(s, m, v) /\ CopyAt(t, m, v) => s = t
    <2>1. \A t : t \in Copies(m, v) <=> CopyAt(t, m, v)
      BY CopiesNow, Zenon DEF CopiesAreThere
    <2> QED
      BY <2>1 DEF OnceInv, OneCopy
  <1>2. PICK c \in Conns : CopyAt(<<"got", c>>, m, v)
    BY DEF Received, CopyAt, GotBy
  <1>3. ASSUME NEW t, CopyAt(t, m, v), t[1] # "got" PROVE FALSE
    BY <1>1, <1>2, <1>3
  <1>4. ASSUME NEW d \in Conns, ReadBy(d, m, v) PROVE FALSE
    <2>1. CopyAt(<<"read", d>>, m, v)
      BY <1>4 DEF CopyAt
    <2> QED
      BY <1>3, <2>1
  <1>5. ASSUME NEW d \in Conns, InHand(d, m, v) PROVE FALSE
    <2>1. CopyAt(<<"handler", d>>, m, v)
      BY <1>5 DEF CopyAt
    <2> QED
      BY <1>3, <2>1
  <1>6. ASSUME m \in offline[v] PROVE FALSE
    <2>1. CopyAt(<<"row">>, m, v)
      BY <1>4, <1>6 DEF CopyAt, RowAt
    <2> QED
      BY <1>3, <2>1
  <1>7. ASSUME NEW n \in Nodes, Forwarded(n, m, v) PROVE FALSE
    <2>1. PICK i : CopyAt(<<"inbox", n, i>>, m, v)
      BY <1>7 DEF CopyAt, Forwarded, InboxAt
    <2> QED
      BY <1>3, <2>1
  <1>8. ASSUME NEW n \in Nodes, WithObserver(n, m, v) PROVE FALSE
    <2>1. AtObserver(n, m, v)
      BY <1>8 DEF AtObserver, WithObserver, ChatInv, ObserverOK
    <2>2. CopyAt(<<"observer", n>>, m, v)
      BY <2>1 DEF CopyAt
    <2> QED
      BY <1>3, <2>2
  <1> QED
    BY <1>4, <1>5, <1>6, <1>7, <1>8 DEF Underway

\* What is true of the message and the user of every letter.
LEMMA LettersAre ==
    \A l \in Letters : l[1] \in Messages /\ l[2] \in Users /\ l = <<l[1], l[2]>>
  BY DEF Letters

LEMMA DeliveryInit ==
    ASSUME Init
    PROVE  Delivery!Init
  <1>1. ASSUME NEW c \in Conns
        PROVE  /\ \A m, v : ~InHand(c, m, v) /\ ~ReadBy(c, m, v)
               /\ got[c] = {} /\ op[c].pc = "idle"
    <2>1. op[c] = NoHandler /\ got[c] = {}
      BY DEF Init
    <2>2. /\ op[c].pc = "idle" /\ op[c].local = <<>> /\ op[c].remote = <<>>
      BY <2>1 DEF NoHandler
    <2> QED
      BY <2>1, <2>2, EmptyLists DEF ReadBy
  <1>2. ASSUME NEW m, NEW v \in Users PROVE ~Underway(m, v) /\ ~Received(m, v)
    <2>1. offline[v] = {}
      BY DEF Init
    <2>2. ASSUME NEW n \in Nodes PROVE ~Forwarded(n, m, v) /\ ~WithObserver(n, m, v)
      <3>1. observer[n].pc = "idle" /\ inbox[n] = <<>>
        BY DEF Init, NoObserver
      <3>2. Len(inbox[n]) = 0
        BY <3>1
      <3> QED
        BY <3>1, <3>2 DEF Forwarded, WithObserver
    <2> QED
      BY <1>1, <2>1, <2>2 DEF Underway, Received
  <1>3. {l \in Letters : Underway(l[1], l[2])} = {} /\ {l \in Letters : Received(l[1], l[2])} = {}
    BY <1>2, LettersAre
  <1>4. {op[c].msg : c \in {d \in Conns : At(d, "members")}} = {}
    BY <1>1 DEF At
  <1>5. seqno = [k \in Conversations |-> 0]
    BY DEF Init
  <1>6. (faults = 0 /\ OneConnectionEach) \in BOOLEAN
    OBVIOUS
  <1> QED
    BY <1>3, <1>4, <1>5, <1>6 DEF Delivery!Init

\* No failure is taken back.
LEMMA ReliableStep ==
    ASSUME ChatInv, [Next]_vars
    PROVE  /\ (faults = 0 /\ OneConnectionEach)' => faults = 0 /\ OneConnectionEach
           /\ UNCHANGED faults =>
                 (faults = 0 /\ OneConnectionEach)' = (faults = 0 /\ OneConnectionEach)
  <1>1. UNCHANGED scene /\ (Fault \/ UNCHANGED faults)
    BY FaultOrNot
  <1>2. OneConnectionEach' = OneConnectionEach
    BY <1>1 DEF OneConnectionEach
  <1>3. faults' = 0 => faults = 0
    BY <1>1, FaultsGrow DEF ChatInv
  <1> QED
    BY <1>2, <1>3

LEMMA ProceedsDelivery ==
    ASSUME ChatInv, ReadIsGone', [Next]_vars, Proceeds
    PROVE  Delivery!Proceed
  <1> DEFINE und == {op[c].msg : c \in {d \in Conns : At(d, "members")}}
             tra == {l \in Letters : Underway(l[1], l[2])}
             rea == {l \in Letters : Received(l[1], l[2])}
             rel == faults = 0 /\ OneConnectionEach
  <1>1. und' \subseteq und
    BY DEF Proceeds, At
  <1>2. \A l \in Letters : Grounded(l[1], l[2])
    BY LettersAre DEF Proceeds
  <1>3. tra' \subseteq tra /\ rea \subseteq rea' /\ rea' \ rea \subseteq tra
    BY <1>2 DEF Grounded, Letters
  <1>4. rel' => rel
    BY ReliableStep
  <1>5. rel' => \A l \in rea' : l[1].conv \in Pairs => l \notin tra'
    <2> SUFFICES ASSUME rel', NEW l \in Letters, Received(l[1], l[2])', l[1].conv \in Pairs,
                        Underway(l[1], l[2])'
                 PROVE  FALSE
      BY DEF Letters
    <2>1. l[1] \in PairMessages /\ l[2] \in Users
      BY LettersAre DEF PairMessages
    <2> QED
      BY <2>1 DEF ReadIsGone
  <1>6. UNCHANGED seqno
    BY DEF Proceeds
  <1> QED
    BY <1>1, <1>3, <1>4, <1>5, <1>6 DEF Delivery!Proceed, Delivery!Exclusive

LEMMA OneChatDelivery ==
    ASSUME ChatInv, [Next]_vars, NEW c \in Conns, NEW v \in Users, OneChat(c, v)
    PROVE  \E m \in Messages : Delivery!SendToUser(m, v)
  <1> DEFINE und == {op[d].msg : d \in {e \in Conns : At(e, "members")}}
             tra == {l \in Letters : Underway(l[1], l[2])}
             rea == {l \in Letters : Received(l[1], l[2])}
             rel == faults = 0 /\ OneConnectionEach
  <1>1. PICK m \in Messages : /\ m.conv = {m.from, v} /\ m.conv \in Pairs
                              /\ Numbers(c, m, "lookup", {v})
    BY OneChatNumbers
  <1>2. und' = und
    BY <1>1 DEF Numbers, At
  <1>3. <<m, v>> \in Letters
    <2>1. m.conv \notin Groups
      BY <1>1, PairMessage DEF PairMessages
    <2> QED
      BY <1>1, <2>1 DEF Letters
  <1>4. tra' = tra \cup {<<m, v>>}
    <2>1. ASSUME NEW l \in Letters
          PROVE  Underway(l[1], l[2])' <=> Underway(l[1], l[2]) \/ l = <<m, v>>
      BY <1>1, LettersAre DEF Numbers
    <2>2. Letters' = Letters
      BY DEF Letters
    <2> QED
      BY <1>3, <2>1, <2>2
  <1>5. rea' = rea
    BY <1>1 DEF Numbers, Received, Letters
  <1>6. rel' = rel
    BY <1>1, ReliableStep DEF Numbers
  <1>7. m.seq = seqno[m.conv] + 1 /\ seqno' = [seqno EXCEPT ![m.conv] = m.seq]
    BY <1>1 DEF Numbers
  <1> QED
    BY <1>1, <1>2, <1>3, <1>4, <1>5, <1>6, <1>7 DEF Delivery!SendToUser, Delivery!Number

LEMMA GroupChatDelivery ==
    ASSUME ChatInv, [Next]_vars, NEW c \in Conns, NEW g \in Groups, GroupChat(c, g)
    PROVE  \E m \in Messages : Delivery!SendToGroup(m)
  <1> DEFINE und == {op[d].msg : d \in {e \in Conns : At(e, "members")}}
             tra == {l \in Letters : Underway(l[1], l[2])}
             rea == {l \in Letters : Received(l[1], l[2])}
             rel == faults = 0 /\ OneConnectionEach
  <1>1. PICK m \in Messages : m.conv = g /\ Numbers(c, m, "members", {})
    BY GroupChatNumbers
  <1>2. und' = und \cup {m}
    BY <1>1 DEF Numbers, At
  <1>3. m.conv \notin Pairs
    BY <1>1, PairMessage DEF PairMessages
  <1>4. tra' = tra
    <2>1. ASSUME NEW l \in Letters
          PROVE  Underway(l[1], l[2])' <=> Underway(l[1], l[2])
      BY <1>1, LettersAre DEF Numbers
    <2>2. Letters' = Letters
      BY DEF Letters
    <2> QED
      BY <2>1, <2>2
  <1>5. rea' = rea
    BY <1>1 DEF Numbers, Received, Letters
  <1>6. rel' = rel
    BY <1>1, ReliableStep DEF Numbers
  <1>7. m.seq = seqno[m.conv] + 1 /\ seqno' = [seqno EXCEPT ![m.conv] = m.seq]
    BY <1>1 DEF Numbers
  <1> QED
    BY <1>2, <1>3, <1>4, <1>5, <1>6, <1>7 DEF Delivery!SendToGroup, Delivery!Number

LEMMA GroupMembersDelivery ==
    ASSUME ChatInv, UndecidedOnce, [Next]_vars, NEW c \in Conns, GroupMembers(c)
    PROVE  \E m \in {op[d].msg : d \in {e \in Conns : At(e, "members")}}, V \in SUBSET Users :
              Delivery!Address(m, V)
  <1> DEFINE und == {op[d].msg : d \in {e \in Conns : At(e, "members")}}
             tra == {l \in Letters : Underway(l[1], l[2])}
             rea == {l \in Letters : Received(l[1], l[2])}
             rel == faults = 0 /\ OneConnectionEach
             m == op[c].msg
  <1>1. PICK V \in SUBSET Users : Addresses(c, V)
    BY GroupMembersAddresses
  <1>2. m \in und /\ und' = und \ {m}
    BY <1>1 DEF Addresses, At, UndecidedOnce
  <1>3. {m} \X V \subseteq Letters
    BY <1>1 DEF Addresses, Letters
  <1>4. tra' = tra \cup ({m} \X V)
    <2>1. ASSUME NEW l \in Letters
          PROVE  Underway(l[1], l[2])' <=> Underway(l[1], l[2]) \/ l \in {m} \X V
      BY <1>1, LettersAre DEF Addresses
    <2>2. Letters' = Letters
      BY DEF Letters
    <2> QED
      BY <1>3, <2>1, <2>2
  <1>5. rea' = rea
    BY <1>1 DEF Addresses, Received, Letters
  <1>6. rel' => rel
    BY ReliableStep
  <1>7. UNCHANGED seqno
    BY <1>1 DEF Addresses
  <1>8. Delivery!Address(m, V)
    BY <1>2, <1>3, <1>4, <1>5, <1>6, <1>7 DEF Delivery!Address
  <1> QED
    BY <1>2, <1>8

LEMMA DeliveryStep ==
    ASSUME ChatInv, UndecidedOnce, ReadIsGone', [Next]_vars
    PROVE  Delivery!Next
  <1>1. CASE Proceeds
    BY <1>1, ProceedsDelivery DEF Delivery!Next
  <1>2. ASSUME NEW c \in Conns, NEW v \in Users, OneChat(c, v) PROVE Delivery!Next
    BY <1>2, OneChatDelivery DEF Delivery!Next
  <1>3. ASSUME NEW c \in Conns, NEW g \in Groups, GroupChat(c, g) PROVE Delivery!Next
    BY <1>3, GroupChatDelivery DEF Delivery!Next
  <1>4. ASSUME NEW c \in Conns, GroupMembers(c) PROVE Delivery!Next
    BY <1>4, GroupMembersDelivery DEF Delivery!Next
  <1> QED
    BY <1>1, <1>2, <1>3, <1>4, KindsOfStep

\* ChatService keeps what MessageDelivery promises, with any number of nodes, users,
\* connections and failures: no handler, login, observer or end of a node brings back a
\* message that is lost, reads out one that was not on its way, or addresses one twice.
THEOREM ImplementsMessageDelivery == Spec => ImplementsDelivery
  <1>1. Init => UndecidedOnce /\ Delivery!Init
    <2>1. Init => UndecidedOnce
      BY DEF Init, UndecidedOnce, At, NoHandler
    <2> QED
      BY <2>1, DeliveryInit
  <1>2. ChatInv /\ UndecidedOnce /\ [Next]_vars => UndecidedOnce'
    BY UndecidedStep
  <1>3. ChatInv /\ OnceInv => ReadIsGone
    BY OneCopyOnly
  <1>4. ChatInv /\ UndecidedOnce /\ ReadIsGone' /\ [Next]_vars => [Delivery!Next]_(Delivery!vars)
    BY DeliveryStep
  <1> QED
    BY <1>1, <1>2, <1>3, <1>4, Invariance, OnceInvariance, PTL
       DEF Spec, Delivery!Spec, ImplementsDelivery
=============================================================================
