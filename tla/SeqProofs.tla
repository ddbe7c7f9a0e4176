------------------------------- MODULE SeqProofs -------------------------------
(***************************************************************************)
(* Type correctness, uniqueness and order of the numbers of SeqAllocator,  *)
(* for any number of nodes, threads, conversations, failures and restarts. *)
(*                                                                         *)
(* Unique alone is not inductive: it does not say that the next number is *)
(* fresh.  InRange relates every number given out to the allocator that    *)
(* gave it: a number of Redis is at most the counter, which is at most     *)
(* FallbackBase; a local one is above FallbackBase, and at most the local  *)
(* counter of its node if that node has not been restarted since - or less *)
(* than it, while a thread has incremented the counter and has not read it *)
(* yet (Settled).  Only one thread of a node can be there, because it     *)
(* holds _localSeqMutex (Exclusive).                                       *)
(*                                                                         *)
(* The order needs one fact more, BrokenFirst: a node that has given a     *)
(* local number in its present life has a broken context, unless an error  *)
(* reply made it fall back, so that it gives no number of Redis later.     *)
(***************************************************************************)
EXTENDS SeqAllocator, TLAPS

\* What a number says about its allocator: the counter c of Redis, or the local
\* counter l of its node in life f.
InRangeOf(a, c, l, f) ==
    /\ ~a.local => a.seq =< c
    /\ a.local => /\ a.seq > FallbackBase
                  /\ a.life =< f
                  /\ a.life = f => a.seq =< FallbackBase + l

\* The local counter of k in n has been incremented for a number that is not yet read.
Pending(n, k) == \E t \in Threads : NodeOf[t] = n /\ At(t, "number") /\ call[t].conv = k

\* Settled[n][k]: the last local number of k that was read in n, in this life of n.
Settled == [n \in Nodes |-> [k \in Conversations |->
               IF Pending(n, k) THEN localSeq[n][k] - 1 ELSE localSeq[n][k]]]

InRange ==
    \A k \in Conversations : \A i \in 1..Len(given[k]) :
        LET a == given[k][i]
        IN  InRangeOf(a, counter[k], Settled[a.node][k], life[a.node])

\* Inside localFallbackSeq a thread holds the mutex, and reads what it has incremented.
Exclusive ==
    \A t \in Threads :
        /\ call[t].pc \in {"count", "number"} => localMutex[NodeOf[t]] = t
        /\ At(t, "number") => localSeq[NodeOf[t]][call[t].conv] > 0

Inv == TypeOK /\ Exclusive /\ InRange /\ Unique
-----------------------------------------------------------------------------
\* What is in a sequence after an element was appended.
LEMMA Appended ==
    ASSUME NEW S, NEW q \in Seq(S), NEW e \in S
    PROVE  /\ Append(q, e) \in Seq(S)
           /\ \A i \in 1..Len(Append(q, e)) :
                 \/ i \in 1..Len(q) /\ Append(q, e)[i] = q[i]
                 \/ i = Len(q) + 1 /\ Append(q, e)[i] = e
  OBVIOUS

\* A thread inside incrSeq has a conversation.
LEMMA InsideCall ==
    ASSUME TypeOK, NEW t \in Threads, call[t].pc # "idle"
    PROVE  /\ call[t].conv \in Conversations
           /\ call[t] \in [pc : Places, conv : Conversations]
  BY DEF TypeOK, Call, Idle

\* Moving a thread within incrSeq keeps the type of call.
LEMMA GotoKeepsType ==
    ASSUME TypeOK, NEW t \in Threads, call[t].pc # "idle",
           NEW p \in Places, Goto(t, p)
    PROVE  call' \in [Threads -> Call]
  <1>1. [call[t] EXCEPT !.pc = p] \in Call
    BY InsideCall DEF Call
  <1> QED
    BY <1>1 DEF TypeOK, Goto

\* Leaving incrSeq keeps the type of call.
LEMMA ReturnKeepsType ==
    ASSUME TypeOK, NEW t \in Threads, call' = [call EXCEPT ![t] = Idle]
    PROVE  call' \in [Threads -> Call]
  BY DEF TypeOK, Call

\* The mutex of a node is free or held by a thread.
LEMMA UnlockKeepsType ==
    ASSUME TypeOK, NEW t \in Threads, Unlock(t)
    PROVE  cmdMutex' \in [Nodes -> Threads \cup {NoThread}]
  BY ConstantsAssumption DEF TypeOK, Unlock

\* The history after Give: the old numbers and a new one at the end.
LEMMA Given ==
    ASSUME TypeOK, NEW t \in Threads, call[t].pc # "idle",
           NEW s \in Nat \ {0}, NEW b \in BOOLEAN, Give(t, s, b)
    PROVE  LET n == NodeOf[t]
               e == [node |-> n, life |-> life[n], seq |-> s, local |-> b]
           IN  /\ given' \in [Conversations -> Seq(Number)]
               /\ \A k \in Conversations : \A i \in 1..Len(given'[k]) :
                     \/ i \in 1..Len(given[k]) /\ given'[k][i] = given[k][i]
                     \/ /\ k = call[t].conv
                        /\ i = Len(given[k]) + 1
                        /\ given'[k][i] = e
  <1> DEFINE n == NodeOf[t]
             e == [node |-> n, life |-> life[n], seq |-> s, local |-> b]
             c == call[t].conv
  <1>1. c \in Conversations
    BY InsideCall
  <1>2. e \in Number
    BY ConstantsAssumption DEF TypeOK, Number
  <1>3. given \in [Conversations -> Seq(Number)]
    BY DEF TypeOK
  <1>4. given' = [given EXCEPT ![c] = Append(given[c], e)]
    BY DEF Give
  <1> HIDE DEF e, c
  <1>5. given[c] \in Seq(Number)
    BY <1>1, <1>3
  <1>6. /\ Append(given[c], e) \in Seq(Number)
        /\ \A i \in 1..Len(Append(given[c], e)) :
              \/ i \in 1..Len(given[c]) /\ Append(given[c], e)[i] = given[c][i]
              \/ i = Len(given[c]) + 1 /\ Append(given[c], e)[i] = e
    BY <1>2, <1>5, Appended
  <1>7. given' \in [Conversations -> Seq(Number)]
    BY <1>1, <1>3, <1>4, <1>6
  <1>8. given'[c] = Append(given[c], e) /\ \A k \in Conversations : k # c => given'[k] = given[k]
    BY <1>1, <1>3, <1>4
  <1>9. \A k \in Conversations : \A i \in 1..Len(given'[k]) :
          \/ i \in 1..Len(given[k]) /\ given'[k][i] = given[k][i]
          \/ k = c /\ i = Len(given[k]) + 1 /\ given'[k][i] = e
    BY <1>6, <1>8
  <1> QED
    BY <1>7, <1>9 DEF e, c
-----------------------------------------------------------------------------
\* Every variable keeps its type.
LEMMA TypeStep == TypeOK /\ Exclusive /\ [Next]_vars => TypeOK'
  <1> SUFFICES ASSUME TypeOK, Exclusive, [Next]_vars PROVE TypeOK'
    OBVIOUS
  <1> USE ConstantsAssumption
  <1>1. ASSUME NEW t \in Threads, NEW k \in Conversations, Enter(t, k) PROVE TypeOK'
    <2>1. [pc |-> IF available[NodeOf[t]] THEN "lock" ELSE "local", conv |-> k] \in Call
      BY DEF Call, Places
    <2> QED
      BY <1>1, <2>1 DEF TypeOK, Enter
  <1>2. ASSUME NEW t \in Threads, Lock(t) PROVE TypeOK'
    <2>1. call' \in [Threads -> Call]
      BY <1>2, GotoKeepsType DEF Lock, At, Places
    <2> QED
      BY <1>2, <2>1 DEF TypeOK, Lock
  <1>3. ASSUME NEW t \in Threads, IncrAnswered(t) PROVE TypeOK'
    <2> DEFINE s == counter[call[t].conv] + 1
    <2>1. call[t].pc # "idle" /\ call[t].conv \in Conversations
      BY <1>3, InsideCall DEF IncrAnswered, At
    <2>2. s \in Nat \ {0} /\ s \in 0..FallbackBase
      BY <1>3, <2>1 DEF TypeOK, IncrAnswered, Increment
    <2>3. given' \in [Conversations -> Seq(Number)]
      <3>1. Give(t, s, FALSE)
        BY <1>3 DEF IncrAnswered
      <3>2. FALSE \in BOOLEAN
        OBVIOUS
      <3> HIDE DEF s
      <3> QED
        BY <2>1, <2>2, <3>1, <3>2, Given
    <2>4. counter' \in [Conversations -> 0..FallbackBase]
      BY <1>3, <2>1, <2>2 DEF TypeOK, IncrAnswered, Increment
    <2>5. cmdMutex' \in [Nodes -> Threads \cup {NoThread}] /\ call' \in [Threads -> Call]
      BY <1>3, UnlockKeepsType, ReturnKeepsType DEF IncrAnswered
    <2> QED
      BY <1>3, <2>3, <2>4, <2>5 DEF TypeOK, IncrAnswered
  <1>4. ASSUME NEW t \in Threads, IncrBreaks(t) PROVE TypeOK'
    <2>1. call[t].pc # "idle" /\ call[t].conv \in Conversations
      BY <1>4, InsideCall DEF IncrBreaks, At
    <2>2. counter' \in [Conversations -> 0..FallbackBase]
      <3>1. CASE UNCHANGED counter
        BY <3>1 DEF TypeOK
      <3>2. CASE Increment(call[t].conv)
        <4>1. counter[call[t].conv] + 1 \in 0..FallbackBase
          BY <2>1, <3>2 DEF TypeOK, Increment
        <4> QED
          BY <3>2, <4>1 DEF TypeOK, Increment
      <3> QED
        BY <1>4, <3>1, <3>2 DEF IncrBreaks
    <2>3. call' \in [Threads -> Call]
      BY <1>4, <2>1, GotoKeepsType DEF IncrBreaks, Places
    <2> QED
      BY <1>4, <2>2, <2>3 DEF TypeOK, IncrBreaks
  <1>5. ASSUME NEW t \in Threads, IncrRefused(t) PROVE TypeOK'
    <2>1. cmdMutex' \in [Nodes -> Threads \cup {NoThread}] /\ call' \in [Threads -> Call]
      BY <1>5, UnlockKeepsType, GotoKeepsType DEF IncrRefused, At, Places
    <2> QED
      BY <1>5, <2>1 DEF TypeOK, IncrRefused
  <1>6. ASSUME NEW t \in Threads, LocalNumber(t), Exclusive PROVE TypeOK'
    <2>1. call[t].pc # "idle" /\ call[t].conv \in Conversations
      BY <1>6, InsideCall DEF LocalNumber, At
    <2>2. localSeq[NodeOf[t]] \in [Conversations -> Nat] /\ localSeq[NodeOf[t]][call[t].conv] > 0
      BY <1>6 DEF TypeOK, Exclusive, LocalNumber
    <2>3. Local(NodeOf[t], call[t].conv) \in Nat \ {0}
      BY <2>1, <2>2 DEF Local
    <2>4. given' \in [Conversations -> Seq(Number)]
      BY <1>6, <2>1, <2>3, Given DEF LocalNumber
    <2>5. localMutex' \in [Nodes -> Threads \cup {NoThread}]
      BY <1>6 DEF TypeOK, LocalNumber
    <2>6. cmdMutex' \in [Nodes -> Threads \cup {NoThread}]
      BY <1>6, UnlockKeepsType DEF LocalNumber, TypeOK
    <2>7. call' \in [Threads -> Call]
      BY <1>6, ReturnKeepsType DEF LocalNumber
    <2> QED
      BY <1>6, <2>4, <2>5, <2>6, <2>7 DEF TypeOK, LocalNumber
  <1>11. ASSUME NEW t \in Threads, LocalLock(t) PROVE TypeOK'
    <2>1. call' \in [Threads -> Call]
      BY <1>11, GotoKeepsType DEF LocalLock, At, Places
    <2> QED
      BY <1>11, <2>1 DEF TypeOK, LocalLock
  <1>12. ASSUME NEW t \in Threads, LocalCount(t) PROVE TypeOK'
    <2>1. call[t].conv \in Conversations /\ call' \in [Threads -> Call]
      BY <1>12, InsideCall, GotoKeepsType DEF LocalCount, At, Places
    <2>2. localSeq' \in [Nodes -> [Conversations -> Nat]]
      <3>1. localSeq[NodeOf[t]] \in [Conversations -> Nat]
        BY DEF TypeOK
      <3> QED
        BY <1>12, <2>1, <3>1 DEF TypeOK, LocalCount
    <2> QED
      BY <1>12, <2>1, <2>2 DEF TypeOK, LocalCount
  <1>7. ASSUME NEW n \in Nodes, NodeRestarts(n) PROVE TypeOK'
    <2>1. call' \in [Threads -> Call]
      BY <1>7 DEF TypeOK, NodeRestarts, Call
    <2> QED
      BY <1>7, <2>1 DEF TypeOK, NodeRestarts
  <1>8. CASE RedisGoes
    BY <1>8 DEF TypeOK, RedisGoes
  <1>9. CASE RedisReturns
    BY <1>9 DEF TypeOK, RedisReturns
  <1>10. CASE UNCHANGED vars
    BY <1>10 DEF TypeOK, vars
  <1> QED
    BY <1>1, <1>2, <1>3, <1>4, <1>5, <1>6, <1>7, <1>8, <1>9, <1>10, <1>11, <1>12
       DEF Next, ThreadStep
-----------------------------------------------------------------------------
\* Settled has integers, also after a step.
LEMMA SettledTyped ==
    /\ TypeOK => Settled \in [Nodes -> [Conversations -> Int]]
    /\ TypeOK' => Settled' \in [Nodes -> [Conversations -> Int]]
  <1>1. ASSUME TypeOK PROVE \A n \in Nodes : localSeq[n] \in [Conversations -> Nat]
    BY <1>1 DEF TypeOK
  <1>2. ASSUME TypeOK' PROVE \A n \in Nodes : localSeq'[n] \in [Conversations -> Nat]
    BY <1>2 DEF TypeOK
  <1>3. ASSUME TypeOK, NEW n \in Nodes, NEW k \in Conversations
        PROVE  localSeq[n][k] \in Int /\ localSeq[n][k] - 1 \in Int
    BY <1>1, <1>3
  <1>4. ASSUME TypeOK', NEW n \in Nodes, NEW k \in Conversations
        PROVE  localSeq'[n][k] \in Int /\ localSeq'[n][k] - 1 \in Int
    BY <1>2, <1>4
  <1> QED
    BY <1>3, <1>4 DEF Settled

\* Where no local counter is incremented and no thread comes to read one or has read it.
LEMMA SettledStays ==
    ASSUME NEW n \in Nodes, localSeq'[n] = localSeq[n],
           \A t \in Threads : NodeOf[t] = n /\ (At(t, "number") \/ At(t, "number")')
                                => call'[t] = call[t]
    PROVE  Settled'[n] = Settled[n]
  <1>1. \A k \in Conversations : Pending(n, k)' <=> Pending(n, k)
    BY DEF Pending, At
  <1> QED
    BY <1>1 DEF Settled

\* The fields of a number that was given out.
LEMMA NumberHasFields ==
    ASSUME TypeOK, NEW k \in Conversations, NEW i \in 1..Len(given[k])
    PROVE  /\ given[k][i].node \in Nodes /\ given[k][i].life \in Nat
           /\ given[k][i].seq \in Nat /\ given[k][i].local \in BOOLEAN
  <1>1. given[k][i] \in Number
    BY DEF TypeOK
  <1> QED
    BY <1>1 DEF Number

\* A step that allocates nothing and lowers no counter of a running allocator
\* leaves every number in its range and all numbers distinct.
LEMMA NothingGiven ==
    ASSUME Inv, TypeOK', given' = given,
           \A k \in Conversations : counter[k] =< counter'[k],
           \A n \in Nodes : \/ life'[n] = life[n]
                               /\ Settled'[n] = Settled[n]
                            \/ life'[n] > life[n]
    PROVE  InRange' /\ Unique'
  <1>1. ASSUME NEW k \in Conversations, NEW i \in 1..Len(given[k])
        PROVE  LET a == given[k][i]
               IN  InRangeOf(a, counter'[k], Settled'[a.node][k], life'[a.node])
    <2> DEFINE a == given[k][i]
    <2>1. a.node \in Nodes /\ a.seq \in Nat /\ a.life \in Nat
      BY NumberHasFields DEF Inv
    <2>2. InRangeOf(a, counter[k], Settled[a.node][k], life[a.node])
      BY DEF Inv, InRange
    <2> HIDE DEF a
    <2>3. /\ counter[k] \in 0..FallbackBase /\ counter'[k] \in 0..FallbackBase
          /\ life[a.node] \in Nat /\ life'[a.node] \in Nat
      BY <2>1 DEF Inv, TypeOK
    <2>4. FallbackBase \in Nat
      BY ConstantsAssumption
    <2>5. counter[k] =< counter'[k]
      OBVIOUS
    <2>6. InRangeOf(a, counter'[k], Settled'[a.node][k], life'[a.node])
      BY <2>1, <2>2, <2>3, <2>4, <2>5 DEF InRangeOf
    <2> QED
      BY <2>6 DEF a
  <1> QED
    BY <1>1 DEF Inv, InRange, Unique, SameLife

\* An allocation gives out a number that is in the range of its allocator after
\* the step, and that none of the earlier numbers in range can be.
LEMMA FreshGiven ==
    ASSUME Inv, TypeOK', NEW t \in Threads, call[t].pc # "idle",
           NEW s \in Nat \ {0}, NEW b \in BOOLEAN, Give(t, s, b),
           life' = life,
           \A k \in Conversations : counter[k] =< counter'[k],
           \A n \in Nodes : \A k \in Conversations : Settled[n][k] =< Settled'[n][k],
           ~b => /\ counter[call[t].conv] < s /\ s =< FallbackBase
                 /\ s =< counter'[call[t].conv],
           b => /\ s > FallbackBase
                /\ s > FallbackBase + Settled[NodeOf[t]][call[t].conv]
                /\ s =< FallbackBase + Settled'[NodeOf[t]][call[t].conv]
    PROVE  InRange' /\ Unique'
  <1> DEFINE n == NodeOf[t]
             c == call[t].conv
             e == [node |-> n, life |-> life[n], seq |-> s, local |-> b]
             Old(k, i) == i \in 1..Len(given[k]) /\ given'[k][i] = given[k][i]
             New(k, i) == k = c /\ i = Len(given[k]) + 1 /\ given'[k][i] = e
  <1>0. TypeOK
    BY DEF Inv
  <1>1. n \in Nodes /\ c \in Conversations /\ FallbackBase \in Nat
    BY <1>0, ConstantsAssumption, InsideCall
  <1>2. \A k \in Conversations : \A i \in 1..Len(given'[k]) : Old(k, i) \/ New(k, i)
    BY <1>0, Given
  <1>3. e.node = n /\ e.life = life[n] /\ e.seq = s /\ e.local = b
    OBVIOUS
  <1>41. Settled[n][c] \in Int /\ Settled'[n][c] \in Int
    BY <1>0, <1>1, SettledTyped
  <1>42. counter[c] \in 0..FallbackBase /\ counter'[c] \in 0..FallbackBase /\ life[n] \in Nat
    BY <1>0, <1>1 DEF TypeOK
  <1>4. /\ counter[c] \in 0..FallbackBase /\ Settled[n][c] \in Int
        /\ Settled'[n][c] \in Int /\ life[n] \in Nat
    BY <1>41, <1>42
  <1>43. /\ ~b => s =< FallbackBase /\ s =< counter'[c]
         /\ b => /\ s > FallbackBase /\ s > FallbackBase + Settled[n][c]
                 /\ s =< FallbackBase + Settled'[n][c]
    OBVIOUS
  <1> HIDE DEF e, c, n
  <1>5. InRangeOf(e, counter'[c], Settled'[n][c], life[n])
    BY <1>1, <1>3, <1>4, <1>42, <1>43 DEF InRangeOf
  <1>6. ASSUME NEW k \in Conversations, NEW i \in 1..Len(given[k])
        PROVE  LET a == given[k][i]
               IN  /\ InRangeOf(a, counter[k], Settled[a.node][k], life[a.node])
                   /\ InRangeOf(a, counter'[k], Settled'[a.node][k], life'[a.node])
    <2> DEFINE a == given[k][i]
    <2>1. a.node \in Nodes /\ a.seq \in Nat /\ a.life \in Nat
      BY NumberHasFields DEF Inv
    <2>2. InRangeOf(a, counter[k], Settled[a.node][k], life[a.node])
      BY DEF Inv, InRange
    <2> HIDE DEF a
    <2>3. /\ counter[k] \in 0..FallbackBase /\ counter'[k] \in 0..FallbackBase
          /\ Settled[a.node][k] \in Int /\ Settled'[a.node][k] \in Int
          /\ life[a.node] \in Nat
      BY <2>1, SettledTyped DEF Inv, TypeOK
    <2>4. counter[k] =< counter'[k] /\ Settled[a.node][k] =< Settled'[a.node][k]
      BY <2>1
    <2>5. InRangeOf(a, counter'[k], Settled'[a.node][k], life'[a.node])
      BY <1>1, <2>1, <2>2, <2>3, <2>4 DEF InRangeOf
    <2> QED
      BY <2>2, <2>5 DEF a
  <1>7. ASSUME NEW k \in Conversations, NEW i \in 1..Len(given'[k])
        PROVE  LET a == given'[k][i]
               IN  InRangeOf(a, counter'[k], Settled'[a.node][k], life'[a.node])
    <2>1. CASE Old(k, i)
      BY <1>6, <2>1
    <2>2. CASE New(k, i)
      BY <1>3, <1>5, <2>2
    <2> QED
      BY <1>2, <2>1, <2>2
  <1>8. ASSUME NEW i \in 1..Len(given[c]), given[c][i].seq = s
        PROVE  b /\ given[c][i].local /\ ~SameLife(given[c][i], e)
    <2> DEFINE a == given[c][i]
    <2>1. a.node \in Nodes /\ a.seq \in Nat /\ a.life \in Nat /\ a.local \in BOOLEAN
      BY <1>1, NumberHasFields DEF Inv
    <2>2. InRangeOf(a, counter[c], Settled[a.node][c], life[a.node])
      BY <1>1, <1>6
    <2>3. a.seq = s
      BY <1>8
    <2> HIDE DEF a
    <2>4. b
      BY <1>1, <1>4, <2>1, <2>2, <2>3 DEF InRangeOf, c, n
    <2>5. s > FallbackBase /\ s > FallbackBase + Settled[n][c]
      BY <2>4 DEF c, n
    <2>6. a.local
      BY <1>1, <1>4, <2>2, <2>3, <2>5 DEF InRangeOf
    <2>7. ~SameLife(a, e)
      <3>1. SUFFICES ASSUME a.node = n, a.life = life[n] PROVE FALSE
        BY <1>3 DEF SameLife
      <3>2. a.seq =< FallbackBase + Settled[n][c]
        BY <2>2, <2>6, <3>1 DEF InRangeOf
      <3> QED
        BY <1>1, <1>4, <2>1, <2>3, <2>5, <3>2
    <2> QED
      BY <2>4, <2>6, <2>7 DEF a
  <1>9. Unique'
    <2> SUFFICES ASSUME NEW k \in Conversations,
                        NEW i \in 1..Len(given'[k]), NEW j \in 1..Len(given'[k]),
                        i # j, given'[k][i].seq = given'[k][j].seq
                 PROVE  /\ given'[k][i].local /\ given'[k][j].local
                        /\ ~SameLife(given'[k][i], given'[k][j])
      BY DEF Unique, SameLife
    <2>1. CASE Old(k, i) /\ Old(k, j)
      BY <2>1 DEF Inv, Unique
    <2>2. CASE New(k, i) /\ Old(k, j)
      BY <1>3, <1>8, <2>2 DEF SameLife
    <2>3. CASE Old(k, i) /\ New(k, j)
      BY <1>3, <1>8, <2>3 DEF SameLife
    <2> QED
      BY <1>2, <2>1, <2>2, <2>3
  <1> QED
    BY <1>7, <1>9 DEF InRange

\* The steps of a call before localFallbackSeq.
Before(t) ==
    \/ \E k \in Conversations : Enter(t, k)
    \/ Lock(t) \/ IncrAnswered(t) \/ IncrBreaks(t) \/ IncrRefused(t)

LEMMA BeforeEffect ==
    ASSUME TypeOK, NEW t \in Threads, Before(t)
    PROVE  /\ call[t].pc \notin {"count", "number"} /\ call'[t].pc \notin {"count", "number"}
           /\ \A u \in Threads \ {t} : call'[u] = call[u]
           /\ UNCHANGED <<localSeq, localMutex>>
  <1>1. call \in [Threads -> Call]
    BY DEF TypeOK
  <1>2. ASSUME NEW p \in {"incr", "local"}, Goto(t, p)
        PROVE  call'[t].pc = p /\ \A u \in Threads \ {t} : call'[u] = call[u]
    BY <1>1, <1>2 DEF Goto, Call, Idle
  <1>3. CASE \E k \in Conversations : Enter(t, k)
    BY <1>1, <1>3 DEF Enter, At
  <1>4. CASE Lock(t)
    BY <1>2, <1>4 DEF Lock, At
  <1>5. CASE IncrAnswered(t)
    BY <1>1, <1>5 DEF IncrAnswered, At, Idle
  <1>6. CASE IncrBreaks(t)
    BY <1>2, <1>6 DEF IncrBreaks, At
  <1>7. CASE IncrRefused(t)
    BY <1>2, <1>7 DEF IncrRefused, At
  <1> QED
    BY <1>3, <1>4, <1>5, <1>6, <1>7 DEF Before

\* Every step keeps the mutual exclusion.
LEMMA ExclusiveStep == TypeOK /\ Exclusive /\ [Next]_vars => Exclusive'
  <1> SUFFICES ASSUME TypeOK, Exclusive, [Next]_vars PROVE Exclusive'
    OBVIOUS
  <1>1. NodeOf \in [Threads -> Nodes] /\ NoThread \notin Threads
    BY ConstantsAssumption
  <1>2. ASSUME NEW t \in Threads, call'[t].pc \notin {"count", "number"},
               \A u \in Threads \ {t} : call'[u] = call[u],
               UNCHANGED <<localSeq, localMutex>>
        PROVE  Exclusive'
    BY <1>2 DEF Exclusive, At
  <1>3. ASSUME NEW t \in Threads, Before(t) PROVE Exclusive'
    <2>1. /\ call'[t].pc \notin {"count", "number"}
          /\ \A u \in Threads \ {t} : call'[u] = call[u]
          /\ UNCHANGED <<localSeq, localMutex>>
      BY <1>3, BeforeEffect
    <2> QED
      BY <1>2, <2>1
  <1>4. ASSUME NEW t \in Threads, LocalLock(t) PROVE Exclusive'
    <2>1. /\ call'[t].pc = "count" /\ \A u \in Threads \ {t} : call'[u] = call[u]
          /\ localMutex'[NodeOf[t]] = t /\ localMutex[NodeOf[t]] = NoThread
          /\ \A n \in Nodes \ {NodeOf[t]} : localMutex'[n] = localMutex[n]
          /\ localSeq' = localSeq
      BY <1>1, <1>4 DEF TypeOK, LocalLock, Goto
    <2> QED
      BY <1>1, <2>1 DEF Exclusive, At
  <1>5. ASSUME NEW t \in Threads, LocalCount(t) PROVE Exclusive'
    <2> DEFINE c == call[t].conv
               h == NodeOf[t]
    <2>1. /\ c \in Conversations /\ h \in Nodes /\ localMutex[h] = t /\ localMutex' = localMutex
          /\ call'[t].pc = "number" /\ call'[t].conv = c
          /\ \A u \in Threads \ {t} : call'[u] = call[u]
      BY <1>1, <1>5, InsideCall DEF TypeOK, LocalCount, Exclusive, At, Goto
    <2>2. localSeq'[h][c] = localSeq[h][c] + 1 /\ localSeq[h][c] \in Nat
      <3>1. localSeq[h] \in [Conversations -> Nat]
        BY <2>1 DEF TypeOK
      <3> QED
        BY <1>5, <2>1, <3>1 DEF TypeOK, LocalCount
    <2>3. \A n \in Nodes \ {h} : localSeq'[n] = localSeq[n]
      BY <1>5 DEF TypeOK, LocalCount
    <2>4. \A u \in Threads \ {t} : call[u].pc \in {"count", "number"} => NodeOf[u] # h
      BY <2>1 DEF Exclusive
    <2>5. localSeq'[h][c] > 0
      BY <2>2
    <2> HIDE DEF c, h
    <2>6. ASSUME NEW u \in Threads
          PROVE  /\ call'[u].pc \in {"count", "number"} => localMutex'[NodeOf[u]] = u
                 /\ call'[u].pc = "number" => localSeq'[NodeOf[u]][call'[u].conv] > 0
      <3>1. CASE u = t
        BY <2>1, <2>5, <3>1 DEF h
      <3>2. CASE u # t
        BY <1>1, <2>1, <2>3, <2>4, <3>2 DEF Exclusive, At
      <3> QED
        BY <3>1, <3>2
    <2> QED
      BY <2>6 DEF Exclusive, At
  <1>6. ASSUME NEW t \in Threads, LocalNumber(t) PROVE Exclusive'
    <2>1. /\ call'[t].pc = "idle" /\ \A u \in Threads \ {t} : call'[u] = call[u]
          /\ localMutex[NodeOf[t]] = t /\ localSeq' = localSeq
          /\ \A n \in Nodes \ {NodeOf[t]} : localMutex'[n] = localMutex[n]
      BY <1>1, <1>6 DEF TypeOK, LocalNumber, Exclusive, At, Idle
    <2> QED
      BY <1>1, <2>1 DEF Exclusive, At
  <1>7. ASSUME NEW n \in Nodes, NodeRestarts(n) PROVE Exclusive'
    <2>1. /\ \A u \in Threads : call'[u] = IF NodeOf[u] = n THEN Idle ELSE call[u]
          /\ \A m \in Nodes \ {n} : localMutex'[m] = localMutex[m] /\ localSeq'[m] = localSeq[m]
      BY <1>7 DEF NodeRestarts, TypeOK
    <2> QED
      BY <1>1, <2>1 DEF Exclusive, At, Idle
  <1>8. CASE RedisGoes \/ RedisReturns \/ UNCHANGED vars
    BY <1>8 DEF RedisGoes, RedisReturns, vars, Exclusive, At
  <1> QED
    BY <1>3, <1>4, <1>5, <1>6, <1>7, <1>8 DEF Next, ThreadStep, Before

\* Every step keeps the inductive invariant.
LEMMA InvStep == Inv /\ [Next]_vars => Inv'
  <1> SUFFICES ASSUME Inv, [Next]_vars PROVE Inv'
    OBVIOUS
  <1>1. TypeOK /\ TypeOK' /\ Exclusive
    BY TypeStep DEF Inv
  <1>2. /\ \A k \in Conversations : counter[k] \in 0..FallbackBase
        /\ FallbackBase \in Nat /\ NodeOf \in [Threads -> Nodes]
        /\ \A n \in Nodes : /\ life[n] \in Nat /\ localSeq[n] \in [Conversations -> Nat]
                             /\ Settled[n] \in [Conversations -> Int]
    BY <1>1, SettledTyped, ConstantsAssumption DEF TypeOK
  <1>0. ASSUME NEW t \in Threads, ~At(t, "number"), ~At(t, "number")', localSeq' = localSeq,
               \A u \in Threads \ {t} : call'[u] = call[u]
        PROVE  \A n \in Nodes : Settled'[n] = Settled[n]
    BY <1>0, SettledStays
  <1>01. ASSUME NEW t \in Threads, Before(t) \/ LocalLock(t)
         PROVE  \A n \in Nodes : Settled'[n] = Settled[n]
    <2>1. CASE Before(t)
      BY <1>0, <1>1, <2>1, BeforeEffect DEF At
    <2>2. CASE LocalLock(t)
      <3>1. /\ ~At(t, "number") /\ call'[t].pc = "count" /\ localSeq' = localSeq
            /\ \A u \in Threads \ {t} : call'[u] = call[u]
        BY <1>1, <2>2 DEF TypeOK, LocalLock, At, Goto
      <3> QED
        BY <1>0, <3>1 DEF At
    <2> QED
      BY <1>01, <2>1, <2>2
  <1>02. ASSUME NEW t \in Threads, LocalCount(t)
         PROVE  \A n \in Nodes : Settled'[n] = Settled[n]
    <2> DEFINE c == call[t].conv
               h == NodeOf[t]
    <2>1. /\ c \in Conversations /\ h \in Nodes /\ localMutex[h] = t
          /\ localSeq' = [localSeq EXCEPT ![h][c] = @ + 1]
          /\ call' = [call EXCEPT ![t].pc = "number"]
          /\ call \in [Threads -> Call] /\ call[t].pc = "count"
          /\ call[t] \in [pc : Places, conv : Conversations]
      BY <1>1, <1>2, <1>02, InsideCall DEF LocalCount, Inv, Exclusive, At, Goto, TypeOK
    <2>2. \A u \in Threads : NodeOf[u] = h => ~At(u, "number")
      BY <2>1 DEF Inv, Exclusive, At
    <2>3. /\ call'[t].pc = "number" /\ call'[t].conv = c
          /\ \A u \in Threads \ {t} : call'[u] = call[u]
      BY <2>1
    <2>4. \A k \in Conversations : ~Pending(h, k) /\ (Pending(h, k)' <=> k = c)
      BY <2>2, <2>3 DEF Pending, At
    <2>5. /\ localSeq'[h][c] = localSeq[h][c] + 1
          /\ \A k \in Conversations \ {c} : localSeq'[h][k] = localSeq[h][k]
          /\ \A n \in Nodes \ {h} : localSeq'[n] = localSeq[n]
      BY <1>1, <1>2, <2>1 DEF TypeOK
    <2>6. \A k \in Conversations : localSeq[h][k] \in Nat
      BY <1>2, <2>1
    <2> HIDE DEF c, h
    <2>7. \A k \in Conversations :
             (IF k = c THEN localSeq'[h][k] - 1 ELSE localSeq'[h][k]) = localSeq[h][k]
      BY <2>1, <2>5, <2>6
    <2>8. Settled'[h] = Settled[h]
      BY <2>1, <2>4, <2>7 DEF Settled
    <2>9. ASSUME NEW n \in Nodes \ {h} PROVE Settled'[n] = Settled[n]
      <3>1. NodeOf[t] # n
        BY <2>9 DEF h
      <3> QED
        BY <2>3, <2>5, <2>9, <3>1, SettledStays
    <2> QED
      BY <2>8, <2>9
  <1>3. ASSUME NEW t \in Threads, IncrAnswered(t) PROVE InRange' /\ Unique'
    <2> DEFINE c == call[t].conv
               s == counter[c] + 1
    <2>1. call[t].pc # "idle" /\ c \in Conversations
      BY <1>1, <1>3, InsideCall DEF IncrAnswered, At
    <2>2. /\ s \in Nat \ {0} /\ s =< FallbackBase /\ counter[c] < s
          /\ counter' = [counter EXCEPT ![c] = s]
      BY <1>2, <1>3, <2>1 DEF IncrAnswered, Increment
    <2>3. counter'[c] = s /\ \A k \in Conversations : counter[k] =< counter'[k]
      BY <1>1, <1>2, <2>1, <2>2 DEF TypeOK
    <2>4. Give(t, s, FALSE) /\ life' = life
      BY <1>3 DEF IncrAnswered
    <2>5. \A n \in Nodes : \A k \in Conversations : Settled[n][k] =< Settled'[n][k]
      BY <1>2, <1>3, <1>01 DEF Before
    <2>6. counter[c] < s /\ s =< FallbackBase /\ s =< counter'[c]
      BY <2>2, <2>3
    <2>7. s \in Nat \ {0}
      BY <2>2
    <2>8. FALSE \in BOOLEAN /\ (FALSE => s > FallbackBase + Settled[NodeOf[t]][c]
                                        /\ s =< FallbackBase + Settled'[NodeOf[t]][c])
      OBVIOUS
    <2> HIDE DEF s
    <2> QED
      BY <1>1, <2>1, <2>3, <2>4, <2>5, <2>6, <2>7, <2>8, FreshGiven
  <1>4. ASSUME NEW t \in Threads, LocalNumber(t) PROVE InRange' /\ Unique'
    <2> DEFINE c == call[t].conv
               n == NodeOf[t]
               s == Local(n, c)
    <2>1. /\ call[t].pc # "idle" /\ c \in Conversations /\ n \in Nodes
          /\ localMutex[n] = t /\ localSeq[n][c] > 0 /\ call[t].pc = "number"
      BY <1>1, <1>2, <1>4, InsideCall DEF LocalNumber, At, Inv, Exclusive
    <2>2. /\ s \in Nat \ {0} /\ s = FallbackBase + localSeq[n][c] /\ s > FallbackBase
          /\ localSeq[n][c] \in Nat /\ localSeq' = localSeq
      BY <1>2, <1>4, <2>1 DEF Local, LocalNumber
    <2>3. /\ call'[t] = Idle /\ \A u \in Threads \ {t} : call'[u] = call[u]
      BY <1>1, <1>4 DEF LocalNumber, TypeOK
    <2>4. \A u \in Threads \ {t} : NodeOf[u] = n => ~At(u, "number")
      BY <2>1 DEF Inv, Exclusive, At
    <2>5. \A k \in Conversations : (Pending(n, k) <=> k = c) /\ ~Pending(n, k)'
      BY <2>1, <2>3, <2>4 DEF Pending, At, Idle
    <2>6. ASSUME NEW m \in Nodes, m # n PROVE Settled'[m] = Settled[m]
      <3>1. NodeOf[t] # m
        BY <2>6
      <3>2. \A u \in Threads : NodeOf[u] = m => call'[u] = call[u]
        BY <2>3, <3>1
      <3>3. localSeq'[m] = localSeq[m]
        BY <2>2
      <3> QED
        BY <3>2, <3>3, SettledStays
    <2>61. \A k \in Conversations : localSeq[n][k] \in Nat
      BY <1>2, <2>1
    <2>62. /\ Settled[n][c] = localSeq[n][c] - 1 /\ Settled'[n][c] = localSeq[n][c]
           /\ \A k \in Conversations : k # c => Settled'[n][k] = Settled[n][k]
      BY <2>1, <2>2, <2>5 DEF Settled
    <2>7. \A m \in Nodes : \A k \in Conversations : Settled[m][k] =< Settled'[m][k]
      <3>1. \A k \in Conversations : Settled[n][k] =< Settled'[n][k]
        BY <1>2, <2>1, <2>61, <2>62
      <3> QED
        BY <1>2, <2>6, <3>1
    <2>8. /\ s > FallbackBase /\ s > FallbackBase + Settled[n][c]
          /\ s =< FallbackBase + Settled'[n][c]
      BY <1>2, <2>2, <2>62
    <2>9. Give(t, s, TRUE) /\ life' = life /\ counter' = counter
      BY <1>4 DEF LocalNumber
    <2>10. \A k \in Conversations : counter[k] =< counter'[k]
      BY <1>2, <2>9
    <2>11. TRUE \in BOOLEAN /\ (~TRUE => counter[c] < s /\ s =< FallbackBase /\ s =< counter'[c])
      OBVIOUS
    <2>12. s \in Nat \ {0}
      BY <2>2
    <2> HIDE DEF s
    <2> QED
      BY <1>1, <2>1, <2>12, <2>7, <2>8, <2>9, <2>10, <2>11, FreshGiven
  <1>5. ASSUME given' = given,
               \A k \in Conversations : counter[k] =< counter'[k],
               \A n \in Nodes : \/ life'[n] = life[n] /\ Settled'[n] = Settled[n]
                                \/ life'[n] > life[n]
        PROVE  InRange' /\ Unique'
    BY <1>1, <1>5, NothingGiven
  <1>6. ASSUME NEW t \in Threads, IncrBreaks(t) PROVE InRange' /\ Unique'
    <2>1. call[t].conv \in Conversations
      BY <1>1, <1>6, InsideCall DEF IncrBreaks, At
    <2>2. \A k \in Conversations : counter[k] =< counter'[k]
      <3>1. CASE UNCHANGED counter
        BY <1>2, <3>1
      <3>2. CASE Increment(call[t].conv)
        BY <1>1, <1>2, <2>1, <3>2 DEF TypeOK, Increment
      <3> QED
        BY <1>6, <3>1, <3>2 DEF IncrBreaks
    <2> QED
      BY <1>01, <1>5, <1>6, <2>2 DEF IncrBreaks, Before
  <1>7. ASSUME NEW n \in Nodes, NodeRestarts(n) PROVE InRange' /\ Unique'
    <2>1. life'[n] > life[n]
          /\ \A m \in Nodes : m # n => life'[m] = life[m] /\ Settled'[m] = Settled[m]
      <3>1. life'[n] > life[n]
            /\ \A m \in Nodes : m # n => life'[m] = life[m] /\ localSeq'[m] = localSeq[m]
        BY <1>1, <1>2, <1>7 DEF TypeOK, NodeRestarts
      <3>2. \A u \in Threads : NodeOf[u] # n => call'[u] = call[u]
        BY <1>7 DEF NodeRestarts
      <3> QED
        BY <3>1, <3>2, SettledStays
    <2>2. given' = given /\ \A k \in Conversations : counter[k] =< counter'[k]
      BY <1>2, <1>7 DEF NodeRestarts
    <2> QED
      BY <1>5, <2>1, <2>2
  <1>8. ASSUME UNCHANGED <<given, counter, life>>, \A n \in Nodes : Settled'[n] = Settled[n]
        PROVE  InRange' /\ Unique'
    <2>1. \A k \in Conversations : counter[k] =< counter'[k]
      BY <1>2, <1>8
    <2> QED
      BY <1>5, <1>8, <2>1
  <1>9. ASSUME NEW t \in Threads, Before(t) \/ LocalLock(t), UNCHANGED <<given, counter, life>>
        PROVE  InRange' /\ Unique'
    <2>1. \A n \in Nodes : Settled'[n] = Settled[n]
      BY <1>01, <1>9
    <2> QED
      BY <1>8, <1>9, <2>1
  <1>13. ASSUME NEW t \in Threads,
                \/ \E k \in Conversations : Enter(t, k)
                \/ Lock(t) \/ IncrRefused(t) \/ LocalLock(t)
         PROVE  InRange' /\ Unique'
    <2>1. UNCHANGED <<given, counter, life>>
      BY <1>13 DEF Enter, Lock, IncrRefused, LocalLock
    <2> QED
      BY <1>9, <1>13, <2>1 DEF Before
  <1>10. ASSUME NEW t \in Threads, LocalCount(t) PROVE InRange' /\ Unique'
    <2>1. UNCHANGED <<given, counter, life>>
      BY <1>10 DEF LocalCount
    <2>2. \A n \in Nodes : Settled'[n] = Settled[n]
      BY <1>02, <1>10
    <2> QED
      BY <1>8, <2>1, <2>2
  <1>11. ASSUME RedisGoes \/ RedisReturns \/ UNCHANGED vars PROVE InRange' /\ Unique'
    <2>1. UNCHANGED <<given, counter, life, localSeq, call>>
      BY <1>11 DEF RedisGoes, RedisReturns, vars
    <2> QED
      BY <1>8, <2>1, SettledStays
  <1>12. InRange' /\ Unique'
    BY <1>3, <1>4, <1>6, <1>7, <1>10, <1>11, <1>13 DEF Next, ThreadStep
  <1> QED
    BY <1>1, <1>12, ExclusiveStep DEF Inv

\* The invariant holds in every reachable state.
THEOREM Invariance == Spec => []Inv
  <1>1. Init => Inv
    BY ConstantsAssumption
       DEF Init, Inv, TypeOK, Exclusive, At, InRange, Unique, Call, Idle
  <1> QED
    BY <1>1, InvStep, PTL DEF Spec

\* Every variable keeps its type; in particular incrSeq never returns 0.
THEOREM TypeCorrect == Spec => []TypeOK
  BY Invariance, PTL DEF Inv

\* Two calls for a conversation return the same number only if both fell back, on
\* different nodes or in different lives of a node, however many nodes and threads
\* allocate and whatever fails.
THEOREM Uniqueness == Spec => []Unique
  BY Invariance, PTL DEF Inv
-----------------------------------------------------------------------------
\* Why a node that has fallen back gives no number of Redis afterwards: its context
\* is broken for the rest of its life, unless it was an error reply that made it.
BrokenFirst ==
    /\ \A n \in Nodes : ~available[n] => context[n] = "broken"
    /\ \A t \in Threads :
          call[t].pc \in {"local", "count", "number"} => errors > 0 \/ context[NodeOf[t]] = "broken"
    /\ \A k \in Conversations : \A i \in 1..Len(given[k]) :
          LET a == given[k][i]
          IN  a.local /\ a.life = life[a.node] => errors > 0 \/ context[a.node] = "broken"

OrderInv == Inv /\ BrokenFirst /\ IncreasingUnlessLocal

\* The calls and contexts of BrokenFirst: a step that gives no number.
LEMMA BrokenKept ==
    ASSUME Inv, BrokenFirst, TypeOK', given' = given, errors' >= errors,
           \A n \in Nodes : \/ /\ life'[n] = life[n]
                               /\ context[n] = "broken" => context'[n] = "broken"
                            \/ life'[n] > life[n]
    PROVE  \A k \in Conversations : \A i \in 1..Len(given'[k]) :
              LET a == given'[k][i]
              IN  a.local /\ a.life = life'[a.node]
                     => errors' > 0 \/ context'[a.node] = "broken"
  <1> SUFFICES ASSUME NEW k \in Conversations, NEW i \in 1..Len(given[k]),
                      given[k][i].local, given[k][i].life = life'[given[k][i].node]
               PROVE  errors' > 0 \/ context'[given[k][i].node] = "broken"
    OBVIOUS
  <1> DEFINE a == given[k][i]
  <1>1. a.node \in Nodes /\ a.life \in Nat
    BY NumberHasFields DEF Inv
  <1>2. InRangeOf(a, counter[k], Settled[a.node][k], life[a.node])
    BY DEF Inv, InRange
  <1>3. a.local /\ a.life = life'[a.node]
    OBVIOUS
  <1>4. a.life = life[a.node] => errors > 0 \/ context[a.node] = "broken"
    BY <1>3 DEF BrokenFirst
  <1> HIDE DEF a
  <1>5. life[a.node] \in Nat /\ life'[a.node] \in Nat /\ errors \in Nat /\ errors' \in Nat
    BY <1>1 DEF Inv, TypeOK
  <1>6. life'[a.node] = life[a.node]
    BY <1>1, <1>2, <1>3, <1>5 DEF InRangeOf
  <1>7. errors' > 0 \/ context'[a.node] = "broken"
    BY <1>1, <1>3, <1>4, <1>5, <1>6
  <1> QED
    BY <1>7 DEF a

\* A number in the new sequences is an old one, or of the node and kind given.
LEMMA OldOrNew ==
    ASSUME TypeOK, NEW t \in Threads, call[t].pc # "idle",
           NEW s \in Nat \ {0}, NEW b \in BOOLEAN, Give(t, s, b)
    PROVE  \A k \in Conversations : \A i \in 1..Len(given'[k]) :
              \/ i \in 1..Len(given[k]) /\ given'[k][i] = given[k][i]
              \/ given'[k][i].node = NodeOf[t] /\ (~b => ~given'[k][i].local)
  <1> DEFINE e == [node |-> NodeOf[t], life |-> life[NodeOf[t]], seq |-> s, local |-> b]
  <1>1. \A k \in Conversations : \A i \in 1..Len(given'[k]) :
           \/ i \in 1..Len(given[k]) /\ given'[k][i] = given[k][i]
           \/ k = call[t].conv /\ i = Len(given[k]) + 1 /\ given'[k][i] = e
    BY Given
  <1>2. e.node = NodeOf[t] /\ (~b => ~e.local)
    OBVIOUS
  <1> HIDE DEF e
  <1> QED
    BY <1>1, <1>2

\* Every step keeps BrokenFirst.
LEMMA BrokenStep == Inv /\ BrokenFirst /\ [Next]_vars => BrokenFirst'
  <1> SUFFICES ASSUME Inv, BrokenFirst, [Next]_vars PROVE BrokenFirst'
    OBVIOUS
  <1> USE ConstantsAssumption
  <1>1. TypeOK /\ TypeOK'
    BY TypeStep DEF Inv
  <1>2. errors \in Nat /\ errors' \in Nat
    BY <1>1 DEF TypeOK
  <1>3. ASSUME NEW t \in Threads, NEW k \in Conversations, Enter(t, k) PROVE BrokenFirst'
    <2>1. \A u \in Threads : u # t => call'[u] = call[u]
      BY <1>1, <1>3 DEF Enter, TypeOK
    <2>2. call'[t].pc = IF available[NodeOf[t]] THEN "lock" ELSE "local"
      BY <1>1, <1>3 DEF Enter, TypeOK
    <2> QED
      BY <1>3, <2>1, <2>2 DEF BrokenFirst, Enter
  <1>4. ASSUME NEW t \in Threads, Lock(t) PROVE BrokenFirst'
    <2>1. call'[t].pc = "incr" /\ \A u \in Threads : u # t => call'[u] = call[u]
      BY <1>1, <1>4, InsideCall DEF Lock, At, Goto, TypeOK
    <2> QED
      BY <1>4, <2>1 DEF BrokenFirst, Lock
  <1>5. ASSUME NEW t \in Threads, IncrRefused(t) PROVE BrokenFirst'
    <2>1. errors' > 0
      BY <1>2, <1>5 DEF IncrRefused
    <2> QED
      BY <1>5, <2>1 DEF BrokenFirst, IncrRefused
  <1>6. ASSUME NEW t \in Threads, IncrBreaks(t) PROVE BrokenFirst'
    <2> DEFINE n == NodeOf[t]
    <2>1. n \in Nodes
      OBVIOUS
    <2>2. context'[n] = "broken" /\ \A m \in Nodes : m # n => context'[m] = context[m]
      BY <1>1, <1>6, <2>1 DEF IncrBreaks, TypeOK
    <2>3. \A m \in Nodes : m # n => available'[m] = available[m]
      BY <1>1, <1>6, <2>1 DEF IncrBreaks, TypeOK
    <2>4. \A u \in Threads : u # t => call'[u] = call[u]
      BY <1>1, <1>6 DEF IncrBreaks, Goto, TypeOK
    <2>5. given' = given /\ errors' = errors /\ life' = life
      BY <1>6 DEF IncrBreaks
    <2> HIDE DEF n
    <2>6. \A m \in Nodes : ~available'[m] => context'[m] = "broken"
      BY <2>2, <2>3 DEF BrokenFirst
    <2>7. \A u \in Threads : call'[u].pc \in {"local", "count", "number"}
                                => errors' > 0 \/ context'[NodeOf[u]] = "broken"
      BY <2>2, <2>4, <2>5 DEF BrokenFirst, n
    <2>8. errors' >= errors
      BY <1>2, <2>5
    <2>9. \A m \in Nodes : life'[m] = life[m]
                           /\ (context[m] = "broken" => context'[m] = "broken")
      BY <2>2, <2>5
    <2> QED
      BY <1>1, <2>5, <2>6, <2>7, <2>8, <2>9, BrokenKept DEF BrokenFirst
  <1>7. ASSUME NEW t \in Threads, IncrAnswered(t) PROVE BrokenFirst'
    <2> DEFINE s == counter[call[t].conv] + 1
    <2>1. call[t].pc # "idle" /\ call[t].conv \in Conversations
      BY <1>1, <1>7, InsideCall DEF IncrAnswered, At
    <2>2. s \in Nat \ {0}
      BY <1>1, <2>1 DEF TypeOK
    <2>3. Give(t, s, FALSE)
      BY <1>7 DEF IncrAnswered
    <2>4. FALSE \in BOOLEAN
      OBVIOUS
    <2> HIDE DEF s
    <2>5. \A k \in Conversations : \A i \in 1..Len(given'[k]) :
             \/ i \in 1..Len(given[k]) /\ given'[k][i] = given[k][i]
             \/ ~given'[k][i].local
      BY <1>1, <2>1, <2>2, <2>3, <2>4, OldOrNew
    <2>6. call'[t] = Idle /\ \A u \in Threads : u # t => call'[u] = call[u]
      BY <1>1, <1>7 DEF IncrAnswered, TypeOK
    <2>7. \A u \in Threads : call'[u].pc \in {"local", "count", "number"}
                                => errors' > 0 \/ context'[NodeOf[u]] = "broken"
      BY <1>7, <2>6 DEF BrokenFirst, IncrAnswered, Idle
    <2>8. errors' = errors /\ context' = context /\ life' = life /\ available' = available
      BY <1>7 DEF IncrAnswered
    <2> QED
      BY <2>5, <2>7, <2>8 DEF BrokenFirst
  <1>8. ASSUME NEW t \in Threads, LocalNumber(t) PROVE BrokenFirst'
    <2> DEFINE s == Local(NodeOf[t], call[t].conv)
    <2>1. call[t].pc # "idle" /\ call[t].conv \in Conversations
      BY <1>1, <1>8, InsideCall DEF LocalNumber, At
    <2>2. s \in Nat \ {0}
      <3>1. localSeq[NodeOf[t]] \in [Conversations -> Nat] /\ localSeq[NodeOf[t]][call[t].conv] > 0
        BY <1>1, <1>8 DEF TypeOK, Inv, Exclusive, LocalNumber
      <3> QED
        BY <2>1, <3>1 DEF Local
    <2> DEFINE b == TRUE
    <2>3. Give(t, s, b)
      BY <1>8 DEF LocalNumber
    <2>4. b \in BOOLEAN
      OBVIOUS
    <2> HIDE DEF s, b
    <2>5. \A k \in Conversations : \A i \in 1..Len(given'[k]) :
             \/ i \in 1..Len(given[k]) /\ given'[k][i] = given[k][i]
             \/ given'[k][i].node = NodeOf[t]
      BY <1>1, <2>1, <2>2, <2>3, <2>4, OldOrNew
    <2>6. call'[t] = Idle /\ \A u \in Threads : u # t => call'[u] = call[u]
      BY <1>1, <1>8 DEF LocalNumber, TypeOK
    <2>7. errors > 0 \/ context[NodeOf[t]] = "broken"
      BY <1>8 DEF BrokenFirst, LocalNumber, At
    <2>8. errors' = errors /\ context' = context /\ life' = life /\ available' = available
      BY <1>8 DEF LocalNumber
    <2>9. \A u \in Threads : call'[u].pc \in {"local", "count", "number"}
                                => errors' > 0 \/ context'[NodeOf[u]] = "broken"
      BY <2>6, <2>8 DEF BrokenFirst, Idle
    <2> QED
      BY <2>5, <2>7, <2>8, <2>9 DEF BrokenFirst
  <1>13. ASSUME NEW t \in Threads, LocalLock(t) \/ LocalCount(t) PROVE BrokenFirst'
    <2>1. /\ call[t].pc \in {"local", "count"}
          /\ \A u \in Threads : u # t => call'[u] = call[u]
          /\ UNCHANGED <<context, available, life, given, errors>>
      BY <1>1, <1>13 DEF LocalLock, LocalCount, At, Goto, TypeOK
    <2>2. errors > 0 \/ context[NodeOf[t]] = "broken"
      BY <2>1 DEF BrokenFirst
    <2> QED
      BY <2>1, <2>2 DEF BrokenFirst
  <1>9. ASSUME NEW n \in Nodes, NodeRestarts(n) PROVE BrokenFirst'
    <2>1. life'[n] > life[n] /\ available'[n] = TRUE
          /\ \A m \in Nodes : m # n => /\ life'[m] = life[m] /\ context'[m] = context[m]
                                       /\ available'[m] = available[m]
      BY <1>1, <1>9 DEF NodeRestarts, TypeOK
    <2>2. \A u \in Threads : call'[u] = IF NodeOf[u] = n THEN Idle ELSE call[u]
      BY <1>9 DEF NodeRestarts
    <2>3. given' = given /\ errors' = errors
      BY <1>9 DEF NodeRestarts
    <2>4. \A u \in Threads : call'[u].pc \in {"local", "count", "number"}
                                => errors' > 0 \/ context'[NodeOf[u]] = "broken"
      BY <2>1, <2>2, <2>3 DEF BrokenFirst, Idle
    <2>5. errors' >= errors
      BY <1>2, <2>3
    <2>6. \A m \in Nodes : \/ life'[m] = life[m]
                              /\ (context[m] = "broken" => context'[m] = "broken")
                           \/ life'[m] > life[m]
      BY <2>1
    <2>7. \A m \in Nodes : ~available'[m] => context'[m] = "broken"
      BY <2>1 DEF BrokenFirst
    <2> QED
      BY <1>1, <2>3, <2>4, <2>5, <2>6, <2>7, BrokenKept DEF BrokenFirst
  <1>10. CASE RedisGoes
    <2>1. \A n \in Nodes : context'[n] = "broken"
      BY <1>10 DEF RedisGoes
    <2>2. \A k \in Conversations : \A i \in 1..Len(given[k]) : given[k][i].node \in Nodes
      BY <1>1, NumberHasFields
    <2> QED
      BY <1>10, <2>1, <2>2 DEF BrokenFirst, RedisGoes
  <1>11. CASE RedisReturns
    BY <1>11 DEF BrokenFirst, RedisReturns
  <1>12. CASE UNCHANGED vars
    BY <1>12 DEF BrokenFirst, vars
  <1> QED
    BY <1>3, <1>4, <1>5, <1>6, <1>7, <1>8, <1>9, <1>10, <1>11, <1>12, <1>13
       DEF Next, ThreadStep

\* A new number that is above all earlier ones but local ones of other lives keeps
\* the order.
LEMMA OrderGiven ==
    ASSUME TypeOK, IncreasingUnlessLocal, NEW t \in Threads, call[t].pc # "idle",
           NEW s \in Nat \ {0}, NEW b \in BOOLEAN, Give(t, s, b), errors' = errors,
           \A i \in 1..Len(given[call[t].conv]) :
              LET a == given[call[t].conv][i]
              IN  \/ a.seq < s
                  \/ /\ a.local
                     /\ errors > 0 \/ ~(a.node = NodeOf[t] /\ a.life = life[NodeOf[t]])
    PROVE  IncreasingUnlessLocal'
  <1> DEFINE c == call[t].conv
             e == [node |-> NodeOf[t], life |-> life[NodeOf[t]], seq |-> s, local |-> b]
             Old(k, i) == i \in 1..Len(given[k]) /\ given'[k][i] = given[k][i]
             New(k, i) == k = c /\ i = Len(given[k]) + 1 /\ given'[k][i] = e
  <1>1. \A k \in Conversations : \A i \in 1..Len(given'[k]) : Old(k, i) \/ New(k, i)
    BY Given
  <1>2. e.node = NodeOf[t] /\ e.life = life[NodeOf[t]] /\ e.seq = s
    OBVIOUS
  <1>3. \A k \in Conversations : Len(given[k]) \in Nat
    BY DEF TypeOK
  <1> HIDE DEF e
  <1> SUFFICES ASSUME NEW k \in Conversations,
                      NEW i \in 1..Len(given'[k]), NEW j \in 1..Len(given'[k]), i < j
               PROVE  \/ given'[k][i].seq < given'[k][j].seq
                      \/ /\ given'[k][i].local
                         /\ errors' > 0 \/ ~SameLife(given'[k][i], given'[k][j])
    BY DEF IncreasingUnlessLocal, SameLife
  <1>4. CASE Old(k, i) /\ Old(k, j)
    BY <1>4 DEF IncreasingUnlessLocal
  <1>5. CASE Old(k, i) /\ New(k, j)
    BY <1>2, <1>5 DEF SameLife
  <1>6. CASE New(k, i)
    BY <1>1, <1>3, <1>6
  <1> QED
    BY <1>1, <1>4, <1>5, <1>6

\* Every step keeps the order.
LEMMA OrderStep == OrderInv /\ [Next]_vars => IncreasingUnlessLocal'
  <1> SUFFICES ASSUME OrderInv, [Next]_vars PROVE IncreasingUnlessLocal'
    OBVIOUS
  <1>1. TypeOK /\ TypeOK' /\ BrokenFirst /\ IncreasingUnlessLocal
    BY TypeStep DEF OrderInv, Inv
  <1>2. FallbackBase \in Nat /\ NodeOf \in [Threads -> Nodes]
    BY ConstantsAssumption
  <1>3. ASSUME NEW k \in Conversations, NEW i \in 1..Len(given[k])
        PROVE  LET a == given[k][i]
               IN  /\ a.node \in Nodes /\ a.life \in Nat /\ a.seq \in Nat /\ a.local \in BOOLEAN
                   /\ InRangeOf(a, counter[k], Settled[a.node][k], life[a.node])
    BY <1>1, NumberHasFields DEF OrderInv, Inv, InRange
  <1>4. ASSUME NEW t \in Threads, IncrAnswered(t) PROVE IncreasingUnlessLocal'
    <2> DEFINE c == call[t].conv
               s == counter[c] + 1
    <2>1. call[t].pc # "idle" /\ c \in Conversations
      BY <1>1, <1>4, InsideCall DEF IncrAnswered, At
    <2>2. s \in Nat \ {0} /\ counter[c] < s
      BY <1>1, <2>1 DEF TypeOK
    <2>3. Give(t, s, FALSE) /\ errors' = errors /\ context[NodeOf[t]] = "ok"
      BY <1>4 DEF IncrAnswered, Connected
    <2>4. ASSUME NEW i \in 1..Len(given[c])
          PROVE  LET a == given[c][i]
                 IN  \/ a.seq < s
                     \/ /\ a.local
                        /\ errors > 0 \/ ~(a.node = NodeOf[t] /\ a.life = life[NodeOf[t]])
      <3> DEFINE a == given[c][i]
      <3>1. CASE ~a.local
        <4>1. a.seq \in Nat /\ a.seq =< counter[c]
          BY <1>3, <2>1, <3>1 DEF InRangeOf
        <4>2. counter[c] \in Nat
          BY <1>1, <2>1 DEF TypeOK
        <4> QED
          BY <4>1, <4>2
      <3>2. CASE a.local
        BY <1>1, <2>1, <2>3, <3>2 DEF BrokenFirst
      <3> QED
        BY <3>1, <3>2
    <2>5. FALSE \in BOOLEAN
      OBVIOUS
    <2> HIDE DEF s
    <2> QED
      BY <1>1, <2>1, <2>2, <2>3, <2>4, <2>5, OrderGiven
  <1>5. ASSUME NEW t \in Threads, LocalNumber(t) PROVE IncreasingUnlessLocal'
    <2> DEFINE c == call[t].conv
               n == NodeOf[t]
               s == Local(n, c)
    <2>1. call[t].pc # "idle" /\ c \in Conversations /\ n \in Nodes /\ At(t, "number")
      BY <1>1, <1>2, <1>5, InsideCall DEF LocalNumber, At
    <2>2. /\ localSeq[n][c] \in Nat /\ localSeq[n][c] > 0 /\ counter[c] \in 0..FallbackBase
          /\ Settled[n][c] = localSeq[n][c] - 1
      <3>1. localSeq[n] \in [Conversations -> Nat]
        BY <1>1, <2>1 DEF TypeOK
      <3>2. localSeq[n][c] > 0
        BY <2>1 DEF OrderInv, Inv, Exclusive
      <3>3. Settled[n][c] = localSeq[n][c] - 1
        BY <2>1 DEF Settled, Pending
      <3> QED
        BY <1>1, <2>1, <3>1, <3>2, <3>3 DEF TypeOK
    <2>3. s \in Nat \ {0} /\ s = FallbackBase + localSeq[n][c]
      BY <1>2, <2>2 DEF Local
    <2>4. Give(t, s, TRUE) /\ errors' = errors
      BY <1>5 DEF LocalNumber
    <2>5. ASSUME NEW i \in 1..Len(given[c])
          PROVE  LET a == given[c][i]
                 IN  \/ a.seq < s
                     \/ /\ a.local
                        /\ errors > 0 \/ ~(a.node = NodeOf[t] /\ a.life = life[NodeOf[t]])
      <3> DEFINE a == given[c][i]
      <3>1. /\ a.seq \in Nat /\ a.local \in BOOLEAN
            /\ InRangeOf(a, counter[c], Settled[a.node][c], life[a.node])
        BY <1>3, <2>1
      <3> HIDE DEF a
      <3>2. \/ a.seq < s
            \/ a.local /\ ~(a.node = n /\ a.life = life[n])
        <4>1. CASE ~a.local
          BY <1>2, <2>2, <2>3, <3>1, <4>1 DEF InRangeOf
        <4>2. CASE a.local /\ a.node = n /\ a.life = life[n]
          <5>1. a.seq =< FallbackBase + Settled[n][c]
            BY <3>1, <4>2 DEF InRangeOf
          <5> HIDE DEF n, c
          <5> QED
            BY <1>2, <2>2, <2>3, <3>1, <5>1
        <4> QED
          BY <3>1, <4>1, <4>2
      <3> QED
        BY <3>2 DEF a
    <2>6. TRUE \in BOOLEAN
      OBVIOUS
    <2> HIDE DEF s
    <2> QED
      BY <1>1, <2>1, <2>3, <2>4, <2>5, <2>6, OrderGiven
  <1>6. ASSUME given' = given, errors' = errors \/ errors' = errors + 1
        PROVE  IncreasingUnlessLocal'
    <2>1. errors \in Nat
      BY <1>1 DEF TypeOK
    <2>2. errors > 0 => errors' > 0
      BY <1>6, <2>1
    <2> QED
      BY <1>1, <1>6, <2>2 DEF IncreasingUnlessLocal, SameLife
  <1> QED
    BY <1>4, <1>5, <1>6
       DEF Next, ThreadStep, Enter, Lock, IncrBreaks, IncrRefused, LocalLock, LocalCount,
           NodeRestarts, RedisGoes, RedisReturns, vars

\* The numbers of a conversation increase over all nodes; only a local number stands
\* in front of smaller ones, and within one life of its node only after an error reply.
THEOREM NumbersIncrease == Spec => []IncreasingUnlessLocal
  <1>1. Init => OrderInv
    BY ConstantsAssumption
       DEF Init, OrderInv, Inv, TypeOK, Exclusive, At, InRange, Unique, Call, Idle, BrokenFirst,
           IncreasingUnlessLocal
  <1>2. OrderInv /\ [Next]_vars => OrderInv'
    BY InvStep, BrokenStep, OrderStep DEF OrderInv
  <1>3. OrderInv => IncreasingUnlessLocal
    BY DEF OrderInv
  <1> QED
    BY <1>1, <1>2, <1>3, PTL DEF Spec
=============================================================================
