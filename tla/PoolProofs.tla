----------------------------- MODULE PoolProofs -----------------------------
(***************************************************************************)
(* Type correctness of ConnectionPool, and that no connection and no       *)
(* wakeup is lost, for any number of threads, any sizes of the pool and    *)
(* any times.                                                              *)
(*                                                                         *)
(* The limits of the pool rest on what the scanner counts: Closed bounds   *)
(* the connections it closes by the queue and by the surplus over the      *)
(* initial ones.  That no connection is lost rests on counting the         *)
(* holders: HolderComes and HolderGoes say what a step of one thread does  *)
(* to their number, notifications included.                                *)
(***************************************************************************)
EXTENDS ConnectionPool, FiniteSetTheorems, SequenceTheorems, TLAPS

Places == {"out", "waiting", "notified", "timedout", "holding", "failed"}

\* Nobody becomes or ceases to be a holder by a notification.
LEMMA NotifiedKeeps ==
    ASSUME NEW p \in [Threads -> Places]
    PROVE  /\ Notified(p) \in [Threads -> Places]
           /\ \A t \in Threads : /\ Notified(p)[t] # "waiting"
                                 /\ Notified(p)[t] = "holding" <=> p[t] = "holding"
  BY DEF Notified, Places

\* Holders is a set of threads, and as such can be counted.
LEMMA HoldersCounted == Holders \in SUBSET Threads /\ IsFiniteSet(Holders) /\ Cardinality(Holders) \in Nat
  <1>1. Holders \in SUBSET Threads
    BY DEF Holders
  <1>2. IsFiniteSet(Holders)
    BY <1>1, ConstantsAssumption, FS_Subset
  <1> QED
    BY <1>1, <1>2, FS_CardinalityType

\* A thread that takes a connection is one holder more.
LEMMA HolderComes ==
    ASSUME NEW t \in Threads, pc[t] # "holding", pc'[t] = "holding",
           \A u \in Threads \ {t} : pc'[u] = "holding" <=> pc[u] = "holding"
    PROVE  Cardinality(Holders') = Cardinality(Holders) + 1
  <1>1. Holders' = Holders \cup {t} /\ t \notin Holders
    BY DEF Holders
  <1> QED
    BY <1>1, HoldersCounted, FS_AddElement

\* A thread that puts its connection back is one holder less.
LEMMA HolderGoes ==
    ASSUME NEW t \in Threads, pc[t] = "holding", pc'[t] # "holding",
           \A u \in Threads \ {t} : pc'[u] = "holding" <=> pc[u] = "holding"
    PROVE  Cardinality(Holders') = Cardinality(Holders) - 1
  <1>1. Holders' = Holders \ {t} /\ t \in Holders
    BY DEF Holders
  <1> QED
    BY <1>1, HoldersCounted, FS_RemoveElement

\* The holders stay the same if no thread begins or ends to hold a connection.
LEMMA HoldersStay ==
    ASSUME \A u \in Threads : pc'[u] = "holding" <=> pc[u] = "holding"
    PROVE  Holders' = Holders
  BY DEF Holders

\* What the scanner closes is in the queue, and more than the initial connections.
LEMMA Closed ==
    ASSUME TypeOK
    PROVE  LET closed == Cardinality({i \in Idle : i =< Surplus})
           IN  closed \in Nat /\ closed =< Len(queue) /\ closed =< Surplus /\ Surplus \in Nat
  <1> DEFINE C == {i \in Idle : i =< Surplus}
  <1> USE ConstantsAssumption
  <1>1. Len(queue) \in Nat /\ Surplus \in Nat
    BY DEF TypeOK, Surplus
  <1>2. C \in SUBSET (1..Len(queue)) /\ C \in SUBSET (1..Surplus)
    BY <1>1 DEF Idle
  <1>3. /\ IsFiniteSet(1..Len(queue)) /\ Cardinality(1..Len(queue)) = Len(queue)
        /\ IsFiniteSet(1..Surplus) /\ Cardinality(1..Surplus) = Surplus
    <2>1. \A n \in Nat : IsFiniteSet(1..n) /\ Cardinality(1..n) = n
      BY FS_Interval
    <2> QED
      BY <1>1, <2>1
  <1> HIDE DEF C
  <1>4. /\ IsFiniteSet(C) /\ Cardinality(C) =< Len(queue)
        /\ Cardinality(C) =< Surplus
    BY <1>2, <1>3, FS_Subset, ZenonT(30)
  <1>5. Cardinality(C) \in Nat
    BY <1>4, FS_CardinalityType
  <1> QED
    BY <1>1, <1>4, <1>5 DEF C

\* Without its first k elements, a sequence is k shorter.
LEMMA FirstDropped ==
    ASSUME NEW S, NEW s \in Seq(S), NEW k \in Nat, k =< Len(s)
    PROVE  /\ SubSeq(s, k + 1, Len(s)) \in Seq(S)
           /\ Len(SubSeq(s, k + 1, Len(s))) = Len(s) - k
  <1>1. Len(s) \in Nat
    BY LenProperties
  <1>2. \A i \in (k + 1)..Len(s) : s[i] \in S
    <2> SUFFICES ASSUME NEW i \in (k + 1)..Len(s) PROVE s[i] \in S
      OBVIOUS
    <2>1. i \in 1..Len(s)
      BY <1>1
    <2> QED
      BY <2>1, ElementOfSeq
  <1> QED
    BY <1>1, <1>2, SubSeqProperties
-----------------------------------------------------------------------------
\* Every step keeps the types.
LEMMA TypeStep == TypeOK /\ [Next]_vars => TypeOK'
  <1> SUFFICES ASSUME TypeOK, [Next]_vars PROVE TypeOK'
    OBVIOUS
  <1> USE ConstantsAssumption
  <1>1. pc \in [Threads -> Places]
    BY DEF TypeOK, Places
  <1>2. ASSUME NEW t \in Threads, Take(t) PROVE TypeOK'
    <2>1. queue' \in Seq(0..MaxClock)
      BY <1>2, HeadTailProperties DEF Take, TypeOK
    <2>2. pc' \in [Threads -> Places]
      <3>1. [pc EXCEPT ![t] = "holding"] \in [Threads -> Places]
        BY <1>1 DEF Places
      <3> QED
        BY <1>2, <3>1, NotifiedKeeps DEF Take
    <2>3. waited' \in [Threads -> 0..ConnectTimeout]
      BY <1>2 DEF Take, TypeOK
    <2>4. elapsed' \in [Threads -> 0..ConnectTimeout + 1]
      BY <1>2 DEF Take, TypeOK
    <2>5. producer' = "ready" /\ UNCHANGED <<connCount, spun, clock>>
      BY <1>2 DEF Take
    <2> QED
      BY <2>1, <2>2, <2>3, <2>4, <2>5 DEF TypeOK, Places
  <1>3. ASSUME NEW t \in Threads, Wait(t) PROVE TypeOK'
    BY <1>3 DEF Wait, TypeOK
  <1>4. ASSUME NEW t \in Threads, TimeOut(t) PROVE TypeOK'
    BY <1>4 DEF TimeOut, TypeOK
  <1>5. ASSUME NEW t \in Threads, GiveUp(t) PROVE TypeOK'
    BY <1>5 DEF GiveUp, TypeOK
  <1>6. ASSUME NEW t \in Threads, PutBack(t) PROVE TypeOK'
    <2>1. queue' \in Seq(0..MaxClock)
      BY <1>6, AppendProperties DEF PutBack, TypeOK
    <2>2. pc' \in [Threads -> Places]
      <3>1. [pc EXCEPT ![t] = "out"] \in [Threads -> Places]
        BY <1>1 DEF Places
      <3> QED
        BY <1>6, <3>1, NotifiedKeeps DEF PutBack
    <2> QED
      BY <1>6, <2>1, <2>2 DEF PutBack, TypeOK, Places
  <1>7. CASE ProducerWaits
    BY <1>7 DEF ProducerWaits, TypeOK
  <1>8. CASE Produce
    <2>1. queue' \in Seq(0..MaxClock) /\ connCount' \in InitSize..MaxSize
      <3>1. CASE UNCHANGED <<queue, connCount>>
        BY <3>1 DEF TypeOK
      <3>2. CASE connCount < MaxSize /\ queue' = Append(queue, clock)
                 /\ connCount' = connCount + 1
        BY <3>2, AppendProperties DEF TypeOK
      <3> QED
        BY <1>8, <3>1, <3>2 DEF Produce
    <2>2. pc' \in [Threads -> Places]
      BY <1>1, <1>8, NotifiedKeeps DEF Produce
    <2> QED
      BY <1>8, <2>1, <2>2 DEF Produce, TypeOK, Places
  <1>9. CASE Scan
    <2> DEFINE closed == Cardinality({i \in Idle : i =< Surplus})
    <2>1. closed \in Nat /\ closed =< Len(queue) /\ closed =< Surplus
      BY Closed
    <2>2. /\ queue' = SubSeq(queue, closed + 1, Len(queue))
          /\ connCount' = connCount - closed
          /\ UNCHANGED <<producer, pc, waited, elapsed, spun, clock>>
      BY <1>9 DEF Scan
    <2> HIDE DEF closed
    <2>3. queue' \in Seq(0..MaxClock)
      BY <2>1, <2>2, FirstDropped DEF TypeOK
    <2>4. connCount' \in InitSize..MaxSize
      BY <2>1, <2>2 DEF TypeOK, Surplus
    <2> QED
      BY <2>2, <2>3, <2>4 DEF TypeOK
  <1>10. CASE ClockAdvances
    <2>1. queue \in Seq(0..MaxClock) /\ clock' \in 0..MaxClock
      BY <1>10 DEF ClockAdvances, TypeOK
    <2> QED
      BY <1>10, <2>1 DEF ClockAdvances, TypeOK
  <1>11. CASE TimeAdvances
    <2>1. waited' \in [Threads -> 0..ConnectTimeout]
      BY <1>11 DEF TimeAdvances, TypeOK
    <2>2. elapsed' \in [Threads -> 0..ConnectTimeout + 1]
      BY <1>11 DEF TimeAdvances, TypeOK
    <2>3. spun' = FALSE /\ UNCHANGED <<queue, connCount, producer, pc, clock>>
      BY <1>11 DEF TimeAdvances
    <2> QED
      BY <2>1, <2>2, <2>3 DEF TypeOK
  <1>12. CASE UNCHANGED vars
    BY <1>12 DEF vars, TypeOK
  <1> QED
    BY <1>2, <1>3, <1>4, <1>5, <1>6, <1>7, <1>8, <1>9, <1>10, <1>11, <1>12
       DEF Next, ThreadStep, GetConnection, WakeUp, AfterTimeOut

\* The constructor leaves a state of the right types.
LEMMA InitTyped == ASSUME Init PROVE TypeOK
  <1> USE ConstantsAssumption
  <1>1. queue \in Seq(0..MaxClock)
    BY IsASeq DEF Init
  <1>2. waited \in [Threads -> 0..ConnectTimeout]
    BY DEF Init
  <1>3. elapsed \in [Threads -> 0..ConnectTimeout + 1]
    BY DEF Init
  <1>4. pc \in [Threads -> Places] /\ connCount \in InitSize..MaxSize
    BY DEF Init, Places
  <1>5. producer = "ready" /\ spun = FALSE /\ clock \in 0..MaxClock
    BY DEF Init
  <1> QED
    BY <1>1, <1>2, <1>3, <1>4, <1>5 DEF TypeOK, Places

\* Every variable keeps its type; in particular the number of connections never leaves
\* the two sizes of the pool, though the producer and the scanner change it.
THEOREM TypeCorrect == Spec => []TypeOK
  BY InitTyped, TypeStep, PTL DEF Spec
-----------------------------------------------------------------------------
PoolInv == TypeOK /\ NoConnectionLost /\ NobodySleepsOnConnections

\* Who holds a connection after a step of thread t, and who sleeps: the three steps
\* that take, put back, or make one.
LEMMA TakeCounts ==
    ASSUME PoolInv, NEW t \in Threads, Take(t), pc[t] # "holding"
    PROVE  NoConnectionLost' /\ NobodySleepsOnConnections'
  <1> DEFINE p == [pc EXCEPT ![t] = "holding"]
  <1>1. p \in [Threads -> Places] /\ p[t] = "holding"
        /\ \A u \in Threads \ {t} : p[u] = pc[u]
    BY DEF PoolInv, TypeOK, Places
  <1>2. pc' = Notified(p)
    BY DEF Take
  <1> HIDE DEF p
  <1>3. \A u \in Threads : /\ pc'[u] # "waiting"
                           /\ pc'[u] = "holding" <=> p[u] = "holding"
    BY <1>1, <1>2, NotifiedKeeps
  <1>4. Cardinality(Holders') = Cardinality(Holders) + 1
    BY <1>1, <1>3, HolderComes
  <1>5. Len(queue') = Len(queue) - 1 /\ Len(queue) \in Nat
    BY HeadTailProperties, LenProperties DEF Take, PoolInv, TypeOK
  <1>6. connCount' = connCount /\ connCount = Len(queue) + Cardinality(Holders)
    BY DEF Take, PoolInv, NoConnectionLost
  <1>7. NoConnectionLost'
    BY <1>4, <1>5, <1>6, HoldersCounted DEF NoConnectionLost
  <1> QED
    BY <1>3, <1>7 DEF NobodySleepsOnConnections

LEMMA PutBackCounts ==
    ASSUME PoolInv, NEW t \in Threads, PutBack(t)
    PROVE  NoConnectionLost' /\ NobodySleepsOnConnections'
  <1> DEFINE p == [pc EXCEPT ![t] = "out"]
  <1>1. p \in [Threads -> Places] /\ p[t] = "out" /\ pc[t] = "holding"
        /\ \A u \in Threads \ {t} : p[u] = pc[u]
    BY DEF PoolInv, TypeOK, Places, PutBack
  <1>2. pc' = Notified(p)
    BY DEF PutBack
  <1> HIDE DEF p
  <1>3. \A u \in Threads : /\ pc'[u] # "waiting"
                           /\ pc'[u] = "holding" <=> p[u] = "holding"
    BY <1>1, <1>2, NotifiedKeeps
  <1>4. Cardinality(Holders') = Cardinality(Holders) - 1
    BY <1>1, <1>3, HolderGoes
  <1>5. Len(queue') = Len(queue) + 1 /\ Len(queue) \in Nat
    BY AppendProperties, LenProperties DEF PutBack, PoolInv, TypeOK
  <1>6. connCount' = connCount /\ connCount = Len(queue) + Cardinality(Holders)
    BY DEF PutBack, PoolInv, NoConnectionLost
  <1>7. NoConnectionLost'
    BY <1>4, <1>5, <1>6, HoldersCounted DEF NoConnectionLost
  <1> QED
    BY <1>3, <1>7 DEF NobodySleepsOnConnections

LEMMA ProduceCounts ==
    ASSUME PoolInv, Produce
    PROVE  NoConnectionLost' /\ NobodySleepsOnConnections'
  <1>1. pc \in [Threads -> Places] /\ pc' = Notified(pc)
    BY DEF PoolInv, TypeOK, Places, Produce
  <1>2. \A u \in Threads : pc'[u] # "waiting" /\ (pc'[u] = "holding" <=> pc[u] = "holding")
    BY <1>1, NotifiedKeeps
  <1>3. Holders' = Holders
    BY <1>2, HoldersStay
  <1>4. Len(queue) \in Nat /\ connCount = Len(queue) + Cardinality(Holders)
    BY LenProperties DEF PoolInv, TypeOK, NoConnectionLost
  <1>5. \/ UNCHANGED <<queue, connCount>>
        \/ Len(queue') = Len(queue) + 1 /\ connCount' = connCount + 1
    BY AppendProperties DEF Produce, PoolInv, TypeOK
  <1>6. NoConnectionLost'
    BY <1>3, <1>4, <1>5, HoldersCounted DEF NoConnectionLost
  <1> QED
    BY <1>2, <1>6 DEF NobodySleepsOnConnections

\* A step that leaves the connections where they are: who begins to wait has seen
\* the queue empty.
LEMMA NothingMoves ==
    ASSUME PoolInv, UNCHANGED <<queue, connCount>>,
           \A u \in Threads : pc'[u] = "holding" <=> pc[u] = "holding",
           queue = <<>> \/ \A u \in Threads : pc'[u] = "waiting" => pc[u] = "waiting"
    PROVE  NoConnectionLost' /\ NobodySleepsOnConnections'
  <1>1. Holders' = Holders
    BY HoldersStay
  <1> QED
    BY <1>1 DEF PoolInv, NoConnectionLost, NobodySleepsOnConnections

\* Every step keeps the invariant.
LEMMA PoolStep == PoolInv /\ [Next]_vars => PoolInv'
  <1> SUFFICES ASSUME PoolInv, [Next]_vars PROVE PoolInv'
    OBVIOUS
  <1> DEFINE Kept == NoConnectionLost' /\ NobodySleepsOnConnections'
  <1>1. TypeOK /\ TypeOK'
    BY TypeStep DEF PoolInv
  <1>2. ASSUME NEW t \in Threads, Take(t), pc[t] # "holding" PROVE Kept
    BY <1>2, TakeCounts
  <1>3. ASSUME NEW t \in Threads, Wait(t), pc[t] # "holding" PROVE Kept
    <2>1. queue = <<>> /\ UNCHANGED <<queue, connCount>>
      BY <1>3 DEF Wait
    <2>2. \A u \in Threads : pc'[u] = "holding" <=> pc[u] = "holding"
      BY <1>1, <1>3 DEF Wait, TypeOK
    <2> QED
      BY <2>1, <2>2, NothingMoves
  <1>4. ASSUME NEW t \in Threads, TimeOut(t) PROVE Kept
    <2>1. UNCHANGED <<queue, connCount>>
      BY <1>4 DEF TimeOut
    <2>2. \A u \in Threads : /\ pc'[u] = "holding" <=> pc[u] = "holding"
                             /\ pc'[u] = "waiting" => pc[u] = "waiting"
      BY <1>1, <1>4 DEF TimeOut, TypeOK
    <2> QED
      BY <2>1, <2>2, NothingMoves
  <1>5. ASSUME NEW t \in Threads, GiveUp(t), pc[t] # "holding" PROVE Kept
    <2>1. queue = <<>> /\ UNCHANGED <<queue, connCount>>
      BY <1>5 DEF GiveUp
    <2>2. \A u \in Threads : pc'[u] = "holding" <=> pc[u] = "holding"
      BY <1>1, <1>5 DEF GiveUp, TypeOK
    <2> QED
      BY <2>1, <2>2, NothingMoves
  <1>6. ASSUME NEW t \in Threads, PutBack(t) PROVE Kept
    BY <1>6, PutBackCounts
  <1>7. ASSUME Produce PROVE Kept
    BY <1>7, ProduceCounts
  <1>8. ASSUME Scan PROVE Kept
    <2> DEFINE closed == Cardinality({i \in Idle : i =< Surplus})
    <2>1. closed \in Nat /\ closed =< Len(queue) /\ Len(queue) \in Nat
      BY <1>1, Closed, LenProperties DEF TypeOK
    <2>2. /\ closed > 0
          /\ queue' = SubSeq(queue, closed + 1, Len(queue))
          /\ connCount' = connCount - closed
          /\ pc' = pc
      BY <1>8 DEF Scan
    <2> HIDE DEF closed
    <2>3. Len(queue') = Len(queue) - closed
      BY <1>1, <2>1, <2>2, FirstDropped DEF TypeOK
    <2>4. Holders' = Holders /\ connCount = Len(queue) + Cardinality(Holders)
      BY <2>2 DEF Holders, PoolInv, NoConnectionLost
    <2>5. NoConnectionLost'
      BY <2>1, <2>2, <2>3, <2>4, HoldersCounted DEF NoConnectionLost
    <2>6. queue # <<>>
      BY <1>1, <2>1, <2>2, EmptySeq
    <2> QED
      BY <2>2, <2>5, <2>6 DEF PoolInv, NobodySleepsOnConnections
  <1>9. ASSUME UNCHANGED <<queue, connCount, pc>> PROVE Kept
    BY <1>9, NothingMoves
  <1>10. Kept
    BY <1>2, <1>3, <1>4, <1>5, <1>6, <1>7, <1>8, <1>9
       DEF Next, ThreadStep, GetConnection, WakeUp, AfterTimeOut, ProducerWaits,
           ClockAdvances, TimeAdvances, vars
  <1> QED
    BY <1>1, <1>10 DEF PoolInv

\* The invariant holds in every reachable state.
THEOREM Invariance == Spec => []PoolInv
  <1>1. Init => PoolInv
    <2> SUFFICES ASSUME Init PROVE PoolInv
      OBVIOUS
    <2>1. TypeOK
      BY InitTyped
    <2>2. Holders = {} /\ Cardinality({}) = 0
      BY FS_EmptySet DEF Init, Holders
    <2>3. Len(queue) = InitSize /\ connCount = InitSize /\ InitSize \in Nat
      BY ConstantsAssumption DEF Init
    <2>4. NoConnectionLost
      BY <2>2, <2>3 DEF NoConnectionLost
    <2>5. NobodySleepsOnConnections
      BY DEF Init, NobodySleepsOnConnections
    <2> QED
      BY <2>1, <2>4, <2>5 DEF PoolInv
  <1> QED
    BY <1>1, PoolStep, PTL DEF Spec

\* Every connection that is counted is idle or in the hands of one thread, however
\* many threads take, give back and give up, while the producer makes new ones and
\* the scanner closes old ones.
THEOREM ConnectionsKept == Spec => []NoConnectionLost
  BY Invariance, PTL DEF PoolInv

\* While a connection is idle, no thread sleeps in wait_for.
THEOREM WakeupsKept == Spec => []NobodySleepsOnConnections
  BY Invariance, PTL DEF PoolInv

\* Nobody but the scanner leaves the queue empty and the producer asleep.
THEOREM ProducerAwake == Spec => ProducerIsWoken
  <1> DEFINE Woken == (queue = <<>> => producer = "ready")
                         => (queue' = <<>> => producer' = "ready") \/ connCount' < connCount
  <1>1. TypeOK /\ [Next]_vars => Woken
    <2> SUFFICES ASSUME TypeOK, [Next]_vars PROVE Woken
      OBVIOUS
    <2>1. CASE Scan
      <3> DEFINE closed == Cardinality({i \in Idle : i =< Surplus})
      <3>1. closed \in Nat /\ closed > 0 /\ connCount' = connCount - closed
        BY <2>1, Closed DEF Scan
      <3> HIDE DEF closed
      <3>2. connCount \in Int
        BY ConstantsAssumption DEF TypeOK
      <3> QED
        BY <3>1, <3>2
    <2>2. CASE Produce
      <3>1. UNCHANGED queue \/ queue' # <<>>
        BY <2>2, AppendProperties DEF Produce, TypeOK
      <3> QED
        BY <2>2, <3>1 DEF Produce
    <2>3. ASSUME NEW t \in Threads, ThreadStep(t) PROVE Woken
      BY <2>3 DEF ThreadStep, GetConnection, WakeUp, AfterTimeOut, Take, Wait, TimeOut,
                  GiveUp, PutBack
    <2>4. CASE ProducerWaits
      BY <2>4 DEF ProducerWaits, ProducerMayRun
    <2>5. CASE UNCHANGED <<queue, producer>>
      BY <2>5
    <2> QED
      BY <2>1, <2>2, <2>3, <2>4, <2>5 DEF Next, ClockAdvances, TimeAdvances, vars
  <1> QED
    BY <1>1, TypeCorrect, PTL DEF Spec, ProducerIsWoken
=============================================================================
