--------------------------- MODULE ConnectionPool ---------------------------
(***************************************************************************)
(* The MySQL connection pool of a node (connectionpool.cpp).  IO threads   *)
(* take connections and put them back, a producer thread makes new ones,  *)
(* a scanner thread closes idle ones.  Everything happens under           *)
(* _queueMutex, which only wait and wait_for give up, so that an action is*)
(* what a thread does from taking the mutex to releasing it.               *)
(*                                                                         *)
(* A connection is represented by its _aliveTime.  Two clocks matter:      *)
(* clock(), the CPU time of the process, which ages the connections, and  *)
(* the real time that wait_for measures.                                   *)
(* Operators named _Bug are mutations, used nowhere.                       *)
(***************************************************************************)
EXTENDS Integers, FiniteSets, Sequences

CONSTANTS Threads,        \* the IO threads and the observer thread
          InitSize,       \* _initSize
          MaxSize,        \* _maxSize
          MaxIdleTime,    \* _maxIdleTime, in units of the model's CPU clock
          ConnectTimeout, \* _connectTimeout, in units of the model's real time
          MaxClock        \* bound: the CPU clock

ASSUME ConstantsAssumption ==
    /\ IsFiniteSet(Threads)
    /\ InitSize \in Nat /\ MaxSize \in Nat /\ InitSize =< MaxSize
    /\ MaxIdleTime \in Nat /\ MaxClock \in Nat
    /\ ConnectTimeout \in Nat \ {0}

VARIABLES queue,     \* _connQueue: the _aliveTimes of the idle connections
          connCount, \* _connCount
          producer,  \* "waiting" in _cv.wait or "ready" to test its condition
          pc,        \* pc[t]: "out", "waiting" in wait_for, "notified" of a change or
                     \* "timedout" in front of the mutex, "holding" a connection, or
                     \* "failed": nullptr was returned
          waited,    \* waited[t]: how long the wait_for of t has lasted
          elapsed,   \* elapsed[t]: history, how long its getConnection has lasted
          spun,      \* the producer has run since the real time last advanced
          clock      \* clock()

vars == <<queue, connCount, producer, pc, waited, elapsed, spun, clock>>

Holders == {t \in Threads : pc[t] = "holding"}
Waiters == {t \in Threads : pc[t] \in {"waiting", "notified", "timedout"}}

\* The constructor: InitSize connections, and the two threads.
Init ==
    /\ queue = [i \in 1..InitSize |-> 0]
    /\ connCount = InitSize
    /\ producer = "ready"
    /\ pc = [t \in Threads |-> "out"]
    /\ waited = [t \in Threads |-> 0]
    /\ elapsed = [t \in Threads |-> 0]
    /\ spun = FALSE
    /\ clock = 0
-----------------------------------------------------------------------------
\* What notify_all makes of the waiting threads.
Notified(p) == [t \in Threads |-> IF p[t] = "waiting" THEN "notified" ELSE p[t]]

\* Mutation: the thread does not notify after it has taken a connection.
Take_Bug(t) ==
    /\ queue # <<>>
    /\ queue' = Tail(queue)
    /\ pc' = [pc EXCEPT ![t] = "holding"]
    /\ waited' = [waited EXCEPT ![t] = 0]
    /\ elapsed' = [elapsed EXCEPT ![t] = 0]
    /\ UNCHANGED <<connCount, producer, spun, clock>>

\* Thread t takes the oldest connection, and everybody is notified.
Take(t) ==
    /\ queue # <<>>
    /\ queue' = Tail(queue)
    /\ pc' = Notified([pc EXCEPT ![t] = "holding"])
    /\ waited' = [waited EXCEPT ![t] = 0]
    /\ elapsed' = [elapsed EXCEPT ![t] = 0]
    /\ producer' = "ready"
    /\ UNCHANGED <<connCount, spun, clock>>

\* The queue is empty: t starts a wait_for.
Wait(t) ==
    /\ queue = <<>>
    /\ pc' = [pc EXCEPT ![t] = "waiting"]
    /\ waited' = [waited EXCEPT ![t] = 0]
    /\ UNCHANGED <<queue, connCount, producer, elapsed, spun, clock>>

GetConnection(t) == pc[t] \in {"out", "failed"} /\ (Take(t) \/ Wait(t))

\* A notified thread tests the queue again, and waits again.
WakeUp(t) == pc[t] = "notified" /\ (Take(t) \/ Wait(t))

\* The time is over; the thread still has to get the mutex.
TimeOut(t) ==
    /\ pc[t] = "waiting"
    /\ waited[t] >= ConnectTimeout
    /\ pc' = [pc EXCEPT ![t] = "timedout"]
    /\ UNCHANGED <<queue, connCount, producer, waited, elapsed, spun, clock>>

\* Still no connection: nullptr.
GiveUp(t) ==
    /\ queue = <<>>
    /\ pc' = [pc EXCEPT ![t] = "failed"]
    /\ waited' = [waited EXCEPT ![t] = 0]
    /\ elapsed' = [elapsed EXCEPT ![t] = 0]
    /\ UNCHANGED <<queue, connCount, producer, spun, clock>>

\* wait_for returns timeout.
AfterTimeOut(t) == pc[t] = "timedout" /\ (Take(t) \/ GiveUp(t))

\* Mutation: nobody is notified of the connection.
PutBack_Bug(t) ==
    /\ pc[t] = "holding"
    /\ queue' = Append(queue, clock)
    /\ pc' = [pc EXCEPT ![t] = "out"]
    /\ UNCHANGED <<connCount, producer, waited, elapsed, spun, clock>>

\* The deleter of the shared_ptr: the idle time starts anew.
PutBack(t) ==
    /\ pc[t] = "holding"
    /\ queue' = Append(queue, clock)
    /\ pc' = Notified([pc EXCEPT ![t] = "out"])
    /\ producer' = "ready"
    /\ UNCHANGED <<connCount, waited, elapsed, spun, clock>>
-----------------------------------------------------------------------------
\* The condition the producer waits for.
ProducerMayRun == queue = <<>> \/ connCount >= MaxSize

ProducerWaits ==
    /\ producer = "ready"
    /\ ~ProducerMayRun
    /\ producer' = "waiting"
    /\ UNCHANGED <<queue, connCount, pc, waited, elapsed, spun, clock>>

\* Mutation: the limit is not tested.
Produce_Bug ==
    /\ producer = "ready"
    /\ ProducerMayRun
    /\ connCount =< MaxSize
    /\ queue' = Append(queue, clock)
    /\ connCount' = connCount + 1
    /\ pc' = Notified(pc)
    /\ spun' = TRUE
    /\ UNCHANGED <<producer, waited, elapsed, clock>>

\* One turn of the producer's loop: below the limit it makes a connection, or
\* fails to; in either case, and at the limit, it notifies everybody.
Produce ==
    /\ producer = "ready"
    /\ ProducerMayRun
    /\ \/ /\ connCount < MaxSize
          /\ queue' = Append(queue, clock)
          /\ connCount' = connCount + 1
       \/ UNCHANGED <<queue, connCount>>
    /\ pc' = Notified(pc)
    /\ spun' = TRUE
    /\ UNCHANGED <<producer, waited, elapsed, clock>>

\* How many connections at the head of the queue have been idle for too long.
Idle == {i \in 1..Len(queue) : \A j \in 1..i : clock - queue[j] >= MaxIdleTime}

\* How many connections are more than the initial ones.
Surplus == IF connCount > InitSize THEN connCount - InitSize ELSE 0

\* Mutation: only the last of the closed connections is counted off.
Scan_Bug ==
    LET closed == Cardinality({i \in Idle : i =< Surplus})
    IN  /\ closed > 0
        /\ queue' = SubSeq(queue, closed + 1, Len(queue))
        /\ connCount' = connCount - 1
        /\ UNCHANGED <<producer, pc, waited, elapsed, spun, clock>>

\* The scanner closes idle connections from the head of the queue and stops at the
\* first that is not, or when the initial number is left.  It notifies nobody.
Scan ==
    LET closed == Cardinality({i \in Idle : i =< Surplus})
    IN  /\ closed > 0
        /\ queue' = SubSeq(queue, closed + 1, Len(queue))
        /\ connCount' = connCount - closed
        /\ UNCHANGED <<producer, pc, waited, elapsed, spun, clock>>

\* The process has used more CPU time.
ClockAdvances ==
    /\ clock < MaxClock
    /\ clock' = clock + 1
    /\ UNCHANGED <<queue, connCount, producer, pc, waited, elapsed, spun>>

\* Real time advances.  A unit is long compared to what a thread does under the
\* mutex: who can run has run before, and no wait_for is over for long.
TimeAdvances ==
    /\ producer = "ready" => spun /\ ProducerMayRun
    /\ \A t \in Threads : /\ pc[t] \notin {"notified", "timedout"}
                          /\ pc[t] = "waiting" => waited[t] < ConnectTimeout
    /\ Waiters # {}
    /\ waited' = [t \in Threads |-> IF pc[t] = "waiting" THEN waited[t] + 1 ELSE waited[t]]
    /\ elapsed' = [t \in Threads |-> IF pc[t] = "waiting" /\ elapsed[t] =< ConnectTimeout
                                     THEN elapsed[t] + 1 ELSE elapsed[t]]
    /\ spun' = FALSE
    /\ UNCHANGED <<queue, connCount, producer, pc, clock>>

ThreadStep(t) == GetConnection(t) \/ WakeUp(t) \/ TimeOut(t) \/ AfterTimeOut(t)
                 \/ PutBack(t)

Next ==
    \/ \E t \in Threads : ThreadStep(t)
    \/ ProducerWaits \/ Produce \/ Scan
    \/ ClockAdvances \/ TimeAdvances

Spec == Init /\ [][Next]_vars
-----------------------------------------------------------------------------
\* Every variable has its type; the number of connections stays between the two
\* sizes of the pool.
TypeOK ==
    /\ queue \in Seq(0..MaxClock)
    /\ connCount \in InitSize..MaxSize
    /\ producer \in {"waiting", "ready"}
    /\ pc \in [Threads -> {"out", "waiting", "notified", "timedout", "holding", "failed"}]
    /\ waited \in [Threads -> 0..ConnectTimeout]
    /\ elapsed \in [Threads -> 0..ConnectTimeout + 1]
    /\ spun \in BOOLEAN
    /\ clock \in 0..MaxClock

\* Every connection that is counted is in the queue or in the hands of one thread:
\* none is lost by a thread that gives up, none is handed out twice.
NoConnectionLost == connCount = Len(queue) + Cardinality(Holders)

\* No wakeup is lost: as long as a connection is idle, every thread that waits for
\* one has been notified and will look.
NobodySleepsOnConnections == queue # <<>> => \A t \in Threads : pc[t] # "waiting"

\* Lines 78 and 106: whoever takes the last idle connection, or finds none, leaves
\* the producer awake, so that a new connection is made below the limit.  Only
\* the scanner may empty the queue of a sleeping producer.
ProducerIsWoken ==
    [][(queue = <<>> => producer = "ready")
       => (queue' = <<>> => producer' = "ready") \/ connCount' < connCount]_vars

\* connectionpool.hpp:21: getConnection waits for at most _connectTimeout.
WaitsAtMostTimeout == \A t \in Threads : elapsed[t] =< ConnectTimeout
=============================================================================
