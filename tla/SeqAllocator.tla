---------------------------- MODULE SeqAllocator ----------------------------
(***************************************************************************)
(* redis::incrSeq, the allocation of message numbers (redis.cpp:126-185).  *)
(* Every node has one command context, shared by its IO threads under     *)
(* _cmdMutex, and a local allocator it falls back on, under _localSeqMutex.*)
(* The counters of the conversations are in Redis and belong to all nodes.*)
(*                                                                         *)
(* A step is one access to what the threads share: the test of            *)
(* _redisAvailable, the wait for _cmdMutex, the INCR, the wait for        *)
(* _localSeqMutex, the increment and the read of the local counter, the   *)
(* release.  Redis may go away and come back with its counters ("RDB/AOF",*)
(* redis.hpp:80), a connection may break before or after Redis has        *)
(* executed the command, Redis may answer with an error, and a node may   *)
(* be restarted.  Operators named _Bug are mutations, used nowhere.       *)
(***************************************************************************)
EXTENDS Integers, Sequences

CONSTANTS Nodes, Threads,
          NodeOf,          \* NodeOf[t]: the node whose IO thread t is
          Conversations,
          NoThread,
          FallbackBase,    \* kFallbackBase, 1 << 40; also the bound of the counters
          MaxCalls,        \* bound: no call starts after so many numbers
          MaxErrors,       \* bound: error replies of Redis
          MaxRestarts      \* bound: restarts of nodes

ASSUME ConstantsAssumption ==
    /\ NodeOf \in [Threads -> Nodes]
    /\ NoThread \notin Threads
    /\ FallbackBase \in Nat
    /\ MaxCalls \in Nat /\ MaxErrors \in Nat /\ MaxRestarts \in Nat

VARIABLES up,        \* Redis can be reached
          counter,   \* counter[k]: the value of chat:seq:<k>
          context,   \* context[n]: command_context; "broken" once err is set
          available, \* available[n]: _redisAvailable
          localSeq,  \* localSeq[n]: _localSeq
          cmdMutex,  \* cmdMutex[n]: who holds _cmdMutex
          localMutex, \* localMutex[n]: who holds _localSeqMutex
          call,      \* call[t]: where thread t is in incrSeq, for which conversation
          life,      \* life[n]: how often n has been restarted
          given,     \* given[k]: history, the numbers in the order they were allocated
          errors     \* how many error replies there were

vars == <<up, counter, context, available, localSeq, cmdMutex, localMutex, call, life,
          given, errors>>

\* 0 would mean that the allocation failed (redis.hpp:79), which no caller tests.
Number == [node : Nodes, life : Nat, seq : Nat \ {0}, local : BOOLEAN]

Idle == [pc |-> "idle"]
Places == {"lock", "incr",              \* before _cmdMutex, and inside
           "local", "count", "number"}  \* localFallbackSeq
Call == {Idle} \cup [pc : Places, conv : Conversations]

At(t, p) == call[t].pc = p
Goto(t, p) == call' = [call EXCEPT ![t].pc = p]

Init ==
    /\ up = TRUE
    /\ counter = [k \in Conversations |-> 0]
    /\ context = [n \in Nodes |-> "ok"]
    /\ available = [n \in Nodes |-> TRUE]
    /\ localSeq = [n \in Nodes |-> [k \in Conversations |-> 0]]
    /\ cmdMutex = [n \in Nodes |-> NoThread]
    /\ localMutex = [n \in Nodes |-> NoThread]
    /\ call = [t \in Threads |-> Idle]
    /\ life = [n \in Nodes |-> 0]
    /\ given = [k \in Conversations |-> <<>>]
    /\ errors = 0
-----------------------------------------------------------------------------
Give(t, s, isLocal) ==
    LET n == NodeOf[t]
    IN  given' = [given EXCEPT ![call[t].conv] =
            Append(@, [node |-> n, life |-> life[n], seq |-> s, local |-> isLocal])]

\* The test before the mutex is taken.
Enter(t, k) ==
    /\ At(t, "idle")
    /\ Len(given[k]) < MaxCalls
    /\ call' = [call EXCEPT ![t] =
            [pc |-> IF available[NodeOf[t]] THEN "lock" ELSE "local", conv |-> k]]
    /\ UNCHANGED <<up, counter, context, available, localSeq, cmdMutex, localMutex, life,
                   given, errors>>

Lock(t) ==
    /\ At(t, "lock")
    /\ cmdMutex[NodeOf[t]] = NoThread
    /\ cmdMutex' = [cmdMutex EXCEPT ![NodeOf[t]] = t]
    /\ Goto(t, "incr")
    /\ UNCHANGED <<up, counter, context, available, localSeq, localMutex, life, given, errors>>

Unlock(t) == cmdMutex' = [cmdMutex EXCEPT ![NodeOf[t]] = NoThread]

Connected(n) == up /\ context[n] = "ok"

\* Redis executes INCR.
Increment(k) ==
    /\ counter[k] < FallbackBase
    /\ counter' = [counter EXCEPT ![k] = @ + 1]

\* Mutation: the number is read without being incremented (as getSeq does).
IncrAnswered_Bug(t) ==
    LET k == call[t].conv
    IN  /\ At(t, "incr")
        /\ Connected(NodeOf[t])
        /\ Give(t, counter[k] + 1, FALSE)
        /\ \/ Increment(k)
           \/ UNCHANGED counter
        /\ Unlock(t)
        /\ call' = [call EXCEPT ![t] = Idle]
        /\ UNCHANGED <<up, context, available, localSeq, localMutex, life, errors>>

\* An integer comes back.
IncrAnswered(t) ==
    LET k == call[t].conv
    IN  /\ At(t, "incr")
        /\ Connected(NodeOf[t])
        /\ Increment(k)
        /\ Give(t, counter[k] + 1, FALSE)
        /\ Unlock(t)
        /\ call' = [call EXCEPT ![t] = Idle]
        /\ UNCHANGED <<up, context, available, localSeq, localMutex, life, errors>>

\* No reply: the connection is broken, or breaks with this command, which Redis
\* may have executed.  The context stays broken, the node marks Redis as
\* unavailable for good and calls localFallbackSeq without leaving the section.
IncrBreaks(t) ==
    LET n == NodeOf[t]
    IN  /\ At(t, "incr")
        /\ \/ Connected(n) /\ Increment(call[t].conv)
           \/ UNCHANGED counter
        /\ context' = [context EXCEPT ![n] = "broken"]
        /\ available' = [available EXCEPT ![n] = FALSE]
        /\ Goto(t, "local")
        /\ UNCHANGED <<up, localSeq, cmdMutex, localMutex, life, given, errors>>

\* Mutation: seq is returned although it is still 0.
IncrRefused_Bug(t) ==
    /\ At(t, "incr")
    /\ Connected(NodeOf[t])
    /\ errors < MaxErrors
    /\ errors' = errors + 1
    /\ Give(t, 0, FALSE)
    /\ Unlock(t)
    /\ call' = [call EXCEPT ![t] = Idle]
    /\ UNCHANGED <<up, counter, context, available, localSeq, localMutex, life>>

\* An error reply is not an integer: seq stays 0, this one number is local.
IncrRefused(t) ==
    /\ At(t, "incr")
    /\ Connected(NodeOf[t])
    /\ errors < MaxErrors
    /\ errors' = errors + 1
    /\ Unlock(t)
    /\ Goto(t, "local")
    /\ UNCHANGED <<up, counter, context, available, localSeq, localMutex, life, given>>

\* Mutation: nobody waits for _localSeqMutex.
LocalLock_Bug(t) ==
    /\ At(t, "local")
    /\ localMutex' = [localMutex EXCEPT ![NodeOf[t]] = t]
    /\ Goto(t, "count")
    /\ UNCHANGED <<up, counter, context, available, localSeq, cmdMutex, life, given, errors>>

\* localFallbackSeq: called with _cmdMutex held if there was no reply, without it if
\* Redis is not available or has answered with an error.
LocalLock(t) ==
    /\ At(t, "local")
    /\ localMutex[NodeOf[t]] = NoThread
    /\ localMutex' = [localMutex EXCEPT ![NodeOf[t]] = t]
    /\ Goto(t, "count")
    /\ UNCHANGED <<up, counter, context, available, localSeq, cmdMutex, life, given, errors>>

\* Mutation: _cmdMutex is waited for while _localSeqMutex is held.
LocalCount_Bug(t) ==
    /\ At(t, "count")
    /\ cmdMutex[NodeOf[t]] \in {NoThread, t}
    /\ localSeq' = [localSeq EXCEPT ![NodeOf[t]][call[t].conv] = @ + 1]
    /\ Goto(t, "number")
    /\ UNCHANGED <<up, counter, context, available, cmdMutex, localMutex, life, given, errors>>

\* ++v
LocalCount(t) ==
    /\ At(t, "count")
    /\ localSeq' = [localSeq EXCEPT ![NodeOf[t]][call[t].conv] = @ + 1]
    /\ Goto(t, "number")
    /\ UNCHANGED <<up, counter, context, available, cmdMutex, localMutex, life, given, errors>>

\* kFallbackBase + v
Local(n, k) == FallbackBase + localSeq[n][k]

\* The number is read before _localSeqMutex is released, then _cmdMutex if the thread
\* is inside it, and the call returns.
LocalNumber(t) ==
    LET n == NodeOf[t]
    IN  /\ At(t, "number")
        /\ Give(t, Local(n, call[t].conv), TRUE)
        /\ localMutex' = [localMutex EXCEPT ![n] = NoThread]
        /\ IF cmdMutex[n] = t THEN Unlock(t) ELSE UNCHANGED cmdMutex
        /\ call' = [call EXCEPT ![t] = Idle]
        /\ UNCHANGED <<up, counter, context, available, localSeq, life, errors>>

ThreadStep(t) ==
    \/ Lock(t) \/ IncrAnswered(t) \/ IncrBreaks(t) \/ IncrRefused(t)
    \/ LocalLock(t) \/ LocalCount(t) \/ LocalNumber(t)
-----------------------------------------------------------------------------
\* Redis goes away: every connection to it is lost.
RedisGoes ==
    /\ up
    /\ up' = FALSE
    /\ context' = [n \in Nodes |-> "broken"]
    /\ UNCHANGED <<counter, available, localSeq, cmdMutex, localMutex, call, life, given, errors>>

\* It comes back with its counters; nobody connects again.
RedisReturns ==
    /\ ~up
    /\ up' = TRUE
    /\ UNCHANGED <<counter, context, available, localSeq, cmdMutex, localMutex, call, life,
                   given, errors>>

\* A node is killed and started again: connect() does not look at the err of a
\* context and takes Redis for available whether or not it is.
NodeRestarts(n) ==
    /\ life[n] < MaxRestarts
    /\ life' = [life EXCEPT ![n] = @ + 1]
    /\ context' = [context EXCEPT ![n] = IF up THEN "ok" ELSE "broken"]
    /\ available' = [available EXCEPT ![n] = TRUE]
    /\ localSeq' = [localSeq EXCEPT ![n] = [k \in Conversations |-> 0]]
    /\ cmdMutex' = [cmdMutex EXCEPT ![n] = NoThread]
    /\ localMutex' = [localMutex EXCEPT ![n] = NoThread]
    /\ call' = [t \in Threads |-> IF NodeOf[t] = n THEN Idle ELSE call[t]]
    /\ UNCHANGED <<up, counter, given, errors>>

Next ==
    \/ \E t \in Threads : ThreadStep(t) \/ \E k \in Conversations : Enter(t, k)
    \/ \E n \in Nodes : NodeRestarts(n)
    \/ RedisGoes
    \/ RedisReturns

Spec == Init /\ [][Next]_vars

\* The threads run, and redisCommand comes back: the command context has no timeout
\* (redisConnect, line 38), so that this is what TCP makes of a peer that is gone, and
\* a Redis that keeps its connection and never answers is left out.  Fewer than
\* MaxCalls calls compete for a mutex, so nobody needs a fair mutex to get it.
FairSpec == Spec /\ \A t \in Threads : WF_vars(ThreadStep(t))
-----------------------------------------------------------------------------
\* Every variable has its type.
TypeOK ==
    /\ up \in BOOLEAN
    /\ counter \in [Conversations -> 0..FallbackBase]
    /\ context \in [Nodes -> {"ok", "broken"}]
    /\ available \in [Nodes -> BOOLEAN]
    /\ localSeq \in [Nodes -> [Conversations -> Nat]]
    /\ cmdMutex \in [Nodes -> Threads \cup {NoThread}]
    /\ localMutex \in [Nodes -> Threads \cup {NoThread}]
    /\ call \in [Threads -> Call]
    /\ life \in [Nodes -> Nat]
    /\ given \in [Conversations -> Seq(Number)]
    /\ errors \in Nat

\* The same run of the same node.
SameLife(a, b) == a.node = b.node /\ a.life = b.life

\* Two calls for a conversation return the same number only if both fell back, on
\* different nodes or in different lives of a node: INCR never hands out a number
\* twice, whatever breaks, and the two ranges do not meet.
Unique ==
    \A k \in Conversations : \A i, j \in 1..Len(given[k]) :
        LET a == given[k][i]
            b == given[k][j]
        IN  i # j /\ a.seq = b.seq => a.local /\ b.local /\ ~SameLife(a, b)

\* The numbers of a conversation increase in the order they are allocated, over all
\* nodes: only a local number may stand in front of smaller ones, and within one life
\* of its node only if Redis has answered with an error (README.md:300 claims the
\* order within a node for the fallback; redis.cpp:178 claims more).
IncreasingUnlessLocal ==
    \A k \in Conversations : \A i, j \in 1..Len(given[k]) :
        LET a == given[k][i]
            b == given[k][j]
        IN  i < j => a.seq < b.seq \/ (a.local /\ (errors > 0 \/ ~SameLife(a, b)))

\* A call returns, on all four paths through incrSeq: _cmdMutex and _localSeqMutex are
\* given back on each, and whoever waits for one while holding the other holds
\* _cmdMutex and waits for _localSeqMutex.
EveryCallReturns == \A t \in Threads : ~At(t, "idle") ~> At(t, "idle")
=============================================================================
