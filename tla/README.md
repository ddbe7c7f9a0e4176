# Cluster-Chatroom: TLA+ models, checks and proofs

The repository is a chat service. Several server processes (C++, muduo) stand
behind nginx, share a MySQL database and exchange messages through Redis
publish/subscribe; a terminal client puts what it receives into order. The
modules here model the parts in which steps of several actors meet: the
client's message orderer, the connection between a client and its server, the
sessions and message paths of the servers, the tables, the allocation of message
numbers, the connection pool, and the way of a message from its number to the
screens. Paths below are relative to the repository's root, the directory that
holds its own `README.md`; `src/x` in a path means the directory `src` below that
root.

## 1. Inventory

| Component | State it keeps | Operations | Talks to | Hard behaviour |
|---|---|---|---|---|
| Message orderer of the client (`include/conversation_orderer.hpp`, `src/client/main.cpp`) | per conversation: `expect`, `pending`, `delivered`, `gapSince` | `onMessage`, `tick`, `onOfflineBatch` | the screen, through the emit callback | messages arrive out of order over three paths, twice, or never; a timer that only moves when a frame arrives |
| Client process (`src/client/main.cpp`) | `g_recvBuf`, the place in the menu, the reader thread | `sendFrame`, `recvFrame`, login, register, commands | the server, over TCP | a response names no request; partial, overtaking and over-long frames |
| Framing and dispatch of the server (`src/server/chatserver.cpp`) | the input buffer of a connection | `onMessage`, `onConnection`, `sendWithHeader` | muduo, ChatService | partial, malformed and oversized frames; a connection shut down on one side |
| ChatService (`src/server/chatservice.cpp`) | `_userConnMap` | login, logout, close, one-to-one chat, group chat, joining a group, forwarded messages, exit | database, Redis, connections | handlers of different connections interleave at every access to shared state; other nodes interleave with all of them |
| Redis client (`src/server/redis/redis.cpp`) | publish, subscribe and command contexts, observer thread | `publish`, `subscribe`, `unsubscribe`, observer loop | Redis, ChatService (callback) | no acknowledgement of SUBSCRIBE; a publication nobody hears succeeds; two threads on one context |
| Message numbers (`redis::incrSeq`, `localFallbackSeq`) | `_redisAvailable`, `_localSeq`, the Redis counters | `incrSeq` | Redis | failure in the middle of a command, fallback, recovery, restart |
| Connection pool (`src/server/db/connectionpool.cpp`) | `_connQueue`, `_connCount` | constructor, `getConnection`, the deleter, producer and scanner threads | MySQL | three kinds of threads on one condition variable, timeouts, a limit |
| MySQL connection (`src/server/db/connection.cpp`) | the link, its transaction, the last insert id | statements, transaction, `refreshAliveTime`, fetch | MySQL | links that break before, within and after a statement; rows longer than the buffer |
| Groups (`src/server/muduo/groupmodel.cpp`) | rows of `AllGroup`, `GroupUser` | create (a transaction), add, list, members | MySQL | the result of the commit is ignored, no unique key |
| Users (`src/server/muduo/usermodel.cpp`) | rows of `User` | insert, query, state, reset | MySQL | the id is asked for after the insert; a reset by one node concerns the users of all |
| Offline messages (`src/server/muduo/offlinemessagemodel.cpp`, `sortOfflineMessages`) | rows of `OfflineMessage` | insert, query, remove, sort | MySQL | a query and a delete that are two statements; two orders of the same rows |
| Server process (`src/server/main.cpp`) | the event loop | start, `gracefulExit` | all of the above | a node that exits or crashes while others run |
| Friends, hashing, data classes, nginx, tests, JSON library | | | | single statements, pure functions, configuration, or foreign code |

What makes each of them correct:

- **Orderer.** A conversation is shown in increasing order and without repeats;
  what arrived and is not yet settled is in the buffer and nowhere else; a hole
  is always timed, and only the timeout (or the end of the offline batch) gives
  it up; a buffered message is shown in the end.
- **Client and framing.** However TCP cuts the bytes, each end takes the frames
  of the other whole, once and in order; a response is that of the request it is
  taken for; who waits is answered; a user is online only while his client knows
  it.
- **ChatService.** An accepted message is received, stored or on its way, and
  is lost only in ways that can be listed; nobody but an addressee gets it, and
  he gets it once; the map holds live sessions; database, map and subscriptions
  agree when nothing is under way; a user whose client died goes offline.
- **From the number to the screen.** What a client holds a message back for is a
  message that is still to come to its user or was lost. It is not so (section 7).
- **Tables.** A group is there with its creator or not at all; no connection
  goes back to the pool in a transaction; ids are those of one's own rows;
  offline messages are handed out in order, and removed only when handed out.
- **Numbers.** No number of a conversation is given out twice, numbers increase,
  and `incrSeq` returns whatever breaks.
- **Pool.** No connection is lost or handed out twice, the limits hold, an idle
  connection is never left lying while a thread sleeps, and a wait ends in time.

Every hazard, with its line and the properties aimed at it, is in
`PROJECT.json` under `hazards`.

## 2. Plan

Modules, in the order in which they were written. All steps are done.

1. `ConversationOrderer`, with `OrdererChannel` (the class), `OrderedDisplay`
   (its abstract specification), `OrdererLoops` (the loops as they are written),
   `ChannelProofs` and `OrdererProofs`.
2. `ChatService`: sessions, one-to-one and group chat, forwarding, storage.
3. `SeqAllocator`, with `SeqProofs`: types, uniqueness, order.
4. `ConnectionPool`.
5. `ChatService` extended by the end of a node (graceful exit, which resets the
   states of all users, and a crash, which resets none) and of its subscribe
   connection.
6. `Tables` (registration, groups, offline messages over connections that break)
   and `ClientSession` (the frames, the menu, the server's end of a connection).
7. `ChatCluster`: `ChatService` composed with the orderers of the clients.
8. `PoolProofs`, `TableProofs`, `ClientProofs`, `ChatProofs`: the types and the
   safety invariants of these modules, and those action properties that follow
   from them, for every value of the constants.
9. `MessageDelivery`, an abstract specification of delivery (a message is numbered,
   addressed, on its way, read or lost) that `ChatService` implements; the loops of
   `OrdererLoops` as recursive functions, and a proof that they agree with the
   closed forms.

Runs are few and carry many properties; a violating run is kept for those
disagreements that matter most, and section 7 lists the others.

## 3. Modules and their correspondence to the code

### OrdererChannel, ConversationOrderer, OrderedDisplay, OrdererLoops

A `Channel` (`OrdererChannel`) is the struct of one conversation
(`conversation_orderer.hpp:116-122`) together with what the emit callback has
put on the screen; `OnMessage`, `Tick` and `OnOfflineBatch` are the methods, as
operators on a channel, so that both `ConversationOrderer` and `ChatCluster` use
them. A message is its sequence number. `gapSince` becomes three values: unset,
set less than 800 ms ago, set at least 800 ms ago; `GapExpires` is the passing of
that time.

`ConversationOrderer` is the class in the client's threads:

| Action | Code |
|---|---|
| `LoginBatch` | the login response's offline messages, `onOfflineBatch` once, before the reader thread starts |
| `ReceiveChat`, `ReceiveOther` | `recvFrame` returns a frame; duplicates and any order are allowed |
| `TickAll` | `tick()`, with that frame in the reader's hand |
| `DispatchChat` | `onMessage` |
| `DispatchOther` | frames that are no sequenced chat |

`DrainPending`, `Release` and the others give the loops of the class in closed
form, which is what the proofs need. `OrdererLoops` writes the same loops round
by round (`Rounds` repeats a body; `DrainRound` and `FeedRound` are the bodies),
runs them beside the closed forms on the same inputs, and `LoopsAgree` compares
the channels after every call, including the set of delivered numbers that
`deliver` empties when it outgrows its limit. `OrdererProofs` proves it, so that
what the other theorems say of the closed forms they say of the loops.

`OrderedDisplay` is the promise of the class without its mechanism: a horizon
that only moves upwards, messages that wait above it, and a screen to which each
step adds exactly the messages the horizon has passed, in order.
`ConversationOrderer` implements it with `expect` as the horizon and `pending`
as what waits (`ImplementsOrderedDisplay`).

### ClientSession

One client process, its TCP connection and the server's end of it. A frame is a
sequence of cells, `HeaderLen` of header and one or more of body; TCP delivers
cells in any portions, so that a receiver may stop between any two. `Whole`,
`BadLength` and `Rest` are what a receiver sees at the front of its buffer.

A login names a user, and nothing keeps a second login, of another user, from the
same connection: a client whose first response was too long is back at its menu.
So `session`, the users `_userConnMap` has with this connection, and `online`, those
it has made online, are sets, and `current` is the user of the last login. The
updates of the state may fail. `clientCloseException` leaves the loop over the map
at the first entry it finds (`CloseException`).

| Actions | Code |
|---|---|
| `Ask`, `Command`, `SendOdd`, `Quit` | `sendFrame` from the login menu and `mainMenu`; frames another program may send; the end of the process |
| `Receive`, `TakeFrame`, `TakeIllegal`, `TakeGarbage`, `TakeEnd` | `recvFrame` (`main.cpp:54-88`), with what the menu, or the reader thread, does with its result |
| `Readable`, `Incomplete`, `Illegal`, `Malformed`, `Silent` | `ChatServer::onMessage` and its exits |
| `Accept`, `Refuse`, `LoginAck`, `Register`, `Loginout` | the handlers, as far as they answer or change the session |
| `PushChat` | another connection's thread writes a chat to this one |
| `OnConnection`, `CloseException` | the close callback and `clientCloseException` |

`shutdown()` closes the write side only: `link = "half"`, on which
`sendWithHeader` sends nothing while `onMessage` goes on running.

### ChatService, MessageDelivery

One action per access to shared state: a section under `_connMutex`, a SQL
statement, a Redis command, a frame sent. `op[c]` is the handler that runs for
connection `c`: its place and its local variables, so that what a handler has
read may be stale when it uses it. A connection belongs to one IO thread, which
is why it runs one handler at a time, and why `ConnectionDown`, the close
callback, waits for that handler.

| Variables | Code |
|---|---|
| `client`, `link` | the client process; `conn->connected()` |
| `connMap[n]` | `_userConnMap` of node `n` |
| `state`, `offline`, `members` | `User.state`, the rows of `OfflineMessage`, the rows of `GroupUser` |
| `seqno` | the counter of a conversation in Redis |
| `commands[n]`, `subs[n]`, `inbox[n]` | SUBSCRIBE and UNSUBSCRIBE written and not yet executed, the subscriptions, what Redis has forwarded |
| `observer[n]`, `listening[n]` | the observer thread; its connection is intact |
| `node[n]` | up, in `gracefulExit`, exited, crashed |
| `got`, `faults`, `scene` | history; the bound of failing statements; which of the constant's scenes this behaviour is |

`Login*` are the steps of `login` (lines 87-183), `Logout*` of `loginout`,
`Close*` of `clientCloseException`, `ChatLookup`, `RemoteStatus`, `Publish`,
`PublishFails` and `Store` of `onechat`, with `GroupMembers`, `GroupCollect` and
`GroupPush` in front of them of `groupchat`, `Observer*` of
`handleredissubscribemessage`. A statement may fail for want of a connection or
by an error (`Fault`); where the code ignores the result, the step goes on. A
PUBLISH whose reply is lost may have been executed. Two threads that write the
subscribe context at once may lose a command.

A *scene* says which connections exist, who writes in which conversation, how much
may fail, and how the observer reads ids. A behaviour is in one scene from its first
state on, so that one run covers several small systems.

The user id of a forwarded message is read from the integer of the reply element
that holds the channel (`redis.cpp:110`), which hiredis leaves 0 in a string element:
`ElementInteger` is `NoUser`, every forwarded message is looked up and stored for user
0 (run `chat_forward`), and `LossWindow` has that step. In a scene with `parsed` the
element is read as the handlers assume, so that what comes behind line 110 is
checked, too: the look into the map of the node, the send outside the lock, the
storage for a user who has left. The theorems hold for both.

Frames end a dialogue in three ways. A frame that is no JSON, or has an illegal length,
makes the server shut the connection down for writing (`Shutdown`, `link = "half"`):
it goes on handling what the client sends, and sends nothing more
(`chatserver.cpp:25`). The client reads the end of the stream (`EndOfFile`): the
reader thread ends the process, while the menu goes on and hears nothing
(`client = "deaf"`). A frame to the client over 64 KB (the server adds to a chat, and
does not look at the length of a login response) is thrown away with the client's buffer
(`main.cpp:62`): the alternatives of `Send` and `LoginAck` for the connections in
`scene.odd`.

`MessageDelivery` is what this comes to for a message, without nodes, maps, tables
or channels. A message is numbered (`SendToUser`, `SendToGroup`); a group message
is undecided until its addressees are found out (`Address`), once; then each
addressee has a letter that is travelling until it is read or lost (`Proceed`). What
is lost does not come back, nobody reads what was not on its way to him, and while
nothing has failed a letter of a pair that has been read travels no more. It says
nothing of why a letter is lost: that is `LostOnlyInWindows`, and the two
complement each other. `ChatService` implements it (`ImplementsDelivery`) with
`seqno` as the numbers, the messages of the handlers at `members` as the undecided
ones, `Underway` as what travels and `Received` as what is read: seven kinds of
places (row, list of a login handler, two lists of a chat handler, inbox, two
places of the observer) are one set of letters.

### ChatCluster

`ChatService` with the screens: a step of the composition is a step of `ChatService`
together with what the clients make of it (`Display`). The chat that a handler or an
observer sends in that step goes through `tick()` and `onMessage` of the client that
reads it, the offline messages of a login response through `onOfflineBatch`, with the
operators of `OrdererChannel`. Nothing of the server is simplified for it: every
behaviour of the composition, without the screens, is one of `ChatService`, and all
that is proved of that module holds here.

### Tables

The model classes over pooled connections. `conn[d]` is a MySQL connection: its
link, the server's transaction, whether the library takes itself to be in one,
and `mysql_insert_id`. An operation holds its connection from `getConnection` to
its end. Each statement may be executed and answered, executed and not answered
(the link breaks), or refused; the library connects anew unless it believes
itself in a transaction. `Register*` is `reg` with `UserModel::insert`,
`CreateGroup`, `Group*` and `CreatorInsert` are `createGroupWithCreator`,
`ListGroups`, `QueryGroups` and `QueryMembers` are `queryGroups`, `LoginQuery` and
`LoginRemove` what `login` does with `OfflineMessage`. `QueryMembers` joins `GroupUser`
with `User`: a row of a user who does not exist is not listed; `Registered` are the
users with a row at the start. Who creates or joins a group has logged in, so that
his row exists and, as the code deletes none, stays. `SqlOrder` is the query's
order, by the collation of the column; `Fetch` is the loop of `executeQuery`, which
a column longer than its buffer ends; `ListedBefore` is the comparator of
`sortOfflineMessages`, by `std::string`'s order.

### SeqAllocator

A step is one access to what threads share: the unlocked test of `_redisAvailable`,
`_cmdMutex`, the INCR and its four outcomes (an integer; no reply, with the command
executed or not; an error reply), and `localFallbackSeq`, which takes `_localSeqMutex`
(`LocalLock`), increments (`LocalCount`), and reads the number before it gives the
mutex back (`LocalNumber`). A thread that had no reply enters it with `_cmdMutex` held,
the others without. `RedisGoes` and `RedisReturns` are the server's failure and its
return with its counters; `NodeRestarts` loses the local numbers and connects
without looking at `err`. `given` records the numbers in the order of their
allocation.

### ConnectionPool

Everything in the pool happens under `_queueMutex`, so an action is what a
thread does from taking it to giving it up: `Take`, `Wait` and `GiveUp` in
`getConnection`, `PutBack` in the deleter, `Produce` and `ProducerWaits`,
`Scan`. A connection is its `_aliveTime`. There are two clocks: `clock()`, the
CPU time that ages connections, and real time, which `wait_for` measures.
`TimeAdvances` says that a unit of real time is long compared to the steps of a
thread that can run: nobody who could run has not run before it passes. Spurious
wakeups are not modelled (a waiting thread only tests the queue again); neither
is the health of the MySQL connection behind an entry.

## 4. Runs

All of them finish within about three minutes with two workers.

| Run | What it asks | Result |
|---|---|---|
| `orderer` | two conversations, numbers to 5 and to 3, every order, duplicates, holes, expiries, batches: types, exact buffer, timed holes, loops, no skipping but by timeout, refinement of `OrderedDisplay` (and with it an ordered screen), and that what is buffered is shown | holds |
| `orderer_silence` | is an expired hole released? | violated |
| `cluster` | is the message a client waits for one that is still to come to its user, or was lost? Two users of one node, nothing fails | violated |
| `chat_sessions` | six scenes: a pair of which a node or a subscribe connection ends; a pair with over-long and malformed frames and half-closed connections; a group over two nodes with a failing statement, and one whose observer reads ids as hiredis leaves them; a group on one node with double rows; two connections of one user to one node. Sound map, addressees only, presence, subscriptions, delivery at most once, loss only in the windows of `LossWindow` | holds |
| `chat_pair` | two users on two nodes who write to each other, with one failing statement, or in a group, without: the user of a dead client goes offline; refinement of `MessageDelivery` | holds |
| `chat_double_login` | is a second login refused? | violated |
| `chat_forward` | is a forwarded message delivered to, or stored for, the user it is for? | violated |
| `client` | one connection over which two users may log in, bytes in any portions, malformed and over-long frames, chats pushed at any time: frames whole and in order both ways, responses matched to requests, every request answered, no session behind the menu's back, the end of a client ends its session | holds |
| `tables` | two workers over two connections that break: groups whole, no transaction in the pool, own ids, offline messages in order and unread only where listed | holds |
| `seq_numbers` | two nodes, three threads, failures of Redis, of connections and nodes: uniqueness, order, every call returns | holds |
| `pool_core` | four threads and at most three connections: types and limits, no connection lost, no lost wakeup | holds |
| `pool_spin` | does a wait end after the timeout? | violated |

`LostOnlyInWindows` deserves a word. `Held(m, v)` says where message `m` for
user `v` is: received, stored, read by a login, in the hand of a handler,
forwarded, with an observer. The property says that from one step to the next a
message that is held remains held, except in the steps `LossWindow` lists, each of
which the code really has: it is sent on a connection that was shut down for
writing, or to a client that is dead, that hears nothing any more, that finds it too
long, or that still waits for its login response and takes the chat for it; the
login response that carries it is not sent, not read or too long, with the rows
already deleted; a login deletes a row that was inserted after it had read the rows;
it is published while no node is subscribed to the addressee; the node it was
forwarded to takes it to be for somebody else (`redis.cpp:110`); an insert fails
whose result nobody looks at; a process ends with it at hand; a subscribe connection
fails with what was forwarded on it. `LossWindow` is about the step
itself, not about what was true at some time before it, so that a handler which
dropped a message in any other place would be noticed.

### Bounds and why they are enough

- *Orderer.* `Top` is the largest number of each conversation. Of numbers to 5, a
  client that has 1, 3 and 5 waits for two holes: when the first is given up, by
  timeout or batch, the second still holds a message back (`HoleIsTimed` and
  `BufferedIsShown` are about that one, too). A run that empties the de-duplication
  set (`DeliveredCap = 2`) in its middle, with late and repeated messages on both
  sides of it, is within these numbers. The second conversation is there because
  `tick` and the batch touch all of them; numbers to 3 give it one hole.
- *ChatCluster.* Three messages of a pair: one that sets the baseline, one of the
  other user, one behind it. That is the shortest disagreement.
- *ChatService.* One message per conversation, and in the scenes that have one a
  failing statement or publication: every loss is the loss of one message, and its
  windows are orders of the addressee's login, logout and death against the sender's
  handler. Two connections are all who matter to a pair of sessions. One node or
  subscribe connection ends. `rows = 3` lets a member join a second time. In the
  scene with odd frames one connection has them, so that the other user's handlers
  meet it in every state. `MaxCommands` bounds what a node has written to its
  subscribe context and Redis has not yet executed; two let an UNSUBSCRIBE follow a
  SUBSCRIBE. What clients do is not bounded otherwise: after a logout a client is
  back in its menu, which it never leaves (`main.cpp:442-470`), and may go on
  writing, as the code lets it.
- *Client.* `HeaderLen = 2` and bodies of one cell allow a cut within the header,
  behind it, and at the end of the frame; over-long frames have three, so that a
  body is met where a header should be. Three requests allow a login, a second
  request (of the same user or another) and one behind a malformed frame; one chat
  is pushed, before, between or behind the responses (with two, the same properties
  hold of 2.8 million states, in five minutes).
- *Tables.* Four operations and two faults: two groups made at once, each of
  whose transactions may lose its link and, again, its rollback; two
  registrations of one name and of two. Rows of two conversations whose names the
  collation and `std::string` order differently, one row too long, one without a
  number. One of three names is registered from the start.
- *Numbers.* No call starts once two numbers of the conversation are given out
  (`MaxCalls`), so that up to four are, by both threads of a node and the other
  node, with one error reply and one restart of each node. `FallbackBase = 8`
  stands for 2^40: it is above what the counters reach.
- *Pool.* More threads than connections, more connections than initial ones, a
  clock that lets connections grow old more than once.

`CHECK_DEADLOCK FALSE` stands where the system may stop: all clients gone
(ChatService, ChatCluster, ClientSession), or the bound on calls reached
(Tables, SeqAllocator). The other runs check deadlock.

### Fairness

Only weak fairness is assumed, of what runs by itself:

- the client's reader thread finishes what it has begun (`TickAll`, `Dispatch`)
  and time passes (`GapExpires`). Whether a frame comes is up to the server;
  `BusyLoopSpec` adds that one always comes, for `BufferedIsShown`, and
  `orderer_silence` shows that it is needed;
- in `ClientSession`, `recvFrame` runs when it can (`RecvFrame`), the kernels
  deliver bytes and muduo calls back (`Readable`, `OnConnection`), and the IO
  thread goes on (`OnMessage`). Nobody has to send anything;
- an IO thread runs the handler it is in, TCP reports the end of a connection,
  Redis works off its commands, the observer thread runs. What users do is
  never assumed;
- a thread inside `incrSeq` takes its steps. Neither mutex need be fair: the
  bound on calls leaves each thread alone with them in the end, so that
  `EveryCallReturns` says that `_cmdMutex` and `_localSeqMutex` are released on every
  path, the second also when it is taken with the first held, not that a busy mutex
  starves nobody. `redisCommand` is taken to come back, with a reply or without:
  the code sets no timeout on the context, and with a Redis that keeps its
  connection and never answers the thread stays in it, and its node's others behind
  `_cmdMutex`. That case is left out.

## 5. Theorems

`tlapm` checks every proof of the seven modules named `...Proofs`. The theorems hold
for every value of the constants that meets the module's `ConstantsAssumption`,
without the small sets of the runs. What these assumptions say of the program:
bounds are natural numbers; a thread belongs to one node; `Home` and `Owner` give
every connection its node and its user; the rows of a group are users; a group is
no pair of users; the placeholders (`NoConn`, `NoUser`, `NoThread`) are none of what
they stand in for; the users with a row at the start are among the names. Nothing is
assumed of the integer hiredis leaves, nor of which frames are too long.
The bounds that appear in guards (`Top`, `MaxSeq`, `MaxCommands`, `FallbackBase`) are
arbitrary in the theorems. Where a set is counted it is assumed to be finite, in
the theorem itself.

**ChannelProofs, OrdererProofs.** The properties are not inductive as they stand: that the
buffer is exact after a step needs that the timer and the screen are right
before it, and each call is a sequence of operations on one channel. So the
invariant, `ChannelOK`, is stated of one channel and the set of numbers that has
arrived in it, and `Settled` says what a step of the abstract specification
allows one channel to do. One lemma per operation (`DrainSettles`,
`ReleaseSettles`, `OnMessageSettles`, `OfflineBatchSettles`) shows that it keeps
the first and makes the second. These lemmas are `ChannelProofs`. `Invariance` lifts this to the
specification with one step per action. From it follow `TypeCorrect`, `BufferExact`, `TimerExact`,
`DedupRedundant` and `ScreenOrdered`; the action property `SkipsAreTimeouts`;
and `Implements`, that `Spec` implies `OD!Spec`, by showing that every step is a
`Settle` of every conversation. The limit of the de-duplication set matters in
one place, `RememberBelow`: for every limit, what is left in the set is below the
new expected number.

`LoopsAreTheirClosedForms` justifies the closed forms. A loop is a number of rounds,
`RoundsUnrolled` takes the first one off, and the argument of both loops is the same:
a round changes nothing about where the loop ends. For `drainPending` that end is
`Drained` (`RoundKeeps`), and as many rounds as there are buffered messages reach it,
because each round but the last takes one out (`DrainLoopIsDrained`). For the first
loop of `onOfflineBatch` it is `Fed` (`FeedKeeps`, `FeedByLoopIsFed`): feeding the
smallest number that is left and then the rest comes to the same as buffering all
and draining once. The delicate field is `delivered`, which the loop empties in the middle of
a run while the closed form `Remember` computes what is left with a remainder;
`RememberFirst` shows that the two agree, one number at a time, and needs that the
set was within its limit, which `LoopInv` adds to the invariant.

**SeqProofs.** `Uniqueness` is the property about failures: two calls for a
conversation return the same number only if both are local and of different
nodes or lives. The inductive invariant adds `InRange` to the types: a number of
Redis is at most the counter and at most `FallbackBase`, a local one is above
`FallbackBase` and, in the current life of its node, at most the base plus the
node's local counter; no number belongs to a life that is still to come. A new
number is then above all those of its kind, and the two kinds do not meet. Between the
increment of the local counter and the read of it, the counter is one ahead of what
was given (`Settled`); that this is one thread's number only is `Exclusive`: inside
`localFallbackSeq` a thread holds `_localSeqMutex`.

`NumbersIncrease` is about the order in which numbers are given out, over all
nodes. It needs why a node that has fallen back gives no number of Redis
afterwards. `BrokenFirst` says it: whoever is about to allocate locally, and
whoever has done so in his present life, has a broken context, unless an error
reply made him fall back; and a broken context stays broken until the node is
restarted. A number of Redis is above all earlier numbers of Redis by `InRange`,
and smaller than a local one only where `BrokenFirst` leaves room for it.

The bound on the counters (`FallbackBase`) is part of the model's guard of INCR and
thus an assumption of the theorems: in the code 2^40 numbers would have to be
given out before the ranges meet.

**PoolProofs.** The invariant is `TypeOK /\ NoConnectionLost /\
NobodySleepsOnConnections`, which is inductive. `NoConnectionLost` counts: the
connections in the queue and the threads that hold one are together `_connCount`.
One lemma says what it does to such a count that a holder comes
(`HolderComes`), another that one goes; each action is then a change of two
terms of the sum. `ConnectionsKept` and `WakeupsKept` are the two parts;
`ProducerAwake` the action property, that nobody but the scanner leaves the queue
empty and the producer asleep.

**TableProofs.** First, that the sort is one: `StableSort` gives every row the
rank of how many rows stand before it, and `StableSortSorts` shows that the ranks are
a permutation (two rows never have the same rank; as many values as rows, so
that by the pigeonhole principle every place is taken), that the result is ordered by
the comparator, and that equal rows keep their order; `HandedRows` applies it to the
rows a login has read. Then the tables. `TablesInv` adds to the types and to what
the runs check, among other parts, `LinkOK` (the server's and the library's view of
the transaction of one connection), `Fits` (what an operation is in the middle of
agrees with its connection), `Exclusive` (two workers never hold one connection) and
`Fresh` (groups that wait for a commit are new, and wait in one transaction only). From
it: `PoolIsClean`, `OwnIds`, `CompleteGroups`, `InOrder`, and the
action property `UnreadExplained`.

**ClientProofs.** `SessionInv` follows the two directions of the connection.
`Laid` is the central notion: what a receiver has buffered, followed by what is
under way, is cell for cell the frames the other side has sent and the receiver
has not yet taken. A receiver that stops between any two cells keeps it, and
the front of such a buffer is a whole frame, an illegal length or the beginning of a
frame, never anything else. With `Control` and `OneResponse` (a client that waits
has one request under way, or its handler, or its response, and never two), and
`OnePlace`, this gives `FramesHandledInOrder`, `FramesReceivedInOrder` and
`OnlineInMenu`. These hold whatever users log in over the connection, and whichever
statements fail: `OnePlace` speaks of anybody in the map with it, or online (`Seated`).

**ChatProofs.** `ChatInv` is the conjunction of what the runs check and of where the
copies are: `SessionOK` (the client, the link, the handler and the map entries of
a connection go together), `HandlerOK` (the lists of a handler hold addressees of its
message, and connections over which one of them has logged in), `InboxOK` and
`ObserverOK` (the same of what Redis forwards and the observer has in hand). The
pointers that are used after the mutex was given back are the difficulty: `Past`
says of a connection that its login was checked, which never ceases to be true while a
copy of the pointer is about. From the invariant follow `TypeCorrect`, `MapSound` and
`OnlyAddressees`. `NothingElseIsLost` is the action property `LostOnlyInWindows`: each
step keeps `Held` for every message and addressee, or is one of the windows. It has no
hypothesis: whatever the observer takes from the channel element, and whichever
connections are half closed or have frames too long, the step in which that costs a
message is one of them.

A second invariant, `PresenceInv`, relates the connection map, the column `state` and
the subscriptions. Where a connection is the only one of its user to its node (`Alone`), the
place of its handler says whether its entry is in the map (`EntryAt`). The column
agrees with the map except between the two writes of a login or of an end, or
when a node has ended (`StateAt`; while no statement has failed, and for a user
with one connection). Whether a node will be
subscribed to a user once Redis has worked off its commands is decided by the last
command for him under way (`Wanted`), and `SubscriptionAt` says by the place of the
handler what that is, for the only connection of a user to the node, whatever the
handlers of other users do there meanwhile, as long as no command was lost to two
threads that wrote at once (which the model counts among the faults). From it follow
`PresenceTrue` and `Subscribed`.

A third, `OnceInv`, counts the copies of a message between two users: there is one
at most (`Copies`, divided into places by `CopyAt`), there is none before the
number is given out, and the handler that has the message has one addressee at most
(`PairHandler`). Each step makes nothing new, or moves one copy from a place to
another (`NothingNew`, `CopyMoves`, `AllMove`). A publication reaches one inbox
because, by `PresenceInv`, only one node is subscribed to the channel of a user with
one connection (`OneSubscribed`). From it follows `AtMostOnce`: while no statement and
no publication has failed, a message is in one place at most, whatever the order of
the threads of all nodes.

`ImplementsMessageDelivery` is the refinement. For most actions the work is to show
that whatever is at a place after the step was on its way before it: `Grounded` says
this of one message and user, `Proceeds` of the step, and each action has a lemma,
which finds the old place of what is new (the entry of the map is that of the user
looked up, the pointer in the observer's hand is that of his user, the list that is
left is part of the list that was). `OneChatNumbers`, `GroupChatNumbers` and
`GroupMembersAddresses` are the other three kinds of step. Two more facts are needed.
`UndecidedOnce`, inductive with `ChatInv`: no two handlers query the members for the
same message, as their numbers were given out one after the other; without it a
group message could be addressed twice. And that what is read travels no more, which
is `OnceInv` (`OneCopyOnly`). As built,
too, the program only loses what it should not, and delivers nothing it should not.

## 6. Model-checked only, and not modelled

Only checked by TLC, on the instances of section 4: everything temporal
(`BufferedIsShown`, `GoneUserGoesOffline`, `EveryCallReturns`, `RequestIsAnswered`,
`EndOfClientEndsSession`: liveness under fairness is out of the prover's reach).
Every invariant and every action property that a passing run checks is a theorem
of section 5 as well. `ChatCluster` has no theorem: its one property is violated.
What the provers know nothing of is written so that they can:
the selection from a list, `SelectSeq` in the library, is a recursive function
`Selected`, whose two properties are proved from its definition; so are the loops of
`OrdererLoops`.
`DedupIsBelowExpect` (`DedupRedundant`) and `ScreenIsOrdered` (`ScreenOrdered`, a part
of `ImplementsOrderedDisplay`) are proved and need no run of their own.

Not modelled, and why:

- friends: one insert and one query whose rows nothing else reads or depends on;
- `thirdparty/json.hpp`: third-party code, 21045 of the repository's 23680 lines of
  implementation. A parse succeeds or throws, and that is how `ClientSession` has
  it. Whatever is modelled of the program itself is therefore a small share of
  all lines: the definitions cover about 1500 of the 2600 lines that are its own;
- the order of a conversation over the processes of a client, and on which of several
  screens a message appears first: section 7 says why nothing can be promised;
- what a signal handler may call: `gracefulExit` runs in the handler
  (`src/server/main.cpp:16`), takes a connection of the pool, and waits for ever if
  it has interrupted a thread that holds `_queueMutex`. In ChatService the end of
  a node takes no mutex; signals are not modelled;
- the memory of hiredis when two threads use the subscribe context
  (`redis.cpp:66-101` against the observer's read); its visible effect, a lost
  command or a failed subscribe connection, is;
- parameter binding and buffers of prepared statements, beyond the row that is
  longer than its buffer;
- what is typed at the client: the split of a command line, and the line too long
  for `getline`;
- `getSeq` and `createGroup`: nobody calls them;
- password hashing, data classes, nginx, tests: no state of their own that
  changes.

Wording, logging, error texts, the identity of friends and the content of
messages appear nowhere: no property tells them apart.

## 7. Where the code and its comments disagree

Shown by violating runs:

- `orderer_silence`: `conversation_orderer.hpp:32-34` says that a hole must not
  be waited for without end. `tick()` is only called when a frame has arrived
  (`main.cpp:342`), so in a silent conversation it is.
- `cluster`: `conversation_orderer.hpp:29` takes a hole for a message that is on its
  way or was lost. The two users of a pair share one numbering
  (`chatservice.cpp:268`), but nobody is sent his own messages, so that each change of
  direction is a hole to the receiver: the next message waits for the timeout, and
  stays hidden until another frame arrives.
- `chat_double_login`: `chatservice.cpp:97` and `README.md:7` say that a second
  login is refused. Two logins that both read the state before either writes it
  both succeed, on two nodes as on one.
- `chat_forward`: `redis.cpp:110` takes the user id from the integer of a string
  element (see ChatService above).
- `pool_spin`: `connectionpool.hpp:21-22` says that the wait ends after
  `_connectTimeout`. At the limit the producer's condition (line 82) is true at
  once, it notifies in a loop, and each notification starts `wait_for` anew.

Met while modelling and covered by a passing property's exceptions, or left to
the reader. Of messages and sessions:

- a login deletes offline rows it has not read (`chatservice.cpp:124` and 132),
  and a chat pushed between lines 109 and 172 reaches the client before its
  login response: two of the windows of `LostOnlyInWindows`. The client takes
  such a chat for the response, finds no `errno` in it and ends with an exception
  (`ReceivedInOrder`);
- the UNSUBSCRIBE of an ending session (lines 223 and 253) may follow the
  SUBSCRIBE of a new one of the same user on the same node, who is then in the
  map and not subscribed: `SubscribedToItsUsers` says nothing of a user with two
  connections to the node, of whom it would be violated. Nor is a command promised
  to arrive that two threads write at once (`redis.cpp:70`);
- LOGINOUT takes the user's entry from the map whichever connection it holds
  (`chatservice.cpp:212`): the old client of a user ends the session of the new one;
- two users can log in over one connection, when the first login response was over
  the limit. At its end `clientCloseException` removes the first entry it finds and
  leaves the loop (`chatservice.cpp:240`); the other user stays in the map, with a
  pointer to a connection that is closed, and online. `EndOfClientEndsSession` excepts
  connections that have carried two logins;
- `resetState` at the exit of one node sets the users of all nodes offline, after
  which messages to them are stored while they are online: the exception in
  `PresenceIsTrue`. A crash resets nothing, and its users stay online;
- a user who joins a group twice has two rows (`groupmodel.cpp:51`) and is sent
  every message twice. His orderer drops the copy, unless his client ends between
  the two;
- a message may be shown twice by two processes of a client, whose orderers know
  nothing of each other: when the `remove` of a login fails and the next login reads
  the rows again (`offlinemessagemodel.cpp:34-40`), and when two logins of one user
  that pass each other (`chatservice.cpp:96`) both read them;
- a message that another overtakes on its way to a client that has just logged in is
  below the baseline the first one sets, and discarded
  (`conversation_orderer.hpp:56`). Line 30 takes what is below for a duplicate or what
  another path has delivered; this message was shown to nobody. It needs two senders
  in one group. If it is stored instead of pushed, the user sees the later message, and
  the earlier one after his next login: an order that the comment at
  `chatservice.cpp:334` rules out for a group;

Of frames:

- the server does not look at the length of a login response. Over 64 KB the
  client throws it away and is back at the menu, while its user is online and
  the rows are deleted: the exception `misread` in `OnlineMeansLoggedIn`;
- after a malformed frame the connection is shut down for writing and the frames
  behind it are handled at the next event (`chatserver.cpp:86`); a login among
  them leaves a user online whose client never hears of it (`link = "half"` in the
  same property). `sendWithHeader` drops without a word what is sent to such a
  connection (`chatserver.cpp:25`): chats, and a login response whose rows are already
  deleted, among the windows of `LossWindow`.

Of tables and numbers:

- the result of the commit is ignored (`groupmodel.cpp:38`), and the result of
  `createGroupWithCreator` never reaches the client; `addGroup` joins groups that do
  not exist;
- a row longer than 4096 bytes ends a fetch (`connection.cpp:134`; `chat.sql:56`
  admits 5000 characters). The rows behind it are not read and are deleted with
  the rest: the exception in `UnreadOnlyBehindLongOrLate`. If it is the first row
  the fetch is empty, nothing is deleted, and no offline message of that user is
  handed out any more;
- `redis.cpp:177-178` says that the offset keeps new numbers of Redis from being
  smaller than local ones. It does the opposite: every local number is above every
  number of Redis, so that after a recovery numbers fall, and clients discard
  them as old: `IncreasingUnlessLocal` admits what follows a local number;
- one error reply makes one number local while Redis remains available
  (`redis.cpp:150`): the other exception in that property.

Of the orderer and the pool:

- an offline batch with two holes leaves what is behind the second one to the
  timeout (`conversation_orderer.hpp:104`), although line 103 says it need not
  wait;
- a message that fills a hole is discarded when the hole has expired before the
  reader's `tick()`, with the message already in its hand (`main.cpp:340-355`);
- the scanner may empty the queue without waking the producer
  (`connectionpool.cpp:139`): the exception in `ProducerIsWoken`.

The losses between a publication and a subscription are admitted by the
repository's own `README.md:299`.

## 8. Running

    tlc -config orderer.cfg MCOrderer        # MCCluster, MCChat, MCClient,
                                             # MCTables, MCSeq, MCPool likewise
    tlapm OrdererProofs.tla                  # ChannelProofs, SeqProofs, PoolProofs,
                                             # TableProofs, ChatProofs, ClientProofs
                                             # likewise

`PROJECT.json` names, for each run, its module and properties; for each
definition, the lines it models; and for each property a mutation of the model
(operators named `_Bug`, used nowhere else) that breaks it.
