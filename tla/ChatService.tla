----------------------------- MODULE ChatService -----------------------------
(***************************************************************************)
(* The cluster: every node runs ChatService (chatservice.cpp) behind its  *)
(* TCP connections; the nodes share the MySQL tables User, GroupUser and  *)
(* OfflineMessage and the Redis channels, one channel per user.           *)
(*                                                                         *)
(* A connection belongs to one IO thread, which runs the handler of one   *)
(* frame at a time; handlers of different connections interleave at every *)
(* access to shared state, which is where the actions below are cut:      *)
(* _userConnMap under its mutex, one SQL statement, one Redis command,    *)
(* one frame sent.  The observer thread of a node takes what Redis        *)
(* forwards.  op[c] is the handler of connection c: where it is and what  *)
(* it has in its local variables.                                          *)
(*                                                                         *)
(* Abstractions: the person behind a connection is fixed (Owner), a       *)
(* message is its conversation, number and sender, a stored row is a      *)
(* message, and a frame reaches a live client at once (one connection     *)
(* delivers in order).  Operators named _Bug are mutations, used nowhere. *)
(***************************************************************************)
EXTENDS Integers, FiniteSets, Sequences

CONSTANTS Nodes,          \* the server processes
          Conns,          \* the TCP connections, each used by one client process
          Users,          \* the registered users
          Groups,         \* the groups
          Home,           \* Home[c]: the node nginx sends connection c to
          Owner,          \* Owner[c]: the user who logs in over c
          FirstRows,      \* FirstRows[g]: the initial rows of g in GroupUser
          NoConn, NoUser, \* nullptr; a user id that no user has (0)
          Scenes,         \* how hiredis answers, and bounds: which connections are
                          \* made (conns), which clients end (mortal) or send and are
                          \* sent frames that end the dialogue (odd), in which
                          \* conversations somebody writes (active), how many SQL
                          \* statements and commands fail (faults), how many nodes or
                          \* subscribe connections end (ends), how many rows a group
                          \* may have (rows)
          MaxSeq,         \* bound: messages per conversation
          MaxCommands     \* bound: SUBSCRIBE and UNSUBSCRIBE on their way to Redis

ASSUME ConstantsAssumption ==
    /\ Home \in [Conns -> Nodes]
    /\ Owner \in [Conns -> Users]
    /\ FirstRows \in [Groups -> Seq(Users)]
    /\ NoConn \notin Conns
    /\ NoUser \notin Users
    /\ \A u, v \in Users : {u, v} \notin Groups
    /\ \A s \in Scenes : /\ s.conns \subseteq Conns /\ s.faults \in Nat /\ s.ends \in Nat
                         /\ s.parsed \in BOOLEAN
    /\ MaxSeq \in Nat /\ MaxCommands \in Nat

VARIABLES client,    \* client[c]: the client process behind c: at its menu, waiting
                     \* for its login response, logged in; at its menu, where no
                     \* answer reaches it any more (deaf); gone
          link,      \* link[c]: connected at the server; shut down for writing (half);
                     \* down
          op,        \* op[c]: the handler running for c
          connMap,   \* connMap[n][u]: _userConnMap of node n
          state,     \* state[u]: column state of User
          offline,   \* offline[u]: the messages in OfflineMessage for u
          members,   \* members[g]: the userids of g's rows in GroupUser
          seqno,     \* seqno[k]: the Redis counter of conversation k
          subs,      \* subs[n]: the channels node n is subscribed to
          commands,  \* commands[n]: what n has written to its subscribe context
          inbox,     \* inbox[n]: what Redis has forwarded to n
          observer,  \* observer[n]: the observer thread of n
          got,       \* got[c]: history, the messages client c has received
          faults,    \* how many statements and publications have failed
          node,      \* node[n]: up; closing: in gracefulExit; exited; crashed
          listening, \* listening[n]: the subscribe connection of n is intact
          scene      \* which of Scenes this is

sessionVars == <<client, link, connMap, state>>
redisVars   == <<subs, commands, inbox, observer>>
vars == <<client, link, op, connMap, state, offline, members, seqno, subs,
          commands, inbox, observer, got, faults, node, listening, scene>>

\* What only the end of a node or of its subscribe connection changes.
world == <<node, listening, scene>>
-----------------------------------------------------------------------------
\* conv::p2p and conv::group: the conversation of two users has no direction.
Pairs == {{u, v} : u, v \in Users}
Conversations == Pairs \cup Groups

Messages == [conv: Conversations, seq: 1..MaxSeq, from: Users]
NoMessage == [conv |-> {}, seq |-> 0, from |-> NoUser]

\* The places of a handler between two accesses to shared state.
Places == {"idle",
           "check", "map", "subscribe", "online", "query", "remove", "ack",
           "erase", "unsubscribe", "offline",
           "find", "closeOffline", "closeUnsubscribe",
           "lookup", "members", "collect", "push", "status", "publish", "store"}

Handler == [pc: Places, msg: Messages \cup {NoMessage}, local: Seq(Conns),
            remote: Seq(Users), rows: SUBSET Messages]
NoHandler == [pc |-> "idle", msg |-> NoMessage, local |-> <<>>,
              remote |-> <<>>, rows |-> {}]

Observer == [pc: {"idle", "lookup", "send", "store"}, user: Users \cup {NoUser},
             msg: Messages \cup {NoMessage}, conn: Conns \cup {NoConn}]
NoObserver == [pc |-> "idle", user |-> NoUser, msg |-> NoMessage, conn |-> NoConn]

At(c, p) == op[c].pc = p
Goto(c, p) == op' = [op EXCEPT ![c].pc = p]
Return(c) == op' = [op EXCEPT ![c] = NoHandler]

\* Mutation: the condition "userid != ?" is missing.
Without_Bug(s, u) == s

\* The elements of s that are in T, in their order (SelectSeq, which the provers do
\* not know).
Selected(s, T) ==
    LET F[i \in 0..Len(s)] == IF i = 0 THEN <<>>
                              ELSE IF s[i] \in T THEN Append(F[i - 1], s[i]) ELSE F[i - 1]
    IN  F[Len(s)]

\* The rows of s that are not u's: "userid != ?".
Without(s, u) == Selected(s, Users \ {u})

\* The users that node n has in its map.
InMap(n) == {u \in Users : connMap[n][u] # NoConn}

\* getConnection() times out, or the statement or command is answered by an error.
Fault == faults < scene.faults /\ faults' = faults + 1

\* What hiredis has in the integer of the channel element of a message for u: the
\* element is a string, of which hiredis leaves the integer 0; the handlers rely on
\* the user's id.
ElementInteger(u) == IF scene.parsed THEN u ELSE NoUser

\* sendWithHeader: nothing happens on a connection that is not connected; a client
\* that waits for its login response takes any frame for it, finds no errno in a
\* chat and dies of the json exception; one that reads a length over 64 KB (the
\* server has made the chat longer) ends; one that is dead or deaf reads nothing.
Send(c, m) ==
    \/ /\ link[c] = "up" /\ client[c] = "in"
       /\ got' = [got EXCEPT ![c] = @ \cup {m}]
       /\ UNCHANGED client
    \/ /\ link[c] = "up"
       /\ client[c] = "awaiting" \/ (client[c] = "in" /\ c \in scene.odd)
       /\ client' = [client EXCEPT ![c] = "gone"]
       /\ UNCHANGED got
    \/ /\ ~(link[c] = "up" /\ client[c] \in {"awaiting", "in"})
       /\ UNCHANGED <<client, got>>
-----------------------------------------------------------------------------
Init ==
    /\ scene \in Scenes
    /\ client = [c \in Conns |-> IF c \in scene.conns THEN "connected" ELSE "gone"]
    /\ link = [c \in Conns |-> IF c \in scene.conns THEN "up" ELSE "down"]
    /\ node = [n \in Nodes |-> "up"]
    /\ listening = [n \in Nodes |-> TRUE]
    /\ op = [c \in Conns |-> NoHandler]
    /\ connMap = [n \in Nodes |-> [u \in Users |-> NoConn]]
    /\ state = [u \in Users |-> "offline"]
    /\ offline = [u \in Users \cup {NoUser} |-> {}]
    /\ members = FirstRows
    /\ seqno = [k \in Conversations |-> 0]
    /\ subs = [n \in Nodes |-> {}]
    /\ commands = [n \in Nodes |-> <<>>]
    /\ inbox = [n \in Nodes |-> <<>>]
    /\ observer = [n \in Nodes |-> NoObserver]
    /\ got = [c \in Conns |-> {}]
    /\ faults = 0

\* The client sends LOGIN and waits for one frame.
SendLogin(c) ==
    /\ client[c] \in {"connected", "deaf"} /\ link[c] # "down" /\ At(c, "idle")
    /\ client' = [client EXCEPT ![c] = IF @ = "deaf" THEN @ ELSE "awaiting"]
    /\ Goto(c, "check")
    /\ UNCHANGED <<link, connMap, state, offline, members, seqno, redisVars, got, faults>>

\* The login response with an errno: the client is back at its menu.
Refuse(c) ==
    /\ client' = IF link[c] = "up" /\ client[c] = "awaiting"
                 THEN [client EXCEPT ![c] = "connected"] ELSE client
    /\ Return(c)
    /\ UNCHANGED <<link, connMap, state, offline, members, seqno, redisVars, got>>

\* queryByName finds the user online: errno 2.
LoginRefused(c) ==
    /\ At(c, "check")
    /\ state[Owner[c]] = "online"
    /\ Refuse(c)
    /\ UNCHANGED faults

\* queryByName has no connection to the database: errno 1.
LoginUnknown(c) ==
    /\ At(c, "check")
    /\ Fault
    /\ Refuse(c)

LoginCheck(c) ==
    /\ At(c, "check")
    /\ state[Owner[c]] = "offline"
    /\ Goto(c, "map")
    /\ UNCHANGED <<sessionVars, offline, members, seqno, redisVars, got, faults>>

\* insert({id,conn}) leaves an entry that is there.
LoginMap(c) ==
    /\ At(c, "map")
    /\ connMap' = [connMap EXCEPT ![Home[c]][Owner[c]] = IF @ = NoConn THEN c ELSE @]
    /\ Goto(c, "subscribe")
    /\ UNCHANGED <<client, link, state, offline, members, seqno, redisVars, got, faults>>

\* Two IO threads of a node are about to write to the subscribe context, which no
\* mutex protects.
Collides(c) ==
    \E d \in Conns \ {c} :
        Home[d] = Home[c] /\ op[d].pc \in {"subscribe", "unsubscribe", "closeUnsubscribe"}

\* SUBSCRIBE and UNSUBSCRIBE are written to the socket, no answer is awaited, and a
\* failure is not noticed; a command that collides with another may be lost.
Command(c, what) ==
    LET n == Home[c] IN
    \/ /\ listening[n] /\ Len(commands[n]) < MaxCommands
       /\ commands' = [commands EXCEPT ![n] = Append(@, <<what, Owner[c]>>)]
       /\ UNCHANGED <<subs, inbox, observer, faults>>
    \/ /\ \/ ~listening[n] /\ UNCHANGED faults
          \/ Collides(c) /\ Fault
       /\ UNCHANGED redisVars

LoginSubscribe(c) ==
    /\ At(c, "subscribe")
    /\ Command(c, "subscribe")
    /\ Goto(c, "online")
    /\ UNCHANGED <<sessionVars, offline, members, seqno, got>>

\* updatestate, whose result nobody looks at.
LoginOnline(c) ==
    /\ At(c, "online")
    /\ \/ state' = [state EXCEPT ![Owner[c]] = "online"] /\ UNCHANGED faults
       \/ Fault /\ UNCHANGED state
    /\ Goto(c, "query")
    /\ UNCHANGED <<client, link, connMap, offline, members, seqno, redisVars, got>>

\* The offline messages are read; nothing is removed when there are none.
LoginQuery(c) ==
    /\ At(c, "query")
    /\ \E rows \in {offline[Owner[c]], {}} :
         /\ IF rows = offline[Owner[c]] THEN UNCHANGED faults ELSE Fault
         /\ op' = [op EXCEPT ![c].rows = rows,
                             ![c].pc = IF rows = {} THEN "ack" ELSE "remove"]
    /\ UNCHANGED <<sessionVars, offline, members, seqno, redisVars, got>>

\* Mutation: the rows that have been read are not deleted.
LoginRemove_Bug(c) ==
    /\ At(c, "remove")
    /\ Goto(c, "ack")
    /\ UNCHANGED <<sessionVars, offline, members, seqno, redisVars, got, faults>>

\* "delete from OfflineMessage where userid=?"
LoginRemove(c) ==
    /\ At(c, "remove")
    /\ \/ offline' = [offline EXCEPT ![Owner[c]] = {}] /\ UNCHANGED faults
       \/ Fault /\ UNCHANGED offline
    /\ Goto(c, "ack")
    /\ UNCHANGED <<sessionVars, members, seqno, redisVars, got>>

\* The login response with errno 0 and the offline messages.  Nobody looks at its
\* length: one of more than 64 KB is thrown away by the client, which then takes what
\* is left of it for headers.
LoginAck(c) ==
    /\ At(c, "ack")
    /\ \/ /\ link[c] = "up" /\ client[c] = "awaiting"
          /\ client' = [client EXCEPT ![c] = "in"]
          /\ got' = [got EXCEPT ![c] = @ \cup op[c].rows]
       \/ /\ link[c] = "up" /\ client[c] = "awaiting" /\ c \in scene.odd
          /\ client' = [client EXCEPT ![c] = "deaf"]
          /\ UNCHANGED got
       \/ /\ ~(link[c] = "up" /\ client[c] = "awaiting")
          /\ UNCHANGED <<client, got>>
    /\ Return(c)
    /\ UNCHANGED <<link, connMap, state, offline, members, seqno, redisVars, faults>>

LoginStep(c) ==
    \/ LoginRefused(c) \/ LoginUnknown(c) \/ LoginCheck(c) \/ LoginMap(c)
    \/ LoginSubscribe(c) \/ LoginOnline(c) \/ LoginQuery(c) \/ LoginRemove(c)
    \/ LoginAck(c)
-----------------------------------------------------------------------------
(* loginout *)

\* Mutation: the channel is not unsubscribed.
LogoutErase_Bug(c) ==
    /\ client[c] = "in" /\ link[c] # "down" /\ At(c, "idle")
    /\ connMap' = [connMap EXCEPT ![Home[c]][Owner[c]] = NoConn]
    /\ Goto(c, "offline")
    /\ UNCHANGED <<client, link, state, offline, members, seqno, redisVars, got, faults>>

\* The frame names the user; the entry goes, whichever connection it holds.
LogoutErase(c) ==
    /\ client[c] = "in" /\ link[c] # "down" /\ At(c, "idle")
    /\ connMap' = [connMap EXCEPT ![Home[c]][Owner[c]] = NoConn]
    /\ Goto(c, "unsubscribe")
    /\ UNCHANGED <<client, link, state, offline, members, seqno, redisVars, got, faults>>

LogoutUnsubscribe(c) ==
    /\ At(c, "unsubscribe")
    /\ Command(c, "unsubscribe")
    /\ Goto(c, "offline")
    /\ UNCHANGED <<sessionVars, offline, members, seqno, got>>

LogoutOffline(c) ==
    /\ At(c, "offline")
    /\ \/ state' = [state EXCEPT ![Owner[c]] = "offline"] /\ UNCHANGED faults
       \/ Fault /\ UNCHANGED state
    /\ Return(c)
    /\ UNCHANGED <<client, link, connMap, offline, members, seqno, redisVars, got>>
-----------------------------------------------------------------------------
(* the end of a connection *)

\* The client process ends: crash, kill, or quit.
ClientDies(c) ==
    /\ client[c] # "gone" /\ c \in scene.mortal
    /\ client' = [client EXCEPT ![c] = "gone"]
    /\ UNCHANGED <<link, op, connMap, state, offline, members, seqno, redisVars, got, faults>>

\* onMessage finds an illegal length or no JSON: the connection is shut down for
\* writing, and stays open for what the client still sends.
Shutdown(c) ==
    /\ client[c] \in {"connected", "in"} /\ link[c] = "up" /\ At(c, "idle")
    /\ c \in scene.odd
    /\ link' = [link EXCEPT ![c] = "half"]
    /\ UNCHANGED <<client, op, connMap, state, offline, members, seqno, redisVars, got, faults>>

\* The client reads the end of the stream: the reader thread ends the process, the
\* menu goes on.
EndOfFile(c) ==
    /\ link[c] = "half" /\ client[c] \in {"awaiting", "in"}
    /\ client' = [client EXCEPT ![c] = IF @ = "in" THEN "gone" ELSE "deaf"]
    /\ UNCHANGED <<link, op, connMap, state, offline, members, seqno, redisVars, got, faults>>

\* Mutation: the connection callback does not call the close handler.
ConnectionDown_Bug(c) ==
    /\ client[c] = "gone" /\ link[c] # "down" /\ At(c, "idle")
    /\ link' = [link EXCEPT ![c] = "down"]
    /\ UNCHANGED <<client, op, connMap, state, offline, members, seqno, redisVars, got, faults>>

\* The IO thread of c learns of it, between two frames.
ConnectionDown(c) ==
    /\ client[c] = "gone" /\ link[c] # "down" /\ At(c, "idle")
    /\ link' = [link EXCEPT ![c] = "down"]
    /\ Goto(c, "find")
    /\ UNCHANGED <<client, connMap, state, offline, members, seqno, redisVars, got, faults>>

\* Mutation: the entry is found but not erased.
CloseFind_Bug(c) ==
    /\ At(c, "find")
    /\ IF connMap[Home[c]][Owner[c]] = c THEN Goto(c, "closeOffline") ELSE Return(c)
    /\ UNCHANGED <<sessionVars, offline, members, seqno, redisVars, got, faults>>

\* clientCloseException: the entry that holds c, if there is one, goes.
CloseFind(c) ==
    /\ At(c, "find")
    /\ IF connMap[Home[c]][Owner[c]] = c
       THEN /\ connMap' = [connMap EXCEPT ![Home[c]][Owner[c]] = NoConn]
            /\ Goto(c, "closeOffline")
       ELSE Return(c) /\ UNCHANGED connMap
    /\ UNCHANGED <<client, link, state, offline, members, seqno, redisVars, got, faults>>

\* Mutation: the state is not written back.
CloseOffline_Bug(c) ==
    /\ At(c, "closeOffline")
    /\ Goto(c, "closeUnsubscribe")
    /\ UNCHANGED <<sessionVars, offline, members, seqno, redisVars, got, faults>>

\* query(userid) and updatestate; a failure of either leaves the state.
CloseOffline(c) ==
    /\ At(c, "closeOffline")
    /\ \/ state' = [state EXCEPT ![Owner[c]] = "offline"] /\ UNCHANGED faults
       \/ Fault /\ UNCHANGED state
    /\ Goto(c, "closeUnsubscribe")
    /\ UNCHANGED <<client, link, connMap, offline, members, seqno, redisVars, got>>

CloseUnsubscribe(c) ==
    /\ At(c, "closeUnsubscribe")
    /\ Command(c, "unsubscribe")
    /\ Return(c)
    /\ UNCHANGED <<sessionVars, offline, members, seqno, got>>

CloseStep(c) == CloseFind(c) \/ CloseOffline(c) \/ CloseUnsubscribe(c)
-----------------------------------------------------------------------------
(* onechat and groupchat *)

\* INCR gives the message its number before anything else happens to it.
TakeNumber(c, k, place, to) ==
    /\ client[c] = "in" /\ link[c] # "down" /\ At(c, "idle")
    /\ k \in scene.active /\ seqno[k] < MaxSeq
    /\ seqno' = [seqno EXCEPT ![k] = @ + 1]
    /\ op' = [op EXCEPT ![c].pc = place, ![c].remote = to,
                        ![c].msg = [conv |-> k, seq |-> seqno[k] + 1, from |-> Owner[c]]]
    /\ UNCHANGED <<sessionVars, offline, members, redisVars, got, faults>>

OneChat(c, v) == TakeNumber(c, {Owner[c], v}, "lookup", <<v>>)

GroupChat(c, g) == TakeNumber(c, g, "members", <<>>)

\* onechat: the addressee is on this node and is sent the message under the lock.
ChatLookup(c) ==
    LET target == connMap[Home[c]][Head(op[c].remote)]
    IN  /\ At(c, "lookup")
        /\ IF target # NoConn
           THEN Send(target, op[c].msg) /\ Return(c)
           ELSE Goto(c, "status") /\ UNCHANGED <<got, client>>
        /\ UNCHANGED <<link, connMap, state, offline, members, seqno, redisVars, faults>>

\* groupchat: the rows of the group but the sender's.
GroupMembers(c) ==
    /\ At(c, "members")
    /\ \/ /\ op' = [op EXCEPT ![c].pc = "collect",
                              ![c].remote = Without(members[op[c].msg.conv], Owner[c])]
          /\ UNCHANGED faults
       \/ Fault /\ Return(c)
    /\ UNCHANGED <<sessionVars, offline, members, seqno, redisVars, got>>

\* Mutation: the result of find() is not compared with end().
GroupCollect_NoFindBug(c) ==
    /\ At(c, "collect")
    /\ op' = [op EXCEPT ![c].pc = "push", ![c].remote = <<>>,
                        ![c].local = [i \in 1..Len(op[c].remote) |->
                                        connMap[Home[c]][op[c].remote[i]]]]
    /\ UNCHANGED <<sessionVars, offline, members, seqno, redisVars, got, faults>>

\* The connections on this node are copied under the lock.
GroupCollect(c) ==
    LET here == InMap(Home[c])
        near == Selected(op[c].remote, here)
    IN  /\ At(c, "collect")
        /\ op' = [op EXCEPT ![c].pc = "push",
                            ![c].local = [i \in 1..Len(near) |-> connMap[Home[c]][near[i]]],
                            ![c].remote = Selected(@, Users \ here)]
        /\ UNCHANGED <<sessionVars, offline, members, seqno, redisVars, got, faults>>

\* They are sent the message outside the lock, one after the other.
GroupPush(c) ==
    /\ At(c, "push")
    /\ IF op[c].local # <<>>
       THEN /\ Send(Head(op[c].local), op[c].msg)
            /\ op' = [op EXCEPT ![c].local = Tail(@)]
       ELSE Goto(c, "status") /\ UNCHANGED <<got, client>>
    /\ UNCHANGED <<link, connMap, state, offline, members, seqno, redisVars, faults>>

\* The next addressee that is not on this node: where does the database see him?
\* A failed query yields a User whose state is "offline".
RemoteStatus(c) ==
    /\ At(c, "status")
    /\ IF op[c].remote = <<>>
       THEN Return(c) /\ UNCHANGED faults
       ELSE \/ /\ Goto(c, IF state[Head(op[c].remote)] = "online"
                          THEN "publish" ELSE "store")
               /\ UNCHANGED faults
            \/ Fault /\ Goto(c, "store")
    /\ UNCHANGED <<sessionVars, offline, members, seqno, redisVars, got>>

NextRemote(c) == op' = [op EXCEPT ![c].pc = "status", ![c].remote = Tail(@)]

\* Redis forwards the message to the nodes subscribed at that moment.
Forward(v, m) ==
    /\ inbox' = [n \in Nodes |-> IF v \in subs[n] THEN Append(inbox[n], <<v, m>>)
                                 ELSE inbox[n]]
    /\ UNCHANGED <<subs, commands, observer>>

\* Mutation: publish() succeeds, and the message is stored as well.
Publish_Bug(c) ==
    /\ At(c, "publish")
    /\ Forward(Head(op[c].remote), op[c].msg)
    /\ Goto(c, "store")
    /\ UNCHANGED <<sessionVars, offline, members, seqno, got, faults>>

\* How many nodes it reached is in the reply, which publish() does not look at.
Publish(c) ==
    /\ At(c, "publish")
    /\ Forward(Head(op[c].remote), op[c].msg)
    /\ NextRemote(c)
    /\ UNCHANGED <<sessionVars, offline, members, seqno, got, faults>>

\* There is no reply: the command or the reply was lost.  The message goes to
\* the database after all.
PublishFails(c) ==
    /\ At(c, "publish")
    /\ Fault
    /\ Forward(Head(op[c].remote), op[c].msg) \/ UNCHANGED redisVars
    /\ Goto(c, "store")
    /\ UNCHANGED <<sessionVars, offline, members, seqno, got>>

Store(c) ==
    /\ At(c, "store")
    /\ \/ /\ offline' = [offline EXCEPT ![Head(op[c].remote)] = @ \cup {op[c].msg}]
          /\ UNCHANGED faults
       \/ Fault /\ UNCHANGED offline
    /\ NextRemote(c)
    /\ UNCHANGED <<sessionVars, members, seqno, redisVars, got>>

ChatStep(c) ==
    \/ ChatLookup(c) \/ GroupMembers(c) \/ GroupCollect(c) \/ GroupPush(c)
    \/ RemoteStatus(c) \/ Publish(c) \/ PublishFails(c) \/ Store(c)

\* addgroup: a row is inserted whether or not the user has one.
AddGroup(c, g) ==
    /\ client[c] = "in" /\ link[c] # "down" /\ At(c, "idle")
    /\ Len(members[g]) < scene.rows
    /\ members' = [members EXCEPT ![g] = Append(@, Owner[c])]
    /\ UNCHANGED <<sessionVars, op, offline, seqno, redisVars, got, faults>>
-----------------------------------------------------------------------------
(* Redis and the observer thread *)

\* Redis executes the next command of node n.
RedisApplies(n) ==
    /\ commands[n] # <<>>
    /\ LET what == Head(commands[n])[1]
           u    == Head(commands[n])[2]
       IN  subs' = [subs EXCEPT ![n] = IF what = "subscribe" THEN @ \cup {u} ELSE @ \ {u}]
    /\ commands' = [commands EXCEPT ![n] = Tail(@)]
    /\ UNCHANGED <<sessionVars, op, offline, members, seqno, inbox, observer, got, faults>>

\* observer_channel_message: the user is read from element[1]->integer.
ObserverTakes(n) ==
    /\ observer[n].pc = "idle"
    /\ inbox[n] # <<>>
    /\ observer' = [observer EXCEPT ![n] =
            [pc |-> "lookup", user |-> ElementInteger(Head(inbox[n])[1]),
             msg |-> Head(inbox[n])[2], conn |-> NoConn]]
    /\ inbox' = [inbox EXCEPT ![n] = Tail(@)]
    /\ UNCHANGED <<sessionVars, op, offline, members, seqno, subs, commands, got, faults>>

\* Mutation: a message for a user who has just left is dropped.
ObserverLooksUp_Bug(n) ==
    LET u      == observer[n].user
        target == IF u \in Users THEN connMap[n][u] ELSE NoConn
    IN  /\ observer[n].pc = "lookup"
        /\ observer' = IF target = NoConn THEN [observer EXCEPT ![n] = NoObserver]
                       ELSE [observer EXCEPT ![n].pc = "send", ![n].conn = target]
        /\ UNCHANGED <<sessionVars, op, offline, members, seqno, subs, commands, inbox,
                       got, faults>>

\* handleredissubscribemessage: the connection is copied under the lock ...
ObserverLooksUp(n) ==
    LET u      == observer[n].user
        target == IF u \in Users THEN connMap[n][u] ELSE NoConn
    IN  /\ observer[n].pc = "lookup"
        /\ observer' = [observer EXCEPT
                ![n].pc = IF target = NoConn THEN "store" ELSE "send",
                ![n].conn = target]
        /\ UNCHANGED <<sessionVars, op, offline, members, seqno, subs, commands, inbox,
                       got, faults>>

\* ... and sent the message outside it.
ObserverSends(n) ==
    /\ observer[n].pc = "send"
    /\ Send(observer[n].conn, observer[n].msg)
    /\ observer' = [observer EXCEPT ![n] = NoObserver]
    /\ UNCHANGED <<link, op, connMap, state, offline, members, seqno, subs, commands,
                   inbox, faults>>

\* The user is not on this node: the message is stored for him.
ObserverStores(n) ==
    /\ observer[n].pc = "store"
    /\ \/ /\ offline' = [offline EXCEPT ![observer[n].user] = @ \cup {observer[n].msg}]
          /\ UNCHANGED faults
       \/ Fault /\ UNCHANGED offline
    /\ observer' = [observer EXCEPT ![n] = NoObserver]
    /\ UNCHANGED <<sessionVars, op, members, seqno, subs, commands, inbox, got>>

ObserverStep(n) ==
    ObserverTakes(n) \/ ObserverLooksUp(n) \/ ObserverSends(n) \/ ObserverStores(n)
-----------------------------------------------------------------------------
(* the end of a node *)

MayEnd == Cardinality({n \in Nodes : node[n] # "up"})
          + Cardinality({n \in Nodes : ~listening[n]}) < scene.ends

\* gracefulExit: resetState sets every user offline, those of the other nodes too.
\* The IO threads go on until the loop has ended.
ResetState(n) ==
    /\ node[n] = "up" /\ MayEnd
    /\ node' = [node EXCEPT ![n] = "closing"]
    /\ \/ state' = [u \in Users |-> "offline"]
       \/ UNCHANGED state
    /\ UNCHANGED <<client, link, connMap, op, offline, members, seqno, redisVars, got, faults,
                   listening, scene>>

\* What goes with the process: its handlers, maps, connections and subscriptions.
\* The reader thread of a client ends the client, the menu does not.
ProcessEnds(n) ==
    LET mine(c) == Home[c] = n IN
    /\ op' = [c \in Conns |-> IF mine(c) THEN NoHandler ELSE op[c]]
    /\ link' = [c \in Conns |-> IF mine(c) THEN "down" ELSE link[c]]
    /\ client' = [c \in Conns |-> IF ~mine(c) THEN client[c]
                                  ELSE IF client[c] = "in" THEN "gone"
                                  ELSE IF client[c] = "awaiting" THEN "deaf"
                                  ELSE client[c]]
    /\ connMap' = [connMap EXCEPT ![n] = [u \in Users |-> NoConn]]
    /\ subs' = [subs EXCEPT ![n] = {}]
    /\ commands' = [commands EXCEPT ![n] = <<>>]
    /\ inbox' = [inbox EXCEPT ![n] = <<>>]
    /\ observer' = [observer EXCEPT ![n] = NoObserver]
    /\ UNCHANGED <<offline, members, seqno, got, faults, listening, scene>>

\* The end of the server object closes the connections; for some of them the close
\* handler still comes to set their users offline.
Exits(n) ==
    /\ node[n] = "closing"
    /\ node' = [node EXCEPT ![n] = "exited"]
    /\ \E gone \in SUBSET {u \in Users : connMap[n][u] # NoConn} :
          state' = [u \in Users |-> IF u \in gone THEN "offline" ELSE state[u]]
    /\ ProcessEnds(n)

Crashes(n) ==
    /\ node[n] = "up" /\ MayEnd
    /\ node' = [node EXCEPT ![n] = "crashed"]
    /\ UNCHANGED state
    /\ ProcessEnds(n)

\* redisGetReply reports an error: the observer thread quits, and Redis forgets the
\* subscriptions.  Nobody connects again.
ObserverQuits(n) ==
    /\ listening[n] /\ node[n] = "up" /\ observer[n].pc = "idle" /\ MayEnd
    /\ listening' = [listening EXCEPT ![n] = FALSE]
    /\ subs' = [subs EXCEPT ![n] = {}]
    /\ commands' = [commands EXCEPT ![n] = <<>>]
    /\ inbox' = [inbox EXCEPT ![n] = <<>>]
    /\ UNCHANGED <<sessionVars, op, offline, members, seqno, observer, got, faults, node, scene>>

NodeStep(n) == ResetState(n) \/ Exits(n) \/ Crashes(n) \/ ObserverQuits(n)
-----------------------------------------------------------------------------
HandlerStep(c) ==
    /\ \/ LoginStep(c) \/ LogoutUnsubscribe(c) \/ LogoutOffline(c)
       \/ CloseStep(c) \/ ChatStep(c)
    /\ UNCHANGED world

ClientStep(c) ==
    /\ \/ SendLogin(c)
       \/ LogoutErase(c)
       \/ \E v \in Users : OneChat(c, v)
       \/ \E g \in Groups : GroupChat(c, g) \/ AddGroup(c, g)
       \/ ClientDies(c) \/ Shutdown(c) \/ EndOfFile(c)
    /\ UNCHANGED world

CloseStarts(c) == ConnectionDown(c) /\ UNCHANGED world
RedisStep(n) == RedisApplies(n) /\ UNCHANGED world
ForwardStep(n) == ObserverStep(n) /\ UNCHANGED world

Next ==
    \/ \E c \in Conns : ClientStep(c) \/ CloseStarts(c) \/ HandlerStep(c)
    \/ \E n \in Nodes : RedisStep(n) \/ ForwardStep(n) \/ NodeStep(n)

Spec == Init /\ [][Next]_vars

\* The server runs: its threads take their steps, TCP tells it of a client that
\* is gone, Redis works off its commands.  What clients do is up to them.
Fairness ==
    /\ \A c \in Conns : WF_vars(HandlerStep(c)) /\ WF_vars(CloseStarts(c))
    /\ \A n \in Nodes : WF_vars(RedisStep(n)) /\ WF_vars(ForwardStep(n))

FairSpec == Spec /\ Fairness
-----------------------------------------------------------------------------
Rows(g) == {members[g][i] : i \in 1..Len(members[g])}

\* Whom a message is for.
Recipients(m) ==
    IF m.conv \in Groups THEN Rows(m.conv) \ {m.from}
    ELSE IF m.conv = {m.from} THEN {m.from} ELSE m.conv \ {m.from}

\* Every variable has its type.
TypeOK ==
    /\ client \in [Conns -> {"connected", "awaiting", "in", "deaf", "gone"}]
    /\ link \in [Conns -> {"up", "half", "down"}]
    /\ op \in [Conns -> Handler]
    /\ connMap \in [Nodes -> [Users -> Conns \cup {NoConn}]]
    /\ state \in [Users -> {"online", "offline"}]
    /\ offline \in [Users \cup {NoUser} -> SUBSET Messages]
    /\ members \in [Groups -> Seq(Users)]
    /\ seqno \in [Conversations -> 0..MaxSeq]
    /\ subs \in [Nodes -> SUBSET Users]
    /\ commands \in [Nodes -> Seq({"subscribe", "unsubscribe"} \X Users)]
    /\ inbox \in [Nodes -> Seq(Users \X Messages)]
    /\ observer \in [Nodes -> Observer]
    /\ got \in [Conns -> SUBSET Messages]
    /\ faults \in 0..scene.faults
    /\ node \in [Nodes -> {"up", "closing", "exited", "crashed"}]
    /\ listening \in [Nodes -> BOOLEAN]
    /\ scene \in Scenes

\* _userConnMap holds for a user a connection of this node over which he has
\* logged in, and never one that is closed and cleaned up: the pointer that the
\* close handler removes by searching cannot be left behind or come back.
MapIsSound ==
    \A n \in Nodes, u \in Users :
        LET c == connMap[n][u]
        IN  c # NoConn => /\ Owner[c] = u /\ Home[c] = n
                          /\ client[c] # "connected"
                          /\ link[c] # "down" \/ At(c, "find")

\* Whatever way a message takes (this node, another node, the database), the
\* client it reaches is one of a user it is for, and it is stored for nobody else.
ReachesOnlyAddressees ==
    /\ \A c \in Conns : \A m \in got[c] : Owner[c] \in Recipients(m)
    /\ \A u \in Users : \A m \in offline[u] : u \in Recipients(m)

\* Where the message m for user v can be: read by the login handler of c, which will
\* send it; in the hand of the handler of c; forwarded to node n; with its observer.
ReadBy(c, m, v) == Owner[c] = v /\ op[c].pc \in {"remove", "ack"} /\ m \in op[c].rows

InHand(c, m, v) ==
    /\ op[c].msg = m
    /\ \/ \E i \in 1..Len(op[c].remote) : op[c].remote[i] = v
       \/ \E i \in 1..Len(op[c].local) : Owner[op[c].local[i]] = v

Forwarded(n, m, v) == \E i \in 1..Len(inbox[n]) : inbox[n][i] = <<v, m>>

WithObserver(n, m, v) ==
    /\ observer[n].msg = m
    /\ \/ observer[n].pc \in {"lookup", "store"} /\ observer[n].user = v
       \/ observer[n].pc = "send" /\ Owner[observer[n].conn] = v

Received(m, v) == \E c \in Conns : Owner[c] = v /\ m \in got[c]

\* The message m is on its way to user v: stored, forwarded, or in the hand of a
\* handler that will see to it.
Underway(m, v) ==
    \/ m \in offline[v]
    \/ \E c \in Conns : ReadBy(c, m, v) \/ InHand(c, m, v)
    \/ \E n \in Nodes : Forwarded(n, m, v) \/ WithObserver(n, m, v)

\* It is somewhere in the system.
Held(m, v) == Received(m, v) \/ Underway(m, v)

\* The step sends the chat m to c.
Sends(c, m) ==
    \/ \E d \in Conns : /\ op[d].msg = m /\ op'[d] # op[d]
                       /\ \/ At(d, "lookup") /\ connMap[Home[d]][Head(op[d].remote)] = c
                          \/ At(d, "push") /\ op[d].local # <<>> /\ Head(op[d].local) = c
    \/ \E n \in Nodes : /\ observer[n].pc = "send" /\ observer'[n].pc = "idle"
                       /\ observer[n].msg = m /\ observer[n].conn = c

\* The steps in which the program loses a message for v.
LossWindow(m, v) ==
    \* it is sent on a connection shut down for writing, or to a client that does not
    \* read it, waits for its login response or finds it too long
    \/ \E c \in Conns : /\ Owner[c] = v /\ ~(link[c] = "up" /\ client'[c] = "in")
                       /\ Sends(c, m)
    \* the login response that carries it is not sent, not read or too long
    \/ \E c \in Conns : /\ Owner[c] = v /\ At(c, "ack") /\ op'[c].pc = "idle"
                       /\ m \in op[c].rows /\ client'[c] # "in"
    \* the login deletes it unread
    \/ \E c \in Conns : /\ Owner[c] = v /\ At(c, "remove") /\ op'[c].pc = "ack"
                       /\ m \in offline[v] \ op[c].rows
    \* it is published while no node is subscribed to v
    \/ \E c \in Conns : /\ At(c, "publish") /\ op'[c].pc = "status"
                       /\ op[c].msg = m /\ Head(op[c].remote) = v
                       /\ \A n \in Nodes : v \notin subs[n]
    \* the node it was forwarded to takes it to be for somebody else
    \/ \E n \in Nodes : /\ inbox'[n] # inbox[n] /\ observer'[n].pc = "lookup"
                       /\ Head(inbox[n]) = <<v, m>> /\ observer'[n].user # v
    \* the insert fails whose result nobody looks at
    \/ /\ faults' # faults
       /\ \/ \E c \in Conns : /\ At(c, "store") /\ op'[c] # op[c]
                             /\ op[c].msg = m /\ Head(op[c].remote) = v
          \/ \E n \in Nodes : /\ observer[n].pc = "store" /\ observer'[n].pc = "idle"
                             /\ observer[n].msg = m /\ observer[n].user = v
    \* the process that has it at hand ends
    \/ \E n \in Nodes :
          /\ node'[n] # node[n] /\ node'[n] \in {"exited", "crashed"}
          /\ \/ Forwarded(n, m, v) \/ WithObserver(n, m, v)
             \/ \E c \in Conns : Home[c] = n /\ (ReadBy(c, m, v) \/ InHand(c, m, v))
    \* the subscribe connection it was forwarded on fails
    \/ \E n \in Nodes : listening'[n] # listening[n] /\ Forwarded(n, m, v)

\* A message that has been accepted is lost only in those steps: no handler
\* drops it on any of its paths, also not when the addressee comes or goes
\* between the look into the map, the look into the database and the delivery.
LostOnlyInWindows ==
    [][\A v \in Users :
          LET ms == (UNION {offline[u] : u \in Users}) \cup {op[d].msg : d \in Conns}
                    \cup {observer[n].msg : n \in Nodes}
                    \cup (UNION {op[d].rows : d \in Conns})
                    \cup (UNION {{inbox[n][i][2] : i \in 1..Len(inbox[n])} : n \in Nodes})
          IN  \A m \in ms : Held(m, v) => Held(m, v)' \/ LossWindow(m, v)]_vars

Quiet == /\ \A c \in Conns : At(c, "idle") /\ (client[c] = "gone" => link[c] = "down")
         /\ \A n \in Nodes : commands[n] = <<>>

\* Nobody has two client processes.
OneConnectionEach == \A c, d \in scene.conns : Owner[c] = Owner[d] => c = d

\* The places that hold a copy of m for v; the row a login handler has read and
\* is about to delete is not another copy.
Copies(m, v) ==
    LET read == {c \in Conns : ReadBy(c, m, v)}
        row  == IF m \in offline[v] /\ \A c \in read : op[c].pc = "ack" THEN {<<"row">>} ELSE {}
    IN  row \cup {<<"read", c>> : c \in read}
        \cup {<<"got", c>> : c \in {d \in Conns : Owner[d] = v /\ m \in got[d]}}
        \cup {<<"handler", c>> : c \in {d \in Conns : InHand(d, m, v)}}
        \cup (UNION {{<<"inbox", n, i>> : i \in {j \in 1..Len(inbox[n]) : inbox[n][j] = <<v, m>>}}
                     : n \in Nodes})
        \cup {<<"observer", n>> : n \in {k \in Nodes : observer[k].msg = m
                                                      /\ observer[k].user = v}}

\* A message is sent or stored for an addressee at most once as long as he has one
\* connection and no statement fails: of the three ways of delivery a handler
\* takes one, and a row is not handed out again after it was read.
DeliveredAtMostOnce ==
    faults = 0 /\ OneConnectionEach => \A k \in scene.active \cap Pairs : \A u, v \in k :
        \A s \in 1..seqno[k] :
            Cardinality(Copies([conv |-> k, seq |-> s, from |-> u], v)) =< 1

\* A message between two users is for the other one, a group message for anybody but
\* its sender.
Letters == {l \in Messages \X Users : IF l[1].conv \in Groups THEN l[2] # l[1].from
                                      ELSE l[1].conv = {l[1].from, l[2]}}

\* ChatService as a MessageDelivery.  A group message is undecided until the members
\* have been queried.
Delivery == INSTANCE MessageDelivery WITH
    number     <- seqno,
    undecided  <- {op[c].msg : c \in {d \in Conns : At(d, "members")}},
    travelling <- {l \in Letters : Underway(l[1], l[2])},
    read       <- {l \in Letters : Received(l[1], l[2])},
    reliable   <- faults = 0 /\ OneConnectionEach

\* Whatever ends, fails or is interleaved, no message that has been lost on its way to
\* a user comes back to him or is read by him after all (out of a stale list of a
\* handler, a row that was not deleted, or an observer that was late), and none is
\* addressed twice; and while nothing has failed, what is read is on its way no more.
ImplementsDelivery == Delivery!Spec

\* When nothing is under way and no statement has failed, the database has a user
\* online exactly if a node has him in its map; but who was at a node that has ended
\* may stay online (usermodel.cpp:77 is not reached, or fails), and resetState of
\* one node sets the users of all nodes offline.
PresenceIsTrue ==
    Quiet /\ faults = 0 /\ OneConnectionEach => \A u \in Users :
        LET here == \E n \in Nodes : u \in InMap(n)
        IN  /\ state[u] = "online" /\ ~here =>
                  \E c \in scene.conns : Owner[c] = u /\ node[Home[c]] \in {"exited", "crashed"}
            /\ state[u] = "offline" /\ here => \E n \in Nodes : node[n] \in {"closing", "exited"}

\* The connections of u to node n.
Over(n, u) == {c \in scene.conns : Home[c] = n /\ Owner[c] = u}

\* When nothing is under way, a node is subscribed to the channel of a user exactly
\* if he is in its map (line 111), whatever the other users of the node do meanwhile;
\* unless its subscribe connection has failed, a command has been lost to two threads
\* that wrote at once, or the user has two connections to the node: then his own late
\* UNSUBSCRIBE may end his new subscription.
SubscribedToItsUsers ==
    Quiet => \A n \in Nodes :
        IF ~listening[n] THEN subs[n] = {}
        ELSE \A u \in Users :
                /\ \A c, d \in Over(n, u) : c = d
                /\ faults = 0 \/ \A c, d \in scene.conns : Home[c] = n /\ Home[d] = n => c = d
                => (u \in subs[n] <=> u \in InMap(n))

\* The user of a client that is gone does not stay online, unless a statement
\* fails: the next login is not refused for ever.
GoneUserGoesOffline ==
    \A c \in Conns : client[c] = "gone" ~> state[Owner[c]] = "offline" \/ faults > 0

\* Line 97: a user who is logged in cannot log in a second time.
OneNodePerUser ==
    \A u \in Users : \A n, k \in Nodes :
        connMap[n][u] # NoConn /\ connMap[k][u] # NoConn => n = k

\* Lines 386 and 403: a forwarded message is delivered to the user it was
\* forwarded for, or stored for him.
NothingStoredForNobody == offline[NoUser] = {}
=============================================================================
