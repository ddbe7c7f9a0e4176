------------------------------- MODULE Tables -------------------------------
(***************************************************************************)
(* The tables of the database and the model classes that read and write   *)
(* them (usermodel.cpp, groupmodel.cpp, offlinemessagemodel.cpp) over     *)
(* pooled connections (connection.cpp): registration, the creation and    *)
(* the listing of groups, and the offline messages of a login.            *)
(*                                                                         *)
(* A worker is an IO thread in an operation of several steps; from        *)
(* getConnection to the end of the operation it holds one connection.     *)
(* Between two steps other workers run, and links break.  Outside a       *)
(* transaction a statement commits at once; an operation of one statement *)
(* is one step.  Operators named _Bug are mutations, used nowhere.         *)
(***************************************************************************)
EXTENDS Integers, FiniteSets, Sequences, SequencesExt

CONSTANTS Workers,    \* the threads that run handlers
          Dbs,        \* the connections of the pool
          Names,      \* the names people register; in the group tables, their ids
          Registered, \* whose row is in User at the start
          NoName, NoDb,
          Payloads,   \* Payloads[p]: a chat message as it is stored
          OldRows,    \* the rows of OfflineMessage at the start
          Collation,  \* Collation[k]: the rank of convid k in the collation of the
                      \* column; the rank in std::string's order is k itself
          Scenarios,  \* sets of operations that run together
          MaxCalls,   \* bound: operations that are started
          MaxFaults   \* bound: statements that fail and links that break

ASSUME ConstantsAssumption ==
    /\ IsFiniteSet(Workers)
    /\ Payloads \in Seq([conv: Nat, seq: Nat, numbered: BOOLEAN, long: BOOLEAN])
    /\ \A p \in 1..Len(Payloads) : Collation[Payloads[p].conv] \in Nat
    /\ OldRows \in Seq(1..Len(Payloads))
    /\ NoName \notin Names /\ NoDb \notin Dbs /\ Registered \subseteq Names
    /\ MaxCalls \in Nat /\ MaxFaults \in Nat

VARIABLES users,      \* User: [id, name], the rows that are made
          groups,     \* AllGroup: the ids
          members,    \* GroupUser: [group, user, role]
          offline,    \* OfflineMessage of one user: payloads in the order of the ids
          nextId,     \* nextId[t]: the auto_increment counter of table t
          conn,       \* conn[d]: the MySQL connection d
          op,         \* op[w]: the operation of worker w
          told,       \* history: the positive answers to registrations
          calls, faults,
          enabled     \* the operations of this behaviour

tables == <<users, groups, members, offline, nextId>>
vars == <<tables, conn, op, told, calls, faults, enabled>>
-----------------------------------------------------------------------------
Ids == 1..MaxCalls
MemberRow == [group: Ids, user: Names, role: {"creator", "normal"}]

\* up: the link exists.  believed: the library takes itself to be in a transaction.
\* open, groups, members: the transaction at the server.  last: mysql_insert_id.
Connection == [up: BOOLEAN, believed: BOOLEAN, open: BOOLEAN,
               groups: SUBSET Ids, members: SUBSET MemberRow, last: Ids \cup {0}]
Connected == [up |-> TRUE, believed |-> FALSE, open |-> FALSE,
              groups |-> {}, members |-> {}, last |-> 0]

Operation == [pc: {"idle", "register", "answer", "begin", "group", "creator", "commit",
                   "rollback", "list", "members", "remove"},
              db: Dbs \cup {NoDb}, name: Names \cup {NoName},
              todo: SUBSET Ids, listed: SUBSET [group: Ids, rows: SUBSET MemberRow],
              seen: Seq(1..Len(Payloads)), fetched: Seq(1..Len(Payloads))]
NoOperation == [pc |-> "idle", db |-> NoDb, name |-> NoName, todo |-> {},
                listed |-> {}, seen |-> <<>>, fetched |-> <<>>]

At(w, p) == op[w].pc = p
Goto(w, p) == op' = [op EXCEPT ![w].pc = p]
Return(w) == op' = [op EXCEPT ![w] = NoOperation]

Init ==
    /\ users = {} /\ groups = {} /\ members = {}
    /\ offline = OldRows
    /\ nextId = [t \in {"User", "AllGroup"} |-> 1]
    /\ conn = [d \in Dbs |-> Connected]
    /\ op = [w \in Workers |-> NoOperation]
    /\ told = {}
    /\ calls = 0 /\ faults = 0
    /\ enabled \in Scenarios

Call(what) == what \in enabled /\ calls < MaxCalls /\ calls' = calls + 1

Fault == faults < MaxFaults /\ faults' = faults + 1

\* getConnection: the pool hands out what nobody holds; a broken link is made
\* anew, and the result of that is ignored.
Free == {d \in Dbs : \A w \in Workers : op[w].db # d}

Acquire(w, place, n) ==
    \E d \in Free :
        /\ \/ conn' = [conn EXCEPT ![d].up = TRUE] /\ UNCHANGED faults
           \/ ~conn[d].up /\ Fault /\ UNCHANGED conn
        /\ op' = [op EXCEPT ![w] = [NoOperation EXCEPT !.pc = place, !.db = d, !.name = n]]

\* The link breaks; the server undoes what is not committed.
Broken(d) == [conn[d] EXCEPT !.up = FALSE, !.open = FALSE, !.groups = {}, !.members = {}]

LinkBreaks(d) ==
    /\ conn[d].up
    /\ Fault
    /\ conn' = [conn EXCEPT ![d] = Broken(d)]
    /\ UNCHANGED <<tables, op, told, calls, enabled>>

\* The statement of w is executed and answered: over the link, or over a new one,
\* which the library makes unless it believes itself in a transaction.
Runs(w) == (conn[op[w].db].up \/ ~conn[op[w].db].believed) /\ UNCHANGED faults

\* It is executed, and the link breaks before the answer.
Unanswered(w) ==
    /\ conn[op[w].db].up
    /\ Fault
    /\ conn' = [conn EXCEPT ![op[w].db] = Broken(op[w].db)]

\* It is not executed: an error, no new link, or the library learns that the link
\* of its transaction is gone, and forgets the transaction.
Refused(w) ==
    LET d    == op[w].db
        lost == ~conn[d].up /\ conn[d].believed
    IN  \/ lost /\ conn' = [conn EXCEPT ![d].believed = FALSE] /\ UNCHANGED faults
        \/ ~lost /\ Fault /\ UNCHANGED conn
-----------------------------------------------------------------------------
(* reg and UserModel::insert *)

Register(w, n) ==
    /\ At(w, "idle")
    /\ Call("register")
    /\ Acquire(w, "register", n)
    /\ UNCHANGED <<tables, told, enabled>>

Taken(n) == n \in Registered \/ \E r \in users : r.name = n

NewUser(n) ==
    /\ users' = users \cup {[id |-> nextId["User"], name |-> n]}
    /\ nextId' = [nextId EXCEPT !["User"] = @ + 1]

\* Mutation: the result of the insert is not looked at.
RegisterInsert_Bug(w) ==
    /\ At(w, "register")
    /\ \/ /\ Runs(w)
          /\ conn' = [conn EXCEPT ![op[w].db].up = TRUE]
          /\ IF Taken(op[w].name) THEN UNCHANGED <<users, nextId>> ELSE NewUser(op[w].name)
       \/ Refused(w) /\ UNCHANGED <<users, nextId>>
    /\ Goto(w, "answer")
    /\ UNCHANGED <<groups, members, offline, told, calls, enabled>>

\* name is unique; the row may be there although the client is told that it is not.
RegisterInsert(w) ==
    LET d == op[w].db
        n == op[w].name
    IN  /\ At(w, "register")
        /\ \/ /\ Runs(w) /\ ~Taken(n)
              /\ NewUser(n)
              /\ conn' = [conn EXCEPT ![d].up = TRUE, ![d].last = nextId["User"]]
              /\ Goto(w, "answer")
           \/ /\ Runs(w) /\ Taken(n)
              /\ conn' = [conn EXCEPT ![d].up = TRUE]
              /\ Return(w) /\ UNCHANGED <<users, nextId>>
           \/ /\ Unanswered(w) /\ ~Taken(n)
              /\ NewUser(n) /\ Return(w)
           \/ Refused(w) /\ Return(w) /\ UNCHANGED <<users, nextId>>
        /\ UNCHANGED <<groups, members, offline, told, calls, enabled>>

\* Mutation: the newest id of the table instead of the connection's.
RegisterAnswer_Bug(w) ==
    /\ At(w, "answer")
    /\ told' = told \cup {[id |-> nextId["User"] - 1, name |-> op[w].name]}
    /\ Return(w)
    /\ UNCHANGED <<tables, conn, calls, faults, enabled>>

\* setId(lastInsertId()), and errno 0 with that id.
RegisterAnswer(w) ==
    /\ At(w, "answer")
    /\ told' = told \cup {[id |-> conn[op[w].db].last, name |-> op[w].name]}
    /\ Return(w)
    /\ UNCHANGED <<tables, conn, calls, faults, enabled>>
-----------------------------------------------------------------------------
(* createGroupWithCreator, addGroup and queryGroups *)

\* The creator has logged in: his row is in User, and rows of User are never deleted.
CreateGroup(w, n) ==
    /\ At(w, "idle") /\ Taken(n)
    /\ Call("create")
    /\ Acquire(w, "begin", n)
    /\ UNCHANGED <<tables, told, enabled>>

GroupBegin(w) ==
    /\ At(w, "begin")
    /\ \/ /\ Runs(w)
          /\ conn' = [conn EXCEPT ![op[w].db] = [@ EXCEPT !.up = TRUE, !.open = TRUE,
                                                         !.believed = TRUE]]
          /\ Goto(w, "group")
       \/ Refused(w) /\ Return(w)
    /\ UNCHANGED <<tables, told, calls, enabled>>

\* Rows of a transaction wait for the commit; others are there at once.
GroupInsert(w) ==
    LET d == op[w].db
        g == nextId["AllGroup"]
    IN  /\ At(w, "group")
        /\ \/ /\ Runs(w)
              /\ nextId' = [nextId EXCEPT !["AllGroup"] = @ + 1]
              /\ conn' = [conn EXCEPT ![d] = [@ EXCEPT !.up = TRUE, !.last = g,
                             !.groups = IF conn[d].open THEN {g} ELSE @]]
              /\ groups' = IF conn[d].open THEN groups ELSE groups \cup {g}
              /\ Goto(w, "creator")
           \/ Refused(w) /\ Goto(w, "rollback") /\ UNCHANGED <<groups, nextId>>
        /\ UNCHANGED <<users, members, offline, told, calls, enabled>>

\* Mutation: the newest group instead of the one inserted on this connection.
CreatorInsert_Bug(w) ==
    LET d == op[w].db
    IN  /\ At(w, "creator")
        /\ \/ /\ Runs(w)
              /\ conn' = [conn EXCEPT ![d] = [@ EXCEPT !.up = TRUE, !.members =
                  {[group |-> nextId["AllGroup"] - 1, user |-> op[w].name, role |-> "creator"]}]]
              /\ Goto(w, "commit")
           \/ Refused(w) /\ Goto(w, "rollback")
        /\ UNCHANGED <<tables, told, calls, enabled>>

CreatorInsert(w) ==
    LET d   == op[w].db
        row == [group |-> conn[d].last, user |-> op[w].name, role |-> "creator"]
    IN  /\ At(w, "creator")
        /\ \/ /\ Runs(w)
              /\ conn' = [conn EXCEPT ![d] = [@ EXCEPT !.up = TRUE,
                             !.members = IF conn[d].open THEN {row} ELSE @]]
              /\ members' = IF conn[d].open THEN members ELSE members \cup {row}
              /\ Goto(w, "commit")
           \/ Refused(w) /\ Goto(w, "rollback") /\ UNCHANGED members
        /\ UNCHANGED <<users, groups, offline, nextId, told, calls, enabled>>

Closed(d) == [conn[d] EXCEPT !.open = FALSE, !.believed = FALSE, !.groups = {},
                             !.members = {}]

\* commit(), whose result nobody looks at: done, lost on the way, or done without
\* an answer.
GroupCommit(w) ==
    LET d == op[w].db
    IN  /\ At(w, "commit")
        /\ \/ /\ conn[d].up
              /\ \/ conn' = [conn EXCEPT ![d] = Closed(d)] /\ UNCHANGED faults
                 \/ Fault /\ conn' = [conn EXCEPT ![d] = [Closed(d) EXCEPT !.up = FALSE]]
              /\ groups' = groups \cup conn[d].groups
              /\ members' = members \cup conn[d].members
           \/ /\ ~conn[d].up
              /\ conn' = [conn EXCEPT ![d].believed = FALSE]
              /\ UNCHANGED <<groups, members, faults>>
        /\ Return(w)
        /\ UNCHANGED <<users, offline, nextId, told, calls, enabled>>

\* Mutation: the connection goes back to the pool as it is.
GroupRollback_Bug(w) ==
    /\ At(w, "rollback")
    /\ Return(w)
    /\ UNCHANGED <<tables, conn, told, calls, faults, enabled>>

\* rollback(), over a new link if the old one is gone.
GroupRollback(w) ==
    LET d == op[w].db
    IN  /\ At(w, "rollback")
        /\ \/ conn' = [conn EXCEPT ![d] = [Closed(d) EXCEPT !.up = TRUE]] /\ UNCHANGED faults
           \/ Fault /\ conn' = [conn EXCEPT ![d] = [Broken(d) EXCEPT !.believed = FALSE]]
        /\ Return(w)
        /\ UNCHANGED <<tables, told, calls, enabled>>

CreateStep(w) ==
    GroupBegin(w) \/ GroupInsert(w) \/ CreatorInsert(w) \/ GroupCommit(w) \/ GroupRollback(w)

\* addGroup: the ids come from the client, and no foreign key asks for the group or
\* for the user.
AddGroup(n, g) ==
    /\ Call("join")
    /\ members' = members \cup {[group |-> g, user |-> n, role |-> "normal"]}
    /\ UNCHANGED <<users, groups, offline, nextId, conn, op, told, faults, enabled>>

ListGroups(w, n) ==
    /\ At(w, "idle") /\ Taken(n)
    /\ Call("list")
    /\ Acquire(w, "list", n)
    /\ UNCHANGED <<tables, told, enabled>>

\* The first query: AllGroup joined with the rows of the user.
QueryGroups(w) ==
    /\ At(w, "list")
    /\ \/ /\ Runs(w)
          /\ conn' = [conn EXCEPT ![op[w].db].up = TRUE]
          /\ op' = [op EXCEPT ![w].pc = "members", ![w].todo =
                       {g \in groups : \E r \in members : r.group = g /\ r.user = op[w].name}]
       \/ Refused(w) /\ Return(w)
    /\ UNCHANGED <<tables, told, calls, enabled>>

\* The second, for each group: its rows, joined with User.  A group whose query fails
\* stays empty.
QueryMembers(w, g) ==
    LET answer(R) == op' = [op EXCEPT ![w].todo = @ \ {g},
                                      ![w].listed = @ \cup {[group |-> g, rows |-> R]}]
    IN  /\ At(w, "members") /\ g \in op[w].todo
        /\ \/ /\ Runs(w)
              /\ conn' = [conn EXCEPT ![op[w].db].up = TRUE]
              /\ answer({r \in members : r.group = g /\ Taken(r.user)})
           \/ Refused(w) /\ answer({})
        /\ UNCHANGED <<tables, told, calls, enabled>>

ListDone(w) ==
    /\ At(w, "members") /\ op[w].todo = {}
    /\ Return(w)
    /\ UNCHANGED <<tables, conn, told, calls, faults, enabled>>
-----------------------------------------------------------------------------
(* OfflineMessageModel, login's use of it, and sortOfflineMessages *)

\* A message goes to the table; no connection or an error drops it.
StoreOffline(p) ==
    /\ Payloads[p].numbered
    /\ Call("store")
    /\ \/ offline' = Append(offline, p) /\ UNCHANGED faults
       \/ Fault /\ UNCHANGED offline
    /\ UNCHANGED <<users, groups, members, nextId, conn, op, told, enabled>>

\* The columns convid and seq of payload p, as the collation orders them.
Columns(p) == [conv |-> Collation[Payloads[p].conv],
               seq |-> IF Payloads[p].numbered THEN Payloads[p].seq ELSE 0]

SqlBefore(p, q) ==
    LET a == Columns(p)
        b == Columns(q)
    IN  a.conv < b.conv \/ (a.conv = b.conv /\ a.seq < b.seq)

\* Mutation: what has no number is not told apart.
ListedBefore_Bug(p, q) ==
    LET a == Payloads[p]
        b == Payloads[q]
    IN  a.conv < b.conv \/ (a.conv = b.conv /\ a.seq < b.seq)

\* The comparator of sortOfflineMessages: numbered ones first, those by
\* conversation and number.
ListedBefore(p, q) ==
    LET a == Payloads[p]
        b == Payloads[q]
    IN  /\ a.numbered
        /\ b.numbered => (a.conv < b.conv \/ (a.conv = b.conv /\ a.seq < b.seq))

\* s sorted by the relation before, keeping the order of what it does not tell apart.
StableSort(s, before) ==
    LET rank(i) == Cardinality({j \in 1..Len(s) : \/ <<s[j], s[i]>> \in before
                                                 \/ (j < i /\ <<s[i], s[j]>> \notin before)})
    IN  [k \in 1..Len(s) |-> s[CHOOSE i \in 1..Len(s) : rank(i) = k - 1]]

\* "order by convid asc, seq asc, id asc".
SqlOrder(rows) ==
    StableSort(rows, {pq \in Range(rows) \X Range(rows) : SqlBefore(pq[1], pq[2])})

\* Mutation: one fetch too many in front of the loop.
Fetch_Bug(rows) == IF rows = <<>> THEN rows ELSE Tail(rows)

\* executeQuery: a column longer than its buffer ends the loop without an error.
Fetch(rows) ==
    LET cut == {i \in 1..Len(rows) : Payloads[rows[i]].long}
    IN  IF cut = {} THEN rows
        ELSE SubSeq(rows, 1, (CHOOSE i \in cut : \A j \in cut : i =< j) - 1)

\* login reads the rows and sorts them; nothing is removed when there are none.
LoginQuery(w) ==
    LET ordered == SqlOrder(offline)
        listed  == {pq \in Range(ordered) \X Range(ordered) : ListedBefore(pq[1], pq[2])}
        got     == StableSort(Fetch(ordered), listed)
    IN  /\ At(w, "idle")
        /\ Call("login")
        /\ got # <<>>
        /\ op' = [op EXCEPT ![w] = [NoOperation EXCEPT !.pc = "remove", !.seen = offline,
                                                       !.fetched = got]]
        /\ UNCHANGED <<tables, conn, told, faults, enabled>>

\* "delete from OfflineMessage where userid=?"
LoginRemove(w) ==
    /\ At(w, "remove")
    /\ \/ offline' = <<>> /\ UNCHANGED faults
       \/ Fault /\ UNCHANGED offline
    /\ Return(w)
    /\ UNCHANGED <<users, groups, members, nextId, conn, told, calls, enabled>>
-----------------------------------------------------------------------------
RegisterStep(w) == RegisterInsert(w) \/ RegisterAnswer(w)
ListStep(w) == QueryGroups(w) \/ (\E g \in Ids : QueryMembers(w, g)) \/ ListDone(w)

Next ==
    \/ \E w \in Workers :
          \/ \E n \in Names : Register(w, n) \/ CreateGroup(w, n) \/ ListGroups(w, n)
          \/ RegisterStep(w) \/ CreateStep(w) \/ ListStep(w)
          \/ LoginQuery(w) \/ LoginRemove(w)
    \/ \E n \in Names, g \in Ids : AddGroup(n, g)
    \/ \E p \in 1..Len(Payloads) : StoreOffline(p)
    \/ \E d \in Dbs : LinkBreaks(d)

Spec == Init /\ [][Next]_vars
-----------------------------------------------------------------------------
\* Every variable has its type.
TypeOK ==
    /\ users \subseteq [id: Ids, name: Names]
    /\ groups \subseteq Ids
    /\ members \subseteq MemberRow
    /\ offline \in Seq(1..Len(Payloads))
    /\ nextId \in [{"User", "AllGroup"} -> 1..(MaxCalls + 1)]
    /\ conn \in [Dbs -> Connection]
    /\ op \in [Workers -> Operation]
    /\ told \subseteq [id: Ids, name: Names]
    /\ calls \in 0..MaxCalls /\ faults \in 0..MaxFaults

Creators(g) == {r \in members : r.group = g /\ r.role = "creator"}

\* groupmodel.cpp:20: a group is there exactly if its creator's row is, however the
\* statements, the link or the commit fail and whoever else creates one meanwhile;
\* and who lists groups at the same time sees each with its creator, unless the query
\* for the members itself failed: never a group half made.
GroupsAreComplete ==
    /\ \A g \in Ids : Cardinality(Creators(g)) = IF g \in groups THEN 1 ELSE 0
    /\ \A w \in Workers : \A l \in op[w].listed :
          l.rows = {} \/ \E r \in l.rows : r.role = "creator"

\* A connection in the pool is in no transaction, on no path out of the creation of
\* a group: what the next holder inserts is not left to somebody else's commit.
NoTransactionInPool == \A d \in Free : ~conn[d].open /\ ~conn[d].believed

\* The id in the answer to a registration is that of the row just made, whoever
\* else registers between the insert and the answer (usermodel.cpp:23).
AnswerHasOwnId == told \subseteq users

\* chatservice.cpp:45: what a login hands out has every conversation in the order of
\* its numbers, and what has no number last; and a fetch cut short leaves no hole:
\* with a message it has the ones of the conversation that come before it.
HandedOutInOrder ==
    \A w \in Workers :
        LET out == op[w].fetched
            at(i) == Payloads[out[i]]
        IN  /\ \A i, j \in 1..Len(out) :
                  /\ i < j /\ at(i).conv = at(j).conv /\ at(i).numbered /\ at(j).numbered
                     => at(i).seq =< at(j).seq
                  /\ i < j /\ at(j).numbered => at(i).numbered
            /\ \A i \in 1..Len(out) : \A k \in 1..Len(op[w].seen) :
                  LET p == Payloads[op[w].seen[k]]
                  IN  at(i).numbered /\ p.numbered /\ p.conv = at(i).conv /\ p.seq < at(i).seq
                      => \E j \in 1..i : out[j] = op[w].seen[k]

\* A row goes unread only if it came after the rows had been read, or stood behind
\* a row too long to be fetched; that one goes, too.
UnreadOnlyBehindLongOrLate ==
    [][\A w \in Workers : At(w, "remove") /\ op'[w].pc = "idle" =>
          \A i \in 1..Len(offline) :
              LET p == offline[i]
              IN  \/ \E j \in 1..Len(op[w].fetched) : op[w].fetched[j] = p
                  \/ \E j \in 1..Len(offline') : offline'[j] = p
                  \/ ~\E k \in 1..Len(op[w].seen) : op[w].seen[k] = p
                  \/ \E k \in 1..Len(op[w].seen) :
                        LET q == op[w].seen[k]
                        IN  Payloads[q].long /\ (q = p \/ ~SqlBefore(p, q))]_vars
=============================================================================
