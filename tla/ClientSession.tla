--------------------------- MODULE ClientSession ---------------------------
(***************************************************************************)
(* One client process, its TCP connection and the server's end of it: the *)
(* length-prefixed frames in both directions (recvFrame and sendFrame of  *)
(* client/main.cpp, onMessage and sendWithHeader of chatserver.cpp), the  *)
(* menu of the client, and what a login leaves at the server.             *)
(*                                                                         *)
(* TCP carries bytes in any portions.  A frame on the wire is a sequence  *)
(* of cells, HeaderLen of header and one or more of body; a portion may   *)
(* end between any two cells.  A receiver that has lost the frame's start *)
(* reads whatever comes next as a header.  Operators named _Bug are       *)
(* mutations, used nowhere.                                                *)
(***************************************************************************)
EXTENDS Integers, Sequences, FiniteSets, SequencesExt

CONSTANTS Users,        \* whom the client may log in as
          HeaderLen,    \* kHeaderLen (4)
          Requests,     \* the kinds of frames the client sends
          Answers,      \* the kinds of frames the server answers a login with
          MaxSent,      \* bound: frames of the client
          MaxPushed     \* bound: chats of others pushed to the client

ASSUME ConstantsAssumption ==
    /\ HeaderLen \in Nat \ {0, 1}
    /\ Requests \subseteq {"login", "register", "chat", "loginout", "odd", "broken", "long"}
    /\ Answers \subseteq {"ok", "huge"}
    /\ MaxSent \in Nat /\ MaxPushed \in Nat

VARIABLES client,   \* menu, await (in recvFrame for a response), in (mainMenu with
                    \* the reader thread), gone
          sent,     \* history: the frames of the client
          up,       \* the cells on their way to the server
          buffer,   \* muduo's input buffer of the connection
          server,   \* the IO thread: idle, loop (in onMessage), login (in the handler)
          link,     \* open; half: the server has called shutdown(); closed
          session,  \* the users _userConnMap has with this connection
          online,   \* the users this connection has made online in User.state
          current,  \* {} or the user of the last login: the handler's local variable,
                    \* and g_currentUser of the client
          handled,  \* history: the frames the server has taken out of the buffer
          down,     \* the cells on their way to the client
          recvBuf,  \* g_recvBuf
          replied,  \* history: the frames the server has written
          taken,    \* history: the frames the client has taken, with the request it
                    \* took each as the response to (0: none, the reader thread)
          misread   \* history: recvFrame has met an illegal length

userVars == <<session, online, current>>
serverVars == <<buffer, server, link, userVars, handled, replied>>
clientVars == <<client, sent, recvBuf, taken, misread>>
vars == <<clientVars, up, serverVars, down>>
-----------------------------------------------------------------------------
\* long: more than kMaxFrameLen; huge: a login response of more than that, which
\* the server does not check.  odd: no msgid, or none with a handler.  broken: it
\* does not parse, or the handler misses a field.
Kinds == {"login", "register", "chat", "loginout", "odd", "broken", "long",
          "ok", "huge", "no", "done", "push"}
Legal(f) == f.kind \notin {"long", "huge"}
Size(f) == HeaderLen + IF Legal(f) THEN 1 ELSE 3

\* no: of a request, its place among the client's; of a response, that of the
\* request it answers; of a chat pushed, its place among them.
Frame == [kind: Kinds, no: Nat]
Cell == {c \in [frame: Frame, at: 1..(HeaderLen + 3)] : c.at =< Size(c.frame)}
Cells(f) == [i \in 1..Size(f) |-> [frame |-> f, at |-> i]]

(* What the first bytes of a receive buffer are to a receiver. *)

HasHeader(buf) == Len(buf) >= HeaderLen
Aligned(buf) == buf[1].at = 1
First(buf) == buf[1].frame
Whole(buf) ==
    /\ HasHeader(buf) /\ Aligned(buf)
    /\ Legal(First(buf)) /\ Len(buf) >= Size(First(buf))
Rest(buf) == SubSeq(buf, Size(First(buf)) + 1, Len(buf))

\* A length out of range: the characters of a body make one, too.
BadLength(buf) ==
    /\ HasHeader(buf)
    /\ IF Aligned(buf) THEN ~Legal(First(buf)) ELSE TRUE

Init ==
    /\ client = "menu" /\ server = "idle" /\ link = "open"
    /\ session = {} /\ online = {} /\ current = {} /\ misread = FALSE
    /\ sent = <<>> /\ up = <<>> /\ buffer = <<>> /\ handled = <<>>
    /\ down = <<>> /\ recvBuf = <<>> /\ replied = <<>> /\ taken = <<>>
-----------------------------------------------------------------------------
(* the client *)

Send(k) ==
    /\ k \in Requests /\ Len(sent) < MaxSent
    /\ LET f == [kind |-> k, no |-> Len(sent) + 1] IN
          /\ sent' = Append(sent, f)
          /\ up' = up \o Cells(f)
    /\ UNCHANGED <<recvBuf, taken, misread, serverVars, down>>

\* The menu: a login or a registration, and recvFrame for the response.  Nothing
\* bounds the length of the name and of the password.
Ask(k) ==
    /\ client = "menu" /\ k \in {"login", "register", "long"}
    /\ Send(k)
    /\ client' = "await"

\* A command of mainMenu, which nobody answers.  After loginout the client stays
\* in mainMenu.
Command(k) ==
    /\ client = "in" /\ k \in {"chat", "loginout"}
    /\ Send(k)
    /\ UNCHANGED client

\* What other programs may send in the same place: a frame without a msgid, or one
\* that does not parse.
SendOdd(k) ==
    /\ client = "menu" /\ k \in {"odd", "broken"}
    /\ Send(k)
    /\ UNCHANGED client

\* quit, or the end of the process.
Quit ==
    /\ client # "gone"
    /\ client' = "gone"
    /\ UNCHANGED <<sent, recvBuf, taken, misread, up, serverVars, down>>

\* recv in recvFrame: the buffer has no complete frame.
Receive ==
    /\ client \in {"await", "in"}
    /\ ~Whole(recvBuf) /\ ~BadLength(recvBuf)
    /\ \E n \in 1..Len(down) :
          /\ recvBuf' = recvBuf \o SubSeq(down, 1, n)
          /\ down' = SubSeq(down, n + 1, Len(down))
    /\ UNCHANGED <<client, sent, taken, misread, up, serverVars>>

\* After a positive response to a login the reader thread starts.  A chat has no
\* errno: taken as the response, it ends the process with an exception.
AfterResponse(f) ==
    CASE f.kind = "push" -> "gone"
      [] f.kind = "ok" -> "in"
      [] OTHER -> "menu"

\* Mutation: a response that is returned stays in g_recvBuf.
TakeFrame_Bug ==
    /\ client \in {"await", "in"} /\ Whole(recvBuf)
    /\ client' = IF client = "await" THEN AfterResponse(First(recvBuf)) ELSE client
    /\ taken' = Append(taken, [frame |-> First(recvBuf),
                               for |-> IF client = "await" THEN Len(sent) ELSE 0])
    /\ recvBuf' = IF client = "await" THEN recvBuf ELSE Rest(recvBuf)
    /\ UNCHANGED <<sent, misread, up, serverVars, down>>

\* recvFrame returns the next frame to main, or to the reader thread.
TakeFrame ==
    /\ client \in {"await", "in"} /\ Whole(recvBuf)
    /\ client' = IF client = "await" THEN AfterResponse(First(recvBuf)) ELSE client
    /\ taken' = Append(taken, [frame |-> First(recvBuf),
                               for |-> IF client = "await" THEN Len(sent) ELSE 0])
    /\ recvBuf' = Rest(recvBuf)
    /\ UNCHANGED <<sent, misread, up, serverVars, down>>

\* The buffer is thrown away.  The reader thread ends the process, the menu goes on.
TakeIllegal ==
    /\ client \in {"await", "in"} /\ BadLength(recvBuf)
    /\ client' = IF client = "in" THEN "gone" ELSE "menu"
    /\ recvBuf' = <<>>
    /\ misread' = TRUE
    /\ UNCHANGED <<sent, taken, up, serverVars, down>>

\* The last bytes of a header and the first of its body may make a legal length:
\* what it cuts out does not parse.
TakeGarbage ==
    /\ client = "await" /\ HasHeader(recvBuf)
    /\ recvBuf[1].at \in 2..HeaderLen
    /\ client' = "gone"
    /\ UNCHANGED <<sent, recvBuf, taken, misread, up, serverVars, down>>

\* recv returns 0: the server has shut its side down and everything is read.
TakeEnd ==
    /\ client \in {"await", "in"}
    /\ link # "open" /\ down = <<>>
    /\ ~Whole(recvBuf) /\ ~BadLength(recvBuf)
    /\ client' = IF client = "in" THEN "gone" ELSE "menu"
    /\ UNCHANGED <<sent, recvBuf, taken, misread, up, serverVars, down>>

RecvFrame == Receive \/ TakeFrame \/ TakeIllegal \/ TakeGarbage \/ TakeEnd
-----------------------------------------------------------------------------
(* the server *)

\* sendWithHeader: not on a connection that is shut down.
SendWithHeader(f) ==
    IF link = "open" THEN /\ down' = down \o Cells(f)
                          /\ replied' = Append(replied, f)
                     ELSE UNCHANGED <<down, replied>>

\* A readable event: bytes are appended to the input buffer, and onMessage is called.
Readable ==
    /\ server = "idle" /\ link # "closed"
    /\ \E n \in 1..Len(up) :
          /\ buffer' = buffer \o SubSeq(up, 1, n)
          /\ up' = SubSeq(up, n + 1, Len(up))
    /\ server' = "loop"
    /\ UNCHANGED <<clientVars, link, userVars, handled, replied, down>>

\* Mutation: the header is taken out before the body is known to be there.
Incomplete_Bug ==
    /\ server = "loop"
    /\ ~Whole(buffer) /\ ~BadLength(buffer)
    /\ server' = "idle"
    /\ buffer' = IF HasHeader(buffer) THEN SubSeq(buffer, HeaderLen + 1, Len(buffer)) ELSE buffer
    /\ UNCHANGED <<clientVars, up, link, userVars, handled, replied, down>>

\* Half a frame waits for the next event.
Incomplete ==
    /\ server = "loop"
    /\ ~Whole(buffer) /\ ~BadLength(buffer)
    /\ server' = "idle"
    /\ UNCHANGED <<clientVars, up, buffer, link, userVars, handled, replied, down>>

\* An illegal length: the write side is shut down, the buffer stays as it is, and the
\* same header is met again at every event to come.
Illegal ==
    /\ server = "loop" /\ BadLength(buffer)
    /\ server' = "idle"
    /\ link' = "half"
    /\ UNCHANGED <<clientVars, up, buffer, userVars, handled, replied, down>>

\* The next frame is whole; it leaves the buffer before its handler runs.
Take(kind) ==
    /\ server = "loop" /\ Whole(buffer) /\ First(buffer).kind = kind
    /\ buffer' = Rest(buffer)
    /\ handled' = Append(handled, First(buffer))
    /\ UNCHANGED <<clientVars, up>>

Response(kind, f) == [kind |-> kind, no |-> f.no]

\* login up to the entry in _userConnMap.  A wrong password, or a user who is online,
\* is refused; that the connection has a user already is not looked at.
Accept ==
    /\ Take("login")
    /\ \E u \in Users \ online :
          /\ session' = session \cup {u}
          /\ current' = {u}
    /\ server' = "login"
    /\ UNCHANGED <<link, online, replied, down>>

\* Mutation: the connection is entered before the password is looked at.
Refuse_EntryBug ==
    /\ Take("login")
    /\ SendWithHeader(Response("no", First(buffer)))
    /\ server' = "loop"
    /\ \E u \in Users : session' = session \cup {u}
    /\ UNCHANGED <<link, online, current>>

Refuse ==
    /\ Take("login")
    /\ SendWithHeader(Response("no", First(buffer)))
    /\ server' = "loop"
    /\ UNCHANGED <<link, userVars>>

\* The rest of login: the state, whose update may fail, and the response, whose length
\* nobody looks at.
LoginAck(kind) ==
    /\ server = "login"
    /\ online' \in {online \cup current, online}
    /\ SendWithHeader(Response(kind, Last(handled)))
    /\ server' = "loop"
    /\ UNCHANGED <<clientVars, up, buffer, link, session, current, handled>>

\* Mutation: no answer when the insert has failed.
Register_Bug ==
    /\ Take("register")
    /\ server' = "loop"
    /\ UNCHANGED <<link, userVars, replied, down>>

Register ==
    /\ Take("register")
    /\ SendWithHeader(Response("done", First(buffer)))
    /\ server' = "loop"
    /\ UNCHANGED <<link, userVars>>

\* A chat, or a frame without a handler: nothing comes back.
Silent(kind) ==
    /\ kind \in {"chat", "odd"} /\ Take(kind)
    /\ server' = "loop"
    /\ UNCHANGED <<link, userVars, replied, down>>

\* The user the client is logged in as; the update of his state may fail.
Loginout ==
    /\ Take("loginout")
    /\ session' = session \ current
    /\ online' \in {online \ current, online}
    /\ server' = "loop"
    /\ UNCHANGED <<link, current, replied, down>>

\* Mutation: nothing is left of what has come in.
Malformed_Bug ==
    /\ server = "loop" /\ Whole(buffer) /\ First(buffer).kind = "broken"
    /\ buffer' = <<>>
    /\ handled' = Append(handled, First(buffer))
    /\ link' = "half"
    /\ server' = "idle"
    /\ UNCHANGED <<clientVars, up, userVars, replied, down>>

\* A json exception: shutdown() and return.  The frames behind stay in the buffer,
\* and the next event has them handled.
Malformed ==
    /\ Take("broken")
    /\ link' = "half"
    /\ server' = "idle"
    /\ UNCHANGED <<userVars, replied, down>>

\* Another thread finds the connection in _userConnMap and writes a chat to it,
\* whatever this connection's thread is doing.
PushChat ==
    /\ session # {} /\ link = "open"
    /\ LET n == Cardinality({i \in DOMAIN replied : replied[i].kind = "push"}) IN
          /\ n < MaxPushed
          /\ SendWithHeader([kind |-> "push", no |-> n + 1])
    /\ UNCHANGED <<clientVars, up, buffer, server, link, userVars, handled>>

\* Mutation: only the socket is cleaned up.
OnConnection_Bug ==
    /\ client = "gone" /\ server = "idle" /\ link # "closed"
    /\ link' = "closed"
    /\ up' = <<>> /\ down' = <<>>
    /\ UNCHANGED <<clientVars, buffer, server, userVars, handled, replied>>

\* clientCloseException: the search of the map ends at the first entry with this
\* connection.  The user's row cannot be read, or the update of his state fails: he
\* stays online.
CloseException ==
    \/ session = {} /\ UNCHANGED <<session, online>>
    \/ \E u \in session :
          /\ session' = session \ {u}
          /\ online' \in {online \ {u}, online}

\* onConnection: the client's end has closed.  What it sent last may be lost.
OnConnection ==
    /\ client = "gone" /\ server = "idle" /\ link # "closed"
    /\ link' = "closed"
    /\ CloseException
    /\ up' = <<>> /\ down' = <<>>
    /\ UNCHANGED <<clientVars, buffer, server, current, handled, replied>>

OnMessage ==
    \/ Incomplete \/ Illegal
    \/ Accept \/ Refuse \/ Register \/ Loginout \/ Malformed
    \/ \E k \in Kinds : Silent(k)
    \/ \E k \in Answers : LoginAck(k)

Next ==
    \/ \E k \in Requests : Ask(k) \/ Command(k) \/ SendOdd(k)
    \/ Quit \/ RecvFrame
    \/ Readable \/ OnMessage \/ PushChat \/ OnConnection

Spec == Init /\ [][Next]_vars

\* The kernels move bytes, muduo calls back, recvFrame runs whenever it can.  Nobody
\* has to send anything.
Fairness ==
    /\ WF_vars(RecvFrame) /\ WF_vars(Readable)
    /\ WF_vars(OnMessage) /\ WF_vars(OnConnection)

FairSpec == Spec /\ Fairness
-----------------------------------------------------------------------------
(* properties *)

\* Every variable holds a value of its kind: the type invariant.  The server's buffer
\* starts with the start of a frame.
TypeOK ==
    /\ client \in {"menu", "await", "in", "gone"}
    /\ server \in {"idle", "loop", "login"} /\ link \in {"open", "half", "closed"}
    /\ {session, online, current} \subseteq SUBSET Users /\ misread \in BOOLEAN
    /\ {sent, handled, replied} \subseteq Seq(Frame)
    /\ {up, buffer, down, recvBuf} \subseteq Seq(Cell)
    /\ taken \in Seq([frame: Frame, for: Nat])
    /\ buffer = <<>> \/ Aligned(buffer)

\* However the bytes are cut, the server handles the client's frames whole, once and
\* in order, also those that came in behind a malformed one; and onMessage leaves no
\* complete frame behind, since nothing would call it again for bytes that are in
\* the buffer already (ChatServer::onMessage, chatserver.cpp:46-92).
HandledInOrder ==
    /\ IsPrefix(handled, sent)
    /\ server = "idle" /\ link = "open" => ~Whole(buffer) /\ ~BadLength(buffer)

\* However the bytes are cut, main and the reader thread together take the frames of
\* the server whole, once and in order, until a frame over the limit comes; and what
\* the menu takes as the response is the response to what it asked, though no frame
\* names its request, or it is a chat that overtook the response to a login, and the
\* process is at its end (recvFrame, client/main.cpp:54; main, :172-178, :282-289).
ReceivedInOrder ==
    ~misread =>
        /\ IsPrefix([i \in DOMAIN taken |-> taken[i].frame], replied)
        /\ \A i \in DOMAIN taken :
              \/ taken[i].for \in {0, taken[i].frame.no}
              \/ taken[i].frame.kind = "push" /\ client = "gone"

\* When all is quiet, a client whose user is in the map or online is in mainMenu, or
\* was when it ended: nobody is logged in behind the menu's back, except by a response
\* over the limit, which the menu has thrown away (client/main.cpp:62), or on a
\* connection the server has shut down (chatservice.cpp:87, client/main.cpp:172).
OnlineMeansLoggedIn ==
    session \cup online # {} /\ server = "idle" /\ up = <<>> /\ down = <<>> /\ recvBuf = <<>>
        => client \in {"in", "gone"} \/ misread \/ link = "half"

\* Who waits for a response gets one, or learns that there will be none: it is not
\* lost between the handler and recvFrame (client/main.cpp:172, :283).
RequestIsAnswered ==
    client = "await" /\ ~misread ~> client # "await" \/ misread

\* The end of a client takes its user out of the map, also one whose login had just
\* begun, unless the connection has carried two logins: clientCloseException removes
\* one entry only (ChatServer::onConnection, chatserver.cpp:35; chatservice.cpp:240).
Logins == Cardinality({i \in DOMAIN handled : handled[i].kind = "login"})
EndOfClientEndsSession == client = "gone" ~> session = {} \/ Logins > 1
=============================================================================
