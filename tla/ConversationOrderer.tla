------------------------- MODULE ConversationOrderer -------------------------
(***************************************************************************)
(* The client's per-conversation message orderer                          *)
(* (include/conversation_orderer.hpp) and the thread that drives it: the  *)
(* login that replays the offline messages once, then the reader thread   *)
(* that takes a frame, calls tick() and dispatches the frame              *)
(* (src/client/main.cpp).  What a call does to a channel is in            *)
(* OrdererChannel.                                                         *)
(***************************************************************************)
EXTENDS OrdererChannel

CONSTANTS Convs,          \* the conversations of this user
          Top             \* bound: Top[c], the largest number the server sends in c

VARIABLES ch,        \* ch[c]: the Channel of conversation c
          reader,    \* where the client is: login, waiting, received, ticked
          frame,     \* the frame the reader holds
          arrived    \* arrived[c]: history, the numbers handed to the orderer

vars == <<ch, reader, frame, arrived>>

\* A frame that is not a sequenced chat message: a status response, a chat
\* without a number, a frame that does not parse.
Other == <<>>

Frames == (Convs \X Seqs) \cup {Other}
-----------------------------------------------------------------------------
Init ==
    /\ ch = [c \in Convs |-> NewChannel]
    /\ reader = "login"
    /\ frame = Other
    /\ arrived = [c \in Convs |-> {}]

\* The login: the offline messages of the login response, sorted by the server,
\* go through the orderer before the reader thread is started.  It happens once
\* in a process: after a logout the main menu is never reached again.
LoginBatch(B) ==
    /\ reader = "login"
    /\ \A c \in Convs : B[c] \subseteq 1..Top[c]
    /\ ch' = [c \in Convs |-> OnOfflineBatch(ch[c], B[c])]
    /\ arrived' = [c \in Convs |-> arrived[c] \cup B[c]]
    /\ reader' = "waiting"
    /\ UNCHANGED frame

\* The client takes a chat off the socket.
ReceiveChat(c, s) ==
    /\ reader = "waiting"
    /\ s =< Top[c]
    /\ frame' = <<c, s>>
    /\ reader' = "received"
    /\ UNCHANGED <<ch, arrived>>

ReceiveOther ==
    /\ reader = "waiting"
    /\ frame' = Other
    /\ reader' = "received"
    /\ UNCHANGED <<ch, arrived>>

\* The reader thread calls tick() before it looks at the frame.
TickAll ==
    /\ reader = "received"
    /\ ch' = [c \in Convs |-> Tick(ch[c])]
    /\ reader' = "ticked"
    /\ UNCHANGED <<frame, arrived>>

DispatchChat(c, s) ==
    /\ reader = "ticked"
    /\ frame = <<c, s>>
    /\ ch' = [ch EXCEPT ![c] = OnMessage(@, s)]
    /\ arrived' = [arrived EXCEPT ![c] = @ \cup {s}]
    /\ reader' = "waiting"
    /\ UNCHANGED frame

DispatchOther ==
    /\ reader = "ticked"
    /\ frame = Other
    /\ reader' = "waiting"
    /\ UNCHANGED <<ch, frame, arrived>>

\* 800 ms pass with the hole of c open.
GapExpires(c) ==
    /\ ch[c].gap = "waiting"
    /\ ch' = [ch EXCEPT ![c].gap = "expired"]
    /\ UNCHANGED <<reader, frame, arrived>>

Receive == ReceiveOther \/ \E c \in Convs, s \in Seqs : ReceiveChat(c, s)

Dispatch == DispatchOther \/ \E c \in Convs, s \in Seqs : DispatchChat(c, s)

Next ==
    \/ \E B \in [Convs -> SUBSET Seqs] : LoginBatch(B)
    \/ Receive
    \/ TickAll
    \/ Dispatch
    \/ \E c \in Convs : GapExpires(c)

Spec == Init /\ [][Next]_vars

\* The client is a running process with a running clock; whether another frame
\* ever comes is up to the server.
Fairness ==
    /\ WF_vars(TickAll)
    /\ WF_vars(Dispatch)
    /\ \A c \in Convs : WF_vars(GapExpires(c))
-----------------------------------------------------------------------------
Numbers(s) == {s[i] : i \in 1..Len(s)}

\* Every variable has its type, and a frame is in hand when one is needed.
TypeOK ==
    /\ ch \in [Convs -> Channel]
    /\ reader \in {"login", "waiting", "received", "ticked"}
    /\ frame \in Frames
    /\ arrived \in [Convs -> SUBSET Seqs]

\* The buffer holds exactly what has arrived and is not settled, never the
\* expected number itself: no message is lost between onMessage and
\* drainPending, and none is left behind the expected number.
BufferIsExact ==
    \A c \in Convs :
        /\ ch[c].pending = {s \in arrived[c] : s >= ch[c].expect}
        /\ ch[c].expect \notin ch[c].pending

\* The timer of a channel runs exactly while something is buffered: a hole
\* without a timer would never be given up, a timer without a hole would make
\* the next hole expire at once.
HoleIsTimed ==
    \A c \in Convs : ch[c].gap = "none" <=> ch[c].pending = {}

\* The de-duplication set only ever repeats what expect says, which is why
\* emptying it at 4096 entries lets no duplicate through (line 129).
DedupIsBelowExpect ==
    \A c \in Convs : \A s \in ch[c].delivered : s < ch[c].expect

\* The screen of a conversation is in increasing order, without repeats, and
\* has only what arrived and is settled.
ScreenIsOrdered ==
    \A c \in Convs :
        /\ \A i, j \in 1..Len(ch[c].shown) :
               i < j => ch[c].shown[i] < ch[c].shown[j]
        /\ \A s \in Numbers(ch[c].shown) : s \in arrived[c] /\ s < ch[c].expect

\* Once a conversation has a starting point, the live stream passes over a
\* number it has not shown only in tick, and only when the hole has been open
\* for the timeout.
SkipsOnlyAfterTimeout ==
    [][\A c \in Convs :
          (/\ reader # "login"
           /\ ch[c].known
           /\ \E n \in ch[c].expect..(ch'[c].expect - 1) :
                  n \notin Numbers(ch'[c].shown))
          => reader = "received" /\ ch[c].gap = "expired"]_vars

\* The promise of the class: the settled part of a conversation is shown in
\* order, once, and what is buffered is shown as soon as it is settled.
OD == INSTANCE OrderedDisplay
        WITH horizon <- [c \in Convs |-> ch[c].expect],
             waiting <- [c \in Convs |-> ch[c].pending],
             shown   <- [c \in Convs |-> ch[c].shown]

ImplementsOrderedDisplay == OD!Spec

\* With a server that never falls silent, every buffered message is shown.
BufferedIsShown ==
    \A c \in Convs, s \in Seqs :
        s \in ch[c].pending ~> s \in Numbers(ch[c].shown)

\* Lines 32-34: a hole must not be waited for without end; after the timeout
\* what is buffered is released.
ExpiredHoleIsReleased ==
    \A c \in Convs : ch[c].gap = "expired" ~> ch[c].gap # "expired"
=============================================================================
