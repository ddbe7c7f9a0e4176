---------------------------- MODULE ChatCluster ----------------------------
(***************************************************************************)
(* ChatService with the clients' screens: every client process has the    *)
(* channels of its ConversationOrderer, as OrdererChannel has them, and   *)
(* puts into them what ChatService sends it, in the step that sends it    *)
(* (one connection delivers in order).  The numbers come from the         *)
(* handlers onechat and groupchat, the ways from the server, so that what *)
(* the comments of conversation_orderer.hpp say of a number can be        *)
(* compared with the message that has it.                                  *)
(***************************************************************************)
EXTENDS ChatService

VARIABLES screen,   \* screen[c][k]: the channel of conversation k at the client of c
          sent      \* history: the messages that have been given a number

clusterVars == <<vars, screen, sent>>

\* The limit of the de-duplication set as it is in the code.
Orderer == INSTANCE OrdererChannel WITH DeliveredCap <- 4096
-----------------------------------------------------------------------------
ClusterInit ==
    /\ Init
    /\ screen = [c \in Conns |-> [k \in Conversations |-> Orderer!NewChannel]]
    /\ sent = {}

\* The main thread reads the login response in which op[c].rows are the messages.
ReadsResponse(c) == At(c, "ack") /\ client[c] = "awaiting" /\ client'[c] = "in"

\* The login response has the offline batch of every conversation.
Batch(c) == [k \in Conversations |->
    Orderer!OnOfflineBatch(screen[c][k], {m.seq : m \in {r \in op[c].rows : r.conv = k}})]

\* The reader thread reads the chat m, which a handler or the observer sends in this step.
Reads(c, m) == client[c] = "in" /\ client'[c] = "in" /\ link[c] = "up" /\ Sends(c, m)

\* It calls tick() for all conversations, and gives m to the orderer.
Displayed(c, m) == [k \in Conversations |->
    LET h == Orderer!Tick(screen[c][k])
    IN  IF k = m.conv THEN Orderer!OnMessage(h, m.seq) ELSE h]

\* What the clients make of a step of the server.
Display ==
    LET inHand == {op[d].msg : d \in Conns} \cup {observer[n].msg : n \in Nodes}
    IN  screen' = [c \in Conns |->
            IF ReadsResponse(c) THEN Batch(c)
            ELSE IF \E m \in inHand : Reads(c, m)
            THEN Displayed(c, CHOOSE m \in inHand : Reads(c, m))
            ELSE screen[c]]

\* 800 ms pass with a hole in front of what client c has of k.
GapExpires(c, k) ==
    /\ client[c] = "in" /\ screen[c][k].gap = "waiting"
    /\ screen' = [screen EXCEPT ![c][k].gap = "expired"]
    /\ UNCHANGED <<vars, sent>>

ClusterNext ==
    \/ /\ Next
       /\ Display
       /\ sent' = sent \cup ({op'[c].msg : c \in Conns} \ {NoMessage})
    \/ \E c \in Conns, k \in Conversations : GapExpires(c, k)

ClusterSpec == ClusterInit /\ [][ClusterNext]_clusterVars
-----------------------------------------------------------------------------
\* The client of c holds messages of k back because number s has not come.
WaitsFor(c, k, s) ==
    /\ s \in screen[c][k].expect..MaxSeq \ screen[c][k].pending
    /\ \E t \in screen[c][k].pending : s < t

\* conversation_orderer.hpp:29: behind a hole there is a message that is on its way to
\* this user or was lost.  But the numbers of a pair run through both directions
\* (chatservice.cpp:268), and nobody is sent what he wrote himself.
HolesAreMissingMessages ==
    \A c \in Conns, k \in Conversations : client[c] = "in" =>
        \A s \in 1..MaxSeq : WaitsFor(c, k, s) =>
            \E m \in sent : m.conv = k /\ m.seq = s /\ Owner[c] \in Recipients(m)
=============================================================================
