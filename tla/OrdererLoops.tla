---------------------------- MODULE OrdererLoops ----------------------------
(***************************************************************************)
(* The loops of include/conversation_orderer.hpp as they are written, run *)
(* side by side with the closed forms of ConversationOrderer on the same  *)
(* frames: `built` is what the loops make of the channels, `ch` what the  *)
(* closed forms do, and they never differ (OrdererProofs proves it).      *)
(***************************************************************************)
EXTENDS ConversationOrderer

VARIABLE built           \* built[c]: the Channel as the loops leave it

loopVars == <<vars, built>>

\* deliver: emit, remember, expect the next, clear the timer, bound the set.
DeliverStep(h, s) ==
    LET d == h.delivered \cup {s}
    IN  [h EXCEPT !.shown = Append(@, s),
                  !.expect = s + 1,
                  !.gap = "none",
                  !.delivered = IF Cardinality(d) > DeliveredCap THEN {} ELSE d]

\* The body of the while loop of drainPending; where the loop stops it changes nothing.
DrainRound(h) ==
    LET first == Least(h.pending)
        taken == [h EXCEPT !.pending = @ \ {first}]
    IN  IF h.pending = {} \/ first > h.expect THEN h
        ELSE IF first < h.expect THEN taken
        ELSE DeliverStep(taken, h.expect)

\* What n rounds of a loop with the body f make of x.
Rounds(f, x, n) ==
    LET round[i \in 0..n] == IF i = 0 THEN x ELSE f[round[i - 1]]
    IN  round[n]

\* The while loop of drainPending: every round but the last takes a message out.
DrainLoop(h) == Rounds([g \in Channel |-> DrainRound(g)], h, Cardinality(h.pending))

\* drainPending: the loop, then the timer of the hole that is left.
DrainByLoop(h) ==
    LET g == DrainLoop(h)
    IN  IF g.pending # {} /\ g.gap = "none" THEN [g EXCEPT !.gap = "waiting"] ELSE g

MessageByLoop(h, s) ==
    LET g == Known(h, s)
    IN  IF s < g.expect \/ s \in g.delivered THEN g
        ELSE IF s = g.expect THEN DrainByLoop(DeliverStep(g, s))
        ELSE Buffer(g, s)

\* The rounds of tick and of onOfflineBatch's second loop.
ReleaseByLoop(h) ==
    IF h.pending = {} THEN h
    ELSE DrainByLoop([h EXCEPT !.expect = Least(h.pending)])

TickByLoop(h) ==
    IF h.pending = {} \/ h.gap # "expired" THEN h ELSE ReleaseByLoop(h)

\* One round of the first loop of onOfflineBatch, on the channel and what is left of a
\* batch in increasing order.
FeedRound(x) ==
    LET s == Least(x[2])
    IN  <<MessageByLoop(x[1], s), x[2] \ {s}>>

FeedByLoop(h, B) ==
    Rounds([x \in Channel \X SUBSET Seqs |-> FeedRound(x)], <<h, B>>, Cardinality(B))[1]

BatchByLoop(h, B) == ReleaseByLoop(FeedByLoop(h, B))
-----------------------------------------------------------------------------
LoopInit == Init /\ built = [c \in Convs |-> NewChannel]

LoopLogin(B) ==
    /\ LoginBatch(B)
    /\ built' = [c \in Convs |-> BatchByLoop(built[c], B[c])]

LoopTick == TickAll /\ built' = [c \in Convs |-> TickByLoop(built[c])]

LoopDispatch(c, s) ==
    /\ DispatchChat(c, s)
    /\ built' = [built EXCEPT ![c] = MessageByLoop(@, s)]

LoopGapExpires(c) ==
    /\ GapExpires(c)
    /\ built' = [built EXCEPT ![c].gap = "expired"]

LoopNext ==
    \/ \E B \in [Convs -> SUBSET Seqs] : LoopLogin(B)
    \/ Receive /\ UNCHANGED built
    \/ LoopTick
    \/ DispatchOther /\ UNCHANGED built
    \/ \E c \in Convs, s \in Seqs : LoopDispatch(c, s)
    \/ \E c \in Convs : LoopGapExpires(c)

LoopSpec == LoopInit /\ [][LoopNext]_loopVars

FairLoopSpec == LoopSpec /\ Fairness

\* The same with a server that never falls silent.
BusyLoopSpec == FairLoopSpec /\ WF_vars(Receive)

\* The loops and the closed forms yield the same channel after every call, down
\* to the de-duplication set that the loop empties in the middle of a run.
LoopsAgree == built = ch
=============================================================================
