--------------------------- MODULE OrdererChannel ---------------------------
(***************************************************************************)
(* One channel of the client's ConversationOrderer                        *)
(* (include/conversation_orderer.hpp) and the operations of the class on  *)
(* it, as functions from the channel before to the channel after.  The    *)
(* modules that have channels as state, ConversationOrderer and           *)
(* ChatCluster, take them from here.                                      *)
(*                                                                         *)
(* A message is its sequence number in its conversation.  The loops of    *)
(* deliver and drainPending are given in closed form here; OrdererLoops   *)
(* runs them as they are written, side by side with the closed form.      *)
(*                                                                         *)
(* An operator whose name ends in _Bug is a mutation of the definition it *)
(* is named after: it is used nowhere, and shows what a property excludes. *)
(***************************************************************************)
EXTENDS Integers, FiniteSets, Sequences

CONSTANTS MaxSeq,         \* the largest number the server gives out (bound)
          DeliveredCap    \* the limit of the de-duplication set (4096)

ASSUME ConstantsAssumption == MaxSeq \in Nat /\ DeliveredCap \in Nat

Seqs == 1..MaxSeq

\* gapSince: unset, set less than 800 ms ago, set at least 800 ms ago.
Gaps == {"none", "waiting", "expired"}

\* shown is what the emit callback has put on the screen, oldest first.
Channel == [known: BOOLEAN, expect: 0..(MaxSeq + 1), pending: SUBSET Seqs,
            delivered: SUBSET Seqs, gap: Gaps, shown: Seq(Seqs)]

NewChannel == [known |-> FALSE, expect |-> 0, pending |-> {},
               delivered |-> {}, gap |-> "none", shown |-> <<>>]
-----------------------------------------------------------------------------
(* The operations of the class on one channel: each yields the channel     *)
(* as it is afterwards.                                                    *)

Least(S) == CHOOSE x \in S : \A y \in S : x =< y

\* One too far.
FirstMissing_Bug(e, P) ==
    1 + CHOOSE k \in e..(MaxSeq + 1) : k \notin P /\ \A t \in e..(k - 1) : t \in P

\* The first number from e on that P lacks.
FirstMissing(e, P) ==
    CHOOSE k \in e..(MaxSeq + 1) : k \notin P /\ \A t \in e..(k - 1) : t \in P

\* e, e+1, ..., k-1
Run(e, k) == [i \in 1..(k - e) |-> e + i - 1]

\* Bounded once, at the end of the run, instead of at every insertion.
Remember_Bug(D, e, k) ==
    LET all == D \cup e..(k - 1)
    IN  IF Cardinality(all) =< DeliveredCap THEN all ELSE {}

\* The de-duplication set after e, ..., k-1 have been inserted one by one, the
\* set being emptied whenever it outgrows its limit.
Remember(D, e, k) ==
    LET size == Cardinality(D) + (k - e)
    IN  IF size =< DeliveredCap
        THEN D \cup e..(k - 1)
        ELSE {s \in e..(k - 1) : k - s =< size % (DeliveredCap + 1)}

\* The last lines of drainPending forgotten: the hole that is left has no timer.
DrainPending_Bug(h) ==
    LET live == {s \in h.pending : s >= h.expect}
        k    == FirstMissing(h.expect, live)
    IN  [h EXCEPT !.expect = k,
                  !.pending = {s \in live : s > k},
                  !.delivered = Remember(h.delivered, h.expect, k),
                  !.gap = IF k > h.expect THEN "none" ELSE @,
                  !.shown = @ \o Run(h.expect, k)]

\* drainPending: throw away what has been passed, deliver the unbroken run that
\* starts at the expected number, and time the hole that is left.
DrainPending(h) ==
    LET live == {s \in h.pending : s >= h.expect}
        k    == FirstMissing(h.expect, live)
        rest == {s \in live : s > k}
        gap  == IF k > h.expect THEN "none" ELSE h.gap
    IN  [h EXCEPT !.expect = k,
                  !.pending = rest,
                  !.delivered = Remember(h.delivered, h.expect, k),
                  !.gap = IF rest # {} /\ gap = "none" THEN "waiting" ELSE gap,
                  !.shown = @ \o Run(h.expect, k)]

\* The other end of the map: the newest buffered number instead of the oldest.
Release_Bug(h) ==
    IF h.pending = {} THEN h
    ELSE DrainPending([h EXCEPT !.expect =
             CHOOSE x \in h.pending : \A y \in h.pending : y =< x])

\* Give up on the hole in front of the smallest buffered number.
Release(h) ==
    IF h.pending = {} THEN h
    ELSE DrainPending([h EXCEPT !.expect = Least(h.pending)])

\* The comparison with the timeout forgotten.
Tick_Bug(h) == Release(h)

\* One round of tick's loop over the channels.
Tick(h) == IF h.gap = "expired" THEN Release(h) ELSE h

\* The first message of a conversation sets its starting point.
Known(h, s) == IF h.known THEN h ELSE [h EXCEPT !.known = TRUE, !.expect = s]

\* Case 1: deliver the expected number, then drain.
DeliverAndDrain(h) == DrainPending([h EXCEPT !.pending = @ \cup {h.expect}])

\* The timer restarted by every message that is buffered.
Buffer_RestartBug(h, s) == [h EXCEPT !.pending = @ \cup {s}, !.gap = "waiting"]

\* Case 2: buffer a number beyond the expected one.
Buffer(h, s) == [h EXCEPT !.pending = @ \cup {s},
                          !.gap = IF @ = "none" THEN "waiting" ELSE @]

\* The expected number delivered without draining what it makes contiguous.
OnMessage_NoDrainBug(h, s) ==
    LET g == Known(h, s)
    IN  IF s < g.expect \/ s \in g.delivered THEN g
        ELSE IF s = g.expect
        THEN [g EXCEPT !.expect = s + 1, !.shown = Append(@, s), !.gap = "none"]
        ELSE Buffer(g, s)

OnMessage(h, s) ==
    LET g == Known(h, s)
    IN  IF s < g.expect \/ s \in g.delivered THEN g
        ELSE IF s = g.expect THEN DeliverAndDrain(g)
        ELSE Buffer(g, s)

\* onOfflineBatch on one channel: the messages go through onMessage in
\* increasing order, then the channel is released once.
OnOfflineBatch(h, B) ==
    IF B = {} THEN h
    ELSE Release(DrainPending([Known(h, Least(B)) EXCEPT !.pending = B]))
=============================================================================
