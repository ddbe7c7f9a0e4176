--------------------------- MODULE OrderedDisplay ---------------------------
(***************************************************************************)
(* What the client's message orderer promises to the screen, whatever the *)
(* network does to the order of arrival (the design note of               *)
(* include/conversation_orderer.hpp, lines 15-34).                        *)
(*                                                                         *)
(* A conversation has a horizon: everything below it has been settled.  A *)
(* message that arrives at or above the horizon waits; a message that     *)
(* arrives below it is discarded.  A step moves the horizon upwards and   *)
(* shows, in increasing order, exactly the messages it has passed.  So a  *)
(* message that waits is never discarded, a line is never shown twice or  *)
(* out of order, and nothing on the screen is ever taken back.            *)
(***************************************************************************)
EXTENDS Naturals, Sequences

CONSTANT Convs           \* the conversations

VARIABLES arrived,       \* arrived[c]: the numbers that have reached the client
          horizon,       \* horizon[c]: numbers below it are settled
          waiting,       \* waiting[c]: arrived, not yet shown, not below the horizon
          shown          \* shown[c]: what the screen shows of c, oldest first

vars == <<arrived, horizon, waiting, shown>>

Increasing(s) == \A i, j \in 1..Len(s) : i < j => s[i] < s[j]

Numbers(s) == {s[i] : i \in 1..Len(s)}

\* t is s with the members of S appended in increasing order.
ExtendedBy(s, S, t) ==
    /\ Len(s) =< Len(t)
    /\ \A i \in 1..Len(s) : t[i] = s[i]
    /\ Increasing(t)
    /\ Numbers(t) = Numbers(s) \cup S

Init ==
    /\ arrived = [c \in Convs |-> {}]
    /\ horizon = [c \in Convs |-> 0]
    /\ waiting = [c \in Convs |-> {}]
    /\ shown = [c \in Convs |-> <<>>]

\* One conversation in one step: new messages arrive, the horizon may move.
Settle(c) ==
    LET new  == arrived'[c] \ arrived[c]
        held == waiting[c] \cup {s \in new : s >= horizon[c]}
    IN  /\ arrived[c] \subseteq arrived'[c]
        /\ horizon'[c] >= horizon[c]
        /\ waiting'[c] = {s \in held : s >= horizon'[c]}
        /\ ExtendedBy(shown[c], {s \in held : s < horizon'[c]}, shown'[c])

Next == \A c \in Convs : Settle(c)

Spec == Init /\ [][Next]_vars

=============================================================================
