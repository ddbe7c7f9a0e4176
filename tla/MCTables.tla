------------------------------ MODULE MCTables ------------------------------
(* Tables for TLC.                                                          *)
EXTENDS Tables, TLC

CONSTANTS w1, w2, d1, d2, na, nb, nc

\* Two conversations, whose names the collation orders the other way round; an old
\* row with a convid but no number; a message too long for the fetch buffer.
Chats == <<[conv |-> 2, seq |-> 1, numbered |-> TRUE, long |-> FALSE],
           [conv |-> 2, seq |-> 2, numbered |-> TRUE, long |-> FALSE],
           [conv |-> 1, seq |-> 1, numbered |-> TRUE, long |-> TRUE],
           [conv |-> 1, seq |-> 2, numbered |-> TRUE, long |-> FALSE],
           [conv |-> 2, seq |-> 0, numbered |-> FALSE, long |-> FALSE],
           [conv |-> 0, seq |-> 0, numbered |-> FALSE, long |-> FALSE]>>

OldChats == <<5, 6>>
Collated == (0 :> 0) @@ (1 :> 2) @@ (2 :> 1)

\* Registrations; groups; offline messages.
Together == {{"register"}, {"create", "join", "list"}, {"store", "login"}}

Swaps == Permutations({w1, w2}) \cup Permutations({d1, d2})
         \cup Permutations({na, nb})
=============================================================================
