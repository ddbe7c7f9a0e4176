------------------------------ MODULE MCOrderer ------------------------------
(* ConversationOrderer, and the loops that run beside it, for TLC: the       *)
(* modules have no bound of their own but the largest sequence numbers.      *)
EXTENDS OrdererLoops

CONSTANTS c1, c2

OneConv == {c1}

TwoConvs == {c1, c2}

\* Three holes in one conversation, one in the other.
TopOf == [c \in Convs |-> IF c = c1 THEN MaxSeq ELSE 3]
=============================================================================
