----------------------------- MODULE MCCluster -----------------------------
(* ChatCluster for TLC: two users on one node who write to each other.      *)
EXTENDS ChatCluster, TLC

CONSTANTS n1, ua, ub, a1, b1

ConnHome == [c \in Conns |-> n1]
ConnOwner == (a1 :> ua) @@ (b1 :> ub)
NoRows == [g \in Groups |-> <<>>]

\* Nothing fails and nobody leaves.
PairOnNode == {[conns |-> Conns, active |-> {Users}, faults |-> 0, ends |-> 0, rows |-> 0,
                mortal |-> {}, odd |-> {}, parsed |-> FALSE]}
=============================================================================
