------------------------------- MODULE MCChat -------------------------------
(* ChatService for TLC: small clusters.  Connections are named after their  *)
(* user and node: a1 is a connection of user ua to node n1.                 *)
EXTENDS ChatService, TLC

CONSTANTS n1, n2, ua, ub, a1, b1, b2, b3, g1

HomeOf == (a1 :> n1) @@ (b1 :> n1) @@ (b2 :> n2) @@ (b3 :> n1)
OwnerOf == (a1 :> ua) @@ (b1 :> ub) @@ (b2 :> ub) @@ (b3 :> ub)

ConnHome == [c \in Conns |-> HomeOf[c]]
ConnOwner == [c \in Conns |-> OwnerOf[c]]

\* The connections that are made, and who writes: the two users to each other from
\* two nodes; in the group, on two nodes and on one; one to himself, with a second
\* connection to the same node; nobody, with one user on two nodes.  In the first the
\* observer reads ids as the handlers expect.
Scene(c, a, f, e) == [conns |-> c, active |-> a, faults |-> f, ends |-> e, rows |-> 2,
                      mortal |-> c, odd |-> {}, parsed |-> TRUE]

PairScene == Scene({a1, b2}, {{ua, ub}}, 1, 0)
EndScene == Scene({a1, b2}, {{ua, ub}}, 0, 1)
FarScene == Scene({a1, b2}, {g1}, 1, 0)
CalmScene == Scene({a1, b2}, {g1}, 0, 0)
NearScene == [Scene({a1, b1}, {g1}, 0, 0) EXCEPT !.rows = 3]
AgainScene == Scene({b1, b3}, {{ub}}, 1, 0)

\* What hiredis does: the element is a string and its integer stays 0.
AsBuilt(s) == [s EXCEPT !.parsed = FALSE]

\* b2 sends and is sent frames that end the dialogue.
OddScene == [Scene({a1, b2}, {{ua, ub}}, 0, 0) EXCEPT !.odd = {b2}, !.mortal = {b2}]

Pair == {PairScene}
PairAsBuilt == {AsBuilt(PairScene)}
PairAndGroup == {PairScene, CalmScene}
TwoNodes == {Scene({b1, b2}, {}, 0, 0)}
Sessions == {EndScene, FarScene, NearScene, AgainScene, AsBuilt(CalmScene), OddScene}

\* A group that both users are in, and no group.
BothInGroup == [g \in Groups |-> <<ua, ub>>]
=============================================================================
