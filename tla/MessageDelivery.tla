-------------------------- MODULE MessageDelivery --------------------------
(***************************************************************************)
(* What the cluster promises of the messages it numbers, without nodes,   *)
(* maps, tables or channels: a message is numbered once, is addressed     *)
(* once, and is then on its way to each of its addressees until he reads  *)
(* it or it is lost.  What is lost does not come back, nobody reads what  *)
(* was not on its way to him, and as long as nothing has failed what is   *)
(* read of two users' messages is no longer on its way.                   *)
(***************************************************************************)
EXTENDS Integers

CONSTANTS Users, Conversations,
          Pairs,       \* the conversations of two users, or of one with himself
          Messages,    \* records with the fields conv, seq and from
          Letters      \* <<m, v>>: message m may be for user v

VARIABLES number,      \* number[k]: the number of the last message of k
          undecided,   \* the numbered messages whose addressees are not known yet
          travelling,  \* the letters on their way
          read,        \* the letters a client of their user has received
          reliable     \* nothing has failed, and nobody has two clients

vars == <<number, undecided, travelling, read, reliable>>

Init ==
    /\ number = [k \in Conversations |-> 0]
    /\ undecided = {} /\ travelling = {} /\ read = {}
    /\ reliable \in BOOLEAN

Number(m) ==
    /\ m.seq = number[m.conv] + 1
    /\ number' = [number EXCEPT ![m.conv] = m.seq]

SendToUser(m, v) ==
    /\ Number(m)
    /\ m.conv \in Pairs /\ <<m, v>> \in Letters
    /\ travelling' = travelling \cup {<<m, v>>}
    /\ UNCHANGED <<undecided, read, reliable>>

SendToGroup(m) ==
    /\ Number(m)
    /\ m.conv \notin Pairs
    /\ undecided' = undecided \cup {m}
    /\ UNCHANGED <<travelling, read, reliable>>

\* The addressees are fixed; there are none if they cannot be found out.
Address(m, V) ==
    /\ {m} \X V \subseteq Letters
    /\ undecided' = undecided \ {m}
    /\ travelling' = travelling \cup ({m} \X V)
    /\ UNCHANGED <<number, read>>
    /\ reliable' => reliable

Exclusive == reliable => \A l \in read : l[1].conv \in Pairs => l \notin travelling

\* Some messages are read, and some are lost.
Proceed ==
    /\ UNCHANGED number
    /\ undecided' \subseteq undecided
    /\ travelling' \subseteq travelling
    /\ read \subseteq read' /\ read' \ read \subseteq travelling
    /\ reliable' => reliable
    /\ Exclusive'

Next ==
    \/ Proceed
    \/ \E m \in Messages : SendToGroup(m) \/ \E v \in Users : SendToUser(m, v)
    \/ \E m \in undecided, V \in SUBSET Users : Address(m, V)

Spec == Init /\ [][Next]_vars
=============================================================================
