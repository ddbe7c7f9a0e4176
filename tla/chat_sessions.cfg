SPECIFICATION Spec
CONSTANTS
    n1 = n1
    n2 = n2
    ua = ua
    ub = ub
    a1 = a1
    b1 = b1
    b2 = b2
    b3 = b3
    g1 = g1
    Nodes = {n1, n2}
    Users = {ua, ub}
    Conns = {a1, b1, b2, b3}
    Groups = {g1}
    NoConn = NoConn
    NoUser = NoUser
    Home <- ConnHome
    Owner <- ConnOwner
    FirstRows <- BothInGroup
    Scenes <- Sessions
    MaxSeq = 1
    MaxCommands = 2
INVARIANTS TypeOK MapIsSound ReachesOnlyAddressees PresenceIsTrue SubscribedToItsUsers DeliveredAtMostOnce
 
CHECK_DEADLOCK FALSE
