SPECIFICATION FairSpec
CONSTANTS
    n1 = n1
    n2 = n2
    ua = ua
    ub = ub
    a1 = a1
    b1 = b1
    b2 = b2
    b3 = b3
    g1 = g1
    Nodes = {n1, n2}
    Users = {ua, ub}
    Conns = {a1, b2}
    Groups = {g1}
    NoConn = NoConn
    NoUser = NoUser
    Home <- ConnHome
    Owner <- ConnOwner
    FirstRows <- BothInGroup
    Scenes <- PairAndGroup
    MaxSeq = 1
    MaxCommands = 2

PROPERTIES GoneUserGoesOffline ImplementsDelivery
CHECK_DEADLOCK FALSE
