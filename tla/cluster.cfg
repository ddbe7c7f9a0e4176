SPECIFICATION ClusterSpec
CONSTANTS
    n1 = n1
    ua = ua
    ub = ub
    a1 = a1
    b1 = b1
    Nodes = {n1}
    Users = {ua, ub}
    Conns = {a1, b1}
    Groups = {}
    NoConn = NoConn
    NoUser = NoUser
    Home <- ConnHome
    Owner <- ConnOwner
    FirstRows <- NoRows
    Scenes <- PairOnNode
    MaxSeq = 3
    MaxCommands = 2
INVARIANT HolesAreMissingMessages
CHECK_DEADLOCK FALSE
