SPECIFICATION Spec
CONSTANTS
    w1 = w1
    w2 = w2
    d1 = d1
    d2 = d2
    na = na
    nb = nb
    nc = nc
    Workers = {w1, w2}
    Dbs = {d1, d2}
    Names = {na, nb, nc}
    Registered = {nc}
    NoName = NoName
    NoDb = NoDb
    Payloads <- Chats
    OldRows <- OldChats
    Collation <- Collated
    Scenarios <- Together
    MaxCalls = 4
    MaxFaults = 2
SYMMETRY Swaps
INVARIANTS TypeOK GroupsAreComplete NoTransactionInPool AnswerHasOwnId HandedOutInOrder
PROPERTIES UnreadOnlyBehindLongOrLate
CHECK_DEADLOCK FALSE
