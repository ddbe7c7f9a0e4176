SPECIFICATION FairSpec
CONSTANTS
    n1 = n1
    n2 = n2
    t1 = t1
    t2 = t2
    t3 = t3
    Nodes = {n1, n2}
    Threads = {t1, t2, t3}
    NodeOf <- ThreadNode
    Conversations = {k1}
    NoThread = NoThread
    FallbackBase = 8
    MaxCalls = 2
    MaxErrors = 1
    MaxRestarts = 1
INVARIANTS TypeOK Unique IncreasingUnlessLocal
PROPERTY EveryCallReturns
CHECK_DEADLOCK FALSE
