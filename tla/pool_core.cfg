SPECIFICATION Spec
CONSTANTS
    Threads = {t1, t2, t3, t4}
    InitSize = 1
    MaxSize = 3
    MaxIdleTime = 1
    ConnectTimeout = 2
    MaxClock = 4
SYMMETRY ThreadSymmetry
INVARIANTS TypeOK NoConnectionLost NobodySleepsOnConnections
PROPERTY ProducerIsWoken
