SPECIFICATION Spec
CONSTANTS
    Threads = {t1, t2, t3}
    InitSize = 1
    MaxSize = 1
    MaxIdleTime = 1
    ConnectTimeout = 2
    MaxClock = 2
SYMMETRY ThreadSymmetry
INVARIANT WaitsAtMostTimeout
