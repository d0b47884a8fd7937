SPECIFICATION FairSpec
CONSTANTS
    Conns = {c1}
    ChanIds = {k1, k2}
    MaxConns = 1
    MaxSessionsPerConn = 2
    GitMaxConcurrent = 1
    IdleTicks = 1
    GitIdleEnabled = TRUE
    Stops = {}
INVARIANTS GitProcessCap
PROPERTIES SessionSlotReclaimed SessionEnds
