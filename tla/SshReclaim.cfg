SPECIFICATION FairSpec
CONSTANTS
    Conns = {c1}
    ChanIds = {k1}
    MaxConns = 1
    MaxSessionsPerConn = 1
    GitMaxConcurrent = 1
    IdleTicks = 4
    GitIdleEnabled = TRUE
    Stops = {"signal", "acceptError"}
PROPERTIES ConnSlotReclaimed GitSlotReclaimed ShutdownCompletes
