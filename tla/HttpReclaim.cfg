SPECIFICATION FairSpec
CONSTANTS
    Conns = {c1}
    GitMaxConcurrent = 1
    GitIdleEnabled = TRUE
PROPERTIES GitSlotReclaimed DrainEnds ShutdownCompletes
