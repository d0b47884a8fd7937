SPECIFICATION Spec
CONSTANTS
    Conns = {c1, c2}
    ChanIds = {k1}
    MaxConns = 1
    MaxSessionsPerConn = 1
    GitMaxConcurrent = 1
    IdleTicks = 1
    GitIdleEnabled = TRUE
    Stops = {"signal", "acceptError"}
SYMMETRY Symmetry
INVARIANTS TypeOK CountersExact NoGitLeftRunning
PROPERTIES ImplementsPool NoForkOnceDrained
