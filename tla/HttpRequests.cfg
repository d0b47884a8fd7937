SPECIFICATION Spec
CONSTANTS
    Conns = {c1, c2}
    GitMaxConcurrent = 1
    GitIdleEnabled = TRUE
SYMMETRY Symmetry
INVARIANTS TypeOK CountersExact GitProcessCap OnlyLateLeftRunning NoStaleWriteDeadline
PROPERTIES ImplementsPool
