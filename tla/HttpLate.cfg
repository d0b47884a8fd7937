SPECIFICATION Spec
CONSTANTS
    Conns = {c1}
    GitMaxConcurrent = 1
    GitIdleEnabled = TRUE
INVARIANTS NoGitOutlivesServer
