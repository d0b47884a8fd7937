SPECIFICATION Spec
CONSTANTS
    Keys = {k1}
    Clients = {c1}
INVARIANTS NoGitOrphaned
