SPECIFICATION FairSpec
CONSTANTS
    Keys = {k1}
    Clients = {c1}
INVARIANTS SupervisorTypeOK ChildGone ReloadPending
PROPERTIES ParentEnds ReloadTakesEffect
