CONSTANTS
    Mutation = {m1}
    Read = {r1}
    Stop = stop
    None = None
    LockMayBeLost = FALSE
SPECIFICATION Spec
INVARIANT HostSurvivesWorkerExit
CHECK_DEADLOCK FALSE
