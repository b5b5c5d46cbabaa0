CONSTANTS
    Instance = {a, b, c}
    Absent = Absent
    Foreign = Foreign
    RogueOperator = FALSE
SPECIFICATION FairSpec
INVARIANT TypeOK
INVARIANT OneOperating
INVARIANT StrayWorkerNeverServes
PROPERTY LiveOwnersLockStays
PROPERTY ImplementsExclusiveStore
CHECK_DEADLOCK FALSE
PROPERTY StaleLockRecovered
