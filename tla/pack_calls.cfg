CONSTANTS
    Run = {r1, r2}
    Plans <- MCPlans
    GrantSets <- MCGrantSets
    MaxAttempts = 2
SPECIFICATION FairSpec
INVARIANT OnlyAdmittedWork
INVARIANT CleanRefusal
INVARIANT CompletedHasLanded
PROPERTY NothingLandsBehind
CHECK_DEADLOCK FALSE
PROPERTY EveryRunEnds
