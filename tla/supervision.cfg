CONSTANTS
    Mutation = {m1}
    Read = {r1}
    Stop = stop
    None = None
    LockMayBeLost = TRUE
SPECIFICATION FairSpec
INVARIANT TypeOK
INVARIANT OutcomesAreTrue
INVARIANT OneLiveWorker
INVARIANT ReadinessIsReal
PROPERTY TaintedWorkerServesNothing
PROPERTY DispatchStillAdmitted
PROPERTY NoEffectAfterLoss
PROPERTY EverythingSettles
\* Every request may settle and every worker be gone.
CHECK_DEADLOCK FALSE
