CONSTANTS
    Act = {x1, x2}
    NoName = NoName
    NotesName = {n1}
    VaultName = {v1}
    Bodies <- MCBodies
SPECIFICATION MCSpec
SYMMETRY MCSymmetry
INVARIANT DeletionWasConfirmed
INVARIANT StoresStayApart
INVARIANT ShutdownSparesNoLock
INVARIANT PageKeepsApart
PROPERTY DeletionWasMeant
\* The process ends.
CHECK_DEADLOCK FALSE
