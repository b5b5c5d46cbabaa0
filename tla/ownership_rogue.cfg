CONSTANTS
    Instance = {a, b, c}
    Absent = Absent
    Foreign = Foreign
    RogueOperator = TRUE
SPECIFICATION Spec
SYMMETRY InstanceSymmetry
INVARIANT NonOwnerRunsNothing
PROPERTY DisplacedNeverDispatches
CHECK_DEADLOCK FALSE
