CONSTANTS
    Key = {k1, k2}
    Dataset = {d1, d2}
    Content = {c1, c2}
    NoJob = NoJob
    TornWrites = FALSE
    MaxLines = 4
    MaxRuns = 3
SPECIFICATION Spec
SYMMETRY JournalSymmetry
INVARIANT KeyKeepsItsWork
PROPERTY ImplementsKeyedWrites
CHECK_DEADLOCK FALSE
