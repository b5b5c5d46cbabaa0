CONSTANTS
    Key = {k1, k2}
    Dataset = {d1}
    Content = {c1}
    NoJob = NoJob
    TornWrites = TRUE
    MaxLines = 3
    MaxRuns = 2
SPECIFICATION Spec
SYMMETRY JournalSymmetry
INVARIANT TypeOK
INVARIANT EffectsAreReal
CHECK_DEADLOCK FALSE
