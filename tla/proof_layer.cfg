CONSTANTS
    MaxSpawns = 4
    MaxRequests = 3
    Identity = {i1, i2}
    Variant = {v1, v2}
    Injected = inj
    Novel = nov
    MaxRows = 3
SPECIFICATION MCSpec
SYMMETRY MCSymmetry
INVARIANT OneOpAtATime
INVARIANT ResultsAreTrue
INVARIANT WaitsForSomething
INVARIANT GreenMeansTested
INVARIANT ComparatorIsExact
\* Drivers, runs and dumps end.
CHECK_DEADLOCK FALSE
