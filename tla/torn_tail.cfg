CONSTANTS
    Key = {k1}
    Dataset = {d1}
    Content = {c1}
    NoJob = NoJob
    TornWrites = TRUE
    MaxLines = 4
    MaxRuns = 2
SPECIFICATION Spec
PROPERTY AcknowledgedNeverReexecuted
CHECK_DEADLOCK FALSE
