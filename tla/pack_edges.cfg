CONSTANTS
    Inputs <- MCInputs
    Rows <- MCRows
    Receipts <- MCReceipts
    Char = {"a", "b", "x", "_"}
    Ns <- MCNs
    Name <- MCName
    Grants <- MCGrants
    Underscore = "_"
    outer = outer
    middle = middle
    inner = inner
    apart = apart
    link = link
    turn = turn
    leak = leak
    Remote = remote
    Dir <- MCDir
    Link <- MCLink
    Target <- MCTarget
    Above <- MCAbove
    Configurations <- MCConfigurations
    Host = {h1, h2}
    NoHost = NoHost
SPECIFICATION MCSpec
SYMMETRY MCSymmetry
INVARIANT BoundaryIsTight
INVARIANT OnlyTextlessIsRejected
INVARIANT AnswersFit
INVARIANT OlderStoreUntouched
PROPERTY ImplementsScopedDatasets
\* Calls and instances end.
CHECK_DEADLOCK FALSE
