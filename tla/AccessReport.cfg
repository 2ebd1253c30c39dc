SPECIFICATION ReportSpec
CONSTANTS
    Cand <- MCCand
    None = None
    Pending = Pending
    Bindings = {{1, 2}, {2}}
    Bound = {1, 2}
    Stats = {0, 1}
    Waited <- MCWaited
    FailAfter = {0}
    MaxMoves = 3
    MaxDials = 2
    MaxFails = 1
INVARIANTS
    DialWithinBudget
    ReportsSound
PROPERTIES
    NoIdleRewrite
    CatchesUp
