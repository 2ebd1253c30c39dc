SPECIFICATION Spec
CONSTANTS
    Proc = {p1, p2}
    None = none
    Pid = {1, 2}
SYMMETRY Symmetry
INVARIANTS SnapshotOwned CurrentIsLive
CHECK_DEADLOCK FALSE
