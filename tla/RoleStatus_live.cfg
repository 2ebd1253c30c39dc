SPECIFICATION FairSpec
CONSTANTS
    Proc = {p1}
    None = none
    Pid = {1}
PROPERTY WatchdogExits
CHECK_DEADLOCK FALSE
