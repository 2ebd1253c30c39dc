\* Two clients share a dialer that may lose its connection twice.
CONSTANTS
    a1 = a1
    a2 = a2
    NoClient = NoClient
    Client = {a1, a2}
    MaxConn = 3
SPECIFICATION FairSpec
INVARIANTS
    NothingOrphaned
    RetryOnFresh
PROPERTIES
    HealthyNotEvicted
    ClientAnswered
    StopTerminates
CHECK_DEADLOCK FALSE
