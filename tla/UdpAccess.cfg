\* Three clients, two slots, identifiers 0 and 1 (2 stands for u32::MAX), two
\* incarnations.
CONSTANTS
    a1 = a1
    a2 = a2
    a3 = a3
    NoClient = NoClient
    Client <- ThreeClients
    MaxFlowId = 2
    MaxFlows = 2
    MaxConn = 2
SPECIFICATION FairSpec
INVARIANTS
    TableSound
    ReplyAttribution
PROPERTIES
    IdsNeverReused
    DeadConnectionEvicted
CHECK_DEADLOCK FALSE
