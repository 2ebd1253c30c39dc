\* Two peers compete for three slots of the service, two each at most; a third
\* identifier per peer lets flows be refused, expire and be retried. Depth 0 is raised to 1.
CONSTANTS
    c1 = c1
    c2 = c2
    Conn <- MCConn
    Payload = {p1}
    MaxFlowId = 2
    MaxFlows = 3
    MaxFlowsPerPeer = 2
    QueueDepth = 0
SPECIFICATION FairSpec
INVARIANTS
    SlotAccounting
    FlowBounds
PROPERTIES
    NeverRebound
    NoEviction
    FlowsEnd
CHECK_DEADLOCK FALSE
