\* Two connections of up to two peers, two streams each, to a TCP and a UDP service.
CONSTANTS
    k1 = k1
    k2 = k2
    p1 = p1
    p2 = p2
    tcp = tcp
    udp = udp
    NoConn = NoConn
    Unknown = Unknown
    Service <- BothServices
    UdpService <- Udp
    Conn <- TwoConns
    Peer <- TwoPeers
    MaxStreams = 2
SPECIFICATION ServeFairSpec
INVARIANTS
    CountsExact
    NoOrphans
PROPERTIES
    GraceRespected
    TasksEnd
CHECK_DEADLOCK FALSE
