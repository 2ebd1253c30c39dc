\* Three writers of one configuration file, with kills and power losses.
SPECIFICATION Spec
CONSTANTS
    Absent = Absent
    NoFile = NoFile
    Garbage = Garbage
    NoKey = NoKey
    BadKey = BadKey
    k0 = k0
    k1 = k1
    Key <- Keys
    Name = {"web", "dns", "db"}
    NodeId = {"id1", "id2"}
    Host = {"localhost"}
    DefaultHost = "localhost"
    MaxPort = 2
    MaxIdle = 2
    MaxUdpFlows = 3
    MaxQueue = 2
    DefaultIdle = 1
    DefaultFlows = 3
    DefaultPerPeer = 2
    DefaultQueue = 1
    Proc = {p1, p2, p3}
    NoProc = NoProc
    role = "access"
    InitText <- Texts
    Op <- Ops
    EditText <- Edits
    KeyOf <- KeyOfProc
SYMMETRY Symmetry
CHECK_DEADLOCK FALSE
INVARIANTS
    RunsSound
PROPERTIES
    ActsAsRegister
    EditOverItsBase
    RotationByConsent
    WritesOnlyItsPart
