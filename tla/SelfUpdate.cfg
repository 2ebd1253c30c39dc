SPECIFICATION Spec
CONSTANTS
    p1 = p1
    p2 = p2
    Proc = {p1, p2}
    MaxCore = 3
    NoAsset <- MCNoAsset
    InitVer <- MCInitVer
    Setting <- MCSetting
    Request <- MCRequest
    Nothing = Nothing
    Garbage = Garbage
SYMMETRY Symmetry
INVARIANTS
    InstallationSound
    FailsForAReason
PROPERTIES
    InstallsWhatWasAsked
