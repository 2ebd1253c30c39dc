SPECIFICATION Spec
CONSTANTS
    userServe = userServe
    userServe2 = userServe2
    userAccess = userAccess
    sysServe = sysServe
    sysAccess = sysAccess
    userCmd = userCmd
    sysCmd = sysCmd
    user = user
    root = root
    key = key
    Proc = {userServe, userServe2, sysServe, userAccess}
    Prober = {userCmd}
    Home = {user, root}
    Machine = machine
    Id = {key}
    None = none
    RoleOf <- MCRoleOf
    HomeOf <- MCHomeOf
    IdOf <- MCIdOf
    Elevated <- MCElevated
    Attempts = 2
    Parties <- MCParties
INVARIANTS ClaimsHold RecordStays NeverBothRun
SYMMETRY Symmetry
CHECK_DEADLOCK FALSE
