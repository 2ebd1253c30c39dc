SPECIFICATION Spec
CONSTANTS
    userServe = userServe
    userServe2 = userServe2
    userAccess = userAccess
    sysServe = sysServe
    sysAccess = sysAccess
    userCmd = userCmd
    sysCmd = sysCmd
    user = user
    root = root
    key = key
    Proc = {userServe, sysAccess}
    Prober = {}
    Home = {user, root}
    Machine = machine
    Id = {key}
    None = none
    RoleOf <- MCRoleOf
    HomeOf <- MCHomeOf
    IdOf <- MCIdOf
    Elevated <- MCElevated
    Attempts = 2
    Parties <- MCParties
INVARIANT DistinctIdentities
CHECK_DEADLOCK FALSE
