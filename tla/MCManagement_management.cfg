CONSTANTS
    Specs <- MgmtSpecs
    Faulty = {"update", "delete", "restart", "mongo", "initjob"}
    MaxUserOps = 3
    MaxFaults = 1
    MaxCrashes = 1
SPECIFICATION FairSpec
INVARIANTS
    InitialisedFirst
    SettledAtRest
PROPERTIES
    ManagementComesUp
CHECK_DEADLOCK FALSE
