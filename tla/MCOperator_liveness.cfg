CONSTANTS
    Nodes = {n1}
    Specs <- CsiSpecs
    ForeignChoices = {TRUE}
    Faulty = {}
    EnvActs = {"delete", "jobFail", "volume", "edit"}
    MaxFaults = 0
    MaxCrashes = 0
    MaxEnvOps = 2
SPECIFICATION FairSpec
PROPERTIES
    DeletionCompletes
CHECK_DEADLOCK FALSE
