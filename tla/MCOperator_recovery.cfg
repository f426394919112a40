CONSTANTS
    Nodes = {n1}
    Specs <- SkipSpecs
    ForeignChoices = {FALSE}
    Faulty = {"serviceAccount", "update", "list", "remove", "create", "get", "delete", "status", "components", "mongo"}
    EnvActs = {"delete"}
    MaxFaults = 1
    MaxCrashes = 1
    MaxEnvOps = 1
SPECIFICATION Spec
INVARIANTS
    TypeOK
    StatusTruthful
    IInv
CHECK_DEADLOCK FALSE
PROPERTIES
    ImplementsDeletion
