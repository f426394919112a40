CONSTANTS
    Nodes = {}
    Specs <- MixedSpecs
    ForeignChoices = {TRUE}
    Faulty = {}
    EnvActs = {"delete", "edit", "volume"}
    MaxFaults = 0
    MaxCrashes = 0
    MaxEnvOps = 3
SPECIFICATION Spec
INVARIANTS
    FinalizerBeforeWorkloads
    DeletionNeverForgotten
    QuiescentConverged
PROPERTIES
    ImplementsDeletion
CHECK_DEADLOCK FALSE
