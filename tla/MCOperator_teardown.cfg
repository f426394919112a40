CONSTANTS
    Nodes = {n1, n2}
    Specs <- PlainSpec
    ForeignChoices = {FALSE}
    Faulty = {}
    EnvActs = {"delete", "jobFail", "label"}
    MaxFaults = 0
    MaxCrashes = 0
    MaxEnvOps = 2
SYMMETRY NodeSymmetry
SPECIFICATION Spec
PROPERTIES
    NodesUninstalled
    OrderlyTeardown
CHECK_DEADLOCK FALSE
