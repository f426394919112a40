CONSTANTS
    Nodes = {n1}
    Specs <- PlainSpec
    ForeignChoices = {FALSE}
    Faulty = {"components"}
    EnvActs = {}
    MaxFaults = 1
    MaxCrashes = 0
    MaxEnvOps = 0
SPECIFICATION Spec
INVARIANT ErrorsAreRequeued
CHECK_DEADLOCK FALSE
