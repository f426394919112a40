CONSTANTS
    Files <- AllFiles
    CoreCount = 2
    Specs <- SomeSpecs
    UserLines <- ByHand
    MaxUserOps = 2
    MaxCrashes = 1
SPECIFICATION FairSpec
INVARIANTS
    ConvergedAtRest
PROPERTIES
    EventuallyConverged
    UpdateIsFinal
    UserParametersKept
CHECK_DEADLOCK FALSE
