CONSTANTS
    Specs <- ScaledSpecs
    Faulty = {}
    MaxUserOps = 1
    MaxFaults = 0
    MaxCrashes = 0
SPECIFICATION Spec
INVARIANT RestartsTakeEffect
CHECK_DEADLOCK FALSE
