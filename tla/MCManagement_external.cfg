CONSTANTS
    Specs <- OutsideSpecs
    Faulty = {}
    MaxUserOps = 0
    MaxFaults = 0
    MaxCrashes = 0
SPECIFICATION FairSpec
PROPERTY ExternalMongoServes
CHECK_DEADLOCK FALSE
