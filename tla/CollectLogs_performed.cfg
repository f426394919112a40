CONSTANTS
    Nodes = {}
    MaxRequests = 1
    MaxMishaps = 0
SPECIFICATION FairSpec
PROPERTIES
    ListedActionsArePerformed
CHECK_DEADLOCK FALSE
