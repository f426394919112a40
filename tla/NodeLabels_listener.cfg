CONSTANTS
    Nodes = {n1}
    ClusterInDefault = TRUE
    MaxLabelOps = 1
SPECIFICATION FairSpec
PROPERTIES
    UnlabelledNodesAreUninstalled
CHECK_DEADLOCK FALSE
