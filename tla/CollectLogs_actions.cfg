CONSTANTS
    Nodes = {n1}
    MaxRequests = 2
    MaxMishaps = 1
SPECIFICATION Spec
INVARIANTS
    TypeOK
    PendingIsExplained
    TasksAreForgotten
PROPERTIES
    WaitedMeansCollected
    RemovedMeansCollected
    NewRequestsSurvive
CHECK_DEADLOCK FALSE
