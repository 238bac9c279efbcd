SPECIFICATION Spec
CONSTANTS
    Controllers <- OneController
    Directions <- OneWay
    Speeds <- OneSpeed
    MaxThreads = 1
    Faults <- NoFaults
    Patient = TRUE
INVARIANTS
    ClosedMeansStopped
