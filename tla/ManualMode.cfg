SPECIFICATION FairSpec
CONSTANTS
    Controllers <- OneController
    Directions <- BothWays
    Speeds <- TwoSpeeds
    MaxThreads = 1
    Faults <- NoFaults
    Patient = TRUE
INVARIANTS
    TypeOK
    ControllerKnowsMotion
PROPERTIES
    ReversesThroughStop
    ZeroStops
    ControllersRunDown
