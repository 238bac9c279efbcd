SPECIFICATION FairSpec
CONSTANTS
    Controllers <- TwoControllers
    Directions <- OneWay
    Speeds <- OneSpeed
    MaxThreads = 1
    Faults <- ThreadFaults
    Patient = FALSE
PROPERTIES
    ControllersEnd
    OnlyStraysMove
