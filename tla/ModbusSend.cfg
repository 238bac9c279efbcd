SPECIFICATION FairSpec
CONSTANTS
    Senders <- MCSenders
    Directions <- MCDirections
    Args <- MCArgs
    MaxThreads = 2
    Faults <- MCFaults
    CallsOf <- MCCallsOf
INVARIANTS
    TypeOK
    CallState
    FailedMeansUntouched
PROPERTIES
    MotionIsAsAsked
    ImplementsMotorOrder
    CallsReturn
