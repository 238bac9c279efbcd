SPECIFICATION Spec
CONSTANTS
    Senders <- MCSenders
    Directions <- MCDirections
    Args <- MCArgs
    MaxThreads = 2
    Faults <- MCFaults
    CallsOf <- MCCallsOf
INVARIANTS
    SuccessMeansAllWritten
