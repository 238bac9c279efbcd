SPECIFICATION Spec
CONSTANTS
    Parameters <- MoveParameters
    Value <- Values
    Losable = {}
    Segment <- Segments
    Moves <- AnyMoves
    MaxSegments = 2
    OtherBits <- Status
    Faults <- NoFaults
    Again = FALSE
INVARIANTS
    AcceptedMeansLoaded
