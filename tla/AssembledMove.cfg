SPECIFICATION Spec
CONSTANTS
    Parameters <- MoveParameters
    Value <- Values
    Losable = {"speed"}
    Segment <- Segments
    Moves <- DocumentedMoves
    MaxSegments = 3
    OtherBits <- Status
    Faults <- Tolerated
    Again = FALSE
INVARIANTS
    TypeOK
    UploadState
    ToldIsLoaded
PROPERTIES
    ImplementsUpload
