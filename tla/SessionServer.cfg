SPECIFICATION FairSpec
CONSTANTS
    Drives <- TwoDrives
    Inputs <- AllInputs
    MaxPipeline = 1
    Pipelining = FALSE
    UploadMayFail = TRUE
    UploadMayLie = FALSE
INVARIANTS
    TypeOK
    ConnectionHandle
    NoMisuse
    ModesNeedTheDrive
    NoClientNoDrive
    RequestState
PROPERTIES
    ManualModeEndsInAStop
    ImplementsProtocol
    ClientGoneDriveReleased
    RequestsAreAnswered
CHECK_DEADLOCK FALSE
