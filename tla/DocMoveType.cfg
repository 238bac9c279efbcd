SPECIFICATION Spec
CONSTANTS
    Drives <- TwoDrives
    Inputs <- AllInputs
    MaxPipeline = 1
    Pipelining = FALSE
    UploadMayFail = TRUE
    UploadMayLie = FALSE
INVARIANTS
    TypeIsWhatIsLoaded
CHECK_DEADLOCK FALSE
