SPECIFICATION Spec
CONSTANTS
    Drives <- OneDrive
    Inputs <- PipelinedInputs
    MaxPipeline = 2
    Pipelining = TRUE
    UploadMayFail = TRUE
    UploadMayLie = TRUE
PROPERTIES
    HoldMoveStops
CHECK_DEADLOCK FALSE
