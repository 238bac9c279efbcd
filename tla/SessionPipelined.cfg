SPECIFICATION Spec
CONSTANTS
    Drives <- OneDrive
    Inputs <- PipelinedInputs
    MaxPipeline = 2
    Pipelining = TRUE
    UploadMayFail = FALSE
    UploadMayLie = FALSE
PROPERTIES
    RejectedClientIsCutOff
    RunsNoOtherMove
    GoneClientRunsOut
CHECK_DEADLOCK FALSE
