SPECIFICATION Spec
CONSTANTS
    MaxJob = 2
    Transcribing = FALSE
    Captioning = FALSE
    RunsFailed = FALSE
    MaxReconnects = 0
    MaxFaults = 0
INVARIANTS
    NoHiddenRecording
CHECK_DEADLOCK FALSE
