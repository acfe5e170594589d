SPECIFICATION FairSpec
CONSTANTS
    MaxJob = 3
    Transcribing = TRUE
    Captioning = TRUE
    RunsFailed = TRUE
    MaxReconnects = 1
    MaxFaults = 1
INVARIANTS
    OneJobPerType
    StartedJobHasBot
PROPERTIES
    EndedJobStays
    
    LonelyBotsLeave
CHECK_DEADLOCK FALSE
