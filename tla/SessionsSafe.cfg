SPECIFICATION FairSpec
CONSTANTS
    a = a  b = b  bot = bot  a1 = a1  a2 = a2  b1 = b1  k1 = k1
    None = None
    Conn = {a1, a2, b1, k1}
    User <- MCUser
    UserOf <- MCUserOf
    Bot = bot
    MaxCall = 2
    Sharers = {}
    Limit = 2
    ForceEnd = FALSE
    Batching = TRUE
    MaxFaults = 0
    MaxCrashes = 1
INVARIANTS
    LastLeaverEndsCall
    HostIsInCall
    
PROPERTIES
    EmptyCallEnds
    
CHECK_DEADLOCK FALSE
