SPECIFICATION Spec
CONSTANTS
    a = a  b = b  bot = bot  a1 = a1  a2 = a2  b1 = b1  k1 = k1
    None = None
    Conn = {a1, b1}
    User <- MCUser
    UserOf <- MCUserOf
    Bot = bot
    MaxCall = 2
    Sharers = {a1}
    Limit = 0
    ForceEnd = FALSE
    Batching = TRUE
    MaxFaults = 1
    MaxCrashes = 0
INVARIANTS
    OneActiveCall
CHECK_DEADLOCK FALSE
