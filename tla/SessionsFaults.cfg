SPECIFICATION Spec
CONSTANTS
    a = a  b = b  bot = bot  a1 = a1  a2 = a2  b1 = b1  k1 = k1
    None = None
    Conn = {a1, b1}
    User <- MCUser
    UserOf <- MCUserOf
    Bot = bot
    MaxCall = 2
    Sharers = {a1}
    Limit = 0
    ForceEnd = TRUE
    Batching = FALSE
    MaxFaults = 1
    MaxCrashes = 1
INVARIANTS
    OneActiveCall
    ServedSessionInActiveCall
    ParticipantsComplete
PROPERTIES
    NeverReopened
CHECK_DEADLOCK FALSE
