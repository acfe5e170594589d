SPECIFICATION ClientsSpec
CONSTANTS
  me = me
  phone = phone
  o1 = o1
  Nobody = Nobody
  Me = me
  Phone = phone
  Others = {o1}
  MaxCall = 2
  MaxOps = 5
  MaxFeed = 2
  DropCost = 3
  MaxTries = 3
  MaxConns = 3
  MaxVer = 4
INVARIANTS TypeOK  SoundHasTimer OneAttempt QuietQuitSaves
PROPERTIES RingStops SocketSettles NeverGoesBack ChangeIsSaved
CHECK_DEADLOCK FALSE
