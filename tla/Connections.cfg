SPECIFICATION ConnsFairSpec
CONSTANTS
  h = h
  o = o
  Node = {h, o}
  Handler = h
  MaxComebacks = 2
INVARIANTS ConnsTypeOK  SignalsArrive
PROPERTIES OutIsRemoved
CHECK_DEADLOCK FALSE
