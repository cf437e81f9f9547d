SPECIFICATION Spec
CONSTANTS
  Rounds = 3
  Tries = 2
  MaxLost = 3
  Delay = 1
  Period = 2
  RxLimit = 2
  Idle = 6
  Long = 7
  Sends = 3
PROPERTIES
  SessionKept
CHECK_DEADLOCK FALSE
