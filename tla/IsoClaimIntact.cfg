SPECIFICATION Spec
CONSTANTS
  Kinds <- MCKinds
  Req <- MCReq
  Ans <- MCAns
  Resets <- MCResets
  SnMod = 3
  MaxAsks = 2
  MaxFaults = 1
  MaxHasty = 0
  MaxQueue = 8
INVARIANT
  AnswersIntact
CHECK_DEADLOCK FALSE
