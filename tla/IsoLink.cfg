SPECIFICATION FairSpec
CONSTANTS
  Kinds <- MCKinds
  Req <- MCReq
  Ans <- MCAns
  Resets <- MCResets
  SnMod = 3
  MaxAsks = 3
  MaxFaults = 2
  MaxHasty = 1
  MaxQueue = 12
INVARIANTS
  RequestsIntact
  AnswersCurrent
  SentInSequence
PROPERTY
  SlotDrains
CHECK_DEADLOCK FALSE
