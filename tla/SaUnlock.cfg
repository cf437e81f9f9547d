SPECIFICATION Spec
CONSTANTS
  NChunks = 3
  SeqMax = 7
  MaxFails = 3
  Attempts = 3
  Tries = 3
  MaxStarts = 2
  MaxLost = 4
  MaxHasty = 2
INVARIANTS
  NoSeedInLockout
  HonestNeverRefused
  ChunkLossAbsorbed
  LossesSurvived
  UnlockIsTrue
CHECK_DEADLOCK FALSE
