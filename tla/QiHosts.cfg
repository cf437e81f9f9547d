CONSTANTS
  NChunks = 3
  SeqMod = 3
  MaxNoise = 2
  MaxAttempts = 2
  Kinds <- MCKinds
SPECIFICATION FairSpec
INVARIANTS
  PowerHeld
  ChunksInPlace
  RefusalsMatch
  PassedWhole
PROPERTIES
  PowerReleased
  DeferredAnswered
