CONSTANTS
  NChunks = 3
  SeqMod = 3
  MaxNoise = 2
  MaxAttempts = 1
  Kinds <- MCToolOnly
SPECIFICATION Spec
INVARIANT AckedMeansTaken
