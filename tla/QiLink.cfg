CONSTANTS
  MaxData = 32
  RingSize = 4
  Scripts <- MCScripts
  Noise <- MCNoise
  MaxFaults = 2
SPECIFICATION FairSpec
INVARIANTS
  Transparent
  LossBounded
PROPERTIES
  Recovers
