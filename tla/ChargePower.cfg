SPECIFICATION FairSpec
CONSTANTS
  Levels = {w10, w15}
  HostLevels = {w10, w15}
  DefaultLevel = w10
  FactoryLevel = w15
  Blank = blank
  CountMod = 2
  MaxFaults = 1
INVARIANTS
  Durable
  DisableSticks
  ChipFollowsLevel
PROPERTIES
  LevelReaches
