CONSTANTS
  Versions = {v1, v2}
  None = None
  Torn = Torn
  MaxFrames = 2
  MaxUpgrades = 2
  MaxTorn = 1
SPECIFICATION Spec
INVARIANTS
  VersionTrue
  PageKept
  Sparing
