\* Power losses anywhere, any host, up to one failing flash operation.
CONSTANTS
  old = old
  new = new
  forged = forged
  odd = odd
  Images <- MCAllImages
  Size <- MCAllSize
  CrcOk <- MCAllImages
  Signed <- MCAllSigned
  Jumpable <- MCImages
  Factory = old
  NUnits = 2
  MaxFaults = 1
  BscMod = 3
  None = None
  Nack = Nack
  Erased = Erased
  Torn = Torn
  Bad = Bad
SPECIFICATION FairSpec
INVARIANTS
  Inv
  Recoverable
  SafeModeJustified
  AckDurable
  AckedRuns
  OnlySignedRuns
PROPERTIES
  ImplementsUpgrade
  AppRewrittenFromStaged
  BootEnds
  AckedActivates
