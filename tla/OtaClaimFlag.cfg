\* A power loss while the bootloader repairs the metadata.
CONSTANTS
  old = old
  new = new
  forged = forged
  odd = odd
  Images <- MCImages
  Size <- MCSize
  CrcOk <- MCImages
  Signed <- MCSigned
  Jumpable <- MCImages
  Factory = old
  NUnits = 3
  MaxFaults = 0
  BscMod = 3
  None = None
  Nack = Nack
  Erased = Erased
  Torn = Torn
  Bad = Bad
SPECIFICATION Spec
PROPERTIES
  InterruptionKeepsFlag
