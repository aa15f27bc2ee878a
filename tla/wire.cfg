SPECIFICATION Spec
CONSTANTS
  maxFrameSize = 12
  FrameChanCap = 1
  Messages <- MCMessages
  Singles <- MCSingles
  Noise = {126, 125, 26, 24, 17}
  MaxSent = 3
  MaxDamage = 1
INVARIANTS WireTypeOK NothingForged SafeArrive
CHECK_DEADLOCK FALSE
