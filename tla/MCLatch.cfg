SPECIFICATION LatchSpec
CONSTANTS
  Slots = 7
  Frames <- MCFrames
  OLED = OLED
  TFT = TFT
  MaxFrames = 2
  MaxSets = 1
CHECK_DEADLOCK FALSE
INVARIANTS LatchTypeOK
PROPERTIES FramesGetOutput
