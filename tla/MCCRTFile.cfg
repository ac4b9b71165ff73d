SPECIFICATION Spec
CONSTANTS
  NumBanks = 2
  Shapes <- MCShapes
  MaxPackets = 2
  MaxWrites = 2
  MaxLosses = 1
CHECK_DEADLOCK FALSE
INVARIANTS TypeOK FlashIsImage FileIsWhole
