SPECIFICATION Spec
CONSTANTS
  Page = 3
  MemSize = 34
  SplitAddr = 23
  StageAddr = 7
  SystemTop = 7
  IOBase = 26
  IO1Base = 26
  IO2Base = 29
  IOEnd = 30
  U32 = 128
  Programs <- MCPrograms
  GeoPages = 2
  DMACycles = 2
  MaxResets = 1
  MaxPresses = 1
  MaxWrites = 1
INVARIANTS TypeOK ProgramWhole GeoRAMSaved
PROPERTIES NobodyWaits
CHECK_DEADLOCK FALSE
