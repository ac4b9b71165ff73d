SPECIFICATION Spec
CONSTANTS
  RingSize = 3
  MaxChunk = 3
  ShortReset = 1
  MenuReset = 2
  MenuCycles = 3
  MaxCycles = 5
  MaxWrites = 3
  MaxResets = 1
CHECK_DEADLOCK FALSE
INVARIANTS TypeOK
PROPERTIES PlaysAtTheirCycle NothingPends
