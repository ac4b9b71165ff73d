SPECIFICATION FreezerSpec
CONSTANTS
  MaxUserResets = 1
CHECK_DEADLOCK FALSE
INVARIANTS FreezerTypeOK MemoryServed
PROPERTIES FreezesOnPress
