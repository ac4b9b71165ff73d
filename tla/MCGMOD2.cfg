SPECIFICATION GMOD2Spec
CONSTANTS
  AddressBits = 3
  WordBits = 2
  Calls <- MCCalls
  MaxCalls = 3
  MaxDisturbances = 1
CHECK_DEADLOCK FALSE
INVARIANTS GMOD2TypeOK CallsHaveEffect SavedForMenu
PROPERTIES EverythingEnds
