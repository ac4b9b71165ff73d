SPECIFICATION Spec
CONSTANTS
  NumBanks = 4
  SectorBanks = 2
  Packets <- MCPackets
  Contents = {3}
  Stale = {2}
  ProgramBanks = {0, 3}
  EraseBanks = {1, 2, 4}
  Values = {1}
  OffCount = 1
  NumDmaCycles = 2
  MaxCalls = 2
INVARIANTS TypeOK DriverInStep OnlyRacedWritesLost
PROPERTIES CommandHasEffect EverythingEnds
CHECK_DEADLOCK FALSE
