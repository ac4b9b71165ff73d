SPECIFICATION FairSpec
CONSTANTS
  WithNet = FALSE
  NumDMACycles = 3
  MaxBurst = 2
  Keys <- MCKeys
  NoKey = none
  Contents <- MCContents
  Cells = 2
  Junk = openBus
  KernalWire = TRUE
  SIDWire = TRUE
  k1 = k1
  k2 = k2
  p = p
  q = q
  none = none
  openBus = openBus
INVARIANTS TypeOK NoKeyLost NeverJammed
PROPERTIES ServesMenu KeysHandledOnce WiresDetected NobodyWaits
