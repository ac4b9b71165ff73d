SPECIFICATION Spec
CONSTANTS
  WithNet = TRUE
  NumDMACycles = 2
  MaxBurst = 1
  Keys = {k1}
  NoKey = none
  Contents = {p}
  Cells = 1
  Junk = openBus
  KernalWire = FALSE
  SIDWire = FALSE
  k1 = k1
  k2 = k2
  p = p
  q = q
  none = none
  openBus = openBus
INVARIANTS Halting RefreshInOrder
