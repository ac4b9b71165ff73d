SPECIFICATION Spec
CONSTANTS
  NetDelay = 1
  FollowUpDelay = 1
  DMADelay = 1
  NMIDelay = 2
  NMILow = 1
  UseWLAN = FALSE
  Scripts <- MCScripts
  MaxRemote = 1
  MaxDisturbances = 1
CHECK_DEADLOCK FALSE
INVARIANTS TypeOK StreamsInOrder
PROPERTIES NobodyWaits
