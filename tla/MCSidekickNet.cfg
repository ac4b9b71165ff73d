SPECIFICATION FairSpec
CONSTANTS
  Types = {crt}
  CartTypes = {crt}
  Keys = {k1}
  NoKey = none
  Timeouts = {1}
  NoFile = noFile
  Page = page
  Local = local
  Garbage = garbage
  UseWLAN = TRUE
  prg = prg
  crt = crt
  k1 = k1
  none = none
  noFile = noFile
  page = page
  local = local
  garbage = garbage
CHECK_DEADLOCK FALSE
INVARIANTS TypeOK
PROPERTIES SoloPayload UserKeyKept RequestsEnd
