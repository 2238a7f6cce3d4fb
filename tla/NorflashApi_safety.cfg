\* Three list nodes and one write buffer for four requests: both run out.
SPECIFICATION Spec
CONSTANTS
  Modules = {0, 1}
  Sectors = {0, 1}
  Cells = {0, 1}
  Bits = {1}
  InUse = {0}
  EraseLens = {1}
  OpraLen = 3
  BuffLen = 1
  MaxOps = 4
INVARIANTS
  TypeOK
  OneInFlight
  PendingAddsUp
  ReadYourWrites
PROPERTY InFlightUntouched
CHECK_DEADLOCK FALSE
