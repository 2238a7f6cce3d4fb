\* One-cell sectors: progress does not depend on how far a step got.
SPECIFICATION FairSpec
CONSTANTS
  Modules = {0, 1}
  Sectors = {0, 1}
  Cells = {0}
  Bits = {1}
  InUse = {0}
  EraseLens = {1}
  OpraLen = 3
  BuffLen = 1
  MaxOps = 4
PROPERTY Drains
CHECK_DEADLOCK FALSE
