\* Two threads flush one change; no restart is needed.
SPECIFICATION Spec
CONSTANTS
  Tasks = {1, 2}
  NPages = 2
  MaxUpdates = 1
  MaxCrashes = 0
INVARIANT BakWriteAccepted
CHECK_DEADLOCK FALSE
