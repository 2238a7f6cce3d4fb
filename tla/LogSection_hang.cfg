\* One boot, full buffers and a crash.
SPECIFICATION FairSpec
CONSTANTS
  Buffers = 2
  Sectors = 3
  SectorSize = 3
  QueueLen = 3
  MaxSeq = 3
  MaxBoots = 1
PROPERTIES
  CrashFlushAlwaysEnds
CHECK_DEADLOCK FALSE
