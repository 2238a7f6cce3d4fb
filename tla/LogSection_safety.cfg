\* Two buffers as in the code, three flash sectors, three boots.
SPECIFICATION FairSpec
CONSTANTS
  Buffers = 2
  Sectors = 3
  SectorSize = 3
  QueueLen = 3
  MaxSeq = 6
  MaxBoots = 3
INVARIANTS
  TypeOK
  SeqUnique
  CrashLogKept
PROPERTIES
  OldestErased
  CrashFlushEnds
  FullSectorLeaves
CHECK_DEADLOCK FALSE
