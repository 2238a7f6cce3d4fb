\* Two threads, two pages, two changes, one of which may be a rebuild, and one
\* restart.
SPECIFICATION FairSpec
CONSTANTS
  Tasks = {1, 2}
  NPages = 2
  MaxUpdates = 2
  MaxCrashes = 1
INVARIANTS
  TypeOK
  NoRollback
  RestMeansSaved
  CleanWrites
PROPERTY ComesToRest
CHECK_DEADLOCK FALSE
