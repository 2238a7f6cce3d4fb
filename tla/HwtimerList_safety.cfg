\* Three timers, one of them without a callback, three starts of up to four ticks, a handler up to two ticks late.
SPECIFICATION FairSpec
CONSTANTS
  Num = 3
  Silent = {2}
  MaxTicks = 4
  MaxStarts = 3
  MaxLate = 2
INVARIANTS
  TypeOK
  ListsAgree
  OnSchedule
  HardwareFollows
PROPERTIES
  TimersEnd
  ImplementsTimers
