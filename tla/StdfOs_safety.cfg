\* Two slots and two mails for three messages: both fill up.
SPECIFICATION FairSpec
CONSTANTS
  Keys = {k1, k2}
  MaxNum = 2
  MailMax = 2
  MaxDelay = 2
  MaxSends = 3
  MaxNow = 4
  ClockMod = 1000
INVARIANTS
  TypeOK
  NoStrandedEntry
  LatestIsEarliest
  TimerNotLate
  ExactlyOnePlace
PROPERTIES
  DelayEnds
  ImplementsService
CHECK_DEADLOCK FALSE
