\* Two delayed messages due together are enough.
SPECIFICATION Spec
CONSTANTS
  Keys = {k1, k2}
  MaxNum = 2
  MailMax = 2
  MaxDelay = 2
  MaxSends = 2
  MaxNow = 4
  ClockMod = 1000
SYMMETRY KeySymmetry
INVARIANT NoneDiscarded
CHECK_DEADLOCK FALSE
