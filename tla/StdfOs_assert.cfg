\* One sender and one canceller racing with the timer.
SPECIFICATION Spec
CONSTANTS
  Keys = {k1, k2}
  MaxNum = 2
  MailMax = 2
  MaxDelay = 2
  MaxSends = 2
  MaxNow = 4
  ClockMod = 1000
SYMMETRY KeySymmetry
INVARIANT LatestIndexAssertion
CHECK_DEADLOCK FALSE
