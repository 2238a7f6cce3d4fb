\* Any three events of a boot, in any order.
SPECIFICATION FairSpec
CONSTANTS
  Frames <- MCFrames
  EarSide = "left"
  MaxEvents = 3
INVARIANTS
  TypeOK
  QuietAgreement
  FrameIntact
PROPERTIES
  DebouncedByLatest
  StaysInStep
  Settles
CHECK_DEADLOCK FALSE
