\* All gestures but the long long press, which is sent and cancelled with the long one; delays in ticks of about half a second; three presses.
SPECIFICATION Spec
CONSTANTS
  Mask = {"single", "double", "triple", "long", "continuous"}
  MultTime = 2
  LongTime = 3
  LongLongTime = 4
  ContTime = 1
  MaxEdges = 6
INVARIANTS TypeOK HoldEnds KeyFollowed
PROPERTY OnePressOneGesture
CHECK_DEADLOCK FALSE
