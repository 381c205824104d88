SPECIFICATION Spec
CONSTANTS
  Hz = 10
  Distance <- MCDistance
  Frames = 2
  Replays = 2
INVARIANT AtMostOneAfterStop
PROPERTY NoLeap
CHECK_DEADLOCK FALSE
