SPECIFICATION Spec
CONSTANTS
  Hz = 10
  Distance <- MCDistance
  Frames = 2
  Replays = 1
INVARIANT StopNotLost
CHECK_DEADLOCK FALSE
