SPECIFICATION FairSpec
CONSTANTS
  Chunk = 1
  Trials = 2
  Modes <- MCModes
  Caller = {c1}
  Restarts = 1
INVARIANTS HoldAfterBreak StopIsNotFailure AtMostOneAfterBreak PolicyStartsAligned
PROPERTIES SideLivesWithTrial RemoteStopEnds
CHECK_DEADLOCK FALSE
