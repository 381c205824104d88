SPECIFICATION FairSpec
CONSTANTS
  None = None
  Episodes = 2
  Ticks = 2
  MaxFailures = 2
  Earlier = 1
INVARIANTS BrokenIsDiscarded AbortDiscards ReportedIsSaved EpisodesAccounted
PROPERTY DeadBusEnds
CHECK_DEADLOCK FALSE
