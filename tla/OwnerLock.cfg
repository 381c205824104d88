SPECIFICATION Spec
CONSTANTS
  Proc = {p1, p2, p3}
  Device <- MCDevice
  Free = Free
  Blank = Blank
INVARIANTS NothingKept SomeoneWins
PROPERTY GrantsImplemented
CHECK_DEADLOCK FALSE
