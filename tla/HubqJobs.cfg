SPECIFICATION Spec
CONSTANTS
  tele = tele
  desk = desk
  pol = pol
  right = right
  f = f
  g = g
  Job = {tele, pol, right}
  Device = {f, g}
  KindOf <- MCKindOf
  Needs <- MCNeeds
  LimitedJob = {tele}
  KillJob = {pol, right}
  MobileJob = {tele}
  Client = {client}
  Expirer = Expirer
  Nobody = Nobody
  Free = Free
  Other = Other
  Limit = 2
  MobileLimit = 1
  Grace = 1
  Faults = {"crash", "commit"}
INVARIANTS LiveChildOwnsDevices LiveJobsAreManaged
PROPERTY VerdictKept
CHECK_DEADLOCK FALSE
