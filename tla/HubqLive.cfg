SPECIFICATION FairSpec
CONSTANTS
  tele = tele
  desk = desk
  pol = pol
  right = right
  f = f
  g = g
  Job = {tele, pol}
  Device = {f}
  KindOf <- MCKindOf
  Needs <- MCNeeds
  LimitedJob = {tele}
  KillJob = {pol}
  MobileJob = {tele}
  Client = {client}
  Expirer = Expirer
  Nobody = Nobody
  Free = Free
  Other = Other
  Limit = 2
  MobileLimit = 1
  Grace = 1
  Faults = {"crash", "record"}
PROPERTIES DevicesComeBack ExpiredIsStopped StopKills PhoneLossStops
CHECK_DEADLOCK FALSE
