SPECIFICATION FairSpec
CONSTANTS
  phone = phone
  mac = mac
  Operator = {phone, mac}
  None = None
  Top = 2
  RetreatTicks = 1
INVARIANTS HoldStaysPut StateTellsTorque
PROPERTIES ModesImplemented UnattendedStops
CHECK_DEADLOCK FALSE
