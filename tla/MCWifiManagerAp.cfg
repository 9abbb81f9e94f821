CONSTANTS
  HaveEssid = TRUE
  AutoReconnect = TRUE
  Refusable = {}
  MaxEvents = 3
  MdnsRoom = 1
SPECIFICATION WifiMdnsSpec
PROPERTY FallsBackToAp
CHECK_DEADLOCK FALSE
