CONSTANTS
  HaveEssid = TRUE
  AutoReconnect = TRUE
  Refusable = {"event", "task", "check"}
  MaxEvents = 3
  MdnsRoom = 2
SPECIFICATION WifiMdnsSpec
INVARIANTS
  WifiMdnsTypeInv
  ViewMatchesLink
  MdnsKeepsTrying
PROPERTY RecoversByItself
CHECK_DEADLOCK FALSE
