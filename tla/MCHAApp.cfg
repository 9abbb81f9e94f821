CONSTANTS
  HaveEssid = TRUE
  AutoReconnect = TRUE
  Refusable = {"event"}
  MaxEvents = 1
  Room = 2
  Entries = 2
  Commands <- CommandEntries
  MaxSends = 1
  MaxListeners = 1
SPECIFICATION NetSpec
INVARIANTS
  NetTypeInv
  DiscoveryGoesOn
PROPERTIES
  ComesBackOnline
  DiscoveryCompletes
CHECK_DEADLOCK FALSE
