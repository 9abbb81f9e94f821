CONSTANTS
  wifi = wifi
  mqtt = mqtt
  ha = ha
  Modules <- MCModules
  MaxReqs = 4
SPECIFICATION Spec
INVARIANTS
  RequiredRunFirst
  FailsOnlyIfUnsound
  SearchInv
PROPERTY SetupEnds
CHECK_DEADLOCK FALSE
