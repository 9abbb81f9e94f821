CONSTANTS
  Modulus = 10
  Capacity = 3
  Thunks <- MCThunks
  Ids = {}
  Horizon = 2
  Lateness = 1
  OnLevel = "kHigh"
  Callbacks = {"quiet"}
  AgainMsec = 1
  OffInDelays = {}
  MaxTimers = 2
  MaxOneShots = 1
SPECIFICATION Spec
PROPERTY OnForTheTimeAsked
