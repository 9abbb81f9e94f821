CONSTANTS
  Modulus = 10
  Capacity = 4
  Thunks <- MCThunks
  Ids = {}
  Horizon = 2
  Lateness = 1
  OnLevel = "kHigh"
  Callbacks = {"quiet", "again"}
  AgainMsec = 1
  OffInDelays = {0, 1, 2}
  MaxTimers = 2
  MaxOneShots = 1
SPECIFICATION Spec
INVARIANTS
  OffTimerQueued
PROPERTY TimedOnEnds
