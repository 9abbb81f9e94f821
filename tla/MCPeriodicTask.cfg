CONSTANTS
  Modulus = 16
  Capacity = 3
  Thunks <- MCThunks
  Ids = {200}
  Id = 200
  Horizon = 3
  Lateness = 3
  InitialDelay = 1
  Period = 2
  MaxOneShots = 1
  MaxMoves = 1
SPECIFICATION Spec
INVARIANTS
  OneRunQueued
PROPERTIES
  NextRunWithinPeriod
  RunsForEver
