CONSTANTS
  a = a
  p1 = p1
  None = None
  Modulus = 12
  Capacity = 3
  Thunks <- MCThunks
  Ids = {200}
  Horizon = 2
  Lateness = 2
  IsrThunks <- MCIsrThunks
  MaxEdges = 2
  MaxOneShots = 1
SPECIFICATION Spec
INVARIANTS
  RequestsHonoured
PROPERTIES
  RunsInTimeOrder
  LoopReturns
  OneShotsRun
  InterruptServed
