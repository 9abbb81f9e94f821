CONSTANTS
  a = a
  NullThunk = NullThunk
  Modulus = 8
  Capacity = 3
  Thunks <- MCThunks
  Ids = {200}
  Horizon = 1
  Lateness = 1
SPECIFICATION Spec
INVARIANTS
  TypeInv
  NoNodeLeaked
  ReadsBothWays
PROPERTY ImplementsTimedQueue
