CONSTANTS
  a = a
  b = b
  Modulus = 12
  Capacity = 3
  Thunks <- MCThunks
  Ids = {200, 201}
  Horizon = 2
  Lateness = 2
SPECIFICATION Spec
SYMMETRY MCSymmetry
INVARIANTS
  TypeInv
  UniqueIds
  Sorted
  InWindow
PROPERTY EvictsOnlyLatest
