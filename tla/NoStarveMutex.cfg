SPECIFICATION WeakSpec
CONSTANTS
  Workers = {w1, w2, w3}
  RoomLimit = 3
INVARIANTS TokenInv MutualExclusion RaceFree BoundedBypass
PROPERTY ImplementsMutex
