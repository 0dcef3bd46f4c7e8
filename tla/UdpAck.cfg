SPECIFICATION Spec
CONSTANTS
  SMALL_BUFFER_SIZE = 5
  MaxLost = 0
  MaxEarly = 0
INVARIANT AckMeansReceived
CHECK_DEADLOCK FALSE
