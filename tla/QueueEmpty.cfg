SPECIFICATION Spec
CONSTANTS
  Threads = {t1, t2}
  MaxNodes = 4
  MaxEnqueued = 3
PROPERTY EmptyMeansEmpty
CHECK_DEADLOCK FALSE
