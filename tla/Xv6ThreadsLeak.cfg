SPECIFICATION Spec
CONSTANTS
  NPROC = 4
  MaxSpaces = 3
INVARIANT LastReferenceFreed
