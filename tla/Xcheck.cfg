SPECIFICATION Spec
CONSTANTS
  ninodes = 5
  DataStart = 3
  FSSIZE = 9
  NBMAP = 8
  ByteBits = 2
  DirEnts = 5
  Images <- MCImages
INVARIANTS AcceptedIsSound RejectedIsFaulty RepairSticks
CHECK_DEADLOCK FALSE
