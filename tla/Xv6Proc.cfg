CONSTANTS
  CPUs = {c0, c1}
  Free = Free
  NPROC = 3
  MaxPid = 3
  MaxSleep = 1
  MaxTickets = 2
SPECIFICATION Spec
INVARIANTS RunsOnce FamilyKept WakeupsKept
PROPERTY LockPassedOn
