SPECIFICATION LocksSpec
CONSTANTS
  Readers = {r1, r2, r3}
  Writers = {w1, w2}
  LockThreads = {t1, t2, t3}
  Width = 2
INVARIANTS WriterAlone InTicketOrder
PROPERTIES ImplementsRWLock ImplementsFairRWLock TicketsAreMutex
CHECK_DEADLOCK FALSE
