SPECIFICATION ZemSpec
CONSTANTS
  ZemThreads = {t1, t2, t3, t4}
  NoThread = none
  InitialValue = 1
  MaxValue = 2
INVARIANTS NoLostWakeup
PROPERTIES IsSemaphore UnitsAreTaken
