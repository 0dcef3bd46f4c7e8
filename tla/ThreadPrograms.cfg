SPECIFICATION Spec
CONSTANTS
  BarrierThreads = {c1, c2, c3}
  BarrierRounds = 2
  MaxKills = 2
  MaxRuns = 3
  SavageThreads = {s1, s2, s3, s4}
  MaxPotSize = 3
  BarberCustomers = {c1, c2, c3, c4}
  BarberChairs = 2
  FifoCustomers = {d1, d2, d3, d4}
  FifoChairs = 3
  HilzersCustomers = {h1, h2, h3}
  HilzersUshers = {u1}
  HilzersBarbers = {b1, b2}
  HilzersCapacity = 2
  CounterThreads = {a1, a2, a3}
  NUMCPUS = 2
  MaxThreshold = 3
  Loops = 2
  ListThreads = {t1, t2}
  CoarseThreads = {c1, c2}
  ListKeys = {k1, k2}
  MaxNodes = 3
  MaxCoarseNodes = 3
  QueueThreads = {q1, q2, q3}
  MaxQueueNodes = 4
  MaxEnqueued = 3
  M = 4
  TreeKeys = {1, 2, 3, 4}
  Vals = {v1}
  MaxPuts = 12
INVARIANTS NobodyEarly HandshakesMatch EntriesValid NothingLost TreeIsSearchable
PROPERTIES ListsAreSets AllFinish
CHECK_DEADLOCK FALSE
