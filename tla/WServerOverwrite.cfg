SPECIFICATION Spec
CONSTANTS
  Pools = {{w1, w2}}
  MaxBuffers = 2
  SchedAlgs = {"FIFO"}
  MaxConns = 4
  MaxFds = 4
  Sizes = {1}
  HeapFds = {0}
PROPERTY SlotSynchronised
