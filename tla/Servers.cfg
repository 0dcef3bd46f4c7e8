SPECIFICATION ServerSpec
CONSTANTS
  Pools = {{w1}, {w1, w2}}
  MaxBuffers = 2
  SchedAlgs = {"FIFO", "SFF"}
  MaxConns = 3
  MaxFds = 2
  Sizes = {1, 2}
  HeapFds = {0, 3}
  CgiWorkers = {v1, v2, v3}
  CgiPids = {p1, p2, p3}
  LibeventClients = {c1, c2}
  SelectClients = {c1}
  CACHE_NUM = 2
  MaxRequests = 4
  MaxVersion = 2
  MaxResets = 1
  Clients = {c1, c2, c3}
  Files = {"a", "b"}
  Short = {"b"}
  NumReqs = 2
  SMALL_BUFFER_SIZE = 5
  MaxLost = 2
  MaxEarly = 1
INVARIANTS BufferRight Accounted RepliesRight
PROPERTIES AllServed ServersRest
CHECK_DEADLOCK FALSE
