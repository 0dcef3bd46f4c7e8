SPECIFICATION ProjectsSpec
CONSTANTS
  NP = 2
  PageSize = 2
  Chars = {0, 1}
  MaxSize = 3
  MaxFiles = 2
  Dirs = {"/bin", "/usr"}
  InDirs = {"/usr"}
  MaxArgs = 2
  MaxLines = 2
  MaxCommands = 2
  NPROC = 4
  MaxSpaces = 3
  MaxChars = 3
  MaxExecs = 4
  Digits = {48, 57, 10, 0, 127, 128, 255}
  MaxText = 3
  BUFFSIZE = 2
  Bytes = {0, 1, 2}
  MaxFile = 3
INVARIANTS WorkInOrder OutputIsRle SpacesKept ExitsNoticed OrphansAreThreads OutputInOrder ChecksumsRight
PROPERTY ProjectsEnd
CHECK_DEADLOCK FALSE
