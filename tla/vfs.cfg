SPECIFICATION Spec
CONSTANTS
  Names = {"a", "d"}
  Nodes = {1, 2, 3, 4}
  Bufs = {}
  HEAP_MAX = 2
  Dentries = {1, 2, 3, 4}
  Vnodes = {1, 2, 3, 4}
  Files = {f1, f2}
  FDs = {3, 4}
  Paths <- MCPaths
  Ends = {}
  Lengths = {0}
  MaxOpens = 2
  MaxCount = 2
INVARIANTS
  ReferencesCounted
  FilesCounted
  CacheCoherent
  UnlinkedOnce
SYMMETRY Addresses
CHECK_DEADLOCK FALSE
