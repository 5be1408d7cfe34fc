SPECIFICATION Spec
CONSTANTS
  Names = {"a", "d"}
  Nodes = {1, 2, 3, 4}
  Bufs = {b1, b2}
  HEAP_MAX = 2
  Dentries = {1, 2, 3, 4}
  Vnodes = {1, 2, 3, 4}
  Files = {f1}
  FDs = {3}
  Paths <- MCPaths
  Ends = {1, 3}
  Lengths = {0, 3}
  MaxOpens = 1
  MaxCount = 2
INVARIANTS
  VfsTypeOK
  
  BuffersDistinct
  
SYMMETRY Addresses
CHECK_DEADLOCK FALSE
