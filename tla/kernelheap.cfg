CONSTANTS
  Cubicles = {app, lwip}
  UKALLOC = ukalloc
  FirstPage = 8
  LastPage = 17
  Sizes <- MCSizes
  Aligns <- MCAligns
  MaxBlocks = 3
  FREELIST_SIZE = 3
  NoPage = NoPage
  Words = {0, 1}
SPECIFICATION Spec
INVARIANTS KHeapTypeOK HeadersIntact FreePagesReturned BlockMovesWhole HooksReturn FreeListsSound FullyMerged AssertionsHold PallocAnswersFreePages
PROPERTY IsAllocator
CHECK_DEADLOCK FALSE
SYMMETRY CubicleSymmetry
