CONSTANTS
  ch_start = 272
  ch_size = 752
  Granularity = 256
  Requests = {24, 100, 250}
  Alignments = {64}
  MaxLive = 3
SPECIFICATION Spec
INVARIANTS TypeOK HeapTiled InUseIsHeld NeverAborts
PROPERTY IsAllocator
CHECK_DEADLOCK FALSE
