SPECIFICATION Spec
CONSTANTS
  Pages = {1, 2, 3, 4}
  HEAP_MAX = 3
  MaxFrames = 3
  TapQueue = 2
  Long = {2}
INVARIANTS
  NetTypeOK
  HoldersReach
  WindowsLeft
  StopsOnlyWhenExhausted
PROPERTIES
  
  FramesAreTaken
CHECK_DEADLOCK FALSE
