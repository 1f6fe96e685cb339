SPECIFICATION RootSpec
CONSTANTS
  ekernel = 20580
  MEMORY_END = 54000
INVARIANTS
  FramesConserved
  DropNeverPanics
  FramesInBounds
  RootContiguousAtBoot
PROPERTY
  ImplementsPool
CHECK_DEADLOCK FALSE
