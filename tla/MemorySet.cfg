SPECIFICATION MsSpec
CONSTANTS
  ekernel = 4096
  MEMORY_END = 36864
  Fanout = 2
  Areas <- MCAreas
INVARIANTS
  OwnersDisjoint
  MapsTheAreas
  FramedBacked
  DataInPlace
  UnmapNeverPanics
PROPERTIES
  ImplementsSpace
  OperationsEnd
CHECK_DEADLOCK FALSE
