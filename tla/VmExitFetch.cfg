SPECIFICATION VmSpec
CONSTANTS
  Sources = {1, 2}
  Priority <- MCPriority
  Thresholds = {0, 1}
  MaxTime = 1
  Insns <- AnyExit
PROPERTIES
  FetchFaultReported
CHECK_DEADLOCK FALSE
