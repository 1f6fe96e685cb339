SPECIFICATION VmSpec
CONSTANTS
  Sources = {1, 2}
  Priority <- MCPriority
  Thresholds = {0, 1}
  MaxTime = 1
  Insns <- AnyExit
INVARIANTS
  GuestRunsReady
  OnlyUnsupportedStops
  OwedIffEnabled
  LineMatchesClaim
  GuestSeesInService
  DeliveredOneAtATime
PROPERTIES
  ImplementsPlic
  ImplementsGuestTimer
  ExitsEnd
  IrqClaimed
  PendingIsServed
  ServedIsCompleted
  GuestGoesOn
CHECK_DEADLOCK FALSE
