SPECIFICATION PlicSafety
CONSTANTS
  Sources <- MCSources
  Priority <- MCPriority
  Thresholds = {0, 1, 2, 3}
INVARIANTS
  ClaimedIsDelivered
