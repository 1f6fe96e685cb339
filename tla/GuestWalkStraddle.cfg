SPECIFICATION WalkSpec
CONSTANTS
  Fanout = 2
  PageSize = 4
  Ram <- MCRam
  Tables <- MCTables
  Ptes <- MCPtes
  Roots <- MCRoots
  Accesses <- MCAccesses
  MaxWrites = 1
  Offsets = {0, 3}
  Straddle = TRUE
PROPERTY
  EmulatesTheAccess
CHECK_DEADLOCK FALSE
