SPECIFICATION SwitchSpec
CONSTANTS
  MaxGen = 2
  LoadRegs = {1, 2, 3, 5, 6, 7, 8, 10, 11, 16, 17, 28, 31}
  StoreRegs = {0, 1, 2, 3, 5, 6, 7, 8, 10, 11, 16, 17, 28, 31}
  ProbeRegs = {5, 10}
INVARIANTS
  CallerKeepsState
  ProbeTransparent
  HostUninterrupted
  HypervisorStack
PROPERTY
  ImplementsGuestCpu
CHECK_DEADLOCK FALSE
