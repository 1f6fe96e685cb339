SPECIFICATION SwitchSpec
CONSTANTS
  MaxGen = 1
  LoadRegs = {0, 10}
  StoreRegs = {0, 10}
  ProbeRegs = {5}
PROPERTY
  StoresArrive
CHECK_DEADLOCK FALSE
