SPECIFICATION BootSpec
CONSTANTS
  HostTrees <- MCHostTrees
  GuestTrees <- MCGuestTrees
  stext = 524800
  strampoline = 524801
  etext = 525000
  srodata = 525000
  erodata = 525100
  sdata = 525100
  edata = 525110
  sbss_with_stack = 525110
  ebss = 526000
  ekernel = 526000
INVARIANTS
  OnlyBadTreesPanic
  HostMapSound
  GuestIsolated
  PlicEmulable
  EntryReady
  StacksApart
PROPERTIES
  BootEnds
CHECK_DEADLOCK FALSE
