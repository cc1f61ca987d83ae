CONSTANTS
  madt <- MCmadt
  MAX_LAPICS = 3
  Stack <- MCStack
  NTASK = 3
  Worker = {1, 2}
SPECIFICATION Spec
INVARIANT CpusetTracks
CHECK_DEADLOCK FALSE
