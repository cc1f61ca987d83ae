CONSTANTS
  madt <- MCmadt
  MAX_LAPICS = 3
  Stack <- MCStack
  NTASK = 3
  Worker = {1, 2}
SPECIFICATION Spec
INVARIANTS StackOwn TrampolineAlone CpusInitialised UserSeesItsTable PanicOnlyShared
PROPERTY BootEnds
CHECK_DEADLOCK FALSE
