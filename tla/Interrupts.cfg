\* Two CPUs: the BSP with two tasks, keys, an NMI and timer ticks, the other with one
\* task.  The bounds end every behaviour, and so does a panic, hence no deadlock check.
CONSTANTS
  CPU = {0, 1}
  BSP = 0
  Task <- MCTask
  home <- MChome
  NULL = "NULL"
  MAX_SLICES = 1
  VERBOSE = TRUE
  message <- MCmessage
  expected <- MCexpected
  work <- MCwork
  override_list <- MCoverride_list
  MaxTicks <- MCMaxTicks
  MaxKeys = 1
  MaxNmi <- MCMaxNmi
  VGAWIDTH = 3
  VGAHEIGHT = 3
SPECIFICATION Spec
INVARIANTS
  IrqBalanced
  Acknowledged
  HolderRuns
  ScreenShows
PROPERTY
  PanicStays
CHECK_DEADLOCK FALSE
