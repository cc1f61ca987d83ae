\* A timer tick in the middle of schedule.
CONSTANTS
  CPU = {0, 1}
  BSP = 0
  Task <- MCTask
  home <- MChome
  NULL = "NULL"
  MAX_SLICES = 1
  VERBOSE = TRUE
  message <- MCmessage
  expected <- MCexpected
  work <- MCwork
  override_list <- MCoverride_list
  MaxTicks <- MCMaxTicks
  MaxKeys = 1
  MaxNmi <- MCMaxNmi
  VGAWIDTH = 3
  VGAHEIGHT = 3
SPECIFICATION Spec
INVARIANT
  SchedOnce
CHECK_DEADLOCK FALSE
