\* A pull between the re-insertion of a task and the switch away from it.
CONSTANTS
  t1 = t1
  t2 = t2
  NCPU = 2
  Task = {t1, t2}
  InitTask = t1
  MAX_SLICES = 1
  MaxV = 2
SPECIFICATION Spec
SYMMETRY Symmetry
INVARIANTS
  SavedBeforeLoaded
CHECK_DEADLOCK FALSE
