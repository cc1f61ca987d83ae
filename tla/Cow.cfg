CONSTANTS
  Proc = {p1, p2, p3}
  Slot = {1}
  Frame = {f1, f2, f3}
  Val = {u, v}
  first = p1
SPECIFICATION FairSpec
INVARIANTS
  Counted
  FramesAccounted
PROPERTIES
  Implements
  LockReleased
CHECK_DEADLOCK FALSE
