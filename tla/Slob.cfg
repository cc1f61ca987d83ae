\* Two pages of five units, and sizes that fit exactly, leave a header only,
\* need a second page, or are too large.
SPECIFICATION FairSpec
CONSTANTS
  UNIT = 16
  PAGE_SIZE = 80
  NPage = 2
  Sizes = {1, 20, 63, 64}
INVARIANTS
  Tiled
  LoopsOnce
PROPERTY
  AllocEnds
CHECK_DEADLOCK FALSE
