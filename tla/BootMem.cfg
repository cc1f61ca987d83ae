CONSTANTS
  PAGE_SIZE = 4
  WORD = 256
  ZONE_SIZE = 1
  KERNEL_PHYS_MAP_END = 40
  kern_end = 5
  MMAP_MAX_REGIONS = 8
  PageDataSpan = 8
  PageDataBase = 32
  Firmware = {16, 24}
  TableSpans <- TableSpans2
  Maps <- GoodMaps
SPECIFICATION FairSpec
INVARIANTS
  GivenOnce
  AllMapped
  ZonesPlaced
PROPERTIES
  GivenMapped
  BootEnds
CHECK_DEADLOCK FALSE
