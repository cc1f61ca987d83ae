\* A zone with blocks of all orders, between zones with unaligned starts.
SPECIFICATION FairSpec
CONSTANTS
  MAX_ORDER = 3
  NPage = 16
  Zones <- ThreeZones
  Leftover <- SomeLeftover
INVARIANTS
  Partition
  ListsLinked
PROPERTIES
  Implements
  OperationsEnd
CHECK_DEADLOCK FALSE
