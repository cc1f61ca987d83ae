\* Ten nodes: enough for a rebalancing that climbs two levels.
CONSTANTS
  Node <- MCNode
  vruntime <- MCvruntime
  NULL = NULL
SPECIFICATION Spec
INVARIANTS
  RedBlack
  SiblingExists
PROPERTIES
  Implements
  LoopsClimb
