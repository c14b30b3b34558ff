CONSTANTS
  Node <- MCNode
  Types <- MCTypes
  HeapBytes <- MCHeapBytes
  Inputs <- MCInputs
SPECIFICATION Spec
INVARIANTS
  EqualIsSymmetricForEveryMap
CHECK_DEADLOCK FALSE
