CONSTANTS
  Node <- MCNode
  Types <- MCTypes
  HeapBytes <- MCHeapBytes
  Inputs <- MCInputs
SPECIFICATION Spec
INVARIANTS
  EqualImpliesSameHash
  SameHashImpliesEqual
  MismatchAgreesWithEqual
  EqualIsSymmetric
CHECK_DEADLOCK FALSE
