CONSTANTS
  SignedChar = TRUE
  Finite <- MCFinite
  Node <- MCNode
  Heaps <- MCHeaps
  Saver <- MCSaver
  Loaders <- MCLoaders
  Plain <- MCPlain
  Texts <- MCTexts
  Indents = {0, 2}
SPECIFICATION Spec
INVARIANTS
  LoadsWhatWasSaved
  FailsOnlyForClasses
  TextReadsBack
PROPERTIES
  SavedInOrder
CHECK_DEADLOCK FALSE
