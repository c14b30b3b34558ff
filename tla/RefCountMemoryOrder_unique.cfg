CONSTANTS
  Handle = {h1, h2, h3}
  NoHandle = NoHandle
  CountLimit = 6
SPECIFICATION MOSpec
SYMMETRY HandleSymmetry
INVARIANTS
  UniqueMeansExclusive
