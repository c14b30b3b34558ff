CONSTANTS
  h1 = h1
  h2 = h2
  b1 = b1
  b2 = b2
  b3 = b3
  v1 = v1
  None = None
  Raw = Raw
  Junk = Junk
  NoConv = NoConv
  Null = Null
  Handle <- MCHandle
  Block <- MCBlock
  Value <- MCValue
  Types <- MCTypes
  Lengths <- MCLengths
  Ranges <- MCRanges
  MaxSize = 2
  MaxElements = 6
SYMMETRY Symmetry
SPECIFICATION Spec
INVARIANTS
  TypeOK
  SlotsConstructed
PROPERTIES
  ImplementsSequences
