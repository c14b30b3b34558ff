CONSTANTS
  k1 = k1
  k2 = k2
  k3 = k3
  k4 = k4
  k5 = k5
  v1 = v1
  v2 = v2
  Key <- MCKey
  Value <- MCValue
  Pairs <- MCPairs
  HashSpan = 32
  Hash <- MCHash
  Probe <- MCProbe
  NoSlot = NoSlot
  NoValue = NoValue
  Ranges <- MCRanges
  MaxSlots = 16
  MaxTurns = 30
SPECIFICATION Spec
PROPERTIES
  KeepsInsertionOrder
