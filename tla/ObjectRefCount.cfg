CONSTANTS
  Handle = {h1, h2, h3, h4, h5}
  NoHandle = NoHandle
  CountLimit = 6
SPECIFICATION FairSpec
INVARIANTS
  IInv
  CountMatchesHandles
  NoDanglingHandle
PROPERTIES
  NoRevival
  ImplementsLifetime
  ImplementsFairLifetime
  LockGivesUp
