CONSTANTS
  t1 = t1
  t2 = t2
  m1 = m1
  m2 = m2
  m3 = m3
  f1 = f1
  f2 = f2
  f3 = f3
  n1 = n1
  l0 = l0
  l1 = l1
  k = k
  Null = Null
  Thread <- MCThread
  Mod <- MCMod
  Func <- MCFunc
  Name <- MCName
  Lib <- MCLib
  SystemLib <- MCSystemLib
  DefaultLib = l0
  Kind <- MCKind
  Symbols <- MCSymbols
  Layout <- MCLayout
  MaxImports = 1
  MaxHeld = 2
SYMMETRY Symmetry
SPECIFICATION Spec
INVARIANTS
  HandedOutPointersLive
  ContextIsTheModule
  ImportsAcyclic
  LocksAtWork
