SPECIFICATION Spec
CONSTANTS
  g1 = g1
  s1 = s1
  i1 = i1
  a1 = a1
  None = None
  Groups <- MCGroups
  Shapes <- MCShapes
  Indicators <- MCIndicators
  Arrow <- MCArrow
  Coloured <- MCShapes
INVARIANTS
  TypeOK
  Forest
  TreeIsConsistent
  AssembliesMirrorTree
  VisibilityReachesSubtree
PROPERTIES
  SceneIsStillWhileDrawn
  ImplementsForest
  EveryCallReturns
