SPECIFICATION Spec
CONSTANTS
  Sources <- MCSources
  Paths = {p1}
  Orientations <- MCOrientations
  Fault <- MCFault
  ContentType <- MCContentType
  OrientationOf <- MCOrientationOf
  Peak <- MCPeak
  InitialOrientation = "front"
  NoSource = NoSource
  NoPath = NoPath
  NoOrientation = NoOrientation
CHECK_DEADLOCK FALSE
INVARIANTS
  TypeOK
  ServedContentIsWhole
  ReturnCodeIsTrue
PROPERTIES
  LossNeedsLeftovers
  LeftoversNeedFailedOpen
  InterfaceSpec
