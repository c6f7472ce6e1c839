SPECIFICATION Spec
CONSTANTS
  Sources <- MCPeakSources
  Paths = {p1}
  Orientations <- MCOrientations
  Fault <- MCFault
  ContentType <- MCContentType
  OrientationOf <- MCOrientationOf
  Peak <- MCPeak
  InitialOrientation = "front"
  NoSource = NoSource
  NoPath = NoPath
  NoOrientation = NoOrientation
CHECK_DEADLOCK FALSE
INVARIANT
  OverallPeakIsOfServedContent
