SPECIFICATION RunSpec
CONSTANTS
  Degree <- MCDegree
  Content <- MCContent
  NoFile = "none"
  WidgetRanges <- MCRanges
  Typed <- MCTyped
  Increment <- MCIncrement
  StackSize = 40
  UnsetDirections <- MCDirections
  Paths = {"a", "b", "c", "d"}
  MaxRecent = 3
  Windows = "window"
  Lists = "lists"
  UnsetRecords <- MCUnsetRecords
INVARIANTS
  RecordIsNearest
  
  ViewsIndexTheirFile
  RecentFilesAreOffered
PROPERTIES
  WindowReturns
