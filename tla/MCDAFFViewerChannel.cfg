SPECIFICATION RunSpec
CONSTANTS
  Degree <- MCDegree
  Content <- MCContentChannel
  NoFile = "none"
  WidgetRanges <- MCRanges
  Typed <- MCTypedChannel
  Increment <- MCIncrement
  StackSize = 40
  UnsetDirections <- MCDirections
  Paths = {"a", "b", "c", "d"}
  MaxRecent = 3
  Windows = "window"
  Lists = "lists"
  UnsetRecords <- MCUnsetRecords
INVARIANTS
  ChannelIsServed
