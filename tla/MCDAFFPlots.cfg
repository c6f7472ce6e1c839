SPECIFICATION Spec
CONSTANTS
  Degree <- MCDegree
  Content <- MCContent
  NearestRecord <- MCNearest
  Toggles = {"LogScale", "UsePhaseColorMap", "Normalize", "NormalizeFreqsIndividually", "Warp",
             "ShowGrid"}
  BalloonRanges <- MCBalloonRanges
  CarpetRanges <- MCCarpetRanges
  Angles <- MCAngles
  Probes <- MCProbes
  Frames = {0, 3}
  MaxChanged = 2
  MaxSaved = 1
INVARIANTS
  PlotFollowsMenu
  ShownIsCurrent
  ScalarsInRange
  EveryRecordIsDrawn
  SceneShowsFile
