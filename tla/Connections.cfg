SPECIFICATION MCFairSpec
CONSTANTS
  NoFrame = NoFrame
  Subscribers = {s1, s2}
  WebSockets = {s2}
  Capacity = 2
  MaxRegions = 1
  MaxStamp = 2
  MaxControl = 1
  Height = 2
  Pixels <- ColumnPixels
  Geometries <- ColumnGeometries
  Rects <- ColumnRects
INVARIANT WsConverged
PROPERTY CatchesUp
CHECK_DEADLOCK FALSE
