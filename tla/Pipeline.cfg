SPECIFICATION MCSpec
CONSTANTS
  NoFrame = NoFrame
  Subscribers = {s1}
  Capacity = 2
  MaxRegions = 1
  MaxStamp = 3
  MaxControl = 1
  Height = 3
  Pixels <- ColumnPixels
  Geometries <- ColumnGeometries
  Rects <- ColumnRects
INVARIANTS BacklogFresh ScreenFresh Converged ControlComplete
PROPERTY ImplementsDelivery
CHECK_DEADLOCK FALSE
