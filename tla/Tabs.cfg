SPECIFICATION MCSpec
CONSTANTS
  NoFrame = NoFrame
  Nobody = Nobody
  Conns = {c1, c2}
  Tabs = {t1, t2}
  FirstTab = t1
  Fields = {}
  MaxRegions = 1
  MaxStamp = 3
  MaxQueue = 2
  MaxRequests = 2
  Pixels = {p1, p2}
  Rects <- AllRects
SYMMETRY Symmetry
INVARIANT PictureOfActive
CHECK_DEADLOCK FALSE
