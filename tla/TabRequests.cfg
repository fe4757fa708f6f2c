SPECIFICATION MCFairSpec
CONSTANTS
  NoFrame = NoFrame
  Nobody = Nobody
  Conns = {c1, c2}
  Tabs = {t1, t2}
  FirstTab = t1
  Fields = {"url"}
  MaxRegions = 1
  MaxStamp = 2
  MaxQueue = 0
  MaxRequests = 2
  Pixels = {p1}
  Rects <- AllRects
INVARIANTS AnnouncedUnlessRaced MetaOfActive ViewsMatchTabs
PROPERTIES RequestsFinish LoopServes
CHECK_DEADLOCK FALSE
