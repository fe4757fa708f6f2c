SPECIFICATION Spec
CHECK_DEADLOCK FALSE
CONSTANTS
    Cells <- TwoCells
    ToastCell = 1
    ToastFrames = 1
    AudioFrames = 2
    ZoomMin = 1000
    ZoomMax = 1000
    TopId = 3
    Windows <- AnyWindow
    XEvents <- ScreenX
    NetEvents <- ScreenNet
    MaxTab = 2
    MaxUrl = 2
    MaxBatch = 2
    MaxFrames = 2
INVARIANTS DamageCovers ContentIsLatest
PROPERTIES ShotIsLatest
