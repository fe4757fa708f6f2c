SPECIFICATION StripSpec
CHECK_DEADLOCK FALSE
CONSTANTS
    Cells <- OneCell
    ToastCell = 1
    ToastFrames = 1
    AudioFrames = 1
    ZoomMin = 1000
    ZoomMax = 1000
    TopId = 3
    Windows <- OneWindow
    XEvents <- StripX
    NetEvents <- StripNet
    MaxTab = 2
    MaxUrl = 1
    MaxBatch = 1
    MaxFrames = 0
INVARIANTS ChromeFresh 
PROPERTIES TypingKept OmniboxFollows StopIsOfActive
