SPECIFICATION Spec
CHECK_DEADLOCK FALSE
CONSTANTS
    Cells <- NoCells
    ToastCell = 1
    ToastFrames = 1
    AudioFrames = 1
    ZoomMin = 1000
    ZoomMax = 1000
    TopId = 4
    Clients = {c1, c2}
    Names <- OneName
    MaxTab = 3
    MaxEvents = 3
INVARIANTS ActiveAgrees TabsAgree LabelsAgree
SYMMETRY Symmetry
