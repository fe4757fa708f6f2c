CONSTANTS
    TokenMax = 13
    LenMax = 4
    MaxMessage = 100
    Pictures <- MCPictures
SPECIFICATION EncoderSpec
INVARIANTS PictureSurvives
PROPERTIES Encodes
CHECK_DEADLOCK FALSE
