SPECIFICATION Spec
CONSTANTS
    PictureIDs = {0, 127, 128, 255, 256, 32767}
    MaxUnits = 3
    Nalus <- MCNalus
    Obus <- MCObus
    PicMod = 16
    U16 = 32
    Far = 8
    Ring = 5
    MinFrames = 3
    MaxLoss = 2
    Reorder = 1
INVARIANTS RateIsTrue VP8RoundTrip KeyFramesFound
PROPERTY RateMeasured
CHECK_DEADLOCK FALSE
