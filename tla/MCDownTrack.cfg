SPECIFICATION Spec
CONSTANTS
    SNMod = 8
    MaxTrack = 2
    MaxPadding = 1
    Packets <- MCPackets
    NackLists = {{1}, {7, 0}}
    RTTs = {0, 2}
    DefaultRtt = 2
    IgnoreRetransmission = 3
    NackMod = 1
    MaxTime = 1
    Video = TRUE
    FirstSrcs = {0, 7}
    MaxSrc = 3
    Rtx = {g1}
INVARIANTS TypeOK RetransmitsWhatWasAsked KeyFrameFirst NumbersNotShared
CHECK_DEADLOCK FALSE
