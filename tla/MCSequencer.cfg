SPECIFICATION SeqSpec
CONSTANTS
    SNMod = 6
    MaxTrack = 2
    MaxPadding = 1
    Packets = {p1}
    NackLists <- MCNackLists
    RTTs = {0, 2}
    DefaultRtt = 2
    IgnoreRetransmission = 1
    NackMod = 1
    MaxTime = 3
INVARIANT SeqTypeOK
PROPERTY ImplementsWindow
