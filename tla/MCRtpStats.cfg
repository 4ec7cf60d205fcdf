SPECIFICATION Spec
CONSTANTS
    SNMod = 8
    SnInfoSize = 3
    FirstIdxs = {1, 6}
    MinIdx = 0
    MaxIdx = 17
    MaxPackets = 5
    MaxSnapshots = 1
INVARIANTS TypeOK SpanIsTrue LostIsMissing SenderCountExact ReportedLossIsTrue
PROPERTY SnapshotsOnlyAdvance
CHECK_DEADLOCK FALSE
