SPECIFICATION Spec
CONSTANTS
    MaxTime = 5
    MinDelay = 1
    MaxDelay = 3
    Skew = 5
    defaultRtt = 9
INVARIANTS NamesNewestReport MediaTimeTrue RttAgrees
CHECK_DEADLOCK FALSE
