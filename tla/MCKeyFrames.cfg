SPECIFICATION Spec
CONSTANTS
    NTracks = 2
    Asking = {1, 2}
    Throttle = 2
PROPERTIES PliThrottled Synced KeyFrameArrives
CHECK_DEADLOCK FALSE
