SPECIFICATION Spec
CONSTANTS
    Streams = {1, 2}
    MaxChannels = 4
INVARIANTS ReadyWhenListed MessageReachesRouter
CHECK_DEADLOCK FALSE
