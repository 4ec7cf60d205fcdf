SPECIFICATION Spec
CONSTANTS
    Producing = {"t1", "t2"}
    Consuming = {"t3"}
    Closers = {}
    Pausing = FALSE
    MaxProducers = 1
    MaxConsumers = 1
    MaxInRoom = 1
INVARIANT NoCrossTalk
CHECK_DEADLOCK FALSE
