SPECIFICATION Spec
CONSTANTS
    Producing = {"t1"}
    Consuming = {"t1"}
    Closers = {"ice", "api", "router"}
    Pausing = TRUE
    MaxProducers = 1
    MaxConsumers = 1
    MaxInRoom = 1
INVARIANTS ClosedOnce NoOrphans
PROPERTY WorkersEnd
CHECK_DEADLOCK FALSE
