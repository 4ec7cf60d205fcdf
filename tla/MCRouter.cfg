SPECIFICATION Spec
CONSTANTS
    t1 = t1
    t2 = t2
    t3 = t3
    Producing = {t1}
    Consuming = {t2, t3}
    Closers = {}
    Pausing = FALSE
    MaxProducers = 2
    MaxConsumers = 2
    MaxInRoom = 2
SYMMETRY Peers
INVARIANTS TypeOK ForwardedRight ConsumersReachable
CHECK_DEADLOCK FALSE
