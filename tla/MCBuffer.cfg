SPECIFICATION Spec
CONSTANTS
    s1 = s1
    s2 = s2
    SSRCs = {s1, s2}
    Codecs <- MCCodecs
    MaxBuffers = 2
    MaxSn = 3
    MaxWrites = 3
    BucketSize = 2
    Parses <- MCParses
INVARIANTS TypeOK MemoryNotShared NoUseAfterClose ForwardedOnce NacksOnlyMissing FactoryFindsOpen
PROPERTY CloseIsSeen
CHECK_DEADLOCK FALSE
