SPECIFICATION Spec
CONSTANTS
    Sessions = {c1, c2}
    PeerIds = {1}
    c1 = c1
    c2 = c2
    Methods <- MCMethods
    MaxPeers = 3
INVARIANT OneReply
PROPERTY RequestsEnd
CHECK_DEADLOCK FALSE
