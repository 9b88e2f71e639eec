SPECIFICATION FairSpec
CONSTANTS
    a = a
    b = b
    Messages <- MCMessages
    Priority <- MCPriority
    Direct <- MCDirect
    MaxInjected = 1
    MaxExits = 2
    MaxPeers = 2
    MaxRotations = 1
    None = None
    Peer = Peer
CHECK_DEADLOCK FALSE
INVARIANTS TypeOK RightAnswer HandoffReaches AsksTended
PROPERTIES AsksSettle
