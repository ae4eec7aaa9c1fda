SPECIFICATION FairSpec
CONSTANTS
    m1 = m1
    m2 = m2
    Peers <- MCPeers
    Founder = m1
    OVERLAP = 3
    MAX_BUFFERED = 2
    SEAL_AFTER = 1
    MaxContribs = 5
    MaxHeals = 1
    MaxTicks = 1
INVARIANTS
    TypeOK
    Importable
    ChannelsAgree
    SomeoneHolds
PROPERTIES
    Recovers
CHECK_DEADLOCK FALSE
