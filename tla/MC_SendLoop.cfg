CONSTANTS
    p1 = p1
    p2 = p2
    ping1 = ping1
    w1 = w1
    cp1 = cp1
    Paths <- MCPaths
    OpenPaths <- MCOpenPaths
    CtrlFrames <- MCCtrlFrames
    PingFrames <- MCPingFrames
    BlockedFrames = {}
    Perspective = "client"
    Ping = ping1
    Wuf = w1
    ClosePath = cp1
    InitialPath = p1
    StreamNum <- MCStreamNum
    PayloadBudget = 3
    MaxPackets = 5
    MaxAcks = 1
    MaxData = 1
    MaxNonRetransmittablePackets = 1
    CWnd = 1
    MaxTracked = 4
    MaxWufs = 1
    MaxLosses = 1
    MaxClosePaths = 1
CONSTRAINT PacketNumberBound
SPECIFICATION SendLoopSpec
INVARIANTS
    SendLoopTypeOK
    NoPackerBug
