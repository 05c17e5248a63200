CONSTANTS
    p1 = p1
    p2 = p2
    w1 = w1
    ping1 = ping1
    blk1 = blk1
    Paths <- MCPaths
    CtrlFrames <- MCCtrlFrames
    PingFrames <- MCPingFrames
    BlockedFrames <- MCBlockedFrames
    Perspective = "client"
    PayloadBudget <- MCPayloadBudget
    MaxPackets <- MCMaxPackets
    MaxAcks <- MCMaxAcks
    MaxData <- MCMaxData
SPECIFICATION Spec
INVARIANTS
    TypeOK
    ControlFramesNotLost
CHECK_DEADLOCK FALSE
