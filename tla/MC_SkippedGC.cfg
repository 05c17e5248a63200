CONSTANTS
  MaxPN <- MCMaxPN
  MaxAckPN <- MCMaxAckPN
  MaxData <- MCMaxData
  MaxRTO <- MCMaxRTO
  Lengths <- MCLengths
  CongestionWindow <- MCCongestionWindow
  MaxTrackedSentPackets <- MCMaxTrackedSentPackets
  MaxTrackedSkippedPackets <- MCMaxTrackedSkippedPackets
  PeerHonest <- MCPeerHonest
SPECIFICATION Spec
INVARIANT SkippedAboveInOrderAcked
CHECK_DEADLOCK FALSE
