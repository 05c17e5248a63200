CONSTANTS
  MaxPN <- MCMaxPNMisbehaving
  MaxAckPN <- MCMaxAckPN
  MaxData <- MCMaxData
  MaxRTO <- MCMaxRTO
  Lengths <- MCLengths
  CongestionWindow <- MCCongestionWindow
  MaxTrackedSentPackets <- MCMaxTrackedSentPackets
  MaxTrackedSkippedPackets <- MCMaxTrackedSkippedPackets
  PeerHonest <- MCPeerMisbehaving
SPECIFICATION Spec
PROPERTY LargestAckedMonotone
CHECK_DEADLOCK FALSE
