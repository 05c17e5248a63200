CONSTANTS
  MaxPN <- MCMaxPN
  MaxAckPN <- MCMaxAckPN
  MaxData <- MCMaxData
  MaxRTO <- MCMaxRTO
  Lengths <- MCLengths
  CongestionWindow <- MCCongestionWindow
  MaxTrackedSentPackets <- MCMaxTrackedSentPackets
  MaxTrackedSkippedPackets <- MCMaxTrackedSkippedPackets
  PeerHonest <- MCPeerHonest
SPECIFICATION Spec
INVARIANT TypeOK
INVARIANT BytesInFlightMatchesHistory
INVARIANT NoDataLost
INVARIANT AlarmArmedWhileOutstanding
INVARIANT HonestPeerNeverRejected
PROPERTY LargestAckedMonotone
CHECK_DEADLOCK FALSE
PROPERTY ImplementsReliableTransfer
