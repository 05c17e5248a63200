CONSTANTS
  MaxPN <- MCMaxPNMisbehaving
  MaxAckPN <- MCMaxAckPNMisbehaving
  MaxData <- MCMaxData
  MaxRTO <- MCMaxRTO
  Lengths <- MCLengths
  CongestionWindow <- MCCongestionWindow
  MaxTrackedSentPackets <- MCMaxTrackedSentPackets
  MaxTrackedSkippedPackets <- MCMaxTrackedSkippedPackets
  PeerHonest <- MCPeerMisbehaving
SPECIFICATION FairSpec
INVARIANT BytesInFlightMatchesHistory
INVARIANT NoDataLost
INVARIANT AlarmArmedWhileOutstanding
CHECK_DEADLOCK FALSE
PROPERTY InflightEventuallyResolved
