------------------------ MODULE MC_SentPacketHandler ------------------------
(* One path: four packet numbers, two data units, two ACK packets; a      *)
(* peer that ACKs what it received, and one that ACKs any set.           *)
EXTENDS SentPacketHandler

MCMaxPN == 4
MCMaxAckPN == 2
MCMaxData == 2
MCMaxRTO == 2
MCLengths == {1}
MCCongestionWindow == 1
MCMaxTrackedSentPackets == 2
MCMaxTrackedSkippedPackets == 1
MCPeerHonest == TRUE

\* the misbehaving peer
MCMaxPNMisbehaving == 3
MCMaxAckPNMisbehaving == 1   \* one ACK packet: its ranges are any set
MCPeerMisbehaving == FALSE
=============================================================================
