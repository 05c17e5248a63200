------------------------------ MODULE MC_Packer ------------------------------
EXTENDS Packer

CONSTANTS p1, p2, w1, ping1, blk1

MCPaths == {p1, p2}
MCCtrlFrames == {w1, ping1, blk1}
MCPingFrames == {ping1}
MCBlockedFrames == {blk1}
\* SW, ACK and one more frame: with a queued control frame the stream frame
\* must wait for the next packet.
MCPayloadBudget == 3
MCMaxPackets == 2
MCMaxAcks == 1
MCMaxData == 1
=============================================================================
