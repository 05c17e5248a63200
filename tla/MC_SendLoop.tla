---------------------------- MODULE MC_SendLoop ----------------------------
EXTENDS SendLoop

CONSTANTS p1, p2, ping1, w1, cp1

MCPaths == {p1, p2}
MCOpenPaths == <<p1, p2>>
MCCtrlFrames == {ping1, w1, cp1}
MCPingFrames == {ping1}
MCStreamNum == (p1 :> 1) @@ (p2 :> 0)
\* Packet numbers explored: a state in which a path used its last packet
\* number is not expanded (it is a bound of the model, not a deadlock).
PacketNumberBound == \A p \in MCPaths : nextPN[p] <= MaxPackets
=============================================================================
