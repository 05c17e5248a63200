------------------------------ MODULE MC_Wire ------------------------------
(***************************************************************************)
(* The frame codec of WireCodec, instantiated for TLC.                     *)
(*                                                                         *)
(* Codec inputs: packet numbers and nonces with one, two and four          *)
(* significant bytes; error codes 16 and 2^31 - 1 (the largest TLC         *)
(* integer, all four bytes set); reason phrases of 0, 2 and exactly        *)
(* MaxPacketSize bytes, the largest ParseConnectionCloseFrame accepts;     *)
(* both byte orders of utils.GetByteOrder.                                 *)
(***************************************************************************)
EXTENDS WireCodec

MCMaxPacketSize == 1350
MCPhrases == {<<>>, <<104, 105>>, [i \in 1..MCMaxPacketSize |-> 0]}
MCRejectedPNs == {1, 258, 16777221}
MCNonces == {7, 1073741824}
MCErrorCodes == {16, 2147483647}
MCStreamIDs == {0, 5}
MCByteOrders == {"little", "big"}
MCConnectionID == 305419896

WireSpec == WireInit /\ [][WireNext]_wireVars
=============================================================================
