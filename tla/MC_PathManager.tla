--------------------------- MODULE MC_PathManager ---------------------------
(* Two IPv4 addresses on the client and an IPv6 interface that may come  *)
(* up later; one IPv4 address on the server and a second that may come up *)
(* later.                                                                  *)
EXTENDS PathManager

CONSTANTS c1, c2, c3, s1, s2

MCClientLocal0 == <<c1, c2>>
MCServerLocal0 == <<s1>>
MCLateClientAddrs == {c3}
MCLateServerAddrs == {s2}
MCIPVersion == (c1 :> 4) @@ (c2 :> 4) @@ (s1 :> 4) @@ (s2 :> 4) @@ (c3 :> 6)
MCPingMayFail == TRUE
=============================================================================
