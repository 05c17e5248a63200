-------------------------- MODULE MC_PathScheduler --------------------------
(***************************************************************************)
(* The path managers of MC_PathManager, and beside them, in behaviours of  *)
(* their own, the stream-to-path assignment of a client and of a server    *)
(* session.  The scheduler depends on the path managers only through the   *)
(* paths they add to sess.paths, which this run checks are never replaced  *)
(* or duplicated; its paths arrive as ServerCreatePathFromRemote and       *)
(* ClientCreatePath.  Keeping the two apart adds their state spaces        *)
(* instead of multiplying them.                                            *)
(*                                                                         *)
(* Client paths 1, 3, 5 on local addresses 10.0.1.1 (20 Mbit/s), an       *)
(* address outside the lookup (RTT and bandwidth 0: unprobed), and         *)
(* 10.0.0.1 (1 Mbit/s).  Server paths 1, 3, 5 from remote addresses        *)
(* 10.0.1.1, 10.0.0.1, 10.0.1.1, learned in any order.  Streams: the       *)
(* header stream 3 and two request streams of weights 1 and 2 whose sizes *)
(* fall below and above the gaps step 2 of choosePaths closes.             *)
(***************************************************************************)
EXTENDS PathManager

CONSTANTS c1, c2, c3, s1, s2

VARIABLES perspective, paths, streamPaths, checksize, component

MCClientLocal0 == <<c1, c2>>
MCServerLocal0 == <<s1>>
MCLateClientAddrs == {c3}
MCLateServerAddrs == {s2}
MCIPVersion == (c1 :> 4) @@ (c2 :> 4) @@ (s1 :> 4) @@ (s2 :> 4) @@ (c3 :> 6)
MCPingMayFail == TRUE

PS == INSTANCE PathScheduler WITH
        Streams <- {3, 5, 7},
        Weight <- (3 :> 1) @@ (5 :> 1) @@ (7 :> 2),
        Size <- (3 :> 1) @@ (5 :> 5) @@ (7 :> 30),
        IPClass <- (c1 :> "10.0.0.1") @@ (c2 :> "10.0.1.1") @@ (c3 :> "other"),
        ClientPathAddr <- (1 :> c2) @@ (3 :> c3) @@ (5 :> c1),
        ServerPathAddr <- (1 :> c2) @@ (3 :> c1) @@ (5 :> c2),
        ClientPathIDs <- <<1, 3, 5>>,
        ServerPathIDs <- {1, 3, 5},
        RTTValues <- {1, 2, 3},
        QuotaValues <- {0, 1},
        Perspectives <- {"client", "server"}

\* component: which of the two systems this behaviour runs.
PathsInit ==
  /\ Init /\ PS!SchedInit
  /\ \/ component = "pathManager" /\ perspective = "server"
     \/ component = "scheduler"

PathsNext ==
  \/ component = "pathManager" /\ Next /\ UNCHANGED <<perspective, paths, streamPaths, checksize, component>>
  \/ component = "scheduler" /\ PS!SchedNext /\ UNCHANGED <<vars, component>>

PathsSpec == PathsInit /\ [][PathsNext]_<<vars, perspective, paths, streamPaths, checksize, component>>

SchedTypeOK == PS!SchedTypeOK
LowLatencyMatchesReference == PS!LowLatencyMatchesReference
ChoosePathsConservesSize == PS!ChoosePathsConservesSize
ChoosePathsEqualFinish == PS!ChoosePathsEqualFinish
=============================================================================
