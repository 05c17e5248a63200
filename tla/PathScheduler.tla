---------------------------- MODULE PathScheduler ----------------------------
(***************************************************************************)
(* Stream-to-path assignment of PStream (src/scheduler.go:                 *)
(* scheduleToMultiplePaths, findPathLowLatency, choosePaths) on one        *)
(* session, client or server.  Paths join the session as the path manager  *)
(* creates them (createPath on a client, createPathFromRemote or a PATHS   *)
(* frame on a server) and are never removed from sess.paths, which module  *)
(* PathManager checks (PathsNeverReplaced).  A path starts with the RTT    *)
(* and bandwidth of the static lookup by IP address; ACKs then move its    *)
(* smoothed RTT (the RTT estimator is not under src/) and never its        *)
(* bandwidth (UpdateBDW is disabled in src/congestion/bdw_stats.go).       *)
(*                                                                         *)
(* Which paths can send (SendingAllowed, potentiallyFailed), their         *)
(* smoothed RTTs and their quotas (packets sent, counted by sendPacket)    *)
(* are what the other components make of them at the moment of a tick;    *)
(* every tick reads them as inputs chosen from small sets.                 *)
(*                                                                         *)
(* choosePaths computes in float64; the model computes the same formulas   *)
(* in exact rationals, with NaN for 0/0.  Units: RTT in milliseconds,      *)
(* bandwidth in Mbit/s, volume in units of 2^20/2000 bits (one millisecond *)
(* of RTT, i.e. half a millisecond of one-way delay, at 1 Mbit/s), so the  *)
(* code's owd = srtt/2 seconds and bdw * 2^20 bits/s cancel out.           *)
(***************************************************************************)
EXTENDS Integers, Sequences, FiniteSets, SequencesExt

CONSTANTS
  Streams,       \* stream IDs of the session (1 and 3 are special)
  Weight,        \* stream -> priority.Weight (uint8, at least 1 here)
  Size,          \* stream -> its size once detected, in units of 2^13/1000 bytes (2^16/1000 bits of volume = size * 8)
  IPClass,       \* address -> "10.0.0.1", "10.0.1.1" or "other"
  ClientPathAddr, \* client path ID -> its local IP (the lookup of createPath)
  ServerPathAddr, \* server path ID -> its remote IP (the lookup of createPathFromRemote)
  ClientPathIDs, \* the client's path IDs in creation order (nxtPathID += 2)
  ServerPathIDs, \* the client paths a server may learn of, in any order
  RTTValues,     \* smoothed RTTs (ms) the estimator may report after a sample
  QuotaValues,   \* values of sch.quotas[path] at a tick
  Perspectives   \* the sessions explored: {"client", "server"} or a part

ASSUME \A s \in Streams : Weight[s] \in 1..255 /\ Size[s] \in Nat \ {0}
ASSUME RTTValues \subseteq Nat \ {0}

InitialPathID == 0
HeaderStreams == Streams \cap {1, 3}
NormalStreams == Streams \ {1, 3}
NoPath == -1

(***************************************************************************)
(* Exact rationals <<numerator, denominator>>, denominator > 0 and the     *)
(* pair in lowest terms; NaN is <<0, 0>> and every comparison with it is   *)
(* false, as for float64.                                                  *)
(***************************************************************************)
RECURSIVE GCD(_, _)
GCD(a, b) == IF b = 0 THEN a ELSE GCD(b, a % b)

AbsInt(x) == IF x < 0 THEN -x ELSE x

NaN == <<0, 0>>
IsNaN(x) == x[2] = 0

\* n / d in lowest terms; 0/0 is NaN.  A non-zero number divided by 0 never
\* occurs in choosePaths with weights of at least 1.
Rat(n, d) ==
  IF d = 0 THEN NaN
  ELSE LET g == GCD(AbsInt(n), AbsInt(d))
           sg == IF d < 0 THEN -1 ELSE 1
       IN <<sg * (n \div g), sg * (d \div g)>>

Int2Rat(n) == <<n, 1>>
Zero == <<0, 1>>
RAdd(x, y) == IF IsNaN(x) \/ IsNaN(y) THEN NaN ELSE Rat(x[1] * y[2] + y[1] * x[2], x[2] * y[2])
RSub(x, y) == IF IsNaN(x) \/ IsNaN(y) THEN NaN ELSE Rat(x[1] * y[2] - y[1] * x[2], x[2] * y[2])
RMul(x, y) == IF IsNaN(x) \/ IsNaN(y) THEN NaN ELSE Rat(x[1] * y[1], x[2] * y[2])
RDiv(x, y) == IF IsNaN(x) \/ IsNaN(y) THEN NaN ELSE Rat(x[1] * y[2], x[2] * y[1])
RGt(x, y) == ~IsNaN(x) /\ ~IsNaN(y) /\ x[1] * y[2] > y[1] * x[2]
RLeq(x, y) == ~IsNaN(x) /\ ~IsNaN(y) /\ x[1] * y[2] <= y[1] * x[2]
RSum(S, f) == FoldSet(LAMBDA p, acc : RAdd(f[p], acc), Zero, S)

(***************************************************************************)
(* The static lookup of createPath (by the local IP) and of                *)
(* createPathFromRemote / createPathsFromRemotePathsFrame (by the remote   *)
(* IP), and the BDWStats the path is set up with.                          *)
(***************************************************************************)
LookupRTT(a) == IF IPClass[a] \in {"10.0.0.1", "10.0.1.1"} THEN 1 ELSE 0

LookupBandwidth(a) ==
  CASE IPClass[a] = "10.0.0.1" -> 1 * 1048576
    [] IPClass[a] = "10.0.1.1" -> 20 * 1048576
    [] OTHER -> 0

\* NewBDWStats(bandwidth); UpdateBDW returns at once (disable := true), so
\* the estimate never changes afterwards.
NewBDWStats(bw) == [bandwidth |-> bw]

\* GetBandwidth: the estimate in Mbit/s, integer division.
GetBandwidth(stats) == stats.bandwidth \div 1048576

(***************************************************************************)
(* findPathLowLatency, over the paths in the map's iteration order.        *)
(* usable: the paths with SendingAllowed() and not potentiallyFailed.      *)
(* The fold's accumulator is [sel, lower]: selectedPath (NoPath for nil)   *)
(* and lowerRTT; selectedPathID is always the ID of selectedPath, and      *)
(* quotas[255] of the nil selection reads as 0.                            *)
(***************************************************************************)
QuotaOf(quotas, p) == IF p \in DOMAIN quotas THEN quotas[p] ELSE 0

\* Fault model: the comparison reversed (keeps the slower path).
LowLatencyStepSlowest(usable, rtt, quotas, acc, p) ==
    LET cur == rtt[p] IN
    IF \/ p \notin usable
       \/ p = InitialPathID
       \/ acc.lower # 0 /\ cur = 0
       \/ cur = 0 /\ acc.sel # NoPath
                  /\ QuotaOf(quotas, p) > QuotaOf(quotas, acc.sel)
       \/ cur # 0 /\ acc.lower # 0 /\ acc.sel # NoPath /\ cur <= acc.lower
    THEN acc
    ELSE [sel |-> p, lower |-> cur]

LowLatencyStep(usable, rtt, quotas, acc, p) ==
    LET cur == rtt[p] IN
    IF \/ p \notin usable
       \/ p = InitialPathID
       \/ acc.lower # 0 /\ cur = 0
       \/ cur = 0 /\ acc.sel # NoPath
                  /\ QuotaOf(quotas, p) > QuotaOf(quotas, acc.sel)
       \/ cur # 0 /\ acc.lower # 0 /\ acc.sel # NoPath /\ cur >= acc.lower
    THEN acc
    ELSE [sel |-> p, lower |-> cur]

FindPathLowLatency(paths, usable, rtt, quotas, order) ==
  IF Cardinality(paths) <= 1
  THEN IF InitialPathID \in usable THEN InitialPathID ELSE NoPath
  ELSE FoldLeft(LAMBDA acc, p : LowLatencyStep(usable, rtt, quotas, acc, p),
                [sel |-> NoPath, lower |-> 0], order).sel

(***************************************************************************)
(* choosePaths for a stream of weight w and detected size, on the paths    *)
(* usable now, with bdw the shares and owd the one-way delays of the       *)
(* candidates and order the candidates as sort.Slice leaves them (any      *)
(* order among equal delays: the sort is not stable).  Returns the         *)
(* selectedPaths map: path -> bytes.                                       *)
(***************************************************************************)
\* prioritySum of a path: the weights of the streams other than 1 and 3
\* already on it.
PrioritySum(streamPaths, p) ==
  FoldSet(LAMBDA t, acc : Weight[t] + acc, 0,
          {t \in NormalStreams : p \in streamPaths[t]})

\* Fault model: the filled gap not taken off the volume.
CloseGapNoDecrement(order, bdw, owd, acc, i) ==
    LET lowerPaths == {order[k] : k \in 1..i}
        bdwSum == RSum(lowerPaths, bdw)
        owdGap == RSub(owd[order[i + 1]], owd[order[i]])
        gap == RMul(owdGap, bdwSum)
        fill == [p \in lowerPaths |-> RMul(owdGap, bdw[p])]
        split == [p \in lowerPaths |-> RDiv(RMul(acc.rem, bdw[p]), bdwSum)]
        cutted == RSum(lowerPaths, split)
    IN IF acc.stop THEN acc
       ELSE IF owdGap = Zero THEN [acc EXCEPT !.stop = TRUE]
       ELSE IF RGt(acc.rem, gap)
       THEN [vol  |-> [p \in DOMAIN acc.vol |->
                         IF p \in lowerPaths THEN RAdd(acc.vol[p], fill[p]) ELSE acc.vol[p]],
             rem  |-> acc.rem,
             stop |-> FALSE]
       ELSE [vol  |-> [p \in DOMAIN acc.vol |->
                         IF p \in lowerPaths THEN RAdd(acc.vol[p], split[p]) ELSE acc.vol[p]],
             rem  |-> RSub(acc.rem, cutted),
             stop |-> RLeq(RSub(acc.rem, cutted), Zero)]

\* Fault model: each gap measured from the fastest path.
CloseGapFromFirst(order, bdw, owd, acc, i) ==
    LET lowerPaths == {order[k] : k \in 1..i}
        bdwSum == RSum(lowerPaths, bdw)
        owdGap == RSub(owd[order[i + 1]], owd[order[1]])
        gap == RMul(owdGap, bdwSum)
        fill == [p \in lowerPaths |-> RMul(owdGap, bdw[p])]
        split == [p \in lowerPaths |-> RDiv(RMul(acc.rem, bdw[p]), bdwSum)]
        cutted == RSum(lowerPaths, split)
    IN IF acc.stop THEN acc
       ELSE IF owdGap = Zero THEN [acc EXCEPT !.stop = TRUE]
       ELSE IF RGt(acc.rem, gap)
       THEN [vol  |-> [p \in DOMAIN acc.vol |->
                         IF p \in lowerPaths THEN RAdd(acc.vol[p], fill[p]) ELSE acc.vol[p]],
             rem  |-> RSub(acc.rem, RSum(lowerPaths, fill)),
             stop |-> FALSE]
       ELSE [vol  |-> [p \in DOMAIN acc.vol |->
                         IF p \in lowerPaths THEN RAdd(acc.vol[p], split[p]) ELSE acc.vol[p]],
             rem  |-> RSub(acc.rem, cutted),
             stop |-> RLeq(RSub(acc.rem, cutted), Zero)]

\* One iteration i of step 2 on [vol, rem, stop]: close the gap between
\* order[i] and order[i+1], or split what remains and stop.
CloseGap(order, bdw, owd, acc, i) ==
    LET lowerPaths == {order[k] : k \in 1..i}
        bdwSum == RSum(lowerPaths, bdw)
        owdGap == RSub(owd[order[i + 1]], owd[order[i]])
        gap == RMul(owdGap, bdwSum)
        fill == [p \in lowerPaths |-> RMul(owdGap, bdw[p])]
        split == [p \in lowerPaths |-> RDiv(RMul(acc.rem, bdw[p]), bdwSum)]
        cutted == RSum(lowerPaths, split)
    IN IF acc.stop THEN acc
       ELSE IF owdGap = Zero THEN [acc EXCEPT !.stop = TRUE]
       ELSE IF RGt(acc.rem, gap)
       THEN [vol  |-> [p \in DOMAIN acc.vol |->
                         IF p \in lowerPaths THEN RAdd(acc.vol[p], fill[p]) ELSE acc.vol[p]],
             rem  |-> RSub(acc.rem, RSum(lowerPaths, fill)),
             stop |-> FALSE]
       ELSE [vol  |-> [p \in DOMAIN acc.vol |->
                         IF p \in lowerPaths THEN RAdd(acc.vol[p], split[p]) ELSE acc.vol[p]],
             rem  |-> RSub(acc.rem, cutted),
             stop |-> RLeq(RSub(acc.rem, cutted), Zero)]

\* Step 3: the rest over all candidates in proportion to their shares.
SpreadRest(vol, rem, bdw) ==
  LET all == RSum(DOMAIN bdw, bdw) IN
  IF RGt(rem, Zero)
  THEN [p \in DOMAIN vol |-> RAdd(vol[p], RDiv(RMul(rem, bdw[p]), all))]
  ELSE vol

\* Steps 2 and 3, and the paths that got more than 0 bits, in bytes.
Allocate(size, order, bdw, owd) ==
  LET cands == DOMAIN bdw
      acc0 == [vol |-> [p \in cands |-> Zero], rem |-> Int2Rat(size * 8), stop |-> FALSE]
      acc2 == FoldLeft(LAMBDA acc, i : CloseGap(order, bdw, owd, acc, i), acc0, [i \in 1..(Len(order) - 1) |-> i])
      vol == SpreadRest(acc2.vol, acc2.rem, bdw)
  IN [p \in {q \in cands : RGt(vol[q], Zero)} |-> RDiv(vol[p], Int2Rat(8))]

\* The candidates: usable, and not the initial path.
Candidates(usable) == usable \ {InitialPathID}

Shares(s, usable, streamPaths, bw) ==
  [p \in Candidates(usable) |->
     Rat(Weight[s] * GetBandwidth(bw[p]), Weight[s] + PrioritySum(streamPaths, p))]

\* owd = srtt / 2 seconds, i.e. srtt in the model's half-millisecond unit.
Owds(usable, rtt) == [p \in Candidates(usable) |-> Int2Rat(rtt[p])]

SortedOrders(usable, rtt) ==
  {o \in SetToSeqs(Candidates(usable)) :
     \A i \in 1..(Len(o) - 1) : rtt[o[i]] <= rtt[o[i + 1]]}

ChoosePaths(s, paths, usable, streamPaths, bw, rtt, order) ==
  IF Cardinality(paths) <= 1
  THEN IF InitialPathID \in usable THEN (InitialPathID :> Int2Rat(Size[s])) ELSE <<>>
  ELSE Allocate(Size[s], order, Shares(s, usable, streamPaths, bw), Owds(usable, rtt))

(***************************************************************************)
(* The scheduling state of the session.  sch.numstreams is only read by    *)
(* checkPathQuota and findPath, which nothing calls, and stream.pathVolume *)
(* only by the stream framer; neither is kept.                             *)
(***************************************************************************)
VARIABLES
  perspective,  \* the session's perspective
  paths,        \* the IDs of sess.paths
  streamPaths,  \* stream -> the paths s.streamToPath maps it to
  checksize     \* the streams whose size choosePaths has detected

schVars == <<perspective, paths, streamPaths, checksize>>

Assigned == {s \in Streams : streamPaths[s] # {}}

\* The IP address the lookup of the session's perspective uses for a path.
PathAddr == IF perspective = "client" THEN ClientPathAddr ELSE ServerPathAddr

\* setupWithStatistics of a created path: its bandwidth estimate.
BdwStats == [p \in DOMAIN PathAddr |-> NewBDWStats(LookupBandwidth(PathAddr[p]))]

\* The smoothed RTTs the paths may have at a tick: the lookup value until
\* the first sample, a sample afterwards.
RTTsNow ==
  LET P == paths \ {InitialPathID} IN
  {r \in [P -> RTTValues \cup {LookupRTT(PathAddr[p]) : p \in P}] :
     \A p \in P : r[p] \in RTTValues \cup {LookupRTT(PathAddr[p])}}

\* The quotas (packets sent per path) at a tick.  findPathLowLatency reads
\* the quota of a path only while no path with an RTT is selected, so only
\* the quotas of paths set up without an RTT vary; the others read 0.
Quotas ==
  {q \in [paths -> QuotaValues] :
     \A p \in paths :
       p = InitialPathID \/ LookupRTT(PathAddr[p]) # 0 => q[p] = 0}

SchedInit ==
  /\ perspective \in Perspectives
  /\ paths = {InitialPathID}
  /\ streamPaths = [s \in Streams |-> {}]
  /\ checksize = {}

\* createPath on a client: the next path ID, set up with the lookup by the
\* local IP, inserted into sess.paths (the PING is PathManager's part).
ClientCreatePath ==
  /\ perspective = "client"
  /\ Cardinality(paths) <= Len(ClientPathIDs)
  /\ paths' = paths \cup {ClientPathIDs[Cardinality(paths)]}
  /\ UNCHANGED <<perspective, streamPaths, checksize>>

\* createPathFromRemote, or one path of createPathsFromRemotePathsFrame, on
\* a server: a client path of any ID not yet known, set up with the lookup
\* by the remote IP.
ServerCreatePathFromRemote(p) ==
  /\ perspective = "server"
  /\ p \in ServerPathIDs \ paths
  /\ paths' = paths \cup {p}
  /\ UNCHANGED <<perspective, streamPaths, checksize>>

\* Fault model: the nil check on the chosen path dropped.
AssignLowLatencyNoNilCheck(s) ==
  /\ s \in Streams \ Assigned
  /\ perspective = "client" \/ s \in HeaderStreams
  /\ \E usable \in SUBSET paths, rtt \in RTTsNow, quotas \in Quotas :
     \E order \in SetToSeqs(usable) :
       LET p == FindPathLowLatency(paths, usable, rtt, quotas, order) IN
       /\ streamPaths' = [streamPaths EXCEPT ![s] = {p}]
  /\ UNCHANGED <<perspective, paths, checksize>>

\* assignPath on a client (every stream) or for stream 1 or 3 on a server:
\* the lowest-latency path, with the Go map iterating the usable paths in
\* any order (the fold skips the others).  A nil result (ackRemainingPaths, and the tick
\* returns) changes nothing here.
AssignLowLatency(s) ==
  /\ s \in Streams \ Assigned
  /\ perspective = "client" \/ s \in HeaderStreams
  /\ \E usable \in SUBSET paths, rtt \in RTTsNow, quotas \in Quotas :
     \E order \in SetToSeqs(usable) :
       LET p == FindPathLowLatency(paths, usable, rtt, quotas, order) IN
       /\ p # NoPath
       /\ streamPaths' = [streamPaths EXCEPT ![s] = {p}]
  /\ UNCHANGED <<perspective, paths, checksize>>

\* assignPath on a server for any other stream: nothing before the server
\* has 3 paths; then choosePaths, which first detects the stream's size
\* (data waiting to be written).  An empty selection only records the
\* detection: with the size known the tick acks the paths and returns,
\* without it the stream waits; either way the stream stays unassigned.
AssignStream(s) ==
  /\ perspective = "server"
  /\ s \in NormalStreams \ Assigned
  /\ Cardinality(paths) >= 3
  /\ \E dataWaiting \in BOOLEAN :
       /\ s \in checksize \/ dataWaiting
       /\ checksize' = checksize \cup {s}
  /\ \E usable \in SUBSET paths, rtt \in RTTsNow :
       \E order \in SortedOrders(usable, rtt) :
         LET sel == ChoosePaths(s, paths, usable, streamPaths, BdwStats, rtt, order) IN
         \/ DOMAIN sel # {} /\ streamPaths' = [streamPaths EXCEPT ![s] = DOMAIN sel]
         \/ DOMAIN sel = {} /\ s \notin checksize /\ UNCHANGED streamPaths
  /\ UNCHANGED <<perspective, paths>>

SchedNext ==
  \/ ClientCreatePath
  \/ \E p \in ServerPathIDs : ServerCreatePathFromRemote(p)
  \/ \E s \in Streams : AssignLowLatency(s)
  \/ \E s \in NormalStreams : AssignStream(s)

SchedSpec == SchedInit /\ [][SchedNext]_schVars

(***************************************************************************)
(* Properties.                                                             *)
(***************************************************************************)
SchedTypeOK ==
  /\ perspective \in {"client", "server"}
  /\ InitialPathID \in paths /\ paths \subseteq DOMAIN PathAddr \cup {InitialPathID}
  /\ streamPaths \in [Streams -> SUBSET paths]
  /\ checksize \subseteq NormalStreams

\* What spec section 4.3 says findPathLowLatency returns: the initial path
\* only if it is the sole path; otherwise the usable non-initial path of
\* lowest smoothed RTT, or, when none has been probed, of lowest quota.
LowLatencyReference(P, usable, rtt, quotas) ==
  LET C == Candidates(usable)
      probed == {p \in C : rtt[p] # 0}
  IN IF Cardinality(P) <= 1 THEN usable \cap {InitialPathID}
     ELSE IF probed # {} THEN {p \in probed : \A q \in probed : rtt[p] <= rtt[q]}
     ELSE {p \in C : \A q \in C : QuotaOf(quotas, p) <= QuotaOf(quotas, q)}

\* A stream the next tick would place with findPathLowLatency.
LowLatencyPending ==
  (IF perspective = "client" THEN Streams ELSE HeaderStreams) \ Assigned # {}

\* findPathLowLatency, while a stream still waits for it: whatever the
\* paths' smoothed RTTs and quotas, whichever of them can send and whatever
\* order the Go map iterates them in, it picks a path the reference allows,
\* and nil only when the reference has none.  (The map order matters only
\* through the usable paths; the fold skips the others.)
LowLatencyMatchesReference ==
  LowLatencyPending =>
    \A usable \in SUBSET paths, rtt \in RTTsNow, quotas \in Quotas :
      LET ref == LowLatencyReference(paths, usable, rtt, quotas) IN
      \A order \in SetToSeqs(usable) :
        LET p == FindPathLowLatency(paths, usable, rtt, quotas, order) IN
        IF ref = {} THEN p = NoPath ELSE p \in ref

\* The inputs of a choosePaths call the next tick could make for a stream
\* still waiting for paths: any usable paths, any RTTs, any sorted order.
PendingCalls ==
  IF perspective = "client" \/ Cardinality(paths) < 3 THEN {}
  ELSE UNION {{[s |-> s, usable |-> u, rtt |-> r, order |-> o] : o \in SortedOrders(u, r)} :
               s \in NormalStreams \ Assigned, u \in SUBSET paths, r \in RTTsNow}

Selection(c) == ChoosePaths(c.s, paths, c.usable, streamPaths, BdwStats, c.rtt, c.order)

\* choosePaths splits the whole stream: the bytes it assigns to the selected
\* paths add up to the stream's detected size, or it selects none.
ChoosePathsConservesSize ==
  \A c \in PendingCalls :
    LET sel == Selection(c) IN
    DOMAIN sel = {} \/ RSum(DOMAIN sel, sel) = Int2Rat(Size[c.s])

\* Completion time of path p's part: volume / share + one-way delay.
FinishTime(sel, bdw, owd, p) == RAdd(RDiv(RMul(sel[p], Int2Rat(8)), bdw[p]), owd[p])

\* The purpose of choosePaths (spec 4.3: "finishing simultaneously"): when
\* the candidates' one-way delays differ and every share is positive, all
\* selected paths finish their parts at the same time, and no candidate
\* left out could have started delivering before that time.
ChoosePathsEqualFinish ==
  \A c \in PendingCalls :
    LET C == Candidates(c.usable)
        bdw == Shares(c.s, c.usable, streamPaths, BdwStats)
        owd == Owds(c.usable, c.rtt)
        sel == Selection(c)
    IN (/\ \A p, q \in C : p # q => c.rtt[p] # c.rtt[q]
        /\ \A p \in C : RGt(bdw[p], Zero))
       => /\ \A p, q \in DOMAIN sel : FinishTime(sel, bdw, owd, p) = FinishTime(sel, bdw, owd, q)
          /\ \A p \in DOMAIN sel, q \in C \ DOMAIN sel : RLeq(FinishTime(sel, bdw, owd, p), owd[q])

====
