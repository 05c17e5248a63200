---------------------------- MODULE PathManager ----------------------------
(***************************************************************************)
(* The path managers of the two ends of a PStream connection               *)
(* (src/unnamed/part_000, pathManager).  The client creates a path for     *)
(* every (local address, remote address) pair of the same IP version and   *)
(* announces it with a PING on the path and a PATHS frame; the server only *)
(* advertises its addresses with ADD_ADDRESS frames and creates the paths  *)
(* it learns of (createPathFromRemote, createPathsFromRemotePathsFrame).   *)
(* Addresses are model values.  Frames are retransmitted by QUIC, so they  *)
(* are never lost, but they arrive in any order.                           *)
(***************************************************************************)
EXTENDS Naturals, Sequences, FiniteSets, SequencesExt, Functions, TLC

CONSTANTS
  ClientLocal0,     \* pconnMgr.localAddrs of the client at setup (sequence)
  ServerLocal0,     \* pconnMgr.localAddrs of the server; the first is the initial path's
  LateClientAddrs,  \* interfaces that may come up later on the client
  LateServerAddrs,  \* ... and on the server
  IPVersion,        \* getIPVersion: address -> 4 or 6
  PingMayFail       \* whether sess.sendPing may return an error

InitialPathID == 0

\* Fault model: the parity the comment of setup and spec section 3 give.
FirstPathIDAsDocumented(perspective) == IF perspective = "client" THEN 2 ELSE 1

\* setup: the first locally initiated path ID of each perspective
FirstPathID(perspective) == IF perspective = "client" THEN 1 ELSE 2

VARIABLES
  cRun,        \* client run(): "waitHandshake", "running", "closed"
  cNxt,        \* client nxtPathID
  cPaths,      \* client sess.paths: path ID -> [loc, rem]
  cRemote,     \* client remoteAddrs4 and remoteAddrs6, in arrival order
  cLocal,      \* client pconnMgr.localAddrs
  cChange,     \* a pending signal on the client's pconnMgr.changePaths
  cClosing,    \* path IDs whose closeChan the client's closePaths signalled
  cShutdown,   \* the session has signalled runClosed
  cErr,        \* the client session failed with an error from the path manager
  sRun,        \* server run(): "waitHandshake", "running"
  sPaths,      \* server sess.paths (IDs)
  sAdvertised, \* server advertisedLocAddrs
  sLocal,      \* server pconnMgr.localAddrs
  sChange,     \* a pending signal on the server's changePaths
  sErr,        \* the server session failed with an error from the path manager
  toServer,    \* PING and PATHS frames in flight
  toClient     \* ADD_ADDRESS frames in flight

clientVars == <<cRun, cNxt, cPaths, cRemote, cLocal, cChange, cClosing, cShutdown, cErr>>
serverVars == <<sRun, sPaths, sAdvertised, sLocal, sChange, sErr>>
vars == <<clientVars, serverVars, toServer, toClient>>

Pair(l, r) == [loc |-> l, rem |-> r]

(***************************************************************************)
(* Client: createPath / createPaths.                                       *)
(***************************************************************************)
\* The existence check at the top of createPath.
\* Fault model: the check dropped.
PathExistsNever(paths, p) == FALSE

PathExists(paths, p) == p \in Range(paths)

\* Fault model: createPath(remAddr, locAddr), the arguments swapped.
CandidatePairsSwapped(local, remote) ==
  FlattenSeq([i \in 1..Len(local) |->
                LET rs == SelectSeq(remote, LAMBDA r : IPVersion[r] = IPVersion[local[i]])
                IN [j \in 1..Len(rs) |-> Pair(rs[j], local[i])]])

\* The pairs createPaths visits, in the order of its two loops: every local
\* address with every remote address of the same IP version.
CandidatePairs(local, remote) ==
  FlattenSeq([i \in 1..Len(local) |->
                LET rs == SelectSeq(remote, LAMBDA r : IPVersion[r] = IPVersion[local[i]])
                IN [j \in 1..Len(rs) |-> Pair(local[i], rs[j])]])

\* Fault model: nxtPathID not advanced.
NextPathIDStuck(n) == n

\* pm.nxtPathID += 2
NextPathID(n) == n + 2

\* One createPath call on the running state [paths, nxt, pings, failed].
\* The path is inserted before sendPing; a failing PING leaves it there.
CreatePath(st, p, fails) ==
  IF st.failed \/ PathExists(st.paths, p) THEN st
  ELSE [paths  |-> (st.nxt :> p) @@ st.paths,
        nxt    |-> NextPathID(st.nxt),
        pings  |-> IF fails THEN st.pings ELSE st.pings \cup {st.nxt},
        failed |-> fails]

\* createPaths as the client runs it over its address lists; failAt is the
\* position, among the pairs it visits, of the createPath whose PING fails
\* (0: none fails).
ClientCreatePaths(local, remote, failAt) ==
  LET P == CandidatePairs(local, remote)
      st0 == [paths |-> cPaths, nxt |-> cNxt, pings |-> {}, failed |-> FALSE]
      st == FoldLeft(LAMBDA s, k : CreatePath(s, P[k], k = failAt), st0,
                     [k \in 1..Len(P) |-> k])
  IN [paths |-> st.paths, nxt |-> st.nxt, failed |-> st.failed,
      \* the PINGs, and schedulePathsFrame when every createPath succeeded
      msgs |-> {[kind |-> "ping", id |-> i] : i \in st.pings}
               \cup (IF st.failed THEN {}
                     ELSE {[kind |-> "paths", ids |-> DOMAIN st.paths]})]

FailurePoints(local, remote) ==
  IF PingMayFail THEN 0..Len(CandidatePairs(local, remote)) ELSE {0}

\* The effect of one createPaths call on the client's paths and the wire.
CreatePathsDone(R) ==
  /\ cPaths' = R.paths /\ cNxt' = R.nxt
  /\ toServer' = toServer \cup R.msgs

\* closePaths: signal every path of the client
ClosePaths == cClosing' = DOMAIN cPaths'

ClientUp == ~cErr

(***************************************************************************)
(* Client actions.                                                         *)
(***************************************************************************)
\* run(): handshakeCompleted, then createPaths; on error closePaths and return.
ClientHandshakeCompleted ==
  /\ ClientUp /\ cRun = "waitHandshake" /\ ~cShutdown
  /\ \E f \in FailurePoints(cLocal, cRemote) :
       LET R == ClientCreatePaths(cLocal, cRemote, f) IN
       /\ CreatePathsDone(R)
       /\ IF R.failed THEN ClosePaths /\ cRun' = "closed"
                      ELSE cRun' = "running" /\ UNCHANGED cClosing
  /\ UNCHANGED <<cRemote, cLocal, cChange, cShutdown, cErr, serverVars, toClient>>

\* run(): a changePaths signal; the error of createPaths is dropped.
ClientChangePaths ==
  /\ ClientUp /\ cRun = "running" /\ cChange /\ ~cShutdown
  /\ cChange' = FALSE
  /\ \E f \in FailurePoints(cLocal, cRemote) :
       CreatePathsDone(ClientCreatePaths(cLocal, cRemote, f))
  /\ UNCHANGED <<cRun, cRemote, cLocal, cClosing, cShutdown, cErr, serverVars, toClient>>

\* The session closes: runClosed; run() closes the paths unless it was
\* still waiting for the handshake.
ClientShutdown ==
  /\ ClientUp /\ ~cShutdown
  /\ cShutdown' = TRUE
  /\ UNCHANGED <<cPaths, cNxt, cRemote, cLocal, cChange, cErr, serverVars, toServer, toClient>>
  /\ \/ cRun = "waitHandshake" /\ cRun' = "closed" /\ UNCHANGED cClosing
     \/ cRun = "running" /\ cRun' = "closed" /\ ClosePaths
     \/ cRun = "closed" /\ UNCHANGED <<cRun, cClosing>>

\* handleAddAddressFrame: buffer the address by IP version, then
\* createPaths; its error goes back to the session, which closes.
ClientHandleAddAddress ==
  /\ ClientUp /\ ~cShutdown
  /\ \E m \in toClient :
       LET remote == Append(cRemote, m.addr) IN
       /\ toClient' = toClient \ {m}
       /\ cRemote' = remote
       /\ \E f \in FailurePoints(cLocal, remote) :
            LET R == ClientCreatePaths(cLocal, remote, f) IN
            /\ CreatePathsDone(R)
            /\ cErr' = R.failed
  /\ UNCHANGED <<cRun, cLocal, cChange, cClosing, cShutdown, serverVars>>

\* closePath(pthID), from the session: signal the path's closeChan; an
\* unknown ID is ignored.  A closed path stays in sess.paths.
ClientClosePath ==
  /\ ClientUp
  /\ \E id \in DOMAIN cPaths \ cClosing : cClosing' = cClosing \cup {id}
  /\ UNCHANGED <<cRun, cNxt, cPaths, cRemote, cLocal, cChange, cShutdown, cErr,
                 serverVars, toServer, toClient>>

\* An interface comes up: pconnMgr adds the address and signals changePaths.
ClientAddrUp ==
  /\ ClientUp /\ ~cShutdown
  /\ \E a \in LateClientAddrs \ ToSet(cLocal) :
       cLocal' = Append(cLocal, a) /\ cChange' = TRUE
  /\ UNCHANGED <<cRun, cNxt, cPaths, cRemote, cClosing, cShutdown, cErr, serverVars,
                 toServer, toClient>>

(***************************************************************************)
(* Server actions.  createPaths of a server only advertises addresses.     *)
(***************************************************************************)
\* advertiseAddresses: an ADD_ADDRESS frame for every local address not yet sent
Advertise ==
  LET new == ToSet(sLocal) \ sAdvertised IN
  /\ toClient' = toClient \cup {[kind |-> "addAddress", addr |-> a] : a \in new}
  /\ sAdvertised' = sAdvertised \cup new

ServerUp == ~sErr

ServerHandshakeCompleted ==
  /\ ServerUp /\ sRun = "waitHandshake"
  /\ sRun' = "running"
  /\ Advertise
  /\ UNCHANGED <<sPaths, sLocal, sChange, sErr, clientVars, toServer>>

ServerChangePaths ==
  /\ ServerUp /\ sRun = "running" /\ sChange
  /\ sChange' = FALSE
  /\ Advertise
  /\ UNCHANGED <<sRun, sPaths, sLocal, sErr, clientVars, toServer>>

ServerAddrUp ==
  /\ ServerUp
  /\ \E a \in LateServerAddrs \ ToSet(sLocal) :
       sLocal' = Append(sLocal, a) /\ sChange' = TRUE
  /\ UNCHANGED <<sRun, sPaths, sAdvertised, sErr, clientVars, toServer, toClient>>

\* The parity check of createPathFromRemote and createPathsFromRemotePathsFrame
\* on a server: client-initiated path IDs must be odd.
BadPathIDParity(id) == id % 2 = 0

\* A packet on a path the server does not know: createPathFromRemote.
ServerReceivePing ==
  /\ ServerUp
  /\ \E m \in toServer :
       /\ m.kind = "ping"
       /\ toServer' = toServer \ {m}
       /\ \/ m.id \in sPaths /\ UNCHANGED <<sPaths, sErr>>
          \/ /\ m.id \notin sPaths
             /\ IF BadPathIDParity(m.id) THEN sErr' = TRUE /\ UNCHANGED sPaths
                ELSE sPaths' = sPaths \cup {m.id} /\ UNCHANGED sErr
  /\ UNCHANGED <<sRun, sAdvertised, sLocal, sChange, clientVars, toClient>>

\* createPathsFromRemotePathsFrame: existing IDs are skipped; the first ID
\* of bad parity returns an error, the paths created before it remain.  The
\* order of the IDs in the frame is the sender's map order, so any.
ServerReceivePaths ==
  /\ ServerUp
  /\ \E m \in toServer :
       LET new == m.ids \ sPaths
           good == {i \in new : ~BadPathIDParity(i)}
       IN /\ m.kind = "paths"
          /\ toServer' = toServer \ {m}
          /\ IF good = new THEN sPaths' = sPaths \cup new /\ UNCHANGED sErr
             ELSE \E done \in SUBSET good : sPaths' = sPaths \cup done /\ sErr' = TRUE
  /\ UNCHANGED <<sRun, sAdvertised, sLocal, sChange, clientVars, toClient>>

(***************************************************************************)
(* setup on both ends, after the handshake packets on path 0.             *)
(***************************************************************************)
Init ==
  /\ cRun = "waitHandshake" /\ cNxt = FirstPathID("client")
  /\ cPaths = (InitialPathID :> Pair(ClientLocal0[1], ServerLocal0[1]))
  /\ cRemote = <<ServerLocal0[1]>> /\ cLocal = ClientLocal0
  /\ cChange = FALSE /\ cClosing = {} /\ cShutdown = FALSE /\ cErr = FALSE
  /\ sRun = "waitHandshake" /\ sPaths = {InitialPathID} /\ sAdvertised = {}
  /\ sLocal = ServerLocal0 /\ sChange = FALSE /\ sErr = FALSE
  /\ toServer = {} /\ toClient = {}

Next ==
  \/ ClientHandshakeCompleted \/ ClientChangePaths \/ ClientShutdown
  \/ ClientHandleAddAddress \/ ClientClosePath \/ ClientAddrUp
  \/ ServerHandshakeCompleted \/ ServerChangePaths \/ ServerAddrUp
  \/ ServerReceivePing \/ ServerReceivePaths

Spec == Init /\ [][Next]_vars

(***************************************************************************)
(* Properties.                                                             *)
(***************************************************************************)
TypeOK ==
  /\ cRun \in {"waitHandshake", "running", "closed"} /\ sRun \in {"waitHandshake", "running"}
  /\ cNxt \in Nat /\ DOMAIN cPaths \subseteq 0..cNxt
  /\ \A i \in DOMAIN cPaths : cPaths[i] \in [loc : ToSet(cLocal), rem : ToSet(cRemote)]
  /\ cClosing \subseteq DOMAIN cPaths /\ sPaths \subseteq Nat
  /\ {cChange, cShutdown, cErr, sChange, sErr} \subseteq BOOLEAN
  /\ sAdvertised \subseteq ToSet(sLocal)

\* The client never realises one (local, remote) pair as two paths, although
\* the server advertises the initial path's address too and addresses
\* arrive while createPaths runs from two goroutines.
NoDuplicatePaths == IsInjective(cPaths)

\* createPath never replaces a path the client already has.
PathsNeverReplaced ==
  [][\A i \in DOMAIN cPaths : i \in DOMAIN cPaths' /\ cPaths'[i] = cPaths[i]]_cPaths

\* The server accepts every path the client creates: the parity the client
\* allocates (setup, nxtPathID += 2) is the one createPathFromRemote and
\* createPathsFromRemotePathsFrame require of it.
ClientPathsAccepted == ~sErr

\* Spec section 3 and the comment of setup: client-initiated path IDs are even.
ClientPathIDsEven == \A i \in DOMAIN cPaths \ {InitialPathID} : i % 2 = 0

====
