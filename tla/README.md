# TLA+ models of PStream

PStream is a multipath QUIC endpoint (Go). It splits one byte stream across several
network paths. Each path runs its own reliability engine, and a scheduler decides
what goes on which path. This directory holds TLA+ models of that code,
TLC configurations that check them, and `PROJECT.json`. PROJECT.json lists:

- the components;
- the runs and their properties;
- the mutants;
- the map from each definition to the source lines it models;
- the findings;
- the hazards.

## 1. Inventory of the system

| Part (spec id) | Source | State | Operations that change state |
|---|---|---|---|
| Sent-packet handler (C5), one per path | `src/ackhandler/sent_packet_handler.go` 1-657 | `lastSentPacketNumber`, `skippedPackets` (capped list), `numNonRetransmittablePackets`, `LargestAcked`, `largestReceivedPacketWithAck`, `packetHistory` (ascending pn), `retransmissionQueue`, `bytesInFlight`, `rtoCount`, `tlpCount`, `lossTime`, `alarm` | `SentPacket`, `ReceivedAck`, `ReceivedClosePath`, `OnAlarm` (loss / TLP / RTO), `DequeuePacketForRetransmission`, `DuplicatePacket` (no caller), internal `detectLostPackets`, `SetInflightAsLost`, `garbageCollectSkippedPackets`, `updateLossDetectionAlarm` |
| Stop-waiting manager (C6) | `src/internal/wire/public_reset.go` 141-189 | `largestLeastUnackedSent`, `nextLeastUnacked`, `lastStopWaitingFrame` | `GetStopWaitingFrame(force)`, `ReceivedAck`, `QueuedRetransmissionForPacketNumber` |
| Packet packer (C8) | `sent_packet_handler.go` 724-1345 (packet_packer.go) | control-frame queue, per-path packet-number generator | `PackPacket`, `PackPacketOfPath`, `PackPacketOfStream`, `PackAckPacket`, `PackConnectionClose`, `PackPing`, `PackHandshakeRetransmission`, `QueueControlFrame`, `composeNextPacket*` |
| Scheduler (C11) | `src/scheduler.go` | `roundRobinIndexPath`, stream-to-path assignment, per-path stream lists | `sendPacket` (the send loop), `getRetransmission(OfPath)`, `scheduleToMultiplePaths`, `choosePath(s)`, `ackRemainingPaths`, `performPacketSending` |
| Path manager (C9/C10) | `src/unnamed/part_000` | `nxtPathID`, `nbPaths`, remote and advertised addresses, open/closed paths | `setup`, `createPath(s)`, `createPathFromRemote`, `handleAddAddressFrame`, `closePath(s)` |
| Congestion / RTT / bandwidth (C2-C4) | only `src/congestion/bdw_stats.go`, `stats.go` | — | `UpdateBDW` returns at once (`disable := true`) |
| Wire helpers | `public_reset.go` 1-140, `blocked_frame.go`, `log.go`, `ack_range.go` | — (bytes in, frame out) | `WritePublicReset` / `ParsePublicReset`, CONNECTION_CLOSE and BLOCKED `Write` / `MinLength` / `Parse...Frame`; `LogFrame` only logs |
| Version negotiation | `part_002` | — | encoding and parsing only |

### How the parts interact

The scheduler's send loop visits the open paths round-robin. For each path it:

1. asks the path's handler `SendingAllowed`;
2. dequeues that path's retransmissions into the stream framer;
3. queues ACK, STOP_WAITING and CLOSE_PATH frames;
4. has the packer build a packet; sending it calls `SentPacket`.

An idle path gets an ACK-only packet from `ackRemainingPaths`, which does not call `SendingAllowed`.

A received ACK or CLOSE_PATH frame goes to the handler of its path. The handler:

- removes the acknowledged packets;
- runs loss detection, which moves the lost packets to the retransmission queue;
- re-arms the alarm;
- garbage-collects the skipped numbers;
- raises the stop-waiting manager's least-unacked.

When the alarm fires, the session calls `OnAlarm`. It runs time-based loss detection, a tail-loss probe (the newest packet is queued), or an RTO (the oldest two packets, or all of them when the path's RTO callback reports the path as potentially failed, are queued).

### What is hard here

- **Reordering and loss in both directions.** ACKs can arrive out of order, late, or never. A late ACK can acknowledge a packet that a TLP or RTO has already queued.
- **Misbehaving peers.** Skipped packet numbers detect optimistic ACKs. Every error path (`AckForUnsentPacket`, `AckForSkippedPacket`, the BUG of the range walk) must leave the accounting intact. An honest peer must never reach one.
- **Partial updates.** `ReceivedAck` sets `LargestAcked` and takes the RTT sample before the checks that may reject the frame.
- **Boundaries.** These include the tracked-packet ceiling, the skipped-list cap, and the RTO backoff shift (`rto << rtoCount`).

### Properties each part needs

- Handler:
  - `bytesInFlight` equals the sum of the lengths of the packets in the history;
  - no sent data is ever dropped;
  - the alarm is armed while packets are outstanding;
  - an honest peer never triggers an error;
  - `LargestAcked` never decreases;
  - the skipped list stays above `largestInOrderAcked`;
  - (liveness) all data is eventually acknowledged.
- Packer: a STOP_WAITING-only packet is never sent; CONNECTION_CLOSE is alone in its packet; packets stay within the size limit.
- Scheduler: retransmissions are sent before new data on a path, no path is starved while it has window, and the send loop terminates.
- Path manager: path IDs are unique and keep the parity rule; a closed path never carries new data.

## 2. Plan

The modules are ordered so that the behaviour that matters most comes first.

1. **SentPacketHandler** (done): one path's handler and stop-waiting manager, an honest or a misbehaving peer, and a lossy, reordering network.
2. **Liveness of the handler** (done): weak fairness on `OnAlarm` only, and "every unit in flight is eventually acknowledged or given up for retransmission". Acknowledgement itself needs fairness of the peer and the network, which the code cannot guarantee.
3. **RTOTimeout** (done): `computeRTOTimeout` with Go's int64 shift semantics over `rtoCount` 0..66, checked for a backoff that never shrinks.
4. **AckRanges**: `determineNewlyAckedPackets` checked against the reference definition ("acked = history ∩ ranges") over all well-formed frames.
5. **Packer** (done): frame ordering, size budget, the PING and STOP_WAITING-only refusal rules, CONNECTION_CLOSE.
6. **SendLoop** (done, partly): two paths, the round-robin send loop, `getRetransmissionOfPath`, `performPacketSending`, `ackRemainingPaths` and the tracked-packet ceiling, over the Packer. The stream-to-path assignment is in **PathScheduler** (done). Still to do: the `s.paths` / `s.openPaths` race with `createPath`.
7. **PathManager** (done, safety): path-ID allocation, parity, remote path creation and closing. Still to do: a liveness run ("every client path is eventually known to the server").
8. **ReliableTransfer** (done): an abstract reliable-transfer specification, which SentPacketHandler refines (`INSTANCE ... WITH`).

## 3. Modules

### SentPacketHandler.tla

Models `sentPacketHandler` and the `stopWaitingManager` it owns. The state variables carry the names of the Go fields. Time is abstracted as follows:

- `alarm` is the kind of alarm `updateLossDetectionAlarm` would arm ("none", "loss", "tlp", "rto"). `AlarmFor` is that function of the history, `lossTime`, whether an RTT sample exists, and `tlpCount`.
- Send times grow along the history, so the packets `detectLostPackets` declares lost are always a prefix of those at or below `LargestAcked`. The model chooses the length `k` of that prefix. `lossTime` is set exactly when a packet of that range is left (`DetectLost`).
- `OnAlarm` may fire at any moment once the alarm is armed.

The actions are:

- **`SentPacket(pn, len, d)`** models the whole of `SentPacket`:
  - it appends the skipped numbers and applies the cap (`AddSkipped`);
  - it checks the tracked-packet ceiling, error included (`TooManyTracked`);
  - it updates the history, `bytesInFlight` and the non-retransmittable counter;
  - it re-arms the alarm.

  `SendPacket` chooses its inputs. The next packet number skips at most one value. A packet carries one unit of data (`d`) or none (an ACK-only packet). A packet with data is sent only when `SendingAllowed` holds, as in the scheduler's send loop.
- **`ReceivedAck(f)`** has one disjunct per early return:
  - an ACK for an unsent packet;
  - a duplicate or out-of-order frame, which the session ignores;
  - a repeated ACK;
  - an ACK for a skipped packet, or a BUG from `AckWalk`, which is `determineNewlyAckedPackets` walking the ranges;
  - success, with loss detection, the alarm, the skipped-list collection and the stop-waiting manager.
- **`ReceivedClosePath(f)`** works the same way, but does not compare against `largestInOrderAcked` and takes no RTT sample. It then runs `SetInflightAsLost` with the handler's own `LargestAcked`, and does not touch the alarm.
- **`OnAlarm`** covers four cases: nothing outstanding, loss, TLP, and RTO. In the RTO case the model chooses the answer of `onRTOCallback`.
- **`DequeuePacketForRetransmission`** hands the unit of data back to the framer (`toResend`).
- **`GetStopWaitingFrame(force)`** models the stop-waiting manager.
- **The peer and the network** are not under src/. The peer ACKs what it received, as maximal ranges from the highest. A misbehaving peer (`PeerHonest = FALSE`) ACKs any non-empty set. The network loses or reorders packets and frames. An honest peer's CLOSE_PATH is its last frame on the path.

Each operator marked "Fault model" states a plausible bug in the definition that follows it. Each one is used to show that a property is able to detect that bug.

### PathManager.tla

Models the `pathManager` of both ends of one connection. The client's state is `cRun`, `cNxt` (= `nxtPathID`), `cPaths` (= `sess.paths`, path ID ↦ local/remote address pair), `cRemote` (= `remoteAddrs4`/`remoteAddrs6` in arrival order), `cLocal` (= `pconnMgr.localAddrs`) and `cClosing` (the paths whose `closeChan` was signalled). The server keeps its known path IDs and `advertisedLocAddrs`.

- `createPaths` on the client is one action. Both of its callers, `run()` and `handleAddAddressFrame`, hold `pconnMgr.mutex` around the loop. The action folds `CreatePath` over the pairs in the order of the two loops (`CandidatePairs`). A PING may fail at any visited pair (`FailurePoints`). The path is then already inserted and `nxtPathID` advanced, the loop stops, and no PATHS frame is scheduled.
- `run()` has three actions:
  - `ClientHandshakeCompleted`: on error it calls `closePaths` and returns;
  - `ClientChangePaths`: the error is dropped;
  - `ClientShutdown`: `closePaths`, unless the handshake never completed.
- `handleAddAddressFrame` returns its error to the session, which closes (`cErr`).
- The server's `createPaths` only advertises its addresses. `createPathFromRemote` handles a PING on an unknown path. `createPathsFromRemotePathsFrame` handles a PATHS frame; it skips known IDs and stops at the first ID of bad parity, whose position in the frame is any, because the frame follows map order.
- Frames are retransmittable QUIC frames, so they are reordered but never lost. New interfaces come up (`ClientAddrUp`, `ServerAddrUp`) and signal `changePaths`.

### ReliableTransfer.tla and the refinement

`ReliableTransfer` is what one path's handler promises about units of stream data. A unit is `new`, then `inflight`, then `lost` (given up: loss detection, TLP, RTO, CLOSE_PATH) or `acked` for good. Lost units are sent again; fresh units leave in stream order. `SentPacketHandler` instantiates it with the refinement mapping `dataStatus`:

- `acked` once a packet carrying the unit was acknowledged;
- `inflight` while a packet carrying it is in `packetHistory`;
- `lost` while it is in `retransmissionQueue` or back with the framer (`toResend`);
- `new` otherwise.

`closed` is mapped to "the handler returned an error". `ImplementsReliableTransfer` (`RT!Spec`) is checked as a PROPERTY of the honest run. `FairSpec` adds `WF_vars(OnAlarm)`; the session's run loop selects on the alarm timer, so an armed alarm is not ignored for ever. Nothing is assumed of the peer or the network. Under `FairSpec`, `InflightEventuallyResolved` states that every unit in flight is eventually acknowledged or given up, unless the connection closes.

### PathScheduler.tla

This module models `scheduleToMultiplePaths`, `findPathLowLatency` and `choosePaths` of `scheduler.go` for one end (`perspective`). It uses `NewBDWStats` / `GetBandwidth` of `bdw_stats.go`, and the per-address RTT/bandwidth lookup of `createPath` and `createPathFromRemote`. The state is:

- `paths`, the IDs in `s.paths`;
- `streamPaths`, which is `s.streamToPath`;
- `checksize`, the streams whose size `choosePaths` has detected.

The actions are:

- `ClientCreatePath` and `ServerCreatePathFromRemote`: paths arrive as the path manager creates them, and are never removed (PathManager's `PathsNeverReplaced`).
- `AssignLowLatency(s)`: the client assigns every stream, and the server assigns the header streams 1 and 3, to `findPathLowLatency`. A nil result means `ackRemainingPaths` and returning false, so nothing is assigned.
- `AssignStream(s)`: the server assigns another stream once it has three paths. Size detection runs first. An empty selection after the size is known is the error return; before it is known, the stream waits.

Inputs chosen with `\E` at each call are:

- the paths with `SendingAllowed` and not potentially failed (`usable`);
- the smoothed RTTs: any value once probed, or the lookup value;
- the quotas of unprobed paths;
- the order in which Go's map iteration meets the paths.

`float64` arithmetic is done in exact rationals (`Rat`, `RAdd`, ...). NaN is a distinct value, so 0/0 cannot pass unnoticed. Volumes are in units of 2^20/2000 bits, so the bandwidths 1 and 20 Mbit/s and the RTTs in ms stay integers. `choosePaths` is split into named steps:

- `Candidates`: the filter;
- `Shares`, `PrioritySum`: bandwidth share by priority;
- `Owds`, `SortedOrders`: one-way delays and the sort;
- `CloseGap`: step 2, closing the delay gap pair by pair, with the break at `owdGap == 0`;
- `SpreadRest`: step 3;
- `Allocate`: the byte selection.

`MC_PathScheduler.tla` composes this module with `MC_PathManager` in two exclusive modes, which `component` chooses at the start. Either the client and server path managers run, or one scheduler runs (client or server) with its paths arriving in any order. The scheduler reads only the set of path IDs and their addresses from the path manager. Checking the two in one product multiplied the state space without adding interleavings the scheduler can observe. `findPathLowLatency` and `choosePaths` run inside one `sendPacket` tick, under the session's run loop.

### RTOTimeout.tla

Models `computeRTOTimeout` and the RTO case of `updateLossDetectionAlarm` (the `MaxDuration(..., minRetransmissionTime)` at line 415), driven by two actions:
- `OnAlarmRTO`: the RTO branch of `OnAlarm`, `rtoCount++`;
- `OnPacketAcked`: `rtoCount = 0`; the RTT sample of the ACK may change `RetransmissionDelay()`.

The state is `rtoCount` and the current `RetransmissionDelay()` (`delay`, 0 before any RTT sample).

A `time.Duration` is an int64 number of nanoseconds. TLC integers are 32-bit, so durations are written in units of 256 ns; every constant of the code is a multiple of that. `ShiftLeft64` computes `rto << rtoCount` truncated to 64 bits: the sign bit, or zero once the shift reaches 64. It keeps the result exactly where the following `MinDuration`/`MaxDuration` can tell values apart: negative, zero, exact below 60 s, "at least 60 s".

### WireCodec.tla

Models the frame codecs of `public_reset.go` (1-66 PUBLIC_RESET, 88-140 CONNECTION_CLOSE) and `blocked_frame.go` as operators on byte sequences:
- `WritePublicReset` / `ParsePublicReset`, on top of `ParseHandshakeMessage` (the QUIC crypto message: tag, entry count, an index of `(tag, end offset)` pairs, then the values, each checked and read with `io.ReadFull`);
- `ConnectionCloseWrite`, `ConnectionCloseMinLength`, `ParseConnectionCloseFrame`;
- `BlockedWrite`, `BlockedMinLength`, `ParseBlockedFrame`.

`utils.GetByteOrder`, `ParseHandshakeMessage`, the tag values and the 9-byte public header in front of a PUBLIC_RESET are not under src/; they are modelled from the spec and the QUIC crypto format (marked spec_modelled). Byte order is a parameter with both values.

The state is one sender and one receiver: `sent` (the frame), `order`, `datagram` (the bytes written), `received` (how many of them the receiver reads) and `parsed` (the parser's result). `SendPublicReset`, `SendConnectionClose` and `SendBlocked` write a frame, once the previous one was read; `Receive` reads the whole datagram or any proper prefix of it and applies the parser the frame type selects.

### Packer.tla

Models the `packetPacker` (sent_packet_handler.go 724-1345). The state is the control-frame queue shared by all paths, each path's queued ACK and STOP_WAITING slot, each path's packet-number generator, the stream data and crypto data the framer holds, and the encryption level. Sizes are counted in frames (`PayloadBudget`). Each `Pack*` method is one action, with the refusal rules of `PackPacket` kept in order: a PING at the head of the queue is packed alone, which clears the ACK slot; a packet of only a PING or only a STOP_WAITING is refused. `QueueControlFrame` and the framer are environment actions. Ghost variables record which ACKs and control frames were queued and sent.

### SendLoop.tla

Extends Packer with one session's `sendPacket` (scheduler.go 1199-1352), as a program counter `pc` over its steps:
- `SendPacketStart`: queue the window updates, take the round-robin start;
- `PathLoop` / `StreamRound`: the PATHLOOP over `openPaths`, the window check and `getRetransmissionOfPath` (`Dequeue`, `RequeuedControl`);
- `HandshakeQueueStopWaiting` / `HandshakeSend`: the handshake retransmission;
- `QueuePathFrames`: ACK, STOP_WAITING and CLOSE_PATH;
- `PerformQueuePing` / `PerformPack` / `PerformRequeue`: `performPacketSending`;
- `PathLoopDone`: the outer loop condition;
- `AckRemainingQueue` / `AckRemainingSend` / `AckRemainingDone`: `ackRemainingPaths`, over the paths in any order (Go map order).

Each path's `sentPacketHandler` is abstracted to the following:
- its history of packets, each recorded with the frames `SentPacket` keeps;
- its retransmission queue;
- `numNonRetransmittablePackets`;
- its stop-waiting manager (`GetStopWaitingFrame`, `ReceivedAck`, `QueuedRetransmissionForPacketNumber`).

`SentPacket` keeps the tracked-packet check of line 140. Between two ticks the environment acts: the peer sends a packet to ACK, ACKs or loses one of ours, the application writes, the flow controller wants a window update, the framer gets a CLOSE_PATH, or the handshake completes. The paths that carry streams are the constant `StreamNum`, which stands in for `pathScheduler`.

## 4. Runs

All runs use `MC_SentPacketHandler.tla` with these bounds:

- 4 packet numbers (3 for the misbehaving peer);
- 2 ACK packets from the honest peer, 1 from the misbehaving peer (its one frame may acknowledge any set, which reaches every error path a peer can cause, though not the BUG branch, which well-formed ACKs never reach; the honest run covers reordered frames and `SetInflightAsLost` after an earlier ACK);
- 2 units of data;
- 2 consecutive RTOs;
- packet length 1;
- congestion window 1;
- a tracked-packet ceiling of 2;
- a skipped-list cap of 1.

These are enough for the interesting cases:

- two skips (the cap drops one);
- a TLP and an RTO on a two-packet history;
- a late ACK after an RTO;
- reordered ACKs;
- the tracked-packet ceiling reached by an ACK-only packet (the two units of data keep at most two packets tracked).

Together the two passing runs fire every action and every disjunct.

| Run | cfg | Expect | What it shows |
|---|---|---|---|
| handler_honest | MC_SentPacketHandler.cfg | pass (≈2.4M states) | With an honest peer, all of the following hold: `TypeOK`; `BytesInFlightMatchesHistory`; `NoDataLost` (every sent unit is acknowledged, in the history, queued, or back in the framer); `AlarmArmedWhileOutstanding`; `HonestPeerNeverRejected`; `LargestAckedMonotone`; `ImplementsReliableTransfer` (the refinement). |
| handler_misbehaving | MC_Misbehaving.cfg | pass (≈91k states) | A peer ACKing or closing with arbitrary sets reaches every error path a peer can cause (the BUG branch stays unreachable). It still cannot break `BytesInFlightMatchesHistory`, `NoDataLost` or `AlarmArmedWhileOutstanding`. Under `FairSpec`, `InflightEventuallyResolved` holds: no unit stays in flight for ever, whatever the peer does. |
| largest_acked_decreases | MC_LargestAcked.cfg | violation | A peer ACKs {3} and then {1} in a later ACK packet, and `LargestAcked` goes from 3 to 1. The guard at line 197 compares against `largestInOrderAcked`. Spec §3 says it never decreases. |
| skipped_gc | MC_SkippedGC.cfg | violation | A packet is sent with the number below it skipped while `largestInOrderAcked` is already past that number, e.g. when the history is empty or its head left for the retransmission queue; the shortest trace depends on the exploration order (one sends 2 first with 1 skipped, another sends 1 as an ACK-only packet first). The list is only collected after an ACK; spec §8 says it never holds such numbers. |

The RTOTimeout run (`MC_RTOTimeout.tla`) uses three `RetransmissionDelay()` values (100 ms, under the 200 ms floor; 200 ms; 1 s), plus 0 before any RTT sample, and up to 66 consecutive RTOs. That is past 64, where every value has shifted out.

| Run | cfg | Expect | What it shows |
|---|---|---|---|
| wire_codec | MC_Wire.cfg | pass (5851 states) | `CodecRoundTrip`: a datagram read in full parses back to exactly the frame written, and `MinLength` equals the bytes `Write` produced; `TruncatedRejected`: every proper prefix of a datagram fails to parse. |
| rto_backoff_collapse | MC_RTOBackoff.cfg | violation | `BackoffNeverShrinks` fails: with the 500 ms default, `500 ms << 35` is negative. The alarm drops from 60 s to the 200 ms floor after the 35th consecutive RTO. The spec says the RTO is clamped at 60 s. |

The PathManager runs (`MC_PathManager.tla`, and `MC_PathScheduler.tla` for `pathmanager`) use these addresses:

- client: `c1`, `c2` (IPv4), plus `c3` (IPv6), which may come up later and has no IPv6 peer, so the version filter matters;
- server: `s1`, plus `s2`, which comes up later.

The initial path is `(c1, s1)`. `s1` is advertised again by ADD_ADDRESS, so the existence check of `createPath` matters. PINGs may fail.

| Run | cfg | Expect | What it shows |
|---|---|---|---|
| pathmanager | MC_PathScheduler.cfg | pass (≈31k states, ≈1.5 min) | Path manager mode: `NoDuplicatePaths`; `PathsNeverReplaced`; `ClientPathsAccepted` (the server's parity check never rejects a client path, whatever the order of PINGs and PATHS frames). Scheduler mode: `SchedTypeOK`; `LowLatencyMatchesReference` (for every map order, `findPathLowLatency` returns a path that spec §4.3's order-free rule allows, and nil only when that rule allows none); `ChoosePathsConservesSize` (the volumes handed out sum to the stream size); `ChoosePathsEqualFinish` (with distinct delays, the chosen paths finish together, and every path left out has a delay no smaller than that finish time). |
| path_parity | MC_PathParity.cfg | violation | The first path the client creates is 1. Spec §3 and the comment in `setup` say client paths are even. |
| initial_path_closed | MC_InitialPathClosed.cfg | violation | A PING fails in the first `createPaths`. `run()` then signals `closeChan` of every path, path 0 included, with no session shutdown (spec §5). |

`ChoosePathsEqualFinish` requires distinct delays. Without that premise TLC finds unequal finish times in 4 steps: three server paths with RTTs 1, 1 and 2. Step 2 of `choosePaths` breaks at the first pair with `owdGap == 0` (scheduler.go:812), while spec §4.3 walks every pair. Step 3 then spreads the rest onto the slower path too. This is listed as a hazard; no run slot is left to keep it as a violation run.

The Packer runs (`MC_Packer.tla`) use two paths, a PING, a BLOCKED and another control frame, a payload budget of 3 frames and 6 packets per path.

| Run | cfg | Expect | What it shows |
|---|---|---|---|
| packer | MC_Packer.cfg | pass | `TypeOK` and `ControlFramesNotLost`: a queued control frame other than a PING stays queued until sent, through every Pack call, size budget and refusal. |

`MC_PackerAckDiscard.cfg` checks `AckNotDiscarded` (an ACK handed to the packer is sent or superseded, never cleared unsent). TLC violates it in 4 steps: a PING at the head of the queue is packed alone, and the path's queued ACK is cleared unsent (sph:896). It is kept as a configuration, not a run.

The SendLoop runs (`MC_SendLoop.tla`) have the following setup:
- two paths; `p1` is the initial path and the only one with a stream; `p2` only ACKs;
- one unit of stream data and one ACK per path;
- a congestion window of 1 packet and `MaxNonRetransmittablePackets` 1, so a PING is forced after one ACK-only packet;
- a tracked ceiling of 4;
- at most `MaxPackets` packet numbers per path, enforced by the state constraint `PacketNumberBound`: 5 in the safety run, 6 in the liveness run.

States cut off by the constraint are not deadlocks. `SendStep` stays enabled on them, so liveness is not distorted. The safety run turns on one window update, one CLOSE_PATH and one loss together, and finishes in about 90 s.

| Run | cfg | Expect | What it shows |
|---|---|---|---|
| sendloop | MC_SendLoop.cfg | pass (≈1.5 min) | `SendLoopTypeOK`; `NoPackerBug`: a handshake retransmission always has a STOP_WAITING, because the stop-waiting manager moved past the lost packet. `ControlFramesReliable` (a CLOSE_PATH stays queued, in flight, acknowledged, or in the retransmission queue of a path that carries streams) is not checked here: under `MC_SendLoopCloseLost.cfg` (two losses) TLC violates it in 55 steps, because `ackRemainingPaths` packs the CLOSE_PATH on the stream-less path with the window updates and `sendPacket` never calls `getRetransmissionOfPath` for that path (scheduler.go 1332-1338). It is listed as a hazard. |
| sendloop_ping_livelock | MC_SendLoopLivelock.cfg | violation | `DataEventuallySent` fails. After a loss, `p1` always has a STOP_WAITING queued. The PING that `performPacketSending` queues is packed alone and refused, so `p1` never sends its data, although every tick runs and the peer keeps acknowledging. |

`MC_SendLoopTracked.cfg` checks `NoTrackedOverflow` with a tracked ceiling of 3. TLC violates it: `SendingAllowed` refuses `p1` at the ceiling, `ackRemainingPaths` still sends it an ACK-only packet, and `SentPacket` counts that packet before stripping the ACK. `ErrTooManyTrackedSentPackets` then closes the session. Like the ACK-discard configuration, it is kept outside the runs.

Fairness in the SendLoop liveness run is as follows:
- `WF(SendStep)`: the session calls `sendPacket` on every wake-up and a tick runs to completion;
- `SF` of the peer's ACK of a packet in flight, per path: ACKs are processed between ticks only, so they are enabled intermittently.

The livelock is found under this fairness, which is at least as strong as what the code has, so it is real.

`MC_Wire.tla` instantiates the codec. Its inputs are packet numbers and nonces with one, two and four significant bytes, error codes 16 and 2^31 - 1, and reason phrases of 0, 2 and exactly `MaxPacketSize` (1350) bytes, the largest the parser accepts. Both byte orders are used, and every prefix length 0..n is read. TLC integers are 32-bit, so values stay below 2^31; the encoders still write all 8 bytes of a 64-bit field, and the inputs set the high bytes of the low word.

`CHECK_DEADLOCK FALSE` (SentPacketHandler, PathManager): the model stops at its bounds (the last packet number, the last ACK packet), and a connection closed by an error stops for good. The path managers stop once every address has been advertised and every pair realised. None of these is a deadlock of the code.

The PathManager and scheduler runs assume no fairness and check safety only. handler_misbehaving assumes weak fairness of `OnAlarm` only, because the session's run loop fires the alarm timer once it expires. In the scheduler mode, `MC_PathScheduler` uses three streams: 3 (a header stream), then 5 and 7 with weights 1 and 2. The sizes (1, 5 and 30 units) fill one path, two paths, or all three. The client's paths include an address the lookup does not know, which gives RTT 0 and reaches the quota branch. The server's three paths have lookup bandwidths 20, 1 and 20, and RTTs are 1..3 ms.

## 5. Not modelled, and why

- **RTT, CUBIC congestion control, bandwidth estimation.** They are not under src/. The model keeps a fixed window and "an RTT sample exists". `UpdateBDW` is disabled in the code.
- **Statistics counters** (`packets`, `retransmissions`, `losses`). They are only read for logging.
- **`DuplicatePacket`.** It has no caller in src/.
- **The packet-number generator, stream framer, session and receivedPacketHandler.** They are not under src/. They appear only as the environment of the handler.
- **`numstreams`, `pathVolume`, and the unused selection functions.** `scheduleToMultiplePaths` writes `numstreams`, but only the unused `checkPathQuota` / `findPath` read it. Only the stream framer, which is not under src/, reads `pathVolume`. `selectPathRoundRobin`, `iteratePathRoundRobin`, `selectPathLowLatency`, `choosePath`, `findPath` and `performPacketSendingStream` have no caller on the send path. SendLoop takes the assignment as the constant `StreamNum`, and PathScheduler models how it is made. The quota counters are incremented by the packet sender, so they are inputs here.
- **The race between `sendPacket` and `createPath` on `s.paths` / `s.openPaths`** (scheduler.go:1220-1231 against part_000:175-176). It needs the path manager composed with the send loop. It is listed as a hazard.
- **The path object (`path.go`: its goroutine, `open` flag, `closeChan` buffer).** It is not under src/. The per-address RTT/bandwidth lookup of `createPath` is modelled in PathScheduler.
- **A server whose paths all have bandwidth 0.** Step 3 of `choosePaths` then divides 0 by 0. This is listed as a hazard; the MC instance's server addresses all have a known bandwidth.
- **Version negotiation** (`part_002`). It is a pure conversion with no protocol state.
- **`LogFrame`** (`log.go`). It only formats debug output.
- **Reason phrases longer than `MaxPacketSize`.** `ConnectionCloseFrame.Write` accepts phrases up to 65535 bytes, but the parser rejects anything over `MaxPacketSize`, and the spec caps phrases at `MaxPacketSize`. Adding such a phrase to `MCPhrases` makes `CodecRoundTrip` fail. No violation-run slot is left to record this, so it is listed as a hazard.
