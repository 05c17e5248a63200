------------------------------ MODULE SendLoop ------------------------------
(***************************************************************************)
(* The scheduler's send tick (src/scheduler.go: sendPacket,                *)
(* getRetransmissionOfPath, performPacketSending, ackRemainingPaths)       *)
(* composed with the packer of module Packer, the per-path part of the     *)
(* sent-packet handler it calls (SentPacket, SendingAllowed,               *)
(* ShouldSendRetransmittablePacket, the retransmission queue) and the      *)
(* stop-waiting manager (src/internal/wire/public_reset.go).               *)
(*                                                                         *)
(* sendPacket runs on the session goroutine and never suspends (spec 5),   *)
(* so its steps are a sequence of labelled steps (pc) and the environment  *)
(* (the peer, the network, the flow controller) moves only between ticks.  *)
(* A sent packet is a record of its number, its retransmittable frames and *)
(* whether it was forward-secure; all packets have the same length, so     *)
(* bytesInFlight is the number of packets in the history.                  *)
(***************************************************************************)
EXTENDS Packer

CONSTANTS
    Ping,           \* the PING frame performPacketSending queues
    Wuf,            \* a WINDOW_UPDATE frame of the flow controller
    ClosePath,      \* a CLOSE_PATH / ADD_ADDRESS frame of the stream framer
    OpenPaths,      \* s.openPaths, a sequence of the path IDs
    InitialPath,    \* protocol.InitialPathID
    StreamNum,      \* path -> len(path.streamIDs), as pathScheduler left it
    MaxNonRetransmittablePackets,
    CWnd,           \* congestion window, in packets
    MaxTracked,     \* protocol.MaxTrackedSentPackets
    MaxWufs,        \* window updates the flow controller produces (bound)
    MaxLosses,      \* losses the network causes (bound)
    MaxClosePaths   \* CLOSE_PATH / ADD_ADDRESS frames the framer produces (0 or 1)

ASSUME Ping \in PingFrames /\ {Wuf, ClosePath} \subseteq CtrlFrames \ PingFrames
ASSUME Range(OpenPaths) = Paths /\ InitialPath \in Paths

VARIABLES
    hist,           \* sentPacketHandler.packetHistory of each path
    retxQ,          \* sentPacketHandler.retransmissionQueue of each path
    numNonRetx,     \* numNonRetransmittablePackets, counted up to the threshold
    swNext,         \* stopWaitingManager.nextLeastUnacked
    swSent,         \* stopWaitingManager.largestLeastUnackedSent
    lastSW,         \* stopWaitingManager.lastStopWaitingFrame # nil
    ackPending,     \* receivedPacketHandler has an ACK to hand out
    framerRetx,     \* stream frames held for retransmission by the framer
    framerCtrl,     \* the framer holds a CLOSE_PATH / ADD_ADDRESS frame
    wufPending,     \* getWindowUpdateFrames would return a window update
    wufCount, losses, handshakeComplete,
    pc, cur, idx, start, rr, streamLeft, hasWindows, pathsent, wufs,
    hsPkt, remaining, err,
    ctrlAcked       \* control frames in packets the peer acknowledged

handlerVars == <<hist, retxQ, numNonRetx, swNext, swSent, lastSW>>
envVars == <<ackPending, framerRetx, framerCtrl, wufPending, wufCount, losses, handshakeComplete>>
loopVars == <<pc, cur, idx, start, rr, streamLeft, hasWindows, pathsent, wufs, hsPkt, remaining, err>>
allVars == <<vars, handlerVars, envVars, loopVars, ctrlAcked>>

NumPaths == Len(OpenPaths)
NoPkt == [pn |-> 0, frames |-> <<>>, fs |-> TRUE]
SentRecord == [pn : 1..MaxPackets, frames : Seq(CtrlFrames \cup {"stream", "hs"}), fs : BOOLEAN]

\* SendingAllowed: not max-tracked limited, and not congestion limited
\* unless retransmissions are queued (the workaround for #555).
SendingAllowed(p) ==
    /\ ~(Len(retxQ[p]) + Cardinality(hist[p]) >= MaxTracked)
    /\ (~(Cardinality(hist[p]) > CWnd) \/ retxQ[p] # <<>>)

ShouldSendRetransmittablePacket(p) == numNonRetx[p] >= MaxNonRetransmittablePackets

\* stopWaitingManager.GetStopWaitingFrame(force): whether a frame is
\* returned, and the manager's state after the call.
GetStopWaitingFrame(p, force) ==
    IF swNext[p] <= swSent[p]
    THEN LET made == force /\ ~lastSW[p] /\ swSent[p] > 0
         IN  [frame |-> force /\ (lastSW[p] \/ made), sent |-> swSent[p], last |-> lastSW[p] \/ made]
    ELSE [frame |-> TRUE, sent |-> swNext[p], last |-> TRUE]

TakeStopWaiting(p, r) ==
    /\ swSent' = [swSent EXCEPT ![p] = r.sent]
    /\ lastSW' = [lastSW EXCEPT ![p] = r.last]

\* stopWaitingManager.ReceivedAck and QueuedRetransmissionForPacketNumber.
SWReceivedAck(next, largestAcked) == IF largestAcked >= next THEN largestAcked + 1 ELSE next
QueuedRetransmissionIgnored(next, pn) == next
QueuedRetransmission(next, pn) == IF pn >= next THEN pn + 1 ELSE next

\* QueueControlFrame of each window update of the list.
QueueWindowUpdates(cf) == IF wufs THEN Append(cf, Wuf) ELSE cf

\* sendPackedPacket -> SentPacket of the packet the packer just built.
\* The tracked-packets check counts the packet before its non-retransmittable
\* frames are stripped.
SentPacket(p) ==
    LET pkt == [pn |-> nextPN[p],
                frames |-> SelectSeq(lastPacket'.payload, LAMBDA f : f \notin {"sw", "ack"}),
                fs |-> "hs" \notin Range(lastPacket'.payload)]
    IN  IF Len(retxQ[p]) + Cardinality(hist[p]) + 1 > MaxTracked
        THEN /\ err' = "tracked"
             /\ UNCHANGED <<hist, numNonRetx>>
        ELSE /\ hist' = IF pkt.frames # <<>> THEN [hist EXCEPT ![p] = @ \cup {pkt}] ELSE hist
             /\ numNonRetx' = [numNonRetx EXCEPT ![p] =
                    IF pkt.frames # <<>> THEN 0
                    ELSE IF @ < MaxNonRetransmittablePackets THEN @ + 1 ELSE @]
             /\ UNCHANGED err

Sent == lastPacket' \notin {NoPacket, Bug}

\* getRetransmissionOfPath: dequeue the path's retransmissions.  Stream
\* frames go back to the framer, WINDOW_UPDATEs are requeued if still
\* current, other control frames are requeued; the first handshake packet
\* stops the loop and is returned, unless the handshake is complete, in
\* which case handshake packets are dropped.
Dequeue(p) ==
    LET q == retxQ[p]
        hsAt == {k \in 1..Len(q) : ~q[k].fs}
        stop == IF ~handshakeComplete /\ hsAt # {} THEN Min(hsAt) ELSE Len(q) + 1
    IN  [drained |-> SelectSeq(SubSeq(q, 1, stop - 1), LAMBDA r : r.fs),
         hs |-> IF stop <= Len(q) THEN q[stop] ELSE NoPkt,
         rest |-> IF stop <= Len(q) THEN SubSeq(q, stop + 1, Len(q)) ELSE <<>>]

RequeuedControlWufOnly(drained, keepWuf) ==
    FlattenSeq([k \in 1..Len(drained) |->
        SelectSeq(drained[k].frames, LAMBDA f : f = Wuf /\ keepWuf)])

RequeuedControl(drained, keepWuf) ==
    FlattenSeq([k \in 1..Len(drained) |->
        SelectSeq(drained[k].frames, LAMBDA f : f \in CtrlFrames /\ (f = Wuf => keepWuf))])

StreamFrames(drained) == Cardinality({k \in 1..Len(drained) : "stream" \in Range(drained[k].frames)})

-----------------------------------------------------------------------------
(***************************************************************************)
(* sendPacket.                                                             *)
(***************************************************************************)

\* Entry: queue the window updates (with a nil path), take the start index.
SendPacketStart ==
    /\ pc = "idle"
    /\ pc' = "path"
    /\ controlFrames' = IF wufPending THEN Append(controlFrames, Wuf) ELSE controlFrames
    /\ ctrlQueued' = IF wufPending THEN ctrlQueued \cup {Wuf} ELSE ctrlQueued
    /\ wufs' = wufPending
    /\ wufPending' = FALSE
    /\ idx' = 0 /\ start' = rr
    /\ hasWindows' = FALSE /\ pathsent' = FALSE
    /\ UNCHANGED <<ackFrame, stopWaiting, nextPN, lastPacket, framerVars, acksIssued,
                   acksSent, ctrlSent, handlerVars, ackPending, framerRetx, framerCtrl,
                   wufCount, losses, handshakeComplete, cur, rr, streamLeft, hsPkt,
                   remaining, err>>

AdvanceRRNoWrap == rr' = rr + 1
AdvanceRR == rr' = (rr + 1) % NumPaths

\* PATHLOOP: path openPaths[(i+startIndex) % numOfPath]; a path without
\* streams is skipped.
PathLoop ==
    /\ pc = "path" /\ idx < NumPaths
    /\ LET p == OpenPaths[((idx + start) % NumPaths) + 1]
       IN  /\ cur' = p
           /\ IF StreamNum[p] = 0
              THEN AdvanceRR /\ idx' = idx + 1 /\ UNCHANGED <<pc, streamLeft>>
              ELSE pc' = "stream" /\ streamLeft' = StreamNum[p] /\ UNCHANGED <<rr, idx>>
    /\ UNCHANGED <<vars, handlerVars, envVars, start, hasWindows, pathsent, wufs,
                   hsPkt, remaining, err>>

\* One round of the stream loop: the window check, then the retransmissions.
StreamRound ==
    /\ pc = "stream"
    /\ hasWindows' = (hasWindows \/ SendingAllowed(cur))
    /\ IF ~SendingAllowed(cur)
       THEN /\ AdvanceRR /\ idx' = idx + 1 /\ pc' = "path"
            /\ UNCHANGED <<controlFrames, ctrlQueued, streamData, retxQ, swNext, framerRetx, hsPkt>>
       ELSE LET d == Dequeue(cur)
                n == StreamFrames(d.drained)
            IN  /\ \E keepWuf \in BOOLEAN :
                      LET rq == RequeuedControl(d.drained, keepWuf)
                      IN  /\ controlFrames' = controlFrames \o rq
                          /\ ctrlQueued' = ctrlQueued \cup Range(rq)
                /\ streamData' = [streamData EXCEPT ![cur] = @ + n]
                /\ framerRetx' = [framerRetx EXCEPT ![cur] = @ + n]
                /\ retxQ' = [retxQ EXCEPT ![cur] = d.rest]
                /\ hsPkt' = d.hs
                /\ pc' = IF d.hs # NoPkt THEN "hsretx" ELSE "queue"
                /\ UNCHANGED <<rr, idx, swNext>>
    /\ UNCHANGED <<ackFrame, stopWaiting, nextPN, lastPacket, cryptoData, encLevel,
                   acksIssued, acksSent, ctrlSent, hist, numNonRetx, swSent, lastSW,
                   ackPending, framerCtrl, wufPending, wufCount, losses,
                   handshakeComplete, cur, start, streamLeft, pathsent, wufs, remaining, err>>

\* A handshake retransmission: QueueControlFrame(GetStopWaitingFrame(true)),
\* a nil frame clearing the slot, ...
HandshakeQueueStopWaiting ==
    /\ pc = "hsretx"
    /\ LET r == GetStopWaitingFrame(cur, TRUE)
       IN  /\ QueueStopWaiting(cur, r.frame)
           /\ TakeStopWaiting(cur, r)
    /\ pc' = "hspack"
    /\ UNCHANGED <<controlFrames, ackFrame, nextPN, lastPacket, framerVars, ghostVars,
                   hist, retxQ, numNonRetx, swNext, envVars, cur, idx, start, rr,
                   streamLeft, hasWindows, pathsent, wufs, hsPkt, remaining, err>>

\* ... then PackHandshakeRetransmission and sendPackedPacket; an error of
\* either ends sendPacket, and the session, with that error.
HandshakeSend ==
    /\ pc = "hspack"
    /\ PackHandshakeRetransmission(cur, 1)
    /\ IF lastPacket' = Bug
       THEN err' = "bug" /\ UNCHANGED <<hist, numNonRetx>>
       ELSE SentPacket(cur)
    /\ pc' = IF err' = "none" THEN "queue" ELSE "failed"
    /\ hsPkt' = NoPkt
    /\ UNCHANGED <<retxQ, swNext, swSent, lastSW, envVars, cur, idx, start, rr,
                   streamLeft, hasWindows, pathsent, wufs, remaining>>

\* The path's ACK, a STOP_WAITING if an ACK is sent or stream frames wait
\* for retransmission, and the framer's CLOSE_PATH / ADD_ADDRESS frames.
QueuePathFrames ==
    /\ pc = "queue"
    /\ LET ack == ackPending[cur]
           retx == \E q \in Paths : framerRetx[q] > 0
           r == GetStopWaitingFrame(cur, retx)
       IN  /\ ackFrame' = IF ack THEN [ackFrame EXCEPT ![cur] = acksIssued[cur] + 1] ELSE ackFrame
           /\ acksIssued' = IF ack THEN [acksIssued EXCEPT ![cur] = @ + 1] ELSE acksIssued
           /\ ackPending' = [ackPending EXCEPT ![cur] = FALSE]
           /\ IF ack \/ retx
              THEN /\ stopWaiting' = IF r.frame THEN [stopWaiting EXCEPT ![cur] = TRUE] ELSE stopWaiting
                   /\ TakeStopWaiting(cur, r)
              ELSE UNCHANGED <<stopWaiting, swSent, lastSW>>
    /\ controlFrames' = IF framerCtrl THEN Append(controlFrames, ClosePath) ELSE controlFrames
    /\ ctrlQueued' = IF framerCtrl THEN ctrlQueued \cup {ClosePath} ELSE ctrlQueued
    /\ framerCtrl' = FALSE
    /\ pc' = "perform"
    /\ UNCHANGED <<nextPN, lastPacket, framerVars, acksSent, ctrlSent, hist, retxQ,
                   numNonRetx, swNext, framerRetx, wufPending, wufCount, losses,
                   handshakeComplete, cur, idx, start, rr, streamLeft, hasWindows,
                   pathsent, wufs, hsPkt, remaining, err>>

\* performPacketSending: a PING when too many non-retransmittable packets
\* were sent in a row, ...
PerformQueuePing ==
    /\ pc = "perform"
    /\ IF ShouldSendRetransmittablePacket(cur)
       THEN QueueControl(Ping)
       ELSE UNCHANGED <<controlFrames, ctrlQueued>>
    /\ pc' = "pack"
    /\ UNCHANGED <<ackFrame, stopWaiting, nextPN, lastPacket, framerVars, acksIssued,
                   acksSent, ctrlSent, handlerVars, envVars, cur, idx, start, rr,
                   streamLeft, hasWindows, pathsent, wufs, hsPkt, remaining, err>>

\* A stream frame the framer popped was a retransmission if it held one.
PoppedRetx(p) ==
    framerRetx' = IF streamData'[p] < streamData[p] /\ framerRetx[p] > 0
                  THEN [framerRetx EXCEPT ![p] = @ - 1] ELSE framerRetx

\* ... PackPacketOfPath and sendPackedPacket.  Nothing packed ends the
\* stream loop of this path; windowUpdateFrames is set to nil either way.
PerformPack ==
    /\ pc = "pack"
    /\ PackPacketOfPath(cur)
    /\ IF Sent
       THEN /\ SentPacket(cur)
            /\ PoppedRetx(cur)
            /\ pc' = IF err' = "none" THEN "requeue" ELSE "failed"
            /\ UNCHANGED <<rr, idx, wufs>>
       ELSE /\ AdvanceRR /\ idx' = idx + 1 /\ pc' = "path"
            /\ wufs' = FALSE
            /\ UNCHANGED <<hist, numNonRetx, framerRetx, err>>
    /\ UNCHANGED <<retxQ, swNext, swSent, lastSW, ackPending, framerCtrl, wufPending,
                   wufCount, losses, handshakeComplete, cur, start, streamLeft,
                   hasWindows, pathsent, hsPkt, remaining>>

\* After a packet was sent: the window updates go in once more ("send every
\* window update twice"), quotas++, and the next stream round.
PerformRequeue ==
    /\ pc = "requeue"
    /\ controlFrames' = QueueWindowUpdates(controlFrames)
    /\ wufs' = FALSE
    /\ pathsent' = TRUE
    /\ streamLeft' = streamLeft - 1
    /\ IF streamLeft - 1 > 0
       THEN pc' = "stream" /\ UNCHANGED <<rr, idx>>
       ELSE pc' = "path" /\ AdvanceRR /\ idx' = idx + 1
    /\ UNCHANGED <<ackFrame, stopWaiting, nextPN, lastPacket, framerVars, ghostVars,
                   handlerVars, envVars, cur, start, hasWindows, hsPkt, remaining, err>>

\* End of a round over the paths: another round if a path sent and a path
\* had window, else ackRemainingPaths, which takes the window updates left
\* or asks the flow controller again.
LoopAgain(sent, windows) == sent /\ windows

PathLoopDone ==
    /\ pc = "path" /\ idx = NumPaths
    /\ IF ~LoopAgain(pathsent, hasWindows)
       THEN /\ pc' = "ackrem" /\ remaining' = Paths
            /\ wufs' = (wufs \/ wufPending)
            /\ wufPending' = (wufPending /\ wufs)
            /\ UNCHANGED <<idx, hasWindows, pathsent>>
       ELSE /\ pc' = "path" /\ idx' = 0
            /\ hasWindows' = FALSE /\ pathsent' = FALSE
            /\ UNCHANGED <<remaining, wufs, wufPending>>
    /\ UNCHANGED <<vars, handlerVars, ackPending, framerRetx, framerCtrl, wufCount, losses,
                   handshakeComplete, cur, start, rr, streamLeft, hsPkt, err>>

(***************************************************************************)
(* ackRemainingPaths, over s.paths in map order (any order).               *)
(***************************************************************************)

\* A path packs in ackRemainingPaths if it has an ACK or there are window
\* updates, except the initial path without an ACK.
AckRemainingNeeded(p, ack) == (ack \/ wufs) /\ ~(p = InitialPath /\ ~ack)

\* GetAckFrame, the window updates, and, if there is an ACK or a window
\* update (and this is not the initial path without an ACK), the
\* STOP_WAITING and QueueControlFrame(ackTmp), which clears the ACK slot
\* when ackTmp is nil.
AckRemainingQueue(p) ==
    /\ pc = "ackrem" /\ p \in remaining
    /\ LET ack == ackPending[p]
           r == GetStopWaitingFrame(p, FALSE)
           goOn == AckRemainingNeeded(p, ack)
       IN  /\ controlFrames' = QueueWindowUpdates(controlFrames)
           /\ acksIssued' = IF ack THEN [acksIssued EXCEPT ![p] = @ + 1] ELSE acksIssued
           /\ ackPending' = [ackPending EXCEPT ![p] = FALSE]
           /\ IF goOn
              THEN /\ stopWaiting' = IF r.frame THEN [stopWaiting EXCEPT ![p] = TRUE] ELSE stopWaiting
                   /\ TakeStopWaiting(p, r)
                   /\ QueueAck(p, IF ack THEN acksIssued[p] + 1 ELSE 0)
                   /\ pc' = "ackpack" /\ cur' = p
                   /\ UNCHANGED remaining
              ELSE /\ remaining' = remaining \ {p}
                   /\ UNCHANGED <<stopWaiting, swSent, lastSW, ackFrame, pc, cur>>
    /\ UNCHANGED <<nextPN, lastPacket, framerVars, acksSent, ctrlQueued, ctrlSent, hist,
                   retxQ, numNonRetx, swNext, framerRetx, framerCtrl, wufPending,
                   wufCount, losses, handshakeComplete, idx, start, rr, streamLeft,
                   hasWindows, pathsent, wufs, hsPkt, err>>

\* PackAckPacket if an ACK was queued, else PackPacketOfPath; then
\* sendPackedPacket of the result, which dereferences it.
AckRemainingSend ==
    /\ pc = "ackpack"
    /\ \/ ackFrame[cur] # 0 /\ PackAckPacket(cur)
       \/ ackFrame[cur] = 0 /\ PackPacketOfPath(cur)
    /\ IF Sent
       THEN SentPacket(cur) /\ PoppedRetx(cur)
       ELSE err' = "nilpacket" /\ UNCHANGED <<hist, numNonRetx, framerRetx>>
    /\ remaining' = remaining \ {cur}
    /\ pc' = IF err' = "none" THEN "ackrem" ELSE "failed"
    /\ UNCHANGED <<retxQ, swNext, swSent, lastSW, ackPending, framerCtrl, wufPending,
                   wufCount, losses, handshakeComplete, cur, idx, start, rr, streamLeft,
                   hasWindows, pathsent, wufs, hsPkt>>

\* All paths done: peerBlocked = false, sendPacket returns (its locals,
\* the last packet built included, are gone).
AckRemainingDone ==
    /\ pc = "ackrem" /\ remaining = {}
    /\ pc' = "idle" /\ wufs' = FALSE /\ lastPacket' = NoPacket
    /\ UNCHANGED <<controlFrames, ackFrame, stopWaiting, nextPN, framerVars, ghostVars,
                   handlerVars, envVars, cur, idx, start, rr, streamLeft,
                   hasWindows, pathsent, hsPkt, remaining, err>>

-----------------------------------------------------------------------------
(***************************************************************************)
(* The environment, between two ticks: the peer sends a packet that needs  *)
(* an ACK, ACKs one of ours, or the network loses one (loss detection      *)
(* queues it for retransmission); the application writes; the flow        *)
(* controller wants a window update; the framer gets a CLOSE_PATH; the     *)
(* handshake completes.                                                    *)
(***************************************************************************)
PeerPacket(p) ==
    /\ pc = "idle" /\ ~ackPending[p] /\ acksIssued[p] < MaxAcks
    /\ ackPending' = [ackPending EXCEPT ![p] = TRUE]
    /\ UNCHANGED <<vars, handlerVars, framerRetx, framerCtrl, wufPending, wufCount,
                   losses, handshakeComplete, loopVars, ctrlAcked>>

\* ReceivedAck of an ACK whose LargestAcked is pkt: the packet leaves the
\* history, the stop-waiting manager moves past it.
PeerAck(p, pkt) ==
    /\ pc = "idle" /\ pkt \in hist[p]
    /\ hist' = [hist EXCEPT ![p] = @ \ {pkt}]
    /\ swNext' = [swNext EXCEPT ![p] = SWReceivedAck(@, pkt.pn)]
    /\ ctrlAcked' = ctrlAcked \cup (Range(pkt.frames) \cap CtrlFrames)
    /\ UNCHANGED <<vars, retxQ, numNonRetx, swSent, lastSW, envVars, loopVars>>

\* queuePacketForRetransmission and QueuedRetransmissionForPacketNumber.
LosePacket(p, pkt) ==
    /\ pc = "idle" /\ pkt \in hist[p] /\ losses < MaxLosses
    /\ hist' = [hist EXCEPT ![p] = @ \ {pkt}]
    /\ retxQ' = [retxQ EXCEPT ![p] = Append(@, pkt)]
    /\ swNext' = [swNext EXCEPT ![p] = QueuedRetransmission(@, pkt.pn)]
    /\ losses' = losses + 1
    /\ UNCHANGED <<vars, numNonRetx, swSent, lastSW, ackPending, framerRetx, framerCtrl,
                   wufPending, wufCount, handshakeComplete, loopVars, ctrlAcked>>

AppWrite(p) ==
    /\ pc = "idle"
    /\ EnvWriteData(p)
    /\ UNCHANGED <<handlerVars, envVars, loopVars, ctrlAcked>>

WindowUpdateDue ==
    /\ pc = "idle" /\ ~wufPending /\ wufCount < MaxWufs
    /\ wufPending' = TRUE /\ wufCount' = wufCount + 1
    /\ UNCHANGED <<vars, handlerVars, ackPending, framerRetx, framerCtrl, losses,
                   handshakeComplete, loopVars, ctrlAcked>>

FramerClosePath ==
    /\ pc = "idle" /\ ~framerCtrl /\ ClosePath \notin ctrlQueued /\ MaxClosePaths > 0
    /\ framerCtrl' = TRUE
    /\ UNCHANGED <<vars, handlerVars, ackPending, framerRetx, wufPending, wufCount,
                   losses, handshakeComplete, loopVars, ctrlAcked>>

HandshakeDone ==
    /\ pc = "idle" /\ ~handshakeComplete
    /\ handshakeComplete' = TRUE
    /\ UNCHANGED <<vars, handlerVars, ackPending, framerRetx, framerCtrl, wufPending,
                   wufCount, losses, loopVars, ctrlAcked>>

-----------------------------------------------------------------------------

\* A client after its first (handshake) packet on the initial path, with
\* forward-secure keys, before the session has seen the handshake complete.
HandshakePacket == [pn |-> 1, frames |-> <<"hs">>, fs |-> FALSE]

SendLoopInit ==
    /\ controlFrames = <<>>
    /\ ackFrame = [p \in Paths |-> 0]
    /\ stopWaiting = [p \in Paths |-> FALSE]
    /\ nextPN = [p \in Paths |-> IF p = InitialPath THEN 2 ELSE 1]
    /\ cryptoData = FALSE
    /\ streamData = [p \in Paths |-> 0]
    /\ encLevel = Forward
    /\ lastPacket = NoPacket
    /\ acksIssued = [p \in Paths |-> 0]
    /\ acksSent = [p \in Paths |-> {}]
    /\ ctrlQueued = {} /\ ctrlSent = {}
    /\ hist = [p \in Paths |-> IF p = InitialPath THEN {HandshakePacket} ELSE {}]
    /\ retxQ = [p \in Paths |-> <<>>]
    /\ numNonRetx = [p \in Paths |-> 0]
    /\ swNext = [p \in Paths |-> 0] /\ swSent = [p \in Paths |-> 0]
    /\ lastSW = [p \in Paths |-> FALSE]
    /\ ackPending = [p \in Paths |-> FALSE]
    /\ framerRetx = [p \in Paths |-> 0]
    /\ framerCtrl = FALSE /\ wufPending = FALSE /\ wufCount = 0 /\ losses = 0
    /\ handshakeComplete = FALSE
    /\ pc = "idle" /\ cur = InitialPath /\ idx = 0 /\ start = 0 /\ rr = 0
    /\ streamLeft = 0 /\ hasWindows = FALSE /\ pathsent = FALSE /\ wufs = FALSE
    /\ hsPkt = NoPkt /\ remaining = {} /\ err = "none"
    /\ ctrlAcked = {}

SendStep ==
    /\ \/ SendPacketStart \/ PathLoop \/ StreamRound
       \/ HandshakeQueueStopWaiting \/ HandshakeSend \/ QueuePathFrames
       \/ PerformQueuePing \/ PerformPack \/ PerformRequeue \/ PathLoopDone
       \/ \E p \in Paths : AckRemainingQueue(p)
       \/ AckRemainingSend \/ AckRemainingDone
    /\ UNCHANGED ctrlAcked

EnvStep ==
    \/ \E p \in Paths :
          \/ PeerPacket(p) \/ AppWrite(p)
          \/ \E pkt \in hist[p] : PeerAck(p, pkt) \/ LosePacket(p, pkt)
    \/ WindowUpdateDue \/ FramerClosePath \/ HandshakeDone

SendLoopNext == SendStep \/ EnvStep

\* sendPacket is run again and again by the session loop (it is called on
\* every wake-up), and an ACK of the peer is eventually processed by the
\* session between two ticks (enabled only between ticks, hence strong
\* fairness).
Fairness ==
    /\ WF_allVars(SendStep)
    /\ \A p \in Paths : SF_allVars(\E pkt \in hist[p] : PeerAck(p, pkt))

SendLoopSpec == SendLoopInit /\ [][SendLoopNext]_allVars /\ Fairness

-----------------------------------------------------------------------------

SendLoopTypeOK ==
    /\ controlFrames \in Seq(CtrlFrames)
    /\ ackFrame \in [Paths -> 0..MaxAcks] /\ stopWaiting \in [Paths -> BOOLEAN]
    /\ nextPN \in [Paths -> 1..MaxPackets + 1]
    /\ streamData \in [Paths -> 0..MaxData + MaxLosses]
    /\ lastPacket \in Packet \cup {NoPacket, Bug}
    /\ hist \in [Paths -> SUBSET SentRecord]
    /\ \A p \in Paths : retxQ[p] \in Seq(SentRecord)
    /\ numNonRetx \in [Paths -> 0..MaxNonRetransmittablePackets]
    /\ swSent \in [Paths -> 0..MaxPackets + 1] /\ swNext \in [Paths -> 0..MaxPackets + 1]
    /\ lastSW \in [Paths -> BOOLEAN]
    /\ framerRetx \in [Paths -> Nat]
    /\ pc \in {"idle", "path", "stream", "hsretx", "hspack", "queue", "perform",
               "pack", "requeue", "ackrem", "ackpack", "failed"}
    /\ rr \in 0..NumPaths - 1
    /\ err \in {"none", "bug", "tracked", "nilpacket"}

\* PackHandshakeRetransmission never reports its "BUG: handshake
\* retransmissions must contain a StopWaitingFrame" error: whenever
\* getRetransmissionOfPath hands a handshake packet to sendPacket, the
\* stop-waiting manager has a frame for GetStopWaitingFrame(true).
NoPackerBug == err # "bug"

\* A CLOSE_PATH / ADD_ADDRESS frame, once queued, is never dropped by the
\* packer, the send loop or loss recovery: it waits in the control queue,
\* rides in a packet in flight, was acknowledged, or sits in the
\* retransmission queue of a path that carries streams, the only paths on
\* which sendPacket calls getRetransmissionOfPath (a path without streams
\* is skipped with continue PATHLOOP, scheduler.go 1332-1338).  TLC
\* violates it under MC_SendLoopCloseLost.cfg (two losses): ackRemainingPaths
\* packs the CLOSE_PATH on the stream-less path, it is lost there, and
\* nothing ever dequeues it.
InPipeline(f) ==
    \/ f \in Range(controlFrames) \/ f \in ctrlAcked
    \/ \E p \in Paths : \E r \in hist[p] : f \in Range(r.frames)
    \/ \E p \in Paths : StreamNum[p] > 0 /\ \E r \in Range(retxQ[p]) : f \in Range(r.frames)
ControlFramesReliable == ClosePath \in ctrlQueued => InPipeline(ClosePath)

\* Sending an ACK-only packet from ackRemainingPaths never fails with
\* ErrTooManyTrackedSentPackets, although ackRemainingPaths runs exactly when
\* the paths have no window.
NoTrackedOverflow == err # "tracked"

\* Stream data written on a path that has streams is eventually packed,
\* when sendPacket keeps being called and the peer acknowledges packets.
DataEventuallySent ==
    \A p \in Paths : StreamNum[p] > 0 => ((streamData[p] > 0) ~> (streamData[p] = 0 \/ err # "none"))

=============================================================================
