-------------------------- MODULE SentPacketHandler --------------------------
(***************************************************************************)
(* The per-path sent-packet handler of PStream                             *)
(* (src/ackhandler/sent_packet_handler.go, sentPacketHandler and the       *)
(* stopWaitingManager it owns), driven by the peer of the path over a      *)
(* network that loses and reorders packets in both directions.            *)
(*                                                                         *)
(* Time is abstracted away.  The loss-detection alarm is a kind ("none",   *)
(* "loss", "tlp", "rto") and fires at any moment once armed; the time      *)
(* threshold of detectLostPackets is a choice of how many of the oldest    *)
(* packets at or below LargestAcked have aged past delayUntilLost: send    *)
(* times grow along the history, so the lost packets are always a prefix.  *)
(* Each retransmittable packet carries one unit of stream data; a unit     *)
(* handed back by DequeuePacketForRetransmission waits in toResend until   *)
(* the sender puts it into a new packet.                                   *)
(***************************************************************************)
EXTENDS Naturals, Sequences, FiniteSets, SequencesExt, FiniteSetsExt

CONSTANTS
  MaxPN,          \* largest packet number the model sends (bound)
  MaxAckPN,       \* largest packet number of the peer's ACK packets (bound)
  MaxData,        \* number of distinct units of stream data (bound)
  MaxRTO,         \* bound on consecutive RTOs without an ACK (bound)
  Lengths,        \* possible packet lengths on the wire
  CongestionWindow,         \* the congestion controller's window, fixed
  MaxTrackedSentPackets,    \* protocol.MaxTrackedSentPackets
  MaxTrackedSkippedPackets, \* protocol.MaxTrackedSkippedPackets
  PeerHonest      \* FALSE: the peer may ACK any packet numbers (optimistic ACK)

ASSUME MaxPN \in Nat \ {0} /\ MaxAckPN \in Nat \ {0} /\ MaxData \in Nat
ASSUME Lengths \subseteq Nat \ {0} /\ Lengths # {}
ASSUME MaxTrackedSentPackets \in Nat \ {0} /\ MaxTrackedSkippedPackets \in Nat \ {0}
ASSUME PeerHonest \in BOOLEAN

\* maxTailLossProbes
maxTailLossProbes == 2

NoData == 0
Data == 1..MaxData

VARIABLES
  lastSentPacketNumber, skippedPackets, numNonRetransmittablePackets,
  LargestAcked, largestReceivedPacketWithAck,
  packetHistory,        \* sequence of [pn, len, data], ascending pn
  retransmissionQueue,  \* sequence of the same records
  bytesInFlight, rtoCount, tlpCount,
  lossTime,             \* TRUE iff h.lossTime is not zero
  alarm,                \* kind of the armed alarm, "none" when disarmed
  hasRTT,               \* rttStats.SmoothedRTT() # 0
  largestLeastUnackedSent, nextLeastUnacked, lastStopWaiting, \* stopWaitingManager
  err,                  \* error that closed the connection, or "none"
  wire,                 \* packet numbers on their way to the peer
  peerReceived,         \* packet numbers the peer has received
  ackChan,              \* ACK and CLOSE_PATH frames on their way back
  peerAckPN,            \* packet number of the peer's last ACK packet
  toResend,             \* data handed back for retransmission, not yet resent
  nextData,             \* next fresh unit of stream data
  sentData, ackedData   \* history: data ever sent / ever acknowledged

handlerVars == <<lastSentPacketNumber, skippedPackets, numNonRetransmittablePackets,
                 LargestAcked, largestReceivedPacketWithAck, packetHistory,
                 retransmissionQueue, bytesInFlight, rtoCount, tlpCount, lossTime,
                 alarm, hasRTT>>
swmVars == <<largestLeastUnackedSent, nextLeastUnacked, lastStopWaiting>>
envVars == <<err, wire, peerReceived, ackChan, peerAckPN, toResend, nextData,
             sentData, ackedData>>
vars == <<handlerVars, swmVars, envVars>>

Packet == [pn : 1..MaxPN, len : Lengths, data : Data]
AckRange == [first : 1..MaxPN, last : 1..MaxPN]
Frame == [kind : {"ack", "closePath"}, pn : 1..MaxAckPN, largest : 1..MaxPN,
          lowest : 1..MaxPN, ranges : Seq(AckRange)]

PNs(s) == {s[i].pn : i \in DOMAIN s}
DataOf(s) == {s[i].data : i \in DOMAIN s}
SumLen(s) == FoldSeq(LAMBDA p, acc : p.len + acc, 0, s)

(***************************************************************************)
(* Wire helpers (AckFrame, not under src/).                                *)
(***************************************************************************)
HasMissingRanges(f) == Len(f.ranges) > 1

AcksPacket(f, p) ==
  /\ p >= f.lowest /\ p <= f.largest
  /\ HasMissingRanges(f) =>
       \E i \in DOMAIN f.ranges : f.ranges[i].first <= p /\ p <= f.ranges[i].last

(***************************************************************************)
(* Handler helpers.                                                        *)
(***************************************************************************)
largestInOrderAcked ==
  IF packetHistory # <<>> THEN packetHistory[1].pn - 1 ELSE LargestAcked

LargestInOrderAckedOf(hist, la) == IF hist # <<>> THEN hist[1].pn - 1 ELSE la

\* The walk of determineNewlyAckedPackets over the history, with the index
\* of the ACK range it is evaluating; bug is TRUE when it would ack a
\* packet outside that range.
RangeAt(f, j) == f.ranges[Len(f.ranges) - j]

RECURSIVE AdvanceRange(_, _, _)
AdvanceRange(pn, f, j) ==
  IF pn > RangeAt(f, j).last /\ j < Len(f.ranges) - 1
  THEN AdvanceRange(pn, f, j + 1) ELSE j

RECURSIVE AckWalk(_, _, _, _, _)
AckWalk(hist, f, i, j, acc) ==
  IF i > Len(hist) THEN [bug |-> FALSE, acked |-> acc]
  ELSE LET pn == hist[i].pn IN
    IF pn < f.lowest THEN AckWalk(hist, f, i + 1, j, acc)
    ELSE IF pn > f.largest THEN [bug |-> FALSE, acked |-> acc]
    ELSE IF ~HasMissingRanges(f) THEN AckWalk(hist, f, i + 1, j, acc \cup {pn})
    ELSE LET k == AdvanceRange(pn, f, j)
             r == RangeAt(f, k)
         IN IF pn < r.first THEN AckWalk(hist, f, i + 1, k, acc)
            ELSE IF pn > r.last THEN [bug |-> TRUE, acked |-> {}]
            ELSE AckWalk(hist, f, i + 1, k, acc \cup {pn})

determineNewlyAckedPackets(hist, f) == AckWalk(hist, f, 1, 0, {})

\* Fault model: the skipped numbers checked against [LowestAcked,
\* LargestAcked] only, ignoring the gaps between the ACK ranges.
skippedPacketsAckedIgnoringRanges(f) ==
  \E i \in DOMAIN skippedPackets :
    skippedPackets[i] >= f.lowest /\ skippedPackets[i] <= f.largest

skippedPacketsAcked(f) == \E i \in DOMAIN skippedPackets : AcksPacket(f, skippedPackets[i])

\* The CLOSE_PATH frame carries the same ranges, and ReceivedClosePath runs
\* copies of the two checks above on it, line for line.
skippedPacketsAckedClosePath(f) == skippedPacketsAcked(f)

determineNewlyAckedPacketsClosePath(hist, f) == AckWalk(hist, f, 1, 0, {})

\* An RTT sample is taken when the ACK's LargestAcked is still in the history.
maybeUpdateRTT(hist, largestAcked) == largestAcked \in PNs(hist)

\* Only retransmittable packets are kept in the model's history.
hasOutstandingRetransmittablePacket(hist) == hist # <<>>

\* Fault model: the alarm cancelled while a single packet is outstanding.
AlarmForOffByOne(hist, lt, rtt, tlp) ==
  IF Len(hist) <= 1 THEN "none"
  ELSE IF lt THEN "loss"
  ELSE IF rtt /\ tlp < maxTailLossProbes THEN "tlp"
  ELSE "rto"

\* updateLossDetectionAlarm, as a function of the state it reads
AlarmFor(hist, lt, rtt, tlp) ==
  IF hist = <<>> THEN "none"
  ELSE IF lt THEN "loss"
  ELSE IF rtt /\ tlp < maxTailLossProbes THEN "tlp"
  ELSE "rto"

\* garbageCollectSkippedPackets
GCSkipped(sk, lioa) ==
  LET del == IF \E i \in DOMAIN sk : sk[i] <= lioa
             THEN Max({i \in DOMAIN sk : sk[i] <= lioa}) ELSE 0
  IN SubSeq(sk, del + 1, Len(sk))

\* stopWaitingManager.QueuedRetransmissionForPacketNumber over the packets
\* queued, in order, and stopWaitingManager.ReceivedAck
RaiseLeastUnacked(next, pns) == IF pns = {} THEN next ELSE Max({next, Max(pns) + 1})

\* Fault model: the skip loop without the cap on the list.
RECURSIVE AddSkippedUncapped(_, _, _)
AddSkippedUncapped(sk, p, to) ==
  IF p >= to THEN sk ELSE AddSkippedUncapped(Append(sk, p), p + 1, to)

\* The skip loop of SentPacket: each skipped number is appended, and the
\* oldest dropped once the list is longer than MaxTrackedSkippedPackets.
RECURSIVE AddSkipped(_, _, _)
AddSkipped(sk, p, to) ==
  IF p >= to THEN sk
  ELSE LET s1 == Append(sk, p)
           s2 == IF Len(s1) > MaxTrackedSkippedPackets THEN Tail(s1) ELSE s1
       IN AddSkipped(s2, p + 1, to)

SendingAllowed ==
  LET congestionLimited == bytesInFlight > CongestionWindow
      maxTrackedLimited == Len(retransmissionQueue) + Len(packetHistory) >= MaxTrackedSentPackets
      haveRetransmissions == retransmissionQueue # <<>>
  IN ~maxTrackedLimited /\ (~congestionLimited \/ haveRetransmissions)

(***************************************************************************)
(* detectLostPackets on a history: the first k packets at or below         *)
(* LargestAcked are lost; lossTime is set iff one such packet remains.     *)
(***************************************************************************)
Eligible(hist, la) == Len(SelectSeq(hist, LAMBDA p : p.pn <= la))

\* Fault model: the lost packets removed from the history but never
\* appended to the retransmission queue.
DetectLostNotQueued(hist, la, k, q, bif, next) ==
  LET lost == SubSeq(hist, 1, k) IN
  [hist |-> SubSeq(hist, k + 1, Len(hist)), queue |-> q,
   bif |-> bif - SumLen(lost), lossTime |-> k < Eligible(hist, la),
   next |-> RaiseLeastUnacked(next, PNs(lost))]

DetectLost(hist, la, k, q, bif, next) ==
  LET lost == SubSeq(hist, 1, k) IN
  [hist |-> SubSeq(hist, k + 1, Len(hist)),
   queue |-> q \o lost,
   bif |-> bif - SumLen(lost),
   lossTime |-> k < Eligible(hist, la),
   next |-> RaiseLeastUnacked(next, PNs(lost))]

(***************************************************************************)
(* Initial state: NewSentPacketHandler and an idle network.                *)
(***************************************************************************)
Init ==
  /\ lastSentPacketNumber = 0 /\ skippedPackets = <<>>
  /\ numNonRetransmittablePackets = 0
  /\ LargestAcked = 0 /\ largestReceivedPacketWithAck = 0
  /\ packetHistory = <<>> /\ retransmissionQueue = <<>>
  /\ bytesInFlight = 0 /\ rtoCount = 0 /\ tlpCount = 0
  /\ lossTime = FALSE /\ alarm = "none" /\ hasRTT = FALSE
  /\ largestLeastUnackedSent = 0 /\ nextLeastUnacked = 0 /\ lastStopWaiting = 0
  /\ err = "none" /\ wire = {} /\ peerReceived = {} /\ ackChan = {}
  /\ peerAckPN = 0 /\ toResend = {} /\ nextData = 1
  /\ sentData = {} /\ ackedData = {}

(***************************************************************************)
(* SentPacket(packet).  The caller sends a retransmittable packet only     *)
(* when SendingAllowed() (the scheduler's send loop); a pure ACK packet    *)
(* (data = NoData) may be sent at any time (ackRemainingPaths).  The       *)
(* packet number generator skips at most one number at a time.  On         *)
(* success the packet goes onto the wire.                                  *)
(***************************************************************************)
TooManyTracked ==
  Len(retransmissionQueue) + Len(packetHistory) + 1 > MaxTrackedSentPackets

SentPacket(pn, len, d) ==
  /\ err = "none"
  /\ pn > lastSentPacketNumber
  /\ d # NoData => SendingAllowed
  /\ IF TooManyTracked
     THEN /\ err' = "TooManyTrackedSentPackets"
          /\ UNCHANGED <<handlerVars, swmVars, wire, peerReceived, ackChan,
                         peerAckPN, toResend, nextData, sentData, ackedData>>
     ELSE LET retransmittable == d # NoData
              hist == IF retransmittable
                      THEN Append(packetHistory, [pn |-> pn, len |-> len, data |-> d])
                      ELSE packetHistory
          IN /\ skippedPackets' = AddSkipped(skippedPackets, lastSentPacketNumber + 1, pn)
             /\ lastSentPacketNumber' = pn
             /\ packetHistory' = hist
             /\ bytesInFlight' = IF retransmittable THEN bytesInFlight + len ELSE bytesInFlight
             /\ numNonRetransmittablePackets' =
                  IF retransmittable THEN 0 ELSE numNonRetransmittablePackets + 1
             /\ alarm' = AlarmFor(hist, lossTime, hasRTT, tlpCount)
             /\ wire' = wire \cup {pn}
             /\ sentData' = IF retransmittable THEN sentData \cup {d} ELSE sentData
             /\ toResend' = toResend \ {d}
             /\ nextData' = IF d = nextData THEN nextData + 1 ELSE nextData
             /\ UNCHANGED <<LargestAcked, largestReceivedPacketWithAck, retransmissionQueue,
                            rtoCount, tlpCount, lossTime, hasRTT, swmVars, err,
                            peerReceived, ackChan, peerAckPN, ackedData>>

SendPacket ==
  \E pn \in {lastSentPacketNumber + 1, lastSentPacketNumber + 2} \cap 1..MaxPN,
     len \in Lengths,
     d \in {NoData} \cup toResend \cup ({nextData} \cap Data) :
    SentPacket(pn, len, d)

(***************************************************************************)
(* ReceivedAck(ackFrame, withPacketNumber).  Each early return is a        *)
(* disjunct.  ErrDuplicateOrOutOfOrderAck leaves the handler unchanged and *)
(* the ACK is dropped; the other errors close the connection.  RTT, slow   *)
(* start, OnPacketAcked/OnPacketLost and UpdateBDW (disabled in            *)
(* bdw_stats.go) change no state of the handler beyond hasRTT.             *)
(***************************************************************************)
\* The duplicate or out-of-order check of ReceivedAck and ReceivedClosePath.
\* Fault model: the check dropped.
DuplicateOrOutOfOrderUnchecked(f) == FALSE

DuplicateOrOutOfOrder(f) == f.pn <= largestReceivedPacketWithAck

ReceivedAck(f) ==
  /\ err = "none"
  /\ ackChan' = ackChan \ {f}
  /\ \/ /\ f.largest > lastSentPacketNumber
        /\ err' = "AckForUnsentPacket"
        /\ UNCHANGED <<handlerVars, swmVars, wire, peerReceived, peerAckPN, toResend,
                       nextData, sentData, ackedData>>
     \/ /\ f.largest <= lastSentPacketNumber
        /\ DuplicateOrOutOfOrder(f)
        /\ UNCHANGED <<handlerVars, swmVars, err, wire, peerReceived, peerAckPN,
                       toResend, nextData, sentData, ackedData>>
     \/ /\ f.largest <= lastSentPacketNumber
        /\ ~DuplicateOrOutOfOrder(f)
        /\ largestReceivedPacketWithAck' = f.pn
        /\ \/ /\ f.largest <= largestInOrderAcked
              /\ UNCHANGED <<lastSentPacketNumber, skippedPackets, numNonRetransmittablePackets,
                             LargestAcked, packetHistory, retransmissionQueue, bytesInFlight,
                             rtoCount, tlpCount, lossTime, alarm, hasRTT, swmVars, err,
                             wire, peerReceived, peerAckPN, toResend, nextData, sentData,
                             ackedData>>
           \/ /\ f.largest > largestInOrderAcked
              /\ LargestAcked' = f.largest
              /\ LET walk == determineNewlyAckedPackets(packetHistory, f)
                     acked == walk.acked
                     rtt == hasRTT \/ maybeUpdateRTT(packetHistory, f.largest)
                 IN
                 \/ /\ skippedPacketsAcked(f) \/ walk.bug
                    /\ err' = IF skippedPacketsAcked(f) THEN "AckForSkippedPacket" ELSE "BUG"
                    \* the RTT sample is taken before the walk that reports the BUG
                    /\ hasRTT' = IF skippedPacketsAcked(f) THEN hasRTT ELSE rtt
                    /\ UNCHANGED <<lastSentPacketNumber, skippedPackets,
                                   numNonRetransmittablePackets, packetHistory,
                                   retransmissionQueue, bytesInFlight, rtoCount, tlpCount,
                                   lossTime, alarm, swmVars, wire, peerReceived,
                                   peerAckPN, toResend, nextData, sentData, ackedData>>
                 \/ /\ ~skippedPacketsAcked(f)
                    /\ ~walk.bug
                    /\ LET ackedPkts == SelectSeq(packetHistory, LAMBDA p : p.pn \in acked)
                           hist1 == SelectSeq(packetHistory, LAMBDA p : p.pn \notin acked)
                           tlp == IF acked = {} THEN tlpCount ELSE 0
                       IN \E k \in 0..Eligible(hist1, f.largest) :
                          LET D == DetectLost(hist1, f.largest, k, retransmissionQueue,
                                              bytesInFlight - SumLen(ackedPkts),
                                              nextLeastUnacked)
                          IN /\ packetHistory' = D.hist
                             /\ retransmissionQueue' = D.queue
                             /\ bytesInFlight' = D.bif
                             /\ lossTime' = D.lossTime
                             /\ rtoCount' = IF acked = {} THEN rtoCount ELSE 0
                             /\ tlpCount' = tlp
                             /\ hasRTT' = rtt
                             /\ alarm' = AlarmFor(D.hist, D.lossTime, rtt, tlp)
                             /\ skippedPackets' =
                                  GCSkipped(skippedPackets,
                                            LargestInOrderAckedOf(D.hist, f.largest))
                             /\ nextLeastUnacked' = RaiseLeastUnacked(D.next, {f.largest})
                             /\ ackedData' = ackedData \cup DataOf(ackedPkts)
                    /\ UNCHANGED <<lastSentPacketNumber, numNonRetransmittablePackets,
                                   largestLeastUnackedSent, lastStopWaiting, err, wire,
                                   peerReceived, peerAckPN, toResend, nextData, sentData>>

(***************************************************************************)
(* ReceivedClosePath(f, withPacketNumber): like an ACK, but no check       *)
(* against largestInOrderAcked, no RTT sample, LargestAcked left as it     *)
(* is, then SetInflightAsLost; no alarm update, no stop-waiting update.    *)
(***************************************************************************)
\* Fault model: packets queued without leaving bytesInFlight.
SetInflightAsLostKeepingBytes(hist, q, bif, next) ==
  [DetectLost(hist, LargestAcked, Eligible(hist, LargestAcked), q, bif, next)
     EXCEPT !.bif = bif]

SetInflightAsLost(hist, q, bif, next) ==
  DetectLost(hist, LargestAcked, Eligible(hist, LargestAcked), q, bif, next)

ReceivedClosePath(f) ==
  /\ err = "none"
  /\ ackChan' = ackChan \ {f}
  /\ \/ /\ f.largest > lastSentPacketNumber
        /\ err' = "AckForUnsentPacket"
        /\ UNCHANGED <<handlerVars, swmVars, wire, peerReceived, peerAckPN, toResend,
                       nextData, sentData, ackedData>>
     \/ /\ f.largest <= lastSentPacketNumber
        /\ DuplicateOrOutOfOrder(f)
        /\ UNCHANGED <<handlerVars, swmVars, err, wire, peerReceived, peerAckPN,
                       toResend, nextData, sentData, ackedData>>
     \/ /\ f.largest <= lastSentPacketNumber
        /\ ~DuplicateOrOutOfOrder(f)
        /\ largestReceivedPacketWithAck' = f.pn
        /\ LET walk == determineNewlyAckedPacketsClosePath(packetHistory, f)
               acked == walk.acked
           IN
           \/ /\ skippedPacketsAckedClosePath(f) \/ walk.bug
              /\ err' = IF skippedPacketsAckedClosePath(f) THEN "AckForSkippedPacket" ELSE "BUG"
              /\ UNCHANGED <<lastSentPacketNumber, skippedPackets,
                             numNonRetransmittablePackets, LargestAcked, packetHistory,
                             retransmissionQueue, bytesInFlight, rtoCount, tlpCount,
                             lossTime, alarm, hasRTT, swmVars, wire, peerReceived,
                             peerAckPN, toResend, nextData, sentData, ackedData>>
           \/ /\ ~skippedPacketsAckedClosePath(f)
              /\ ~walk.bug
              /\ LET ackedPkts == SelectSeq(packetHistory, LAMBDA p : p.pn \in acked)
                     hist1 == SelectSeq(packetHistory, LAMBDA p : p.pn \notin acked)
                     D == SetInflightAsLost(hist1, retransmissionQueue,
                                            bytesInFlight - SumLen(ackedPkts),
                                            nextLeastUnacked)
                 IN /\ packetHistory' = D.hist
                    /\ retransmissionQueue' = D.queue
                    /\ bytesInFlight' = D.bif
                    /\ nextLeastUnacked' = D.next
                    /\ rtoCount' = IF acked = {} THEN rtoCount ELSE 0
                    /\ tlpCount' = IF acked = {} THEN tlpCount ELSE 0
                    /\ skippedPackets' =
                         GCSkipped(skippedPackets, LargestInOrderAckedOf(D.hist, LargestAcked))
                    /\ ackedData' = ackedData \cup DataOf(ackedPkts)
              /\ UNCHANGED <<lastSentPacketNumber, numNonRetransmittablePackets,
                             LargestAcked, lossTime, alarm, hasRTT,
                             largestLeastUnackedSent, lastStopWaiting, err, wire,
                             peerReceived, peerAckPN, toResend, nextData, sentData>>

(***************************************************************************)
(* OnAlarm: the session calls it once the armed alarm time has passed.     *)
(* The RTO callback of the path (onRTOCallback) answers whether the path   *)
(* is potentially failed; the model lets it answer either way.             *)
(***************************************************************************)
AlarmUnchanged == UNCHANGED <<lastSentPacketNumber, skippedPackets,
                              numNonRetransmittablePackets, LargestAcked,
                              largestReceivedPacketWithAck, hasRTT,
                              largestLeastUnackedSent, lastStopWaiting, envVars>>

\* Fault model: queueRTO without the bytesInFlight update.
QueueOldestKeepingBytes(n) ==
  LET q == SubSeq(packetHistory, 1, n) IN
  /\ packetHistory' = SubSeq(packetHistory, n + 1, Len(packetHistory))
  /\ retransmissionQueue' = retransmissionQueue \o q
  /\ bytesInFlight' = bytesInFlight
  /\ nextLeastUnacked' = RaiseLeastUnacked(nextLeastUnacked, PNs(q))

\* queueRTO / queuePacketForRetransmission on the first n packets
QueueOldest(n) ==
  LET q == SubSeq(packetHistory, 1, n) IN
  /\ packetHistory' = SubSeq(packetHistory, n + 1, Len(packetHistory))
  /\ retransmissionQueue' = retransmissionQueue \o q
  /\ bytesInFlight' = bytesInFlight - SumLen(q)
  /\ nextLeastUnacked' = RaiseLeastUnacked(nextLeastUnacked, PNs(q))

OnAlarm ==
  /\ err = "none"
  /\ alarm # "none"
  /\ \/ /\ ~hasOutstandingRetransmittablePacket(packetHistory)
        /\ alarm' = "none"
        /\ UNCHANGED <<packetHistory, retransmissionQueue, bytesInFlight,
                       nextLeastUnacked, rtoCount, tlpCount, lossTime>>
     \/ /\ hasOutstandingRetransmittablePacket(packetHistory)
        /\ lossTime
        /\ \E k \in 0..Eligible(packetHistory, LargestAcked) :
             LET D == DetectLost(packetHistory, LargestAcked, k, retransmissionQueue,
                                 bytesInFlight, nextLeastUnacked)
             IN /\ packetHistory' = D.hist
                /\ retransmissionQueue' = D.queue
                /\ bytesInFlight' = D.bif
                /\ lossTime' = D.lossTime
                /\ nextLeastUnacked' = D.next
                /\ alarm' = AlarmFor(D.hist, D.lossTime, hasRTT, tlpCount)
        /\ UNCHANGED <<rtoCount, tlpCount>>
     \/ /\ hasOutstandingRetransmittablePacket(packetHistory)
        /\ ~lossTime
        /\ tlpCount < maxTailLossProbes
        \* retransmitTLP: the newest packet
        /\ LET last == Last(packetHistory) IN
           /\ packetHistory' = Front(packetHistory)
           /\ retransmissionQueue' = Append(retransmissionQueue, last)
           /\ bytesInFlight' = bytesInFlight - last.len
           /\ nextLeastUnacked' = RaiseLeastUnacked(nextLeastUnacked, {last.pn})
           /\ alarm' = AlarmFor(Front(packetHistory), lossTime, hasRTT, tlpCount + 1)
        /\ tlpCount' = tlpCount + 1
        /\ UNCHANGED <<rtoCount, lossTime>>
     \/ /\ hasOutstandingRetransmittablePacket(packetHistory)
        /\ ~lossTime
        /\ tlpCount >= maxTailLossProbes
        /\ rtoCount < MaxRTO
        /\ \E potentiallyFailed \in BOOLEAN :
             LET n == IF potentiallyFailed THEN Len(packetHistory)
                      ELSE Min({2, Len(packetHistory)})
             IN /\ QueueOldest(n)
                /\ alarm' = AlarmFor(SubSeq(packetHistory, n + 1, Len(packetHistory)),
                                     lossTime, hasRTT, tlpCount)
        /\ rtoCount' = rtoCount + 1
        /\ UNCHANGED <<tlpCount, lossTime>>
  /\ AlarmUnchanged

(***************************************************************************)
(* DequeuePacketForRetransmission, as the scheduler calls it: the frames   *)
(* of the oldest queued packet go back to the stream framer.               *)
(***************************************************************************)
DequeuePacketForRetransmission ==
  /\ err = "none"
  /\ retransmissionQueue # <<>>
  /\ retransmissionQueue' = Tail(retransmissionQueue)
  /\ toResend' = toResend \cup {Head(retransmissionQueue).data}
  /\ UNCHANGED <<lastSentPacketNumber, skippedPackets, numNonRetransmittablePackets,
                 LargestAcked, largestReceivedPacketWithAck, packetHistory,
                 bytesInFlight, rtoCount, tlpCount, lossTime, alarm, hasRTT, swmVars,
                 err, wire, peerReceived, ackChan, peerAckPN, nextData, sentData,
                 ackedData>>

(***************************************************************************)
(* stopWaitingManager.GetStopWaitingFrame(force); the result is the new    *)
(* lastStopWaiting (0 stands for nil).                                     *)
(***************************************************************************)
GetStopWaitingFrame(force) ==
  /\ err = "none"
  /\ IF nextLeastUnacked > largestLeastUnackedSent
     THEN /\ largestLeastUnackedSent' = nextLeastUnacked
          /\ lastStopWaiting' = nextLeastUnacked
     \* re-emit the last frame when forced; the frame is synthesised when none
     \* was kept although some least-unacked was sent (both are only ever set
     \* together, so this never happens)
     ELSE /\ lastStopWaiting' =
               IF force /\ lastStopWaiting = 0 /\ largestLeastUnackedSent > 0
               THEN nextLeastUnacked ELSE lastStopWaiting
          /\ UNCHANGED largestLeastUnackedSent
  /\ UNCHANGED <<handlerVars, nextLeastUnacked, envVars>>

(***************************************************************************)
(* The peer and the network (spec-level: the peer's receivedPacketHandler  *)
(* and the UDP paths are not under src/).  The peer ACKs every packet it   *)
(* has received, as maximal ranges listed from the highest; a CLOSE_PATH   *)
(* frame carries the same information and is the last frame of the path.   *)
(* A misbehaving peer sends well-formed frames for any packet numbers.     *)
(***************************************************************************)
Intervals(S) ==
  {r \in [first : S, last : S] :
     /\ r.first <= r.last /\ r.first..r.last \subseteq S
     /\ r.first - 1 \notin S /\ r.last + 1 \notin S}

AckFrameFor(kind, S, pn) ==
  LET iv == Intervals(S) IN
  [kind |-> kind, pn |-> pn, largest |-> Max(S), lowest |-> Min(S),
   ranges |-> IF Cardinality(iv) > 1
              THEN SetToSortSeq(iv, LAMBDA a, b : a.first > b.first) ELSE <<>>]

PeerReceive ==
  /\ \E pn \in wire :
       /\ wire' = wire \ {pn}
       /\ peerReceived' = peerReceived \cup {pn}
  /\ UNCHANGED <<handlerVars, swmVars, err, ackChan, peerAckPN, toResend, nextData,
                 sentData, ackedData>>

PeerSendAck ==
  /\ peerReceived # {}
  /\ peerAckPN < MaxAckPN
  /\ \E kind \in {"ack", "closePath"},
       S \in IF PeerHonest THEN {peerReceived} ELSE SUBSET (1..MaxPN) \ {{}} :
       /\ ackChan' = ackChan \cup {AckFrameFor(kind, S, peerAckPN + 1)}
       \* an honest peer sends nothing on the path after its CLOSE_PATH
       /\ peerAckPN' = IF PeerHonest /\ kind = "closePath"
                       THEN MaxAckPN ELSE peerAckPN + 1
  /\ UNCHANGED <<handlerVars, swmVars, err, wire, peerReceived, toResend, nextData,
                 sentData, ackedData>>

LosePacket ==
  /\ \/ \E pn \in wire : wire' = wire \ {pn} /\ UNCHANGED ackChan
     \/ \E f \in ackChan : ackChan' = ackChan \ {f} /\ UNCHANGED wire
  /\ UNCHANGED <<handlerVars, swmVars, err, peerReceived, peerAckPN, toResend,
                 nextData, sentData, ackedData>>

Next ==
  \/ SendPacket
  \/ \E f \in ackChan : f.kind = "ack" /\ ReceivedAck(f)
  \/ \E f \in ackChan : f.kind = "closePath" /\ ReceivedClosePath(f)
  \/ OnAlarm
  \/ DequeuePacketForRetransmission
  \/ \E force \in BOOLEAN : GetStopWaitingFrame(force)
  \/ PeerReceive
  \/ PeerSendAck
  \/ LosePacket

Spec == Init /\ [][Next]_vars


(***************************************************************************)
(* Refinement: the handler implements ReliableTransfer.  A unit of data is *)
(* acked once some packet carrying it was acknowledged, in flight while a  *)
(* packet carrying it is in the history, lost while it waits in the        *)
(* retransmission queue or back in the framer, and new otherwise.          *)
(***************************************************************************)
dataStatus ==
  [d \in Data |->
     IF d \in ackedData THEN "acked"
     ELSE IF d \in DataOf(packetHistory) THEN "inflight"
     ELSE IF d \in DataOf(retransmissionQueue) \cup toResend THEN "lost"
     ELSE "new"]

RT == INSTANCE ReliableTransfer WITH status <- dataStatus, closed <- (err # "none")

(***************************************************************************)
(* Fairness: the session calls OnAlarm once the armed alarm time has       *)
(* passed (its run loop selects on the timer), so an armed alarm cannot be *)
(* ignored for ever.  Nothing is assumed of the peer or the network.       *)
(***************************************************************************)
FairSpec == Spec /\ WF_vars(OnAlarm)

(***************************************************************************)
(* Properties.                                                             *)
(***************************************************************************)
TypeOK ==
  /\ lastSentPacketNumber \in 0..MaxPN
  /\ skippedPackets \in Seq(1..MaxPN) /\ Len(skippedPackets) <= MaxTrackedSkippedPackets
  /\ numNonRetransmittablePackets \in 0..MaxPN
  /\ LargestAcked \in 0..MaxPN /\ largestReceivedPacketWithAck \in 0..MaxAckPN
  /\ packetHistory \in Seq(Packet) /\ retransmissionQueue \in Seq(Packet)
  /\ bytesInFlight \in Nat /\ rtoCount \in 0..MaxRTO
  /\ tlpCount \in 0..maxTailLossProbes /\ lossTime \in BOOLEAN /\ hasRTT \in BOOLEAN
  /\ alarm \in {"none", "loss", "tlp", "rto"}
  /\ {largestLeastUnackedSent, nextLeastUnacked, lastStopWaiting} \subseteq 0..MaxPN + 1
  /\ err \in {"none", "AckForUnsentPacket", "AckForSkippedPacket", "BUG",
              "TooManyTrackedSentPackets"}
  /\ wire \subseteq 1..MaxPN /\ peerReceived \subseteq 1..MaxPN
  /\ ackChan \subseteq Frame /\ peerAckPN \in 0..MaxAckPN
  /\ toResend \subseteq Data /\ nextData \in 1..MaxData + 1
  /\ sentData \subseteq Data /\ ackedData \subseteq Data

\* bytesInFlight is the sum of the lengths of the packets in the history:
\* every removal path (onPacketAcked, queuePacketForRetransmission from loss
\* detection, TLP, RTO and CLOSE_PATH) subtracts each packet exactly once.
BytesInFlightMatchesHistory == bytesInFlight = SumLen(packetHistory)

\* No stream data is ever dropped: data that was sent is acknowledged, still
\* in flight in the history, waiting in the retransmission queue, or back in
\* the stream framer for retransmission.
NoDataLost ==
  sentData \subseteq ackedData \cup DataOf(packetHistory)
                    \cup DataOf(retransmissionQueue) \cup toResend

\* While a retransmittable packet is outstanding the loss-detection alarm is
\* armed (updateLossDetectionAlarm after SentPacket, ReceivedAck, OnAlarm),
\* so no packet can be left in the history with nothing to retransmit it.
AlarmArmedWhileOutstanding ==
  (err = "none" /\ packetHistory # <<>>) => alarm # "none"

\* An honest peer over a lossy, reordering network never makes the handler
\* fail: no ACK for an unsent or an intentionally skipped packet number, and
\* no BUG from the range walk of determineNewlyAckedPackets.
HonestPeerNeverRejected ==
  err \notin {"AckForUnsentPacket", "AckForSkippedPacket", "BUG"}

\* LargestAcked never decreases (ReceivedAck only accepts ACKs carried by
\* increasing packet numbers and above largestInOrderAcked).
LargestAckedMonotone == [][LargestAcked' >= LargestAcked]_LargestAcked

\* The skipped-packet list never holds a number at or below
\* largestInOrderAcked: garbageCollectSkippedPackets is meant to drop them
\* as soon as the in-order frontier passes them.
SkippedAboveInOrderAcked ==
  \A i \in DOMAIN skippedPackets : skippedPackets[i] > largestInOrderAcked


\* Every step of the handler and its peer is a step of ReliableTransfer:
\* fresh data leaves in stream order, only data in flight is acknowledged
\* or declared lost (by ReceivedAck, ReceivedClosePath or OnAlarm), data
\* given up is sent again, and acknowledged data is never sent again.
\* (RT!Spec, with the stuttering case of [RT!Next]_RT!vars written first so
\* that steps invisible to ReliableTransfer are recognised at once.)
ImplementsReliableTransfer == RT!Init /\ [][UNCHANGED RT!vars \/ RT!Next]_RT!vars

\* Every unit in flight is eventually acknowledged or queued for
\* retransmission by loss detection, TLP or RTO (OnAlarm), whatever the
\* peer and the network do, unless the connection closes.
InflightEventuallyResolved == RT!InflightResolved

=============================================================================
