------------------------------- MODULE Packer -------------------------------
(***************************************************************************)
(* The packetPacker (src/ackhandler/sent_packet_handler.go, lines 724-1345).*)
(*                                                                         *)
(* State: the control-frame queue shared by all paths, the per-path queued *)
(* ACK and STOP_WAITING frames, and each path's packet-number generator.   *)
(* The stream framer, the crypto setup and the callers are the             *)
(* environment.  Sizes are counted in frames: STOP_WAITING, ACK and each   *)
(* control frame take one unit of PayloadBudget, and a stream frame is     *)
(* popped when a unit is left (the 2 bytes of DataLen saved on the last    *)
(* frame make a stream frame fit exactly in the remainder).  Payloads are  *)
(* sequences of tags: "sw", "ack", a control frame, "stream", "crypto",    *)
(* "cc" (CONNECTION_CLOSE), "hs" (the frames of a handshake packet).       *)
(***************************************************************************)
EXTENDS Naturals, Sequences, FiniteSets, SequencesExt

CONSTANTS
    Paths,          \* path IDs
    CtrlFrames,     \* control frames (WINDOW_UPDATE, PING, CLOSE_PATH, ...)
    PingFrames,     \* the PING frames among them
    BlockedFrames,  \* the BLOCKED frames the stream framer may generate
    Perspective,    \* "client" or "server"
    PayloadBudget,  \* maxFrameSize, in frames
    MaxPackets      \* packets per path explored

ASSUME PingFrames \cup BlockedFrames \subseteq CtrlFrames
\* "STOP_WAITING and ACK will always fit"
ASSUME PayloadBudget >= 2

VARIABLES
    controlFrames,  \* p.controlFrames, shared by all paths
    ackFrame,       \* p.ackFrame: path -> id of the queued ACK frame, 0 for nil
    stopWaiting,    \* p.stopWaiting: path -> a STOP_WAITING frame is queued
    nextPN,         \* packetNumberGenerator of each path: Peek() and Pop()
    cryptoData,     \* streamFramer.HasCryptoStreamFrame()
    streamData,     \* stream frames the framer holds for the streams of each path
    encLevel,       \* level of cryptoSetup.GetSealer(): 0 unencrypted, 1 secure, 2 forward-secure
    lastPacket,     \* result of the last Pack call: a packet, or NoPacket
    acksIssued,     \* path -> id of the last ACK frame handed to the packer
    acksSent,       \* path -> ids of the ACK frames sent
    ctrlQueued,     \* control frames ever queued
    ctrlSent        \* control frames sent

packerVars == <<controlFrames, ackFrame, stopWaiting, nextPN, lastPacket>>
framerVars == <<cryptoData, streamData, encLevel>>
ghostVars == <<acksIssued, acksSent, ctrlQueued, ctrlSent>>
vars == <<packerVars, framerVars, ghostVars>>

NoPacket == [path |-> "none", payload |-> <<>>]
Packet == [path : Paths, payload : Seq(CtrlFrames \cup {"sw", "ack", "stream", "crypto", "cc", "hs"})]

Forward == 2

\* canSendData
canSendData(level) ==
    IF Perspective = "client" THEN level >= 1 ELSE level = Forward

\* writeAndSealPacket: Pop() the number Peek() gave getPublicHeader, and the
\* frames leave the packer.  ack is the id of the ACK frame packed, 0 if none.
Emit(p, payload, ack) ==
    /\ nextPN' = [nextPN EXCEPT ![p] = @ + 1]
    /\ lastPacket' = [path |-> p, payload |-> payload]
    /\ acksSent' = IF ack = 0 THEN acksSent ELSE [acksSent EXCEPT ![p] = @ \cup {ack}]
    /\ ctrlSent' = ctrlSent \cup (Range(payload) \cap CtrlFrames)

Refuse == lastPacket' = NoPacket

\* QueueControlFrame: STOP_WAITING and ACK replace the path's slot (a nil
\* frame of that type clears it); any other frame is appended to the
\* shared queue whatever the path.
QueueStopWaiting(p, present) == stopWaiting' = [stopWaiting EXCEPT ![p] = present]
QueueAck(p, id) == ackFrame' = [ackFrame EXCEPT ![p] = id]
QueueControl(f) ==
    /\ controlFrames' = Append(controlFrames, f)
    /\ ctrlQueued' = ctrlQueued \cup {f}

(***************************************************************************)
(* composeNextPacket / composeNextPacketOfPath / composeNextPacketOfStream:*)
(* STOP_WAITING, ACK, then control frames popped from the tail while they  *)
(* fit, then stream frames of path q when data may be sent.                *)
(***************************************************************************)
ComposeRestOffByOne(cf, k) == SubSeq(cf, 1, Len(cf) - k - 1)
ComposeRest(cf, k) == SubSeq(cf, 1, Len(cf) - k)

PopsStreamFrameUnchecked(q, canSend, room) == canSend /\ room > 0

\* PopStreamFrames returned frames (len(fs) != 0) into the room left.
PopsStreamFrame(q, canSend, room) == canSend /\ streamData[q] > 0 /\ room > 0

Compose(p, q, canSend) ==
    LET used == (IF stopWaiting[p] THEN 1 ELSE 0) + (IF ackFrame[p] # 0 THEN 1 ELSE 0)
        k == IF Len(controlFrames) <= PayloadBudget - used
             THEN Len(controlFrames) ELSE PayloadBudget - used
        popped == Reverse(SubSeq(controlFrames, Len(controlFrames) - k + 1, Len(controlFrames)))
        data == PopsStreamFrame(q, canSend, PayloadBudget - used - k)
    IN  [payload |-> (IF stopWaiting[p] THEN <<"sw">> ELSE <<>>)
                     \o (IF ackFrame[p] # 0 THEN <<"ack">> ELSE <<>>)
                     \o popped \o (IF data THEN <<"stream">> ELSE <<>>),
         rest |-> ComposeRest(controlFrames, k),
         data |-> data]

\* BLOCKED frames the framer produced while popping are queued after.
BlockedAfterPop(data) ==
    IF data THEN {<<>>} \cup {<<b>> : b \in BlockedFrames \ ctrlQueued} ELSE {<<>>}

\* packCryptoPacket: one crypto stream frame under the handshake sealer.
packCryptoPacket(p) ==
    /\ cryptoData' \in BOOLEAN
    /\ Emit(p, <<"crypto">>, 0)
    /\ UNCHANGED <<controlFrames, ackFrame, stopWaiting, streamData, encLevel,
                   acksIssued, ctrlQueued>>

(***************************************************************************)
(* PackPacket / PackPacketOfPath / PackPacketOfStream on path p, with the  *)
(* stream frames of the streams of path q (q = p for OfPath and OfStream). *)
(* A PING at the head of the queue is packed alone.  A packet that would   *)
(* hold one frame while a STOP_WAITING is queued is refused; otherwise the *)
(* path's STOP_WAITING and ACK slots are cleared.                          *)
(***************************************************************************)
PackPing1(p) ==
    /\ controlFrames # <<>> /\ Head(controlFrames) \in PingFrames
    /\ controlFrames' = Tail(controlFrames)
    /\ \/ /\ stopWaiting[p]
          /\ Refuse
          /\ UNCHANGED <<ackFrame, stopWaiting, nextPN, acksSent, ctrlSent>>
       \/ /\ ~stopWaiting[p]
          /\ QueueAck(p, 0)
          /\ QueueStopWaiting(p, FALSE)
          /\ Emit(p, <<Head(controlFrames)>>, 0)
    /\ UNCHANGED <<framerVars, acksIssued, ctrlQueued>>

PackComposed(p, q) ==
    /\ ~(controlFrames # <<>> /\ Head(controlFrames) \in PingFrames)
    /\ LET c == Compose(p, q, canSendData(encLevel))
       IN  \/ /\ Len(c.payload) = 0 \/ (Len(c.payload) = 1 /\ stopWaiting[p])
              /\ Refuse
              /\ UNCHANGED <<controlFrames, ackFrame, stopWaiting, nextPN,
                             framerVars, ghostVars>>
           \/ /\ Len(c.payload) > 1 \/ (Len(c.payload) = 1 /\ ~stopWaiting[p])
              /\ \E blocked \in BlockedAfterPop(c.data) :
                    /\ controlFrames' = c.rest \o blocked
                    /\ ctrlQueued' = ctrlQueued \cup Range(blocked)
              /\ streamData' = IF c.data THEN [streamData EXCEPT ![q] = @ - 1] ELSE streamData
              /\ QueueAck(p, 0)
              /\ QueueStopWaiting(p, FALSE)
              /\ Emit(p, c.payload, ackFrame[p])
              /\ UNCHANGED <<cryptoData, encLevel, acksIssued>>

PackPacketFrom(p, q) ==
    /\ nextPN[p] <= MaxPackets
    /\ \/ cryptoData /\ packCryptoPacket(p)
       \/ ~cryptoData /\ (PackPing1(p) \/ PackComposed(p, q))

PackPacket(p) == \E q \in Paths : PackPacketFrom(p, q)
PackPacketOfPath(p) == PackPacketFrom(p, p)
\* PackPacketOfStream: the stream frames of one stream, of a stream of path p.
PackPacketOfStream(p) == PackPacketFrom(p, p)

\* PackPing: a PING in front of the queue, then PackPacket.
PackPing(p, f) ==
    /\ f \in PingFrames \ ctrlQueued
    /\ nextPN[p] <= MaxPackets
    /\ ctrlQueued' = ctrlQueued \cup {f}
    /\ \/ /\ cryptoData
          /\ controlFrames' = <<f>> \o controlFrames
          /\ cryptoData' \in BOOLEAN
          /\ Emit(p, <<"crypto">>, 0)
          /\ UNCHANGED <<ackFrame, stopWaiting, streamData, encLevel, acksIssued>>
       \/ /\ ~cryptoData
          /\ controlFrames' = controlFrames
          /\ \/ stopWaiting[p] /\ Refuse /\ UNCHANGED <<ackFrame, nextPN, acksSent, ctrlSent>>
             \/ ~stopWaiting[p] /\ QueueAck(p, 0) /\ Emit(p, <<f>>, 0)
          /\ UNCHANGED <<stopWaiting, framerVars, acksIssued>>

Bug == [path |-> "bug", payload |-> <<>>]

\* PackAckPacket: the path's ACK and, if queued, its STOP_WAITING.
PackAckPacket(p) ==
    /\ nextPN[p] <= MaxPackets
    /\ \/ /\ ackFrame[p] = 0
          /\ lastPacket' = Bug
          /\ UNCHANGED <<controlFrames, ackFrame, stopWaiting, nextPN, ghostVars>>
       \/ /\ ackFrame[p] # 0
          /\ QueueAck(p, 0)
          /\ QueueStopWaiting(p, FALSE)
          /\ Emit(p, <<"ack">> \o (IF stopWaiting[p] THEN <<"sw">> ELSE <<>>), ackFrame[p])
          /\ UNCHANGED <<controlFrames, acksIssued, ctrlQueued>>
    /\ UNCHANGED framerVars

\* PackHandshakeRetransmission of a packet sent at encryption level `level`:
\* STOP_WAITING first, then the packet's frames; the ACK slot is untouched.
PackHandshakeRetransmission(p, level) ==
    /\ nextPN[p] <= MaxPackets
    /\ \/ /\ level = Forward \/ ~stopWaiting[p]
          /\ lastPacket' = Bug
          /\ UNCHANGED <<stopWaiting, nextPN, ghostVars>>
       \/ /\ level # Forward /\ stopWaiting[p]
          /\ QueueStopWaiting(p, FALSE)
          /\ Emit(p, <<"sw", "hs">>, 0)
          /\ UNCHANGED <<acksIssued, ctrlQueued>>
    /\ UNCHANGED <<controlFrames, ackFrame, framerVars>>

\* PackConnectionClose: only the CONNECTION_CLOSE frame; queues untouched.
PackConnectionClose(p) ==
    /\ nextPN[p] <= MaxPackets
    /\ Emit(p, <<"cc">>, 0)
    /\ UNCHANGED <<controlFrames, ackFrame, stopWaiting, framerVars, acksIssued, ctrlQueued>>

-----------------------------------------------------------------------------
(***************************************************************************)
(* The environment of the packer: the callers queue ACK, STOP_WAITING and  *)
(* control frames (receivedPacketHandler.GetAckFrame, GetStopWaitingFrame, *)
(* the stream framer's control frames), the application writes stream      *)
(* data, and the handshake moves the sealer up.                            *)
(***************************************************************************)
CONSTANTS MaxAcks, MaxData

EnvQueueAck(p) ==
    /\ acksIssued[p] < MaxAcks
    /\ acksIssued' = [acksIssued EXCEPT ![p] = @ + 1]
    /\ QueueAck(p, acksIssued[p] + 1)
    /\ UNCHANGED <<controlFrames, stopWaiting, nextPN, lastPacket, framerVars,
                   acksSent, ctrlQueued, ctrlSent>>

EnvQueueStopWaiting(p) ==
    /\ ~stopWaiting[p]
    /\ QueueStopWaiting(p, TRUE)
    /\ UNCHANGED <<controlFrames, ackFrame, nextPN, lastPacket, framerVars, ghostVars>>

EnvQueueControl(f) ==
    /\ f \in CtrlFrames \ (BlockedFrames \cup ctrlQueued)
    /\ QueueControl(f)
    /\ UNCHANGED <<ackFrame, stopWaiting, nextPN, lastPacket, framerVars,
                   acksIssued, acksSent, ctrlSent>>

EnvWriteData(p) ==
    /\ streamData[p] < MaxData
    /\ streamData' = [streamData EXCEPT ![p] = @ + 1]
    /\ UNCHANGED <<packerVars, cryptoData, encLevel, ghostVars>>

EnvHandshake ==
    /\ encLevel < Forward
    /\ encLevel' = encLevel + 1
    /\ cryptoData' \in BOOLEAN
    /\ UNCHANGED <<packerVars, streamData, ghostVars>>

Init ==
    /\ controlFrames = <<>>
    /\ ackFrame = [p \in Paths |-> 0]
    /\ stopWaiting = [p \in Paths |-> FALSE]
    /\ nextPN = [p \in Paths |-> 1]
    /\ cryptoData = TRUE
    /\ streamData = [p \in Paths |-> 0]
    /\ encLevel = 0
    /\ lastPacket = NoPacket
    /\ acksIssued = [p \in Paths |-> 0]
    /\ acksSent = [p \in Paths |-> {}]
    /\ ctrlQueued = {}
    /\ ctrlSent = {}

Next ==
    \/ \E p \in Paths :
          \/ PackPacket(p) \/ PackPacketOfPath(p) \/ PackPacketOfStream(p)
          \/ PackAckPacket(p)
          \/ PackConnectionClose(p)
          \/ \E l \in 0..Forward : PackHandshakeRetransmission(p, l)
          \/ \E f \in PingFrames : PackPing(p, f)
          \/ EnvQueueAck(p) \/ EnvQueueStopWaiting(p) \/ EnvWriteData(p)
    \/ \E f \in CtrlFrames : EnvQueueControl(f)
    \/ EnvHandshake

Spec == Init /\ [][Next]_vars

-----------------------------------------------------------------------------

TypeOK ==
    /\ controlFrames \in Seq(CtrlFrames)
    /\ ackFrame \in [Paths -> 0..MaxAcks]
    /\ stopWaiting \in [Paths -> BOOLEAN]
    /\ nextPN \in [Paths -> 1..MaxPackets + 1]
    /\ streamData \in [Paths -> 0..MaxData]
    /\ encLevel \in 0..Forward
    /\ lastPacket \in Packet \cup {NoPacket, Bug}
    /\ acksSent \in [Paths -> SUBSET (1..MaxAcks)]
    /\ ctrlSent \subseteq ctrlQueued

\* A control frame other than a PING, once queued with QueueControlFrame, is
\* never lost by a Pack call: it is still in the shared queue or was sent,
\* whatever the size budget pops and the refusal rules decide.
ControlFramesNotLost ==
    \A f \in ctrlQueued \ PingFrames : f \in Range(controlFrames) \/ f \in ctrlSent

\* An ACK frame handed to the packer leaves its slot only by being sent or
\* by being replaced by a newer ACK of the same path that is queued or sent.
AckNotDiscarded ==
    \A p \in Paths : \A a \in 1..acksIssued[p] :
        \E b \in acksSent[p] \cup {ackFrame[p]} : b >= a
=============================================================================
