----------------------------- MODULE WireCodec -----------------------------
(***************************************************************************)
(* The byte encodings of three frames (src/internal/wire): PUBLIC_RESET    *)
(* (WritePublicReset, ParsePublicReset), CONNECTION_CLOSE and BLOCKED      *)
(* (Write, MinLength, Parse...Frame).  Bytes are naturals below 256 and an *)
(* encoding is a sequence of them.  One endpoint writes a frame, the peer  *)
(* parses what arrives: the whole datagram, or a prefix of it when the     *)
(* packet is cut short.                                                     *)
(*                                                                         *)
(* Not under src/ and taken from spec section 7 and the QUIC crypto        *)
(* message format: utils.ByteOrder, handshake.ParseHandshakeMessage, the   *)
(* tag values and the public header the receiver strips before            *)
(* ParsePublicReset.                                                        *)
(***************************************************************************)
EXTENDS Naturals, Sequences, SequencesExt

CONSTANTS
  ConnectionID,     \* the connection ID written into the public header
  RejectedPNs,      \* rejected packet numbers a PUBLIC_RESET may carry
  Nonces,           \* nonce proofs
  ErrorCodes,       \* CONNECTION_CLOSE error codes
  Phrases,          \* reason phrases (sequences of bytes)
  StreamIDs,        \* BLOCKED stream IDs
  ByteOrders,       \* the byte orders the version may select: "little", "big"
  MaxPacketSize     \* protocol.MaxPacketSize

(***************************************************************************)
(* utils.LittleEndian / BigEndian: WriteUintN and ReadUintN.               *)
(***************************************************************************)
RECURSIVE LE(_, _)
LE(v, n) == IF n = 0 THEN <<>> ELSE <<v % 256>> \o LE(v \div 256, n - 1)

RECURSIVE FromLE(_)
FromLE(bs) == IF bs = <<>> THEN 0 ELSE Head(bs) + 256 * FromLE(Tail(bs))

WriteUint(order, v, n) == IF order = "little" THEN LE(v, n) ELSE Reverse(LE(v, n))

ReadUint(order, bs) == IF order = "little" THEN FromLE(bs) ELSE FromLE(Reverse(bs))

\* The reader: n bytes from the front of bs, or io.ErrUnexpectedEOF.
Take(bs, n) == SubSeq(bs, 1, n)
Drop(bs, n) == SubSeq(bs, n + 1, Len(bs))
Fail(e) == [ok |-> FALSE, err |-> e]

\* Tags of the crypto messages (handshake.TagPRST, TagRNON, TagRSEQ): the
\* four ASCII letters read as a little-endian uint32.
TagPRST == 1414746704   \* "PRST"
TagRNON == 1313820242   \* "RNON"
TagRSEQ == 1363497810   \* "RSEQ"

CryptoMaxParams == 128
CryptoParameterMaxLength == 4000

\* The public header in front of a PUBLIC_RESET: flags and connection ID.
PublicHeaderLen == 9

(***************************************************************************)
(* PUBLIC_RESET.                                                            *)
(***************************************************************************)
\* Fault model: the two 64-bit values written in the wrong order.
WritePublicResetSwapped(cid, rejected, nonce) ==
  <<10>> \o LE(cid, 8) \o LE(TagPRST, 4) \o LE(2, 4)
         \o LE(TagRNON, 4) \o LE(8, 4) \o LE(TagRSEQ, 4) \o LE(16, 4)
         \o LE(rejected, 8) \o LE(nonce, 8)

WritePublicReset(cid, rejected, nonce) ==
  <<10>> \o LE(cid, 8) \o LE(TagPRST, 4) \o LE(2, 4)
         \o LE(TagRNON, 4) \o LE(8, 4) \o LE(TagRSEQ, 4) \o LE(16, 4)
         \o LE(nonce, 8) \o LE(rejected, 8)

\* handshake.ParseHandshakeMessage: tag, number of entries, the index of
\* (tag, end offset) pairs, then the values back to back, each read with
\* io.ReadFull after its length (end - start, unsigned) is checked.  The
\* first entry that fails decides the error.  The result maps each tag of
\* the index to its value (a later entry wins).
ParseHandshakeMessage(bs) ==
  IF Len(bs) < 8 THEN Fail("EOF")
  ELSE LET n == FromLE(SubSeq(bs, 5, 8))
           body == Drop(bs, 8)
       IN IF n > CryptoMaxParams THEN Fail("CryptoTooManyEntries")
          ELSE IF Len(body) < 8 * n THEN Fail("EOF")
          ELSE LET tag(i) == FromLE(SubSeq(body, 8 * i - 7, 8 * i - 4))
                   end(i) == FromLE(SubSeq(body, 8 * i - 3, 8 * i))
                   start(i) == IF i = 1 THEN 0 ELSE end(i - 1)
                   data == Drop(body, 8 * n)
                   badLen(i) == end(i) < start(i) \/ end(i) - start(i) > CryptoParameterMaxLength
                   bad(i) == badLen(i) \/ Len(data) < end(i)
                   last(t) == CHOOSE i \in 1..n : tag(i) = t /\ \A j \in 1..n : tag(j) = t => j <= i
               IN IF \E i \in 1..n : bad(i)
                  THEN LET first == CHOOSE i \in 1..n : bad(i) /\ \A j \in 1..(i - 1) : ~bad(j)
                       IN Fail(IF badLen(first) THEN "CryptoInvalidValueLength" ELSE "EOF")
                  ELSE [ok |-> TRUE, tag |-> FromLE(Take(bs, 4)),
                        data |-> [t \in {tag(i) : i \in 1..n} |->
                                    SubSeq(data, start(last(t)) + 1, end(last(t)))]]

ParsePublicReset(bs) ==
  LET msg == ParseHandshakeMessage(bs) IN
  IF ~msg.ok THEN msg
  ELSE IF msg.tag # TagPRST THEN Fail("wrong public reset tag")
  ELSE IF TagRSEQ \notin DOMAIN msg.data THEN Fail("RSEQ missing")
  ELSE IF Len(msg.data[TagRSEQ]) # 8 THEN Fail("invalid RSEQ tag")
  ELSE IF TagRNON \notin DOMAIN msg.data THEN Fail("RNON missing")
  ELSE IF Len(msg.data[TagRNON]) # 8 THEN Fail("invalid RNON tag")
  ELSE [ok |-> TRUE,
        frame |-> [kind |-> "publicReset", rejected |-> FromLE(msg.data[TagRSEQ]),
                   nonce |-> FromLE(msg.data[TagRNON])]]

(***************************************************************************)
(* CONNECTION_CLOSE and BLOCKED.                                            *)
(***************************************************************************)
ConnectionCloseMinLength(f) == 1 + 4 + 2 + Len(f.phrase)

ConnectionCloseWrite(order, f) ==
  IF Len(f.phrase) > 65535 THEN Fail("ReasonPhrase too long")
  ELSE [ok |-> TRUE,
        bytes |-> <<2>> \o WriteUint(order, f.code, 4)
                        \o WriteUint(order, Len(f.phrase), 2) \o f.phrase]

\* Fault model: the reason phrase read with Read instead of io.ReadFull,
\* taking whatever bytes remain.
ParseConnectionCloseFramePartial(order, bs) ==
  IF Len(bs) < 1 + 4 + 2 THEN Fail("EOF")
  ELSE LET n == ReadUint(order, SubSeq(bs, 6, 7)) IN
       IF n > MaxPacketSize THEN Fail("reason phrase too long")
       ELSE [ok |-> TRUE,
             frame |-> [kind |-> "connectionClose", code |-> ReadUint(order, SubSeq(bs, 2, 5)),
                        phrase |-> SubSeq(bs, 8, IF Len(bs) < 7 + n THEN Len(bs) ELSE 7 + n)]]

\* Fault model: a phrase of exactly MaxPacketSize bytes rejected as too long.
ParseConnectionCloseFrameAtLimit(order, bs) ==
  IF Len(bs) < 1 + 4 + 2 THEN Fail("EOF")
  ELSE LET n == ReadUint(order, SubSeq(bs, 6, 7)) IN
       IF n >= MaxPacketSize THEN Fail("reason phrase too long")
       ELSE IF Len(bs) < 7 + n THEN Fail("EOF")
       ELSE [ok |-> TRUE,
             frame |-> [kind |-> "connectionClose", code |-> ReadUint(order, SubSeq(bs, 2, 5)),
                        phrase |-> SubSeq(bs, 8, 7 + n)]]

ParseConnectionCloseFrame(order, bs) ==
  IF Len(bs) < 1 + 4 + 2 THEN Fail("EOF")
  ELSE LET n == ReadUint(order, SubSeq(bs, 6, 7)) IN
       IF n > MaxPacketSize THEN Fail("reason phrase too long")
       ELSE IF Len(bs) < 7 + n THEN Fail("EOF")
       ELSE [ok |-> TRUE,
             frame |-> [kind |-> "connectionClose", code |-> ReadUint(order, SubSeq(bs, 2, 5)),
                        phrase |-> SubSeq(bs, 8, 7 + n)]]

BlockedMinLength(f) == 1 + 4

BlockedWrite(order, f) == [ok |-> TRUE, bytes |-> <<5>> \o WriteUint(order, f.stream, 4)]

ParseBlockedFrame(order, bs) ==
  IF Len(bs) < 1 + 4 THEN Fail("EOF")
  ELSE [ok |-> TRUE, frame |-> [kind |-> "blocked", stream |-> ReadUint(order, SubSeq(bs, 2, 5))]]

(***************************************************************************)
(* A sender writes one frame into a datagram and the receiver parses the   *)
(* first k bytes of it: all of them, or fewer when the packet is cut      *)
(* short.  A PUBLIC_RESET is a packet of its own, whose public header the *)
(* receiver strips before ParsePublicReset; CONNECTION_CLOSE and BLOCKED  *)
(* are parsed by the frame parser the type byte selects, with the byte    *)
(* order of the connection's version.                                     *)
(***************************************************************************)
VARIABLES
  sent,      \* the frame last written, as a record
  order,     \* the byte order of the version it was written with
  datagram,  \* the bytes written
  received,  \* how many of them the receiver read, -1 before it reads
  parsed     \* what the receiver's parser returned

wireVars == <<sent, order, datagram, received, parsed>>

NoFrame == [kind |-> "none"]
NotParsed == Fail("none")

\* The parser the receiver applies to what arrived.
ParseReceived(f, o, bs) ==
  CASE f.kind = "publicReset" ->
         IF Len(bs) < PublicHeaderLen THEN Fail("EOF")
         ELSE ParsePublicReset(Drop(bs, PublicHeaderLen))
    [] f.kind = "connectionClose" -> ParseConnectionCloseFrame(o, bs)
    [] f.kind = "blocked" -> ParseBlockedFrame(o, bs)

\* The length the sender budgets for a frame.
MinLength(f) ==
  CASE f.kind = "connectionClose" -> ConnectionCloseMinLength(f)
    [] f.kind = "blocked" -> BlockedMinLength(f)

WireInit ==
  /\ sent = NoFrame
  /\ order = "little"
  /\ datagram = <<>>
  /\ received = 0
  /\ parsed = NotParsed

\* A new frame is written once the previous one has been read.
Written(f, o, bytes) ==
  /\ received >= 0
  /\ sent' = f
  /\ order' = o
  /\ datagram' = bytes
  /\ received' = -1
  /\ parsed' = NotParsed

SendPublicReset ==
  \E pn \in RejectedPNs, nonce \in Nonces :
    Written([kind |-> "publicReset", rejected |-> pn, nonce |-> nonce], "little",
            WritePublicReset(ConnectionID, pn, nonce))

\* A Write that fails leaves nothing to send.
SendConnectionClose ==
  \E o \in ByteOrders, code \in ErrorCodes, phrase \in Phrases :
    LET f == [kind |-> "connectionClose", code |-> code, phrase |-> phrase]
        w == ConnectionCloseWrite(o, f)
    IN /\ w.ok
       /\ Written(f, o, w.bytes)

SendBlocked ==
  \E o \in ByteOrders, sid \in StreamIDs :
    LET f == [kind |-> "blocked", stream |-> sid]
    IN Written(f, o, BlockedWrite(o, f).bytes)

Receive ==
  /\ received = -1
  /\ \E k \in 0..Len(datagram) :
       /\ received' = k
       /\ parsed' = ParseReceived(sent, order, Take(datagram, k))
  /\ UNCHANGED <<sent, order, datagram>>

WireNext == SendPublicReset \/ SendConnectionClose \/ SendBlocked \/ Receive

(***************************************************************************)
(* Round trip (WritePublicReset / ParsePublicReset, Write / MinLength /    *)
(* Parse...Frame): a datagram read in full parses back to exactly the      *)
(* frame that was written, and a frame's MinLength is the number of bytes *)
(* its Write produced, the length the packer budgets with.                *)
(***************************************************************************)
CodecRoundTrip ==
  (received = Len(datagram) /\ sent # NoFrame) =>
    /\ parsed.ok
    /\ parsed.frame = sent
    /\ sent.kind # "publicReset" => MinLength(sent) = Len(datagram)

(***************************************************************************)
(* A datagram cut short never parses: every parser reads its fields with  *)
(* ReadFull-style reads that fail on a short buffer, so a proper prefix   *)
(* yields an error rather than a frame with a truncated field.            *)
(***************************************************************************)
TruncatedRejected ==
  (0 <= received /\ received < Len(datagram)) => ~parsed.ok

=============================================================================
