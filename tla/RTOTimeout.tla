----------------------------- MODULE RTOTimeout -----------------------------
(***************************************************************************)
(* The retransmission-timeout arithmetic of sentPacketHandler              *)
(* (src/ackhandler/sent_packet_handler.go): computeRTOTimeout and the RTO  *)
(* branch of updateLossDetectionAlarm, driven by the RTO branch of OnAlarm *)
(* (rtoCount++) and by onPacketAcked (rtoCount = 0).                       *)
(*                                                                         *)
(* A time.Duration is an int64 number of nanoseconds.  TLC integers are    *)
(* 32-bit, so a duration is written here in units of 2^8 ns (every         *)
(* constant of the code is a multiple of 256 ns), and the 64-bit shift     *)
(* `rto << rtoCount` is computed exactly up to what the later MinDuration  *)
(* and MaxDuration can tell apart: a negative result, zero, an exact value *)
(* below 60 s, or "at least 60 s".                                         *)
(***************************************************************************)
EXTENDS Integers

CONSTANTS
    Delays,        \* values congestion.RetransmissionDelay() may return, in units
    MaxRTOCount    \* bound on consecutive RTOs explored (rtoCount is a uint32)

VARIABLES
    rtoCount,      \* h.rtoCount
    delay          \* the current congestion.RetransmissionDelay()

vars == <<rtoCount, delay>>

\* The constants of the handler, in units of 2^8 ns.
UnitShift == 8
DefaultRTOTimeout == 1953125        \* 500 ms
MinRTOTimeout == 781250             \* 200 ms
MaxRTOTimeout == 234375000          \* 60 s
MinRetransmissionTime == 781250     \* 200 ms

\* Any shifted duration of at least 60 s is represented by this value.
Beyond == MaxRTOTimeout + 1

MaxDuration(a, b) == IF a >= b THEN a ELSE b
MinDuration(a, b) == IF a <= b THEN a ELSE b

(***************************************************************************)
(* rto << n for rto = d units = d * 2^(8+n) ns, truncated to int64 the way *)
(* Go shifts a signed integer (a shift of 64 or more gives 0).  Only the   *)
(* low 64-s bits of d survive; bit 63-s of d becomes the sign bit.         *)
(***************************************************************************)
ShiftLeft64NoWrap(d, n) ==
    IF d = 0 THEN 0
    ELSE IF n > 30 \/ d > (Beyond - 1) \div 2^n THEN Beyond
    ELSE d * 2^n

ShiftLeft64(d, n) ==
    LET s == UnitShift + n
        kept == IF 64 - s > 30 THEN d ELSE d % 2^(64 - s)
        signBit == IF 63 - s > 30 THEN 0 ELSE (kept \div 2^(63 - s)) % 2
    IN  IF s >= 64 THEN 0
        ELSE IF signBit = 1 THEN -1
        ELSE ShiftLeft64NoWrap(kept, n)

\* computeRTOTimeout: default, floor at 200 ms, exponential backoff, cap at 60 s.
computeRTOTimeout(d, n) ==
    LET rto == IF d = 0 THEN DefaultRTOTimeout ELSE d
    IN  MinDuration(ShiftLeft64(MaxDuration(rto, MinRTOTimeout), n), MaxRTOTimeout)

\* The RTO case of updateLossDetectionAlarm: lastSentTime + this duration.
AlarmTimeout(d, n) == MaxDuration(computeRTOTimeout(d, n), MinRetransmissionTime)

-----------------------------------------------------------------------------

\* No RTT sample yet: RetransmissionDelay() is 0.
Init ==
    /\ rtoCount = 0
    /\ delay = 0

OnAlarmRTOUnbounded ==
    /\ rtoCount' = rtoCount + 1
    /\ UNCHANGED delay

\* OnAlarm, RTO branch: retransmit, rtoCount++, re-arm with the backed-off timeout.
OnAlarmRTO ==
    /\ rtoCount < MaxRTOCount
    /\ rtoCount' = rtoCount + 1
    /\ UNCHANGED delay

\* onPacketAcked resets rtoCount; the ACK's RTT sample changes RetransmissionDelay.
OnPacketAcked ==
    /\ rtoCount' = 0
    /\ delay' \in Delays

Next == OnAlarmRTO \/ OnPacketAcked

Spec == Init /\ [][Next]_vars

-----------------------------------------------------------------------------

TypeOK ==
    /\ rtoCount \in 0..MaxRTOCount
    /\ delay \in Delays \cup {0}

\* Exponential backoff never shortens the RTO alarm: each RTO that fires
\* without an intervening ACK (OnAlarm's rtoCount++) re-arms the alarm with a
\* timeout at least as long as the previous one.
BackoffNeverShrinks ==
    [][OnAlarmRTO => AlarmTimeout(delay', rtoCount') >= AlarmTimeout(delay, rtoCount)]_vars

=============================================================================
