-------------------------- MODULE ReliableTransfer --------------------------
(***************************************************************************)
(* What the sent-packet handler of one path promises about the units of    *)
(* stream data handed to it, independent of packet numbers, ACK ranges,    *)
(* alarms and byte counts.  A unit is "new" until it is first sent, then   *)
(* "inflight" while a packet carrying it may still be acknowledged,        *)
(* "lost" once the handler gives it up for retransmission (loss detection, *)
(* TLP, RTO, CLOSE_PATH), and "acked" for good once a packet carrying it   *)
(* is acknowledged.  A lost unit is sent again; fresh units are sent in    *)
(* stream order.  Once the connection is closed by an error nothing moves. *)
(***************************************************************************)
EXTENDS Naturals

CONSTANT Data   \* the units of stream data, a set of naturals

VARIABLES
  status,   \* Data -> {"new", "inflight", "lost", "acked"}
  closed    \* the connection was closed by an error

vars == <<status, closed>>

Status == {"new", "inflight", "lost", "acked"}

InState(s) == {d \in Data : status[d] = s}

Init ==
  /\ status = [d \in Data |-> "new"]
  /\ closed = FALSE

\* A packet carrying d goes out: the oldest unsent unit, or one given up.
Transmit(d) ==
  /\ ~closed
  /\ \/ status[d] = "lost"
     \/ status[d] = "new" /\ \A e \in InState("new") : d <= e
  /\ status' = [status EXCEPT ![d] = "inflight"]
  /\ UNCHANGED closed

\* One ACK, CLOSE_PATH or alarm: some units in flight are acknowledged,
\* others are declared lost, and nothing else changes.
Resolved(d) == status[d] = "inflight" /\ status'[d] \in {"acked", "lost"}

Resolve ==
  /\ ~closed
  /\ status' # status
  /\ status' \in [Data -> Status]
  /\ \A d \in Data : status'[d] = status[d] \/ Resolved(d)
  /\ UNCHANGED closed

Close ==
  /\ ~closed
  /\ closed' = TRUE
  /\ UNCHANGED status

Next ==
  \/ \E d \in Data : Transmit(d)
  \/ Resolve
  \/ Close

Spec == Init /\ [][Next]_vars

TypeOK == status \in [Data -> Status] /\ closed \in BOOLEAN

\* No unit stays in flight for ever: each one is eventually acknowledged or
\* given up for retransmission, unless the connection closes.
InflightResolved ==
  \A d \in Data : status[d] = "inflight" ~> (status[d] # "inflight" \/ closed)

=============================================================================
