------------------------------ MODULE SendQueue ------------------------------
(***************************************************************************)
(* SendQueue: send_or_queue and the writer task behind it, for one socket. *)
(*                                                                         *)
(* The caller is the router's task: it owns the queue, so that there is    *)
(* one call at a time.  The writer is a task of its own on the same        *)
(* multi-threaded runtime, and the two share a bounded channel and the     *)
(* atomic counter pending_bytes.  Every access to either is a step here,   *)
(* so that the steps of the two interleave in every order.                 *)
(*                                                                         *)
(* A datagram is [id, len]; ids are given in the order of the calls.  The  *)
(* kernel's answer to a send is any of sent, would block and error.        *)
(***************************************************************************)
EXTENDS Integers, Sequences, SequencesExt

CONSTANTS
  Lens,                    \* the lengths a datagram may have
  MAX_QUEUED_DATAGRAMS,
  MAX_QUEUED_BYTES,
  MaxCalls                 \* bound: how many datagrams are handed over

ASSUME QueueAssumption ==
  /\ Lens \subseteq Nat
  /\ MAX_QUEUED_DATAGRAMS \in Nat \ {0}
  /\ MAX_QUEUED_BYTES \in Nat /\ MaxCalls \in Nat

VARIABLES
  submitted,     \* number of calls so far
  caller,        \* where send_or_queue stands, "idle" outside it
  packet,        \* the datagram of the current call
  exists,        \* the queue has been made: Some(SendQueue)
  channel,       \* the datagrams in the mpsc channel
  pending_bytes,
  writer,        \* where the writer task stands
  datagram,      \* the one the writer has received
  dropped,       \* Drop has run: abort is requested
  last           \* the id of the datagram the kernel took last

vars == <<submitted, caller, packet, exists, channel, pending_bytes, writer, datagram,
          dropped, last>>

Datagram == [id : Nat, len : Lens]

\* The bytes pending_bytes is charged for a datagram.
Charge(d) == d.len + 1

Init ==
  /\ submitted = 0 /\ caller = "idle" /\ packet = <<>> /\ exists = FALSE
  /\ channel = <<>> /\ pending_bytes = 0
  /\ writer = "none" /\ datagram = <<>> /\ dropped = FALSE /\ last = 0

-----------------------------------------------------------------------------
(* The caller: send_or_queue, then enqueue. *)

Call(len) ==
  /\ caller = "idle" /\ ~dropped /\ submitted < MaxCalls
  /\ submitted' = submitted + 1
  /\ packet' = [id |-> submitted + 1, len |-> len]
  /\ caller' = "load"
  /\ UNCHANGED <<exists, channel, pending_bytes, writer, datagram, dropped, last>>

\* Mutant of Bypass: the queue is looked at, not the counter.
BypassIfEmpty == ~exists \/ channel = <<>>

\* Nothing is waiting in the queue: the socket may be tried directly.
Bypass == ~exists \/ pending_bytes = 0

Load ==
  /\ caller = "load"
  /\ caller' = IF Bypass THEN "try" ELSE "reserve"
  /\ UNCHANGED <<submitted, packet, exists, channel, pending_bytes, writer, datagram, dropped, last>>

\* The nonblocking send: taken by the kernel, refused for now, or an error.
TrySend ==
  /\ caller = "try"
  /\ \/ caller' = "idle" /\ last' = packet.id
     \/ caller' = "reserve" /\ UNCHANGED last
     \/ caller' = "idle" /\ UNCHANGED last
  /\ UNCHANGED <<submitted, packet, exists, channel, pending_bytes, writer, datagram, dropped>>

\* Mutant of Reserve: reserve().await, which waits for a permit.
ReserveWaits ==
  /\ caller = "reserve" /\ Len(channel) < MAX_QUEUED_DATAGRAMS
  /\ exists' = TRUE
  /\ writer' = IF exists THEN writer ELSE "recv"
  /\ caller' = "charge"
  /\ UNCHANGED <<submitted, packet, channel, pending_bytes, datagram, dropped, last>>

\* get_or_insert_with starts the writer; a permit is taken if one is left,
\* else the datagram is dropped.
Reserve ==
  /\ caller = "reserve"
  /\ exists' = TRUE
  /\ writer' = IF exists THEN writer ELSE "recv"
  /\ caller' = IF Len(channel) < MAX_QUEUED_DATAGRAMS THEN "charge" ELSE "idle"
  /\ UNCHANGED <<submitted, packet, channel, pending_bytes, datagram, dropped, last>>

\* Mutant of OverBytes: a datagram that fits exactly is checked without itself.
OverBytesBefore(previous) == previous > MAX_QUEUED_BYTES

\* The limit on bytes, checked against the counter before the charge.
OverBytes(previous) == previous + Charge(packet) > MAX_QUEUED_BYTES

ChargeBytes ==
  /\ caller = "charge"
  /\ pending_bytes' = pending_bytes + Charge(packet)
  /\ caller' = IF OverBytes(pending_bytes) THEN "uncharge" ELSE "push"
  /\ UNCHANGED <<submitted, packet, exists, channel, writer, datagram, dropped, last>>

\* The datagram is dropped, its charge given back.
Uncharge ==
  /\ caller = "uncharge"
  /\ pending_bytes' = pending_bytes - Charge(packet)
  /\ caller' = "idle"
  /\ UNCHANGED <<submitted, packet, exists, channel, writer, datagram, dropped, last>>

\* permit.send
Push ==
  /\ caller = "push"
  /\ channel' = Append(channel, packet)
  /\ caller' = "idle"
  /\ UNCHANGED <<submitted, packet, exists, pending_bytes, writer, datagram, dropped, last>>

\* The owner goes away (its path is cleaned up): abort, and no more calls.
Drop ==
  /\ caller = "idle" /\ exists /\ ~dropped
  /\ dropped' = TRUE
  /\ UNCHANGED <<submitted, caller, packet, exists, channel, pending_bytes, writer, datagram, last>>

-----------------------------------------------------------------------------
(* The writer task. *)

Recv ==
  /\ writer = "recv" /\ channel /= <<>>
  /\ datagram' = Head(channel) /\ channel' = Tail(channel)
  /\ writer' = "send"
  /\ UNCHANGED <<submitted, caller, packet, exists, pending_bytes, dropped, last>>

\* Mutant of WriterSend: an error ends the task.
WriterSendOrStop ==
  /\ writer = "send"
  /\ \/ last' = datagram.id /\ writer' = "release"
     \/ UNCHANGED last /\ writer' = "stopped"
  /\ UNCHANGED <<submitted, caller, packet, exists, channel, pending_bytes, datagram, dropped>>

\* The send completes, or fails and is only logged.
WriterSend ==
  /\ writer = "send"
  /\ last' \in {last, datagram.id}
  /\ writer' = "release"
  /\ UNCHANGED <<submitted, caller, packet, exists, channel, pending_bytes, datagram, dropped>>

\* Mutant of Released: nothing is given back for the byte of accounting.
ReleasedShort == pending_bytes - datagram.len

\* What fetch_sub leaves.
Released == pending_bytes - Charge(datagram)

Release ==
  /\ writer = "release"
  /\ pending_bytes' = Released
  /\ datagram' = <<>>
  /\ writer' = "recv"
  /\ UNCHANGED <<submitted, caller, packet, exists, channel, dropped, last>>

\* The abort takes effect where the task awaits; the task may have made
\* more steps since Drop.  What it held is lost with it.
Aborted ==
  /\ dropped /\ writer \in {"recv", "send"}
  /\ writer' = "aborted"
  /\ channel' = <<>> /\ datagram' = <<>>
  /\ UNCHANGED <<submitted, caller, packet, exists, pending_bytes, dropped, last>>

CallerNext ==
  \/ \E len \in Lens : Call(len)
  \/ Load \/ TrySend \/ Reserve \/ ChargeBytes \/ Uncharge \/ Push \/ Drop

CallerStep == Load \/ TrySend \/ Reserve \/ ChargeBytes \/ Uncharge \/ Push

WriterNext == Recv \/ WriterSend \/ Release \/ Aborted

Next == CallerNext \/ WriterNext

Spec == Init /\ [][Next]_vars

\* The router's task runs its call to the end; nothing is asked of the writer.
CallerFairSpec == Spec /\ WF_vars(CallerStep)

\* The runtime keeps polling the writer, and the kernel's buffer drains.
WriterRuns == WF_vars(WriterNext)

-----------------------------------------------------------------------------
(* Properties. *)

\* The ids that are neither sent nor lost.
Ids(s) == {s[i].id : i \in DOMAIN s}
InChannel == Ids(channel)
InFlight == IF writer = "send" THEN {datagram.id} ELSE {}
InCall == IF caller \in {"load", "try", "reserve", "charge", "push"} THEN {packet.id} ELSE {}

\* What the queue has charged, to whomever holds it.
Charges(s) == [i \in DOMAIN s |-> Charge(s[i])]
ChargeOf(s) == SumFunctionOnSet(Charges(s), DOMAIN s)
Charged ==
  ChargeOf(channel)
    + (IF writer \in {"send", "release"} THEN Charge(datagram) ELSE 0)
    + (IF caller \in {"push", "uncharge"} THEN Charge(packet) ELSE 0)

TypeOK ==
  /\ submitted \in 0..MaxCalls /\ last \in 0..submitted
  /\ caller \in {"idle", "load", "try", "reserve", "charge", "uncharge", "push"}
  /\ writer \in {"none", "recv", "send", "release", "aborted"}
  /\ exists \in BOOLEAN /\ dropped \in BOOLEAN
  /\ packet \in Datagram \cup {<<>>} /\ datagram \in Datagram \cup {<<>>}
  /\ channel \in Seq(Datagram) /\ pending_bytes \in Nat

\* pending_bytes is exactly what is queued, in flight or being queued, at
\* every step of the two tasks: it neither drifts nor wraps below zero, so
\* that a queue once full does not stay closed and an empty one is bypassed.
PendingExact == TypeOK /\ (writer /= "aborted" => pending_bytes = Charged)

\* The bytes the queue keeps stay within its limits, whatever interleaving.
Bounded ==
  /\ Len(channel) <= MAX_QUEUED_DATAGRAMS
  /\ ChargeOf(channel) + (IF datagram = <<>> THEN 0 ELSE Charge(datagram)) <= MAX_QUEUED_BYTES

\* Both: what enqueue charges is what the limits are checked against.
Accounted == PendingExact /\ Bounded

\* The socket's datagrams leave in the order of the calls, none of them
\* twice, although some bypass the queue and some do not.
Fifo == INSTANCE LossyFifo WITH held <- InChannel \cup InFlight \cup InCall
Ordered == Fifo!Spec

\* send_or_queue does not wait: it returns even if the writer never runs.
CallReturns == caller /= "idle" ~> caller = "idle"

\* If the writer runs, every datagram queued is sent or lost in the end: a send
\* that fails does not stop it, and Drop does not leave it waiting.
QueuedLeaves ==
  WriterRuns => \A id \in 1..MaxCalls : id \in InChannel \cup InFlight ~> id \notin InChannel \cup InFlight
=============================================================================
