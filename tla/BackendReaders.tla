--------------------------- MODULE BackendReaders ----------------------------
(***************************************************************************)
(* BackendReaders: the tasks of spawn_backend_reader (sni-router-h3.rs),   *)
(* the bounded channel from all of them to mainloop, and the PacketPool    *)
(* (h3_udp.rs) their receive buffers come from.                            *)
(*                                                                         *)
(* A task waits for its socket, then for a place in the channel, takes a   *)
(* buffer of 64 KiB and tries to receive into it.  It can be aborted where *)
(* it awaits; what runs between two awaits interleaves with the other      *)
(* tasks at each access to the pool and to the channel.                    *)
(*                                                                         *)
(* The semaphore of the channel is tokio's: a place that becomes free goes *)
(* to the task that has waited longest, and a task that is dropped before  *)
(* it used a place gives it to the next.  Readiness of a socket is tokio's *)
(* too: it stays set after a successful receive, so that the last datagram *)
(* of a burst is always followed by a try_recv that would block.           *)
(***************************************************************************)
EXTENDS Integers, Sequences, FiniteSets, SequencesExt

CONSTANTS
  Readers,       \* the paths, each with a socket and a reader task
  Capacity,      \* places in the channel (1024 in mainloop), at least one
  MaxCached,     \* MAX_CACHED_BUFFERS
  MaxBuffers,    \* bound: buffers at a time, more than there ever are
  MaxSent        \* bound: datagrams that reach each socket

VARIABLES
  pc,            \* where each task is
  sent, taken,   \* datagrams that reached each socket, and that try_recv took
  ready,         \* readiness of each socket
  permits,       \* free places of the channel
  waiters,       \* tasks that wait for a place, the first to come first
  channel,       \* BackendDatagrams
  errors,        \* sockets with an error to report, such as a refused datagram
  aborted,       \* tasks that the router has aborted
  cache,         \* PacketPool::buffers, a stack
  bytes,         \* what is in each buffer
  packet,        \* the Packet each task holds
  handled,       \* the BackendDatagram that mainloop holds
  seen           \* history: the datagrams of each path that mainloop handled

pool == <<cache, bytes>>
sockets == <<sent, taken, ready, errors>>
queue == <<permits, waiters, channel>>
vars == <<pc, sockets, queue, aborted, pool, packet, handled, seen>>

Buffers == 1..MaxBuffers

None == [buffer |-> 0, len |-> 0]

\* Buffers and datagrams have one or two bytes; a byte names its datagram.
BufferSize == 2
Datagram(r, k) == [i \in 1..(1 + (k % BufferSize)) |-> <<r, k>>]
Zeros == [i \in 1..BufferSize |-> <<>>]

\* impl Deref for Packet: the first len bytes.  Bug: the whole buffer.
DerefWhole(p) == bytes[p.buffer]
Deref(p) == SubSeq(bytes[p.buffer], 1, p.len)

Packets == [buffer : 0..MaxBuffers, len : 0..BufferSize]

\* Awaiting: the states in which abort drops the future at once.
Awaiting == {"readable", "waiting", "granted"}
Running == {"acquire", "recv", "send", "blocked", "failed", "unwind", "unwindFailed"}

TypeOK ==
  /\ pc \in [Readers -> Awaiting \cup Running \cup {"ended"}]
  /\ sent \in [Readers -> 0..MaxSent] /\ taken \in [Readers -> 0..MaxSent]
  /\ ready \in [Readers -> BOOLEAN]
  /\ permits \in 0..Capacity
  /\ waiters \in Seq(Readers)
  /\ channel \in Seq([conn_id : Readers, packet : Packets])
  /\ errors \subseteq Readers /\ aborted \subseteq Readers
  /\ cache \in Seq(Buffers)
  /\ DOMAIN bytes = Buffers
  /\ packet \in [Readers -> Packets]

Init ==
  /\ pc = [r \in Readers |-> "readable"]
  /\ sent = [r \in Readers |-> 0] /\ taken = [r \in Readers |-> 0]
  /\ ready = [r \in Readers |-> FALSE]
  /\ permits = Capacity /\ waiters = <<>> /\ channel = <<>>
  /\ errors = {} /\ aborted = {}
  /\ cache = <<>> /\ bytes = [b \in Buffers |-> Zeros]
  /\ packet = [r \in Readers |-> None]
  /\ handled = <<>>
  /\ seen = [r \in Readers |-> <<>>]

-----------------------------------------------------------------------------
(* The pool                                                                *)

\* Buffers that some Packet owns.
CheckedOut ==
  {packet[r].buffer : r \in Readers} \cup {d.packet.buffer : d \in ToSet(channel \o handled)}

\* vec![0; MAX_DATAGRAM_SIZE]: memory nobody has.
Fresh == CHOOSE b \in Buffers : b \notin CheckedOut \cup ToSet(cache)

\* PacketPool::acquire
Acquired == IF cache = <<>> THEN Fresh ELSE Last(cache)

\* impl Drop for Packet; the memory of a buffer that is not cached is gone.
Release(b) ==
  IF Len(cache) < MaxCached
  THEN cache' = Append(cache, b) /\ UNCHANGED bytes
  ELSE bytes' = [bytes EXCEPT ![b] = Zeros] /\ UNCHANGED cache

-----------------------------------------------------------------------------
(* The channel's semaphore                                                 *)

\* A place becomes free: state `at' of the tasks, after the step's own change.
GivePermit(at, waiting) ==
  IF waiting = <<>>
  THEN permits' = permits + 1 /\ waiters' = waiting /\ pc' = at
  ELSE /\ pc' = [at EXCEPT ![Head(waiting)] = "granted"]
       /\ waiters' = Tail(waiting)
       /\ UNCHANGED permits

At(r, where) == [pc EXCEPT ![r] = where]

\* Where a task goes at the end of a round: an abort takes effect at the await.
Again(r) == IF r \in aborted THEN "ended" ELSE "readable"

-----------------------------------------------------------------------------
(* The tasks                                                               *)

Arrive(r) ==
  /\ sent[r] < MaxSent
  /\ sent' = [sent EXCEPT ![r] = @ + 1]
  /\ ready' = [ready EXCEPT ![r] = TRUE]
  /\ UNCHANGED <<pc, taken, errors, queue, aborted, pool, packet, handled, seen>>

\* The kernel has an error for the connected socket.
Refused(r) ==
  /\ errors' = errors \cup {r}
  /\ ready' = [ready EXCEPT ![r] = TRUE]
  /\ UNCHANGED <<pc, sent, taken, queue, aborted, pool, packet, handled, seen>>

\* Bug: the buffer is taken before there is a place for it.
ReserveWithBuffer(r) ==
  /\ pc[r] = "readable"
  /\ ready[r]
  /\ packet' = [packet EXCEPT ![r] = [buffer |-> Acquired, len |-> 0]]
  /\ cache' = IF cache = <<>> THEN cache ELSE Front(cache)
  /\ IF permits > 0
     THEN permits' = permits - 1 /\ pc' = At(r, "recv") /\ UNCHANGED waiters
     ELSE waiters' = Append(waiters, r) /\ pc' = At(r, "waiting") /\ UNCHANGED permits
  /\ UNCHANGED <<sockets, channel, aborted, bytes, handled, seen>>

\* socket.readable().await, then the first poll of reserve().  That readable or
\* reserve fail needs a runtime that shuts down or a mainloop that has ended.
Reserve(r) ==
  /\ pc[r] = "readable"
  /\ ready[r]
  /\ IF permits > 0
     THEN permits' = permits - 1 /\ pc' = At(r, "acquire") /\ UNCHANGED waiters
     ELSE waiters' = Append(waiters, r) /\ pc' = At(r, "waiting") /\ UNCHANGED permits
  /\ UNCHANGED <<sockets, channel, aborted, pool, packet, handled, seen>>

Resume(r) ==
  /\ pc[r] = "granted"
  /\ pc' = At(r, "acquire")
  /\ UNCHANGED <<sockets, queue, aborted, pool, packet, handled, seen>>

Acquire(r) ==
  /\ pc[r] = "acquire"
  /\ packet' = [packet EXCEPT ![r] = [buffer |-> Acquired, len |-> 0]]
  /\ cache' = IF cache = <<>> THEN cache ELSE Front(cache)
  /\ pc' = At(r, "recv")
  /\ UNCHANGED <<sockets, queue, aborted, bytes, handled, seen>>

RecvOk(r) ==
  LET d == Datagram(r, taken[r] + 1)
  IN  /\ pc[r] = "recv"
      /\ taken[r] < sent[r] /\ r \notin errors
      /\ taken' = [taken EXCEPT ![r] = @ + 1]
      /\ bytes' = [bytes EXCEPT ![packet[r].buffer] =
                     [i \in 1..BufferSize |-> IF i <= Len(d) THEN d[i] ELSE @[i]]]
      /\ packet' = [packet EXCEPT ![r].len = Len(d)]
      /\ pc' = At(r, "send")
      /\ UNCHANGED <<sent, ready, errors, queue, aborted, cache, handled, seen>>

Send(r) ==
  /\ pc[r] = "send"
  /\ channel' = Append(channel, [conn_id |-> r, packet |-> packet[r]])
  /\ packet' = [packet EXCEPT ![r] = None]
  /\ pc' = At(r, Again(r))
  /\ UNCHANGED <<sockets, permits, waiters, aborted, pool, handled, seen>>

\* Where the task goes when there was nothing to receive.  Bug: as for any error.
AfterBlockBreak == "failed"
AfterBlock == "blocked"

WouldBlock(r) ==
  /\ pc[r] = "recv"
  /\ taken[r] = sent[r] /\ r \notin errors
  /\ ready' = [ready EXCEPT ![r] = FALSE]
  /\ pc' = At(r, AfterBlock)
  /\ UNCHANGED <<sent, taken, errors, queue, aborted, pool, packet, handled, seen>>

RecvFails(r) ==
  /\ pc[r] = "recv"
  /\ r \in errors
  /\ pc' = At(r, "failed")
  /\ UNCHANGED <<sockets, queue, aborted, pool, packet, handled, seen>>

\* The locals of the loop body are dropped in reverse order: the packet ...
DropPacket(r) ==
  /\ pc[r] \in {"blocked", "failed"}
  /\ Release(packet[r].buffer)
  /\ packet' = [packet EXCEPT ![r] = None]
  /\ pc' = At(r, IF pc[r] = "blocked" THEN "unwind" ELSE "unwindFailed")
  /\ UNCHANGED <<sockets, queue, aborted, handled, seen>>

\* ... and then the permit.
DropPermit(r) ==
  /\ pc[r] \in {"unwind", "unwindFailed"}
  /\ GivePermit(At(r, IF pc[r] = "unwind" THEN Again(r) ELSE "ended"), waiters)
  /\ UNCHANGED <<sockets, channel, aborted, pool, packet, handled, seen>>

Reader(r) ==
  \/ Reserve(r) \/ Resume(r) \/ Acquire(r) \/ RecvOk(r) \/ Send(r)
  \/ WouldBlock(r) \/ RecvFails(r) \/ DropPacket(r) \/ DropPermit(r)

-----------------------------------------------------------------------------
(* mainloop                                                                *)

\* backend_rx.recv(): the place is free as soon as the datagram is out.
Recv ==
  /\ handled = <<>> /\ channel # <<>>
  /\ handled' = <<Head(channel)>>
  /\ channel' = Tail(channel)
  /\ GivePermit(pc, waiters)
  /\ UNCHANGED <<sockets, aborted, pool, packet, seen>>

\* handle_backend_datagram returns, and the packet is dropped.
Handle ==
  \E d \in ToSet(handled) :
    /\ seen' = [seen EXCEPT ![d.conn_id] = Append(@, Deref(d.packet))]
    /\ handled' = <<>>
    /\ Release(d.packet.buffer)
    /\ UNCHANGED <<pc, sockets, queue, aborted, packet>>

\* remove_connection aborts the task; mainloop is not in a handler of the path.
\* A task that waits leaves its place in the line of waiters, and one that was
\* given a place in the channel passes it on.
Abort(r) ==
  /\ r \notin aborted /\ handled = <<>>
  /\ aborted' = aborted \cup {r}
  /\ \/ pc[r] = "granted" /\ GivePermit(At(r, "ended"), waiters)
     \/ /\ pc[r] = "waiting" /\ pc' = At(r, "ended")
        /\ \E n \in DOMAIN waiters : waiters[n] = r /\ waiters' = RemoveAt(waiters, n)
        /\ UNCHANGED permits
     \/ /\ pc[r] \notin {"granted", "waiting"}
        /\ pc' = At(r, IF pc[r] \in Awaiting THEN "ended" ELSE pc[r])
        /\ UNCHANGED <<permits, waiters>>
  /\ UNCHANGED <<sockets, channel, pool, packet, handled, seen>>

Environment(r) == Arrive(r) \/ Refused(r) \/ Abort(r)

Next == (\E r \in Readers : Reader(r) \/ Environment(r)) \/ Recv \/ Handle

Spec == Init /\ [][Next]_vars

\* The runtime polls a task that can go on, and mainloop comes back to select!.
Fairness ==
  /\ \A r \in Readers : WF_vars(Reader(r))
  /\ WF_vars(Recv) /\ WF_vars(Handle)

FairSpec == Spec /\ Fairness

-----------------------------------------------------------------------------
\* A task that has a place in the channel and has not used it.
HoldsPermit == {r \in Readers : pc[r] \in {"granted"} \cup Running}

(* The reader waits for channel space before it checks out a large receive *)
(* buffer: however many paths there are, the Packets in use are at most    *)
(* one for each place in the channel and the one mainloop handles, and the *)
(* pool keeps MAX_CACHED_BUFFERS more.  Places are neither lost nor made   *)
(* by errors, by sockets that turn out empty or by aborts.                 *)
BuffersBounded ==
  /\ TypeOK
  /\ permits + Cardinality(HoldsPermit) + Len(channel) = Capacity
  /\ Cardinality(CheckedOut \ {0}) <= Capacity + 1
  /\ Len(cache) <= MaxCached

\* The datagrams on their way to handle_backend_datagram, the number of each
\* among those of its path, and the number of the last one that a reader sent.
Line == handled \o channel
Number(d) == Deref(d.packet)[1][2]
Forwarded(r) == IF pc[r] = "send" THEN taken[r] - 1 ELSE taken[r]

(* What spawn_backend_reader has received reaches handle_backend_datagram  *)
(* complete, once and in order for each path, though buffers are used      *)
(* again with old bytes in them, tasks run in parallel and an abort may    *)
(* come at any time: a datagram taken from a socket is never dropped.      *)
NothingLost ==
  /\ \A n \in DOMAIN Line : Deref(Line[n].packet) = Datagram(Line[n].conn_id, Number(Line[n]))
  /\ \A m, n \in DOMAIN Line :
       m < n /\ Line[m].conn_id = Line[n].conn_id => Number(Line[m]) < Number(Line[n])
  /\ \A r \in Readers :
       /\ seen[r] = [k \in 1..Len(seen[r]) |-> Datagram(r, k)]
       /\ {Number(Line[n]) : n \in {m \in DOMAIN Line : Line[m].conn_id = r}}
            = Len(seen[r]) + 1 .. Forwarded(r)
       /\ pc[r] = "send" => Deref(packet[r]) = Datagram(r, taken[r])

(* Every datagram that reaches the socket of a path is handled, unless its *)
(* reader is aborted or meets an error: a full channel and other busy      *)
(* paths delay it but do not starve it.                                    *)
EveryDatagramHandled ==
  \A r \in Readers, k \in 1..MaxSent :
    (sent[r] >= k) ~> (Len(seen[r]) >= k \/ r \in errors \cup aborted)
=============================================================================
