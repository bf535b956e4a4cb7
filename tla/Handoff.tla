------------------------------ MODULE Handoff -------------------------------
(***************************************************************************)
(* A connection on its way from one process to another: pass_fd_over_uds   *)
(* sends its descriptor and the bytes read so far in one Unix datagram,    *)
(* and recv_fd_over_uds of the receiving router takes it, or refuses the   *)
(* datagram and closes what came with it.  Other processes may send the    *)
(* receiver anything.                                                      *)
(*                                                                         *)
(* Followed is who holds a descriptor of each connection: the client's     *)
(* stream lives as long as somebody does.  The kernel is external: a       *)
(* datagram socket that keeps order and loses nothing, and that installs   *)
(* in the receiver as many descriptors as its limit leaves room for,       *)
(* flagging the rest as truncated; nix's cmsgs() may then return an error. *)
(***************************************************************************)
EXTENDS Integers, Sequences, FiniteSets

CONSTANTS
  Conns,         \* client connections
  Big,           \* the ones of which more was read than UDS_DGRAM_BUF_CAPACITY
  QueueMax,      \* bound: datagrams that the socket queues
  FdLimit        \* descriptors that the receiver may have open for connections

VARIABLES
  sender,        \* what each connection's task at the sender does
  queue,         \* datagrams on the socket
  tasks,         \* connections that the receiver serves
  served,        \* history: how often each was accepted
  leaked,        \* history: connections with a descriptor that nobody owns
  by             \* history: who sent each: a router or something else

vars == <<sender, queue, tasks, served, leaked, by>>

Init ==
  /\ sender = [c \in Conns |-> "holds"]
  /\ queue = <<>> /\ tasks = {} /\ served = [c \in Conns |-> 0] /\ leaked = {}
  /\ by = [c \in Conns |-> "nobody"]

-----------------------------------------------------------------------------
(* The sender: pass_fd_over_uds. *)

\* Mutant of AfterSend: the client's stream is shut down when it is sent.
AfterSendShutdown == "shut"

AfterSend == "sent"

\* sendmsg: the descriptor goes into the datagram and stays open here.
PassFd(c) ==
  /\ sender[c] = "holds" /\ Len(queue) < QueueMax
  /\ queue' = Append(queue, [fds |-> <<c>>, truncated |-> c \in Big])
  /\ sender' = [sender EXCEPT ![c] = AfterSend]
  /\ by' = [by EXCEPT ![c] = "router"]
  /\ UNCHANGED <<tasks, served, leaked>>

\* The stream is dropped: after it was sent, because sendmsg refuses it, or
\* because a timeout or an error ends the connection before.
DropStream(c) ==
  /\ sender[c] \in {"holds", "sent"}
  /\ sender' = [sender EXCEPT ![c] = "closed"]
  /\ UNCHANGED <<queue, tasks, served, leaked, by>>

\* Another process sends no descriptor, or two.
SendOther(fds) ==
  /\ \A n \in DOMAIN fds : sender[fds[n]] = "holds"
  /\ Len(queue) < QueueMax
  /\ queue' = Append(queue, [fds |-> fds, truncated |-> FALSE])
  /\ sender' = [c \in Conns |-> IF \E n \in DOMAIN fds : fds[n] = c THEN "closed" ELSE sender[c]]
  /\ by' = [c \in Conns |-> IF \E n \in DOMAIN fds : fds[n] = c THEN "other" ELSE by[c]]
  /\ UNCHANGED <<tasks, served, leaked>>

-----------------------------------------------------------------------------
(* The receiver: IngressListener::accept and recv_fd_over_uds_now. *)

\* Descriptors that the kernel installs, of the datagram's.
Installed(fds) ==
  LET room == FdLimit - Cardinality(tasks) - Cardinality(leaked)
  IN  SubSeq(fds, 1, IF room < Len(fds) THEN room ELSE Len(fds))

\* Mutant of Consumed: a datagram that is refused stays.
ConsumedIfTaken(ok) == IF ok THEN Tail(queue) ELSE queue

\* recvmsg has taken the datagram, whatever becomes of it.
Consumed(ok) == Tail(queue)

\* Neither MSG_TRUNC nor MSG_CTRUNC, and one descriptor.
Valid(d) == Len(Installed(d.fds)) = Len(d.fds) /\ ~d.truncated /\ Len(d.fds) = 1

RecvOk ==
  /\ queue /= <<>> /\ Valid(queue[1])
  /\ tasks' = tasks \cup {queue[1].fds[1]}
  /\ served' = [served EXCEPT ![queue[1].fds[1]] = @ + 1]
  /\ queue' = Consumed(TRUE)
  /\ UNCHANGED <<sender, leaked, by>>

\* Mutant of Owned: descriptors are owned once the datagram is valid.
OwnedIfValid(d) == {}

\* The descriptors that are OwnedFd when an error returns, and are closed
\* with it: all, unless cmsgs() itself fails.
Owned(d) == {d.fds[n] : n \in 1..Len(Installed(d.fds))}

\* The error drops what it finds in fds.
Refused ==
  /\ leaked' = leaked \cup ({queue[1].fds[n] : n \in 1..Len(Installed(queue[1].fds))} \ Owned(queue[1]))
  /\ queue' = Consumed(FALSE)
  /\ UNCHANGED <<sender, tasks, served, by>>

\* InvalidData.
RecvInvalid == queue /= <<>> /\ ~Valid(queue[1]) /\ Refused

\* The stream cannot be made nonblocking or registered with the runtime.
RecvUnregistered == queue /= <<>> /\ Valid(queue[1]) /\ Refused

\* cmsgs() fails before any of the descriptors is owned.
CmsgsFails ==
  /\ queue /= <<>> /\ Len(Installed(queue[1].fds)) < Len(queue[1].fds)
  /\ LET fds == Installed(queue[1].fds) IN leaked' = leaked \cup {fds[n] : n \in DOMAIN fds}
  /\ queue' = Consumed(FALSE)
  /\ UNCHANGED <<sender, tasks, served, by>>

\* A connection that the receiver serves ends.
TaskEnds(c) ==
  /\ c \in tasks
  /\ tasks' = tasks \ {c}
  /\ UNCHANGED <<sender, queue, served, leaked, by>>

Recv == RecvOk \/ RecvInvalid \/ RecvUnregistered \/ CmsgsFails

\* All that goes on beside the receiver's accept.
Others ==
  \/ \E c \in Conns : PassFd(c) \/ DropStream(c) \/ TaskEnds(c)
  \/ SendOther(<<>>)
  \/ \E c, d \in Conns : c /= d /\ SendOther(<<c, d>>)

Next == Others \/ Recv

Spec == Init /\ [][Next]_vars

-----------------------------------------------------------------------------
(* Properties. *)

TypeOK ==
  /\ sender \in [Conns -> {"holds", "sent", "closed", "shut"}]
  /\ \A n \in 1..Len(queue) : queue[n].fds \in Seq(Conns) /\ queue[n].truncated \in BOOLEAN
  /\ tasks \subseteq Conns /\ leaked \subseteq Conns /\ served \in [Conns -> Nat]

Queued(c) == {n \in 1..Len(queue) : \E m \in DOMAIN queue[n].fds : queue[n].fds[m] = c}

\* A connection is in one place once it is passed: it is queued once at most,
\* not served while it is queued, served once at most, and not shut down by
\* the process that gave it away.
ServedOnce ==
  /\ TypeOK
  /\ \A c \in Conns :
       /\ served[c] + Cardinality(Queued(c)) <= 1
       /\ c \in tasks => served[c] = 1 /\ sender[c] /= "shut"

\* Every descriptor that comes from a router is closed in the end, also where
\* its datagram is refused or the receiver is at its limit.  (Of two
\* descriptors in one datagram of another process, the first is left open if
\* the limit is reached between them and cmsgs() fails.)
NothingLeaks ==
  \A c \in leaked : by[c] = "other" /\ Cardinality(leaked) <= FdLimit

\* No datagram, however malformed, holds up the ones behind it: every passed
\* connection is taken from the socket.
LeavesQueue == \A c \in Conns : Queued(c) /= {} ~> Queued(c) = {}
=============================================================================
