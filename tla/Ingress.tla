------------------------------ MODULE Ingress -------------------------------
(***************************************************************************)
(* mainloop on a Unix datagram socket: AcceptLoop around the accept of     *)
(* IngressListener, which takes connections as Handoff brings them.  What  *)
(* recv_fd_over_uds makes of a datagram decides whether the loop backs     *)
(* off: a malformed one costs no delay, errors that tell of a lack of      *)
(* resources do, and all of them consume the datagram.                     *)
(***************************************************************************)
EXTENDS AcceptLoop

CONSTANTS Conns, Big, QueueMax, FdLimit

ASSUME LimitAssumption == FdLimit \in Nat

VARIABLES sender, queue, tasks, served, leaked, by

handoff == <<sender, queue, tasks, served, leaked, by>>

Uds == INSTANCE Handoff

IngressInit == Init /\ Uds!Init

\* accept: a datagram is taken.
TakeOk == Uds!RecvOk /\ AcceptOk
TakeInvalid == Uds!RecvInvalid /\ AcceptAborted
TakeFails == (Uds!RecvUnregistered \/ Uds!CmsgsFails) /\ AcceptFails
Take == TakeOk \/ TakeInvalid \/ TakeFails

\* accept: recvmsg is interrupted or fails, and the datagram stays.
NotTaken == (AcceptAborted \/ AcceptFails) /\ UNCHANGED handoff

IngressNext ==
  \/ Take
  \/ NotTaken
  \/ Start /\ UNCHANGED handoff
  \/ Wake /\ UNCHANGED handoff
  \/ Hangup /\ UNCHANGED handoff
  \/ Tick /\ UNCHANGED handoff
  \/ Uds!Others /\ UNCHANGED vars

\* The fairness of AcceptLoop; and recvmsg does not fail for ever, nor does a
\* signal come before it each time.
IngressSpec ==
  /\ IngressInit /\ [][IngressNext]_<<vars, handoff>>
  /\ WF_vars(Tick) /\ WF_vars(Start) /\ SF_vars(Wake)
  /\ SF_handoff(Take)

\* Handoff: a passed connection is in one place and served once at most, and
\* the descriptors that come from a router are closed in the end, also where
\* recv_fd_over_uds refuses their datagram.
OneOwner == Uds!ServedOnce /\ Uds!NothingLeaks

\* accept is tried again after every delay, and no datagram holds up the
\* connections behind it, though the loop backs off and reloads drop its accept.
QueueMoves == RetryHappens /\ Uds!LeavesQueue
=============================================================================
