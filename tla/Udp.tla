-------------------------------- MODULE Udp ---------------------------------
(***************************************************************************)
(* The two ends of a UDP socket: SendQueue, and BackendReaders.            *)
(* They share no state, so that a behaviour is one of either: `end' says   *)
(* which, and the other one stays as it was made.                          *)
(***************************************************************************)
EXTENDS SendQueue, FiniteSets

CONSTANTS Readers, Capacity, MaxCached, MaxBuffers, MaxSent

VARIABLES
  end, pc, sent, taken, ready, permits, waiters, received, errors, aborted, cache, bytes,
  packets, handled, seen

Backend == INSTANCE BackendReaders WITH channel <- received, packet <- packets

backend == <<pc, sent, taken, ready, permits, waiters, received, errors, aborted, cache,
             bytes, packets, handled, seen>>
all == <<end, vars, backend>>

\* The buffers are more than those in use and those in the cache.
ASSUME ReaderAssumption ==
  /\ IsFiniteSet(Readers) /\ Capacity \in Nat \ {0} /\ MaxCached \in Nat /\ MaxSent \in Nat
  /\ MaxBuffers \in Nat /\ MaxBuffers > Capacity + MaxCached + 1

UdpInit == end \in {"send", "receive"} /\ Init /\ Backend!Init

UdpNext ==
  \/ end = "send" /\ Next /\ UNCHANGED <<end, backend>>
  \/ end = "receive" /\ Backend!Next /\ UNCHANGED <<end, vars>>

\* The fairness of CallerFairSpec and of Backend!FairSpec.
UdpSpec ==
  /\ UdpInit /\ [][UdpNext]_all
  /\ WF_vars(end = "send" /\ CallerStep)
  /\ \A r \in Readers : WF_backend(end = "receive" /\ Backend!Reader(r))
  /\ WF_backend(end = "receive" /\ Backend!Recv)
  /\ WF_backend(end = "receive" /\ Backend!Handle)

\* BackendReaders: the buffers in use are bounded by the places in the channel,
\* however many paths there are, and no place is lost; and what a reader has
\* received reaches handle_backend_datagram complete, once and in order.
BuffersKept == Backend!BuffersBounded /\ Backend!NothingLost

\* BackendReaders: a datagram that reaches the socket of a path is handled,
\* unless the reader is aborted or meets an error.
EveryDatagramHandled == Backend!EveryDatagramHandled
=============================================================================
