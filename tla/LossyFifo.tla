------------------------------ MODULE LossyFifo ------------------------------
(***************************************************************************)
(* LossyFifo: what a datagram socket with a bounded send queue promises.   *)
(* The datagrams are numbered in the order they are handed over; any of    *)
(* those held may be lost, and only the oldest one held may leave: nothing *)
(* overtakes, nothing is sent twice, nothing is made up.                   *)
(***************************************************************************)
EXTENDS Integers

VARIABLES
  submitted,     \* how many datagrams have been handed over
  held,          \* those neither sent nor lost
  last           \* the datagram sent last, 0 before the first

vars == <<submitted, held, last>>

TypeOK == submitted \in Nat /\ held \subseteq 1..submitted /\ last \in 0..submitted

Init == submitted = 0 /\ held = {} /\ last = 0

Submit ==
  /\ submitted' = submitted + 1
  /\ held' = held \cup {submitted'}
  /\ UNCHANGED last

Depart(d) ==
  /\ \A e \in held : d <= e
  /\ held' = held \ {d}
  /\ last' = d
  /\ UNCHANGED submitted

Lose(lost) ==
  /\ held' = held \ lost
  /\ UNCHANGED <<submitted, last>>

Next == Submit \/ (\E d \in held : Depart(d)) \/ (\E lost \in SUBSET held : Lose(lost))

Spec == Init /\ [][Next]_vars
=============================================================================
