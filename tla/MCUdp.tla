------------------------------- MODULE MCUdp --------------------------------
(***************************************************************************)
(* Udp for TLC.                                                            *)
(***************************************************************************)
EXTENDS Udp

\* An empty datagram, a short one, and one that two of do not fit.
MCLens == {0, 1, 3}
=============================================================================
