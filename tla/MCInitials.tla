----------------------------- MODULE MCInitials -----------------------------
(***************************************************************************)
(* Initials for TLC.                                                       *)
(***************************************************************************)
EXTENDS Initials, MCInitialFrames

\* Every frame, empty ones too, of a stream a little longer than the hello.
MCFrames == [offset : 0..5, len : 0..3]

\* IDs over a small alphabet: one the prefix of another, two of the same
\* length, and the empty one.
MCCids == {<<>>, <<0>>, <<1>>, <<0, 1>>, <<0, 0>>, <<0, 1, 1>>}
MCHeaders == {<<>>, <<0>>, <<1, 1>>, <<0, 1>>, <<0, 0, 1>>, <<0, 1, 0>>, <<0, 1, 1, 0>>}
=============================================================================
