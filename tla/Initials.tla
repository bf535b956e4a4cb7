------------------------------ MODULE Initials ------------------------------
(***************************************************************************)
(* What sni-router-h3 does with the bytes of a client's datagram:          *)
(* CidRoutes finds the path of its connection ID, InitialFrames finds the  *)
(* CRYPTO frames of an Initial and CryptoReassembly puts their data        *)
(* together.  The three share no state, so that a behaviour is one of any  *)
(* of them: `part' says which, and the others stay as they were made.      *)
(***************************************************************************)
EXTENDS CryptoReassembly

CONSTANTS Cids, Headers, Paths, None, Inputs

VARIABLES part, by_length, answer, payload, sent, i, todo, ranges, offset, frames, outcome

table == <<by_length, answer>>
walk == <<payload, sent, i, todo, ranges, offset, frames, outcome>>

Table == INSTANCE CidRoutes
Walk == INSTANCE InitialFrames

\* Connection IDs and headers are bytes, and there is a path.
ASSUME TableAssumption ==
  Cids \subseteq Seq(0..255) /\ Headers \subseteq Seq(0..255) /\ Paths /= {}

ASSUME PayloadAssumption == Walk!InputsAreBytes /\ Walk!InputsAreFrames

InitialsInit ==
  /\ Init /\ Table!Init
  /\ \/ part = "frames" /\ Walk!Init
     \/ part \in {"cids", "stream"} /\ Walk!Call([bytes |-> <<>>, sent |-> {}])

InitialsNext ==
  \/ part = "cids" /\ Table!Next /\ UNCHANGED <<part, vars, walk>>
  \/ part = "frames" /\ Walk!Next /\ UNCHANGED <<part, vars, table>>
  \/ part = "stream" /\ Next /\ UNCHANGED <<part, table, walk>>

\* read_crypto_frames runs on.
InitialsSpec ==
  /\ InitialsInit /\ [][InitialsNext]_<<part, vars, table, walk>>
  /\ WF_walk(part = "frames" /\ Walk!Next)

\* CidRoutes: the index by length answers every call as a flat table would, and
\* remove leaves no length without an ID of that length.
TableKept == []Table!LengthsInUse /\ Table!AnswersAsFlat

\* InitialFrames: what read_crypto_frames finds are slices of the payload, in
\* order and apart from each other, and of a well-formed payload exactly its
\* CRYPTO frames.
FramesFound == Walk!FramesInside /\ Walk!RoundTrip

\* InitialFrames: read_crypto_frames returns on every payload.
Ends == part = "frames" => Walk!Ends
=============================================================================
