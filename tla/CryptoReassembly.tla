-------------------------- MODULE CryptoReassembly --------------------------
(***************************************************************************)
(* CryptoReassembly: the CRYPTO stream of one handshake put together from  *)
(* frames that arrive in any order, overlap and repeat, until it holds the *)
(* whole ClientHello.                                                      *)
(*                                                                         *)
(* The stream's byte at position i is the number i itself, so that `bytes' *)
(* shows where every byte it holds came from.  The loop of insert, which   *)
(* takes over the fragments that have become contiguous, is one Drain step *)
(* per iteration: no frame is inserted before it ends.                     *)
(***************************************************************************)
EXTENDS Integers, Sequences, FiniteSets, Functions

CONSTANTS
  Frames,                  \* the frames that may arrive: [offset, len]
  MAX_CRYPTO_FRAGMENTS,
  HelloLen                 \* 4 + the length field of the ClientHello

ASSUME FrameAssumption ==
  /\ Frames \subseteq [offset : Nat, len : Nat]
  /\ MAX_CRYPTO_FRAGMENTS \in Nat /\ HelloLen \in Nat /\ HelloLen >= 4

VARIABLES
  bytes,         \* the contiguous prefix of the stream
  fragments,     \* offset -> data beyond the prefix
  draining,      \* insert is in its loop
  failed,        \* "too many pending CRYPTO fragments": the handshake is dropped
  received       \* history: the positions of all bytes that have arrived

vars == <<bytes, fragments, draining, failed, received>>

\* The data of the frame of n bytes at offset o.
Data(o, n) == [i \in 1..n |-> o + i - 1]

\* Mutant of Suffix: one byte too many is skipped.
SuffixShort(offset, data) == SubSeq(data, Len(bytes) - offset + 2, Len(data))

\* What append takes of data: data.get(skip..), or nothing if it is shorter.
Suffix(offset, data) == SubSeq(data, Len(bytes) - offset + 1, Len(data))

Init ==
  /\ bytes = <<>> /\ fragments = [o \in {} |-> <<>>]
  /\ draining = FALSE /\ failed = FALSE /\ received = {}

\* insert, a frame that starts beyond the prefix: of two at the same offset
\* the longer one is kept.
Store(f) ==
  LET data == Data(f.offset, f.len)
      kept == {o \in DOMAIN fragments \cap {f.offset} : Len(fragments[o]) >= f.len}
  IN  /\ f.len > 0 /\ f.offset > Len(bytes)
      /\ f.offset \in DOMAIN fragments \/ Cardinality(DOMAIN fragments) < MAX_CRYPTO_FRAGMENTS
      /\ fragments' = [o \in DOMAIN fragments \cup {f.offset} |->
                         IF o = f.offset /\ kept = {} THEN data ELSE fragments[o]]
      /\ received' = received \cup (f.offset .. f.offset + f.len - 1)
      /\ UNCHANGED <<bytes, draining, failed>>

\* insert, no room for another fragment: an error, which drops the handshake.
Overflow(f) ==
  /\ f.len > 0 /\ f.offset > Len(bytes)
  /\ f.offset \notin DOMAIN fragments
  /\ Cardinality(DOMAIN fragments) >= MAX_CRYPTO_FRAGMENTS
  /\ failed' = TRUE
  /\ UNCHANGED <<bytes, fragments, draining, received>>

\* insert, a frame that touches the prefix, up to the loop.
Extend(f) ==
  /\ f.len > 0 /\ f.offset <= Len(bytes)
  /\ bytes' = bytes \o Suffix(f.offset, Data(f.offset, f.len))
  /\ received' = received \cup (f.offset .. f.offset + f.len - 1)
  /\ draining' = TRUE
  /\ UNCHANGED <<fragments, failed>>

Insert(f) == ~draining /\ ~failed /\ (Store(f) \/ Overflow(f) \/ Extend(f))

\* The offset pop_first takes, if it is within the prefix.
Contiguous ==
  {o \in DOMAIN fragments : o <= Len(bytes) /\ \A u \in DOMAIN fragments : o <= u}

\* Mutant of DrainEnds: only one fragment is taken over.
DrainOnce == draining

\* The loop's condition is false.
DrainEnds == draining /\ Contiguous = {}

\* insert, an iteration of the loop.
DrainFragment(o) ==
  /\ draining
  /\ bytes' = bytes \o Suffix(o, fragments[o])
  /\ fragments' = Restrict(fragments, DOMAIN fragments \ {o})
  /\ UNCHANGED <<draining, failed, received>>

DrainEnd ==
  /\ DrainEnds
  /\ draining' = FALSE
  /\ UNCHANGED <<bytes, fragments, failed, received>>

\* clienthello() finds its message: the header and all that it announces.  The
\* stream here starts with a ClientHello; another first byte is an error, which
\* discards the handshake as Overflow does (InitialDiscarded of H3Router).
HasClientHello == Len(bytes) >= 4 /\ Len(bytes) >= HelloLen

Next ==
  \/ \E f \in Frames : Insert(f)
  \/ \E o \in Contiguous : DrainFragment(o)
  \/ DrainEnd

Spec == Init /\ [][Next]_vars

-----------------------------------------------------------------------------
(* Properties. *)

TypeOK ==
  /\ bytes \in Seq(Nat)
  /\ DOMAIN fragments \subseteq Nat /\ fragments \in [DOMAIN fragments -> Seq(Nat)]
  /\ draining \in BOOLEAN /\ failed \in BOOLEAN
  /\ received \subseteq Nat

\* Every byte is at its place: no overlap or repetition shifts the stream.
InPlace ==
  /\ \A i \in 1..Len(bytes) : bytes[i] = i - 1
  /\ \A o \in DOMAIN fragments :
       \A i \in 1..Len(fragments[o]) : fragments[o][i] = o + i - 1

\* No byte is lost: what has arrived is in the prefix or in a fragment.
Conserved ==
  received = (0 .. Len(bytes) - 1) \cup
             UNION {o .. o + Len(fragments[o]) - 1 : o \in DOMAIN fragments}

\* Outside insert every fragment starts beyond the prefix, with a gap.
Gap == ~draining => \A o \in DOMAIN fragments : o > Len(bytes)

\* The fragments of one handshake stay within their limit.
FragmentLimit ==
  IsFiniteSet(DOMAIN fragments) /\ Cardinality(DOMAIN fragments) <= MAX_CRYPTO_FRAGMENTS

\* The stream is put together right after every step of insert.
IndInv == TypeOK /\ InPlace /\ Conserved /\ Gap /\ FragmentLimit

\* clienthello() has its message as soon as, and not before, all of its bytes
\* have arrived, in whatever order the frames came.
HelloWhenComplete ==
  ~draining => (HasClientHello <=> (0 .. HelloLen - 1) \subseteq received)
=============================================================================
