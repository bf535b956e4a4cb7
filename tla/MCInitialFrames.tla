-------------------------- MODULE MCInitialFrames ---------------------------
(***************************************************************************)
(* Payloads for TLC: all sequences of up to three frames of a few sorts,   *)
(* and the same cut off, or with one byte changed.                         *)
(***************************************************************************)
EXTENDS Naturals, Sequences

\* A frame is its bytes, where its numbers start, and the CRYPTO frames in it.
Plain(bs, at) == [bytes |-> bs, at |-> at, crypto |-> <<>>]
CryptoOf(head, o, data) ==
  [bytes |-> <<6>> \o head \o <<Len(data)>> \o data, at |-> <<0, 1, 1 + Len(head)>>,
   crypto |-> <<<<o, data>>>>]

AnyFrame == {
  Plain(<<0>>, <<0>>), Plain(<<1>>, <<0>>),
  Plain(<<2, 9, 6, 0, 6>>, <<0, 1, 2, 3, 4>>),
  Plain(<<2, 64, 9, 6, 2, 6, 6, 6, 6, 6>>, <<0, 1, 3, 4, 5, 6, 7, 8, 9>>),
  Plain(<<3, 9, 6, 1, 6, 6, 6, 6, 1, 6>>, <<0, 1, 2, 3, 4, 5, 6, 7, 8, 9>>),
  CryptoOf(<<0>>, 0, <<6, 6>>), CryptoOf(<<65, 2>>, 258, <<3>>),
  CryptoOf(<<128, 0, 1, 0>>, 256, <<>>),
  Plain(<<28, 6, 6, 2, 6, 1>>, <<0, 1, 2, 3>>), Plain(<<29, 6, 1, 6>>, <<0, 1, 2>>)}

Behind(f, g) ==
  [bytes |-> f.bytes \o g.bytes, crypto |-> f.crypto \o g.crypto,
   at |-> f.at \o [n \in DOMAIN g.at |-> Len(f.bytes) + g.at[n]]]

\* The numbers that the three frames start with.
HeadsOf(fs) == <<1, 1 + Len(fs[1].at), 1 + Len(fs[1].at) + Len(fs[2].at)>>

MkPayload(fs) ==
  LET p == Behind(Behind(fs[1], fs[2]), fs[3])
      cryptos == [n \in 1..3 |-> IF fs[n].crypto = <<>> THEN <<>> ELSE <<HeadsOf(fs)[n]>>]
  IN  [bytes |-> p.bytes, sent |-> {p.crypto}, numbers |-> p.at,
       heads |-> {HeadsOf(fs)[n] : n \in 1..3} \cup {Len(p.at) + 1},
       cryptos |-> cryptos[1] \o cryptos[2] \o cryptos[3]]

Payloads == {MkPayload(fs) : fs \in [1..3 -> AnyFrame]}

\* An unknown frame, ACKs of more ranges than there are bytes for, a length
\* that reaches over the end, and an eight-byte number that is cut off.
Broken(p) ==
  {[bytes |-> SubSeq(p.bytes, 1, n), sent |-> {}] : n \in 0..Len(p.bytes) - 1}
  \cup {[bytes |-> [p.bytes EXCEPT ![n] = b], sent |-> {}] : n \in 1..Len(p.bytes), b \in {2, 7, 63, 191}}

MCInputs == {[bytes |-> <<6, 0, 192, 0, 0>>, sent |-> {}]} \cup Payloads
            \cup UNION {Broken(MkPayload(<<f, g, f>>)) : f \in AnyFrame, g \in AnyFrame}
=============================================================================
