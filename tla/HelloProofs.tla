---------------------------- MODULE HelloProofs -----------------------------
(***************************************************************************)
(* Proofs about the client's first bytes at the TCP router, for every      *)
(* stream and every message that a client may send.                        *)
(*                                                                         *)
(* extract_sni stays inside of the ClientHello and inside of each of its   *)
(* vectors: Nested is inductive as it stands, and NoPanic follows from its *)
(* other parts.  It finds the name of a well-formed ClientHello: it is     *)
(* always at the start of an element, and not behind the one that it looks *)
(* for (OnTrack).                                                          *)
(*                                                                         *)
(* read_tls_clienthello and tls_handshake keep in step with the records of *)
(* the stream (RecordsInv): what has been taken off the socket ends at a   *)
(* record that no earlier one made superfluous, whatever hands the         *)
(* connection has been passed through, and what rustls has been given is   *)
(* what the kernel has not.                                                *)
(***************************************************************************)
EXTENDS Hello, SetLemmas, SequenceTheorems, TLAPS

-----------------------------------------------------------------------------
(* extract_sni stays inside of the message. *)

\* Nested without NoPanic, which follows from the rest.
Core ==
  /\ TypeOK
  /\ stage /= "header" /\ stage /= "done" => len + 4 <= Len(clienthello)
  /\ len = 0 \/ len + 4 <= Len(clienthello)
  /\ stage \in {"extension", "server_name", "name"} => stop <= len
  /\ stage \in {"server_name", "name"} => ext_end <= stop
  /\ stage = "name" => list_end <= ext_end
  /\ stage /= "done" => result = "none"
  /\ HostInside

(* What the length checks of extract_sni have established is enough for    *)
(* every index that follows them.                                          *)
LEMMA CoreReads == Core => NoPanic
<1> SUFFICES ASSUME Core PROVE NoPanic
  OBVIOUS
<1>1. len + (IF len > 0 THEN 4 ELSE 0) <= Len(clienthello)
  BY DEF Core, TypeOK
<1>2. ASSUME NEW n \in Reads PROVE n < len
  <2>1. CASE stage = "session_id"
    BY <1>2, <2>1 DEF Core, TypeOK, Reads
  <2>2. CASE stage = "cipher_suites"
    BY <1>2, <2>2 DEF Core, TypeOK, Reads
  <2>3. CASE stage = "compression_methods"
    BY <1>2, <2>3 DEF Core, TypeOK, Reads
  <2>4. CASE stage = "extensions"
    BY <1>2, <2>4 DEF Core, TypeOK, Reads
  <2>5. CASE stage = "extension"
    BY <1>2, <2>5 DEF Core, TypeOK, Reads
  <2>6. CASE stage = "server_name"
    BY <1>2, <2>6 DEF Core, TypeOK, Reads
  <2>7. CASE stage = "name"
    BY <1>2, <2>7, SMTT(30) DEF Core, TypeOK, Reads
  <2>8. CASE stage \in {"header", "done"}
    BY <1>2, <2>8 DEF Core, TypeOK, Reads
  <2> QED
    BY <2>1, <2>2, <2>3, <2>4, <2>5, <2>6, <2>7, <2>8 DEF Core, TypeOK, Stages
<1> QED
  BY <1>1, <1>2 DEF NoPanic

\* Nested says no more than Core: that no read is outside follows from it.
LEMMA NestedIsCore == Nested <=> Core
BY CoreReads DEF Nested, Core

(* An element of a sequence.                                               *)
LEMMA Element ==
  ASSUME NEW S, NEW seq \in Seq(S), NEW n \in 1..Len(seq)
  PROVE  seq[n] \in S
OBVIOUS

(* A byte of the body is a byte of the message.                            *)
LEMMA ByteType ==
  ASSUME Core, len + 4 <= Len(clienthello), NEW n \in Nat, n < len
  PROVE  Byte(n) \in 0..255
<1>1. clienthello \in Seq(0..255) /\ len \in Nat /\ Len(clienthello) \in Nat
  BY DEF Core, TypeOK
<1>2. n + 5 \in 1..Len(clienthello)
  BY <1>1
<1>3. clienthello[n + 5] \in 0..255
  BY <1>1, <1>2, Element
<1> QED
  BY <1>3 DEF Byte

\* Two bytes of the body are a natural number.
LEMMA U16Type ==
  ASSUME Core, len + 4 <= Len(clienthello), NEW n \in Nat, n + 1 < len
  PROVE  U16(n) \in Nat
<1>1. Byte(n) \in 0..255 /\ Byte(n + 1) \in 0..255
  <2>1. n < len
    BY DEF Core, TypeOK
  <2> QED
    BY <2>1, ByteType
<1>2. ASSUME NEW a \in 0..255, NEW b \in 0..255 PROVE 256 * a + b \in Nat
  OBVIOUS
<1> QED
  BY <1>1, <1>2 DEF U16

(* An early return, from any of the vectors.                               *)
LEMMA ReturnKeeps ==
  ASSUME Core, stage /= "done", NEW r \in {"none", "error"}, Return(r)
  PROVE  Core'
BY DEF Core, TypeOK, Stages, Return, HostInside

\* Before the first field nothing has been read.
LEMMA InitCore == InputsAreBytes /\ Init => Core
<1> SUFFICES ASSUME InputsAreBytes, NEW in \in Inputs, Call(in) PROVE Core
  BY DEF Init
<1>1. clienthello \in Seq(0..255)
  BY DEF InputsAreBytes, Call
<1> QED
  BY <1>1 DEF Call, Core, TypeOK, Stages, HostInside

\* The handshake header: the body it announces lies inside the input.
LEMMA HeaderKeeps ==
  ASSUME Core, Header
  PROVE  Core'
<1>1. CASE Return("error")
  BY <1>1, ReturnKeeps DEF Header
<1>2. CASE ~Return("error")
  <2>1. Len(clienthello) \in Nat /\ clienthello \in Seq(0..255)
    BY DEF Core, TypeOK
  <2>2. ~(Len(clienthello) < 4)
    BY <1>2 DEF Header
  <2>3. ~(Len(clienthello) < 4 + body_len) /\ len' = body_len /\ stage' = "session_id"
        /\ UNCHANGED <<clienthello, asked, i, j, k, stop, ext_end, list_end, result, host>>
    BY <1>2, <2>2 DEF Header
  <2>4. body_len \in Nat
    <3>1. 2 \in 1..Len(clienthello) /\ 3 \in 1..Len(clienthello) /\ 4 \in 1..Len(clienthello)
      BY <2>1, <2>2
    <3>2. clienthello[2] \in 0..255 /\ clienthello[3] \in 0..255 /\ clienthello[4] \in 0..255
      BY <2>1, <3>1, Element
    <3> DEFINE a == clienthello[2]
               b == clienthello[3]
               c == clienthello[4]
    <3>3. a \in Nat /\ b \in Nat /\ c \in Nat
      BY <3>2
    <3>4. 65536 * a + 256 * b + c \in Nat
      <4> HIDE DEF a, b, c
      <4> QED
        BY <3>3
    <3> QED
      BY <3>4 DEF body_len
  <2> QED
    BY <2>1, <2>3, <2>4 DEF Core, TypeOK, Stages, Header, HostInside
<1> QED
  BY <1>1, <1>2

\* The session ID is skipped inside the handshake message.
LEMMA SessionIdKeeps ==
  ASSUME Core, SessionId
  PROVE  Core'
<1>1. CASE Return("error")
  BY <1>1, ReturnKeeps DEF SessionId
<1>2. CASE ~Return("error")
  <2>1. /\ len >= 35
        /\ i' = 35 + Byte(34) /\ stage' = "cipher_suites"
        /\ UNCHANGED <<clienthello, asked, len, j, k, stop, ext_end, list_end, result, host>>
    BY <1>2 DEF SessionId, Core, TypeOK
  <2>2. Byte(34) \in Nat
    <3>1. 34 \in Nat /\ 34 < len /\ len + 4 <= Len(clienthello)
      BY <2>1 DEF SessionId, Core, TypeOK
    <3>2. Byte(34) \in 0..255
      BY <3>1, ByteType
    <3> QED
      BY <3>2
  <2> QED
    BY <2>1, <2>2 DEF Core, TypeOK, Stages, SessionId, HostInside
<1> QED
  BY <1>1, <1>2

\* The cipher suites are skipped inside the handshake message.
LEMMA CipherSuitesKeeps ==
  ASSUME Core, CipherSuites
  PROVE  Core'
<1>1. CASE Return("error")
  BY <1>1, ReturnKeeps DEF CipherSuites
<1>2. CASE ~Return("error")
  <2>1. /\ len >= i + 2
        /\ i' = i + 2 + U16(i) /\ stage' = "compression_methods"
        /\ UNCHANGED <<clienthello, asked, len, j, k, stop, ext_end, list_end, result, host>>
    BY <1>2 DEF CipherSuites, Core, TypeOK
  <2>2. U16(i) \in Nat
    BY <2>1, U16Type DEF CipherSuites, Core, TypeOK
  <2> QED
    BY <2>1, <2>2 DEF Core, TypeOK, Stages, CipherSuites, HostInside
<1> QED
  BY <1>1, <1>2

\* The compression methods are skipped inside the handshake message.
LEMMA CompressionMethodsKeeps ==
  ASSUME Core, CompressionMethods
  PROVE  Core'
<1>1. CASE Return("error")
  BY <1>1, ReturnKeeps DEF CompressionMethods
<1>2. CASE ~Return("error")
  <2>1. /\ len >= i + 1
        /\ i' = i + 1 + Byte(i) /\ stage' = "extensions"
        /\ UNCHANGED <<clienthello, asked, len, j, k, stop, ext_end, list_end, result, host>>
    BY <1>2 DEF CompressionMethods, Core, TypeOK
  <2>2. Byte(i) \in Nat
    <3>1. i \in Nat /\ i < len /\ len + 4 <= Len(clienthello)
      BY <2>1 DEF CompressionMethods, Core, TypeOK
    <3>2. Byte(i) \in 0..255
      BY <3>1, ByteType
    <3> QED
      BY <3>2
  <2> QED
    BY <2>1, <2>2 DEF Core, TypeOK, Stages, CompressionMethods, HostInside
<1> QED
  BY <1>1, <1>2

\* Every extension lies inside the list of extensions.
LEMMA ExtensionsKeeps ==
  ASSUME Core, Extensions
  PROVE  Core'
<1>1. CASE Return("error") \/ Return("none")
  BY <1>1, ReturnKeeps DEF Extensions
<1>2. CASE ~(Return("error") \/ Return("none"))
  <2>1. /\ len >= i + 2 /\ ~(len < i + 2 + U16(i))
        /\ i' = i + 2 /\ j' = i + 2 /\ stop' = i + 2 + U16(i) /\ stage' = "extension"
        /\ UNCHANGED <<clienthello, asked, len, k, ext_end, list_end, result, host>>
    BY <1>2 DEF Extensions, Core, TypeOK
  <2>2. U16(i) \in Nat
    BY <2>1, U16Type DEF Extensions, Core, TypeOK
  <2> QED
    BY <2>1, <2>2 DEF Core, TypeOK, Stages, Extensions, HostInside
<1> QED
  BY <1>1, <1>2

(* One turn of the loop over the extensions.                               *)
LEMMA ExtensionKeeps ==
  ASSUME Core, Extension
  PROVE  Core'
<1>1. CASE Return("error") \/ Return("none")
  BY <1>1, ReturnKeeps DEF Extension
<1>2. CASE ~(Return("error") \/ Return("none"))
  <2>1. /\ j + 4 <= stop /\ ~(j + 4 + U16(j + 2) > stop)
        /\ \/ /\ j' = j + 4 /\ ext_end' = j + 4 + U16(j + 2) /\ stage' = "server_name"
              /\ UNCHANGED <<clienthello, asked, len, i, k, stop, list_end, result, host>>
           \/ /\ j' = j + 4 + U16(j + 2)
              /\ UNCHANGED <<clienthello, asked, stage, len, i, k, stop, ext_end, list_end, result, host>>
    BY <1>2 DEF Extension, Core, TypeOK, Truncated, Behind
  <2>2. U16(j + 2) \in Nat
    <3>1. j + 2 \in Nat /\ (j + 2) + 1 < len /\ len + 4 <= Len(clienthello)
      BY <2>1 DEF Extension, Core, TypeOK
    <3> QED
      BY <3>1, U16Type
  <2>3. CASE j' = j + 4 /\ ext_end' = j + 4 + U16(j + 2) /\ stage' = "server_name"
             /\ UNCHANGED <<clienthello, asked, len, i, k, stop, list_end, result, host>>
    BY <2>1, <2>2, <2>3 DEF Core, TypeOK, Stages, Extension, HostInside
  <2>4. CASE j' = j + 4 + U16(j + 2)
             /\ UNCHANGED <<clienthello, asked, stage, len, i, k, stop, ext_end, list_end, result, host>>
    BY <2>1, <2>2, <2>4 DEF Core, TypeOK, Stages, Extension, HostInside
  <2> QED
    BY <2>1, <2>3, <2>4
<1> QED
  BY <1>1, <1>2

\* The server name lies inside its list, and the list inside its extension.
LEMMA ServerNameKeeps ==
  ASSUME Core, ServerName
  PROVE  Core'
<1>1. CASE Return("error")
  BY <1>1, ReturnKeeps DEF ServerName
<1>2. CASE ~Return("error")
  <2>1. /\ ext_end >= j + 2 /\ ~(ext_end < j + 2 + U16(j))
        /\ k' = j + 2 /\ list_end' = j + 2 + U16(j) /\ stage' = "name"
        /\ UNCHANGED <<clienthello, asked, len, i, j, stop, ext_end, result, host>>
    BY <1>2 DEF ServerName, Core, TypeOK
  <2>2. U16(j) \in Nat
    BY <2>1, U16Type DEF ServerName, Core, TypeOK
  <2> QED
    BY <2>1, <2>2 DEF Core, TypeOK, Stages, ServerName, HostInside
<1> QED
  BY <1>1, <1>2

(* One turn of the loop over the names, and the name that is returned.     *)
LEMMA NameKeeps ==
  ASSUME Core, Name
  PROVE  Core'
<1>1. CASE Return("error") \/ Return("none")
  BY <1>1, ReturnKeeps DEF Name
<1>2. CASE ~(Return("error") \/ Return("none"))
  <2>1. /\ k + 3 <= list_end /\ ~(k + 3 + U16(k + 1) > list_end)
        /\ \/ /\ result' = "host" /\ host' = <<k + 3, U16(k + 1)>> /\ stage' = "done"
              /\ UNCHANGED <<clienthello, asked, len, i, j, k, stop, ext_end, list_end>>
           \/ /\ k' = k + 3 + U16(k + 1)
              /\ UNCHANGED <<clienthello, asked, stage, len, i, j, stop, ext_end, list_end, result, host>>
    BY <1>2 DEF Name, Core, TypeOK, Truncated, Behind
  <2>2. U16(k + 1) \in Nat
    <3>1. k + 1 \in Nat /\ (k + 1) + 1 < len /\ len + 4 <= Len(clienthello)
      BY <2>1 DEF Name, Core, TypeOK
    <3> QED
      BY <3>1, U16Type
  <2>3. CASE stage' = "done" /\ result' = "host" /\ host' = <<k + 3, U16(k + 1)>>
             /\ UNCHANGED <<clienthello, asked, len, i, j, k, stop, ext_end, list_end>>
    BY <2>1, <2>2, <2>3 DEF Core, TypeOK, Stages, Name, HostInside
  <2>4. CASE k' = k + 3 + U16(k + 1)
             /\ UNCHANGED <<clienthello, asked, stage, len, i, j, stop, ext_end, list_end, result, host>>
    BY <2>1, <2>2, <2>4 DEF Core, TypeOK, Stages, Name, HostInside
  <2> QED
    BY <2>1, <2>3, <2>4
<1> QED
  BY <1>1, <1>2

-----------------------------------------------------------------------------
(* A well-formed ClientHello. *)

\* extract_sni is where it should be in a well-formed message: at the start of
\* an element, not behind the one it looks for, and it does not fail.
OnTrack(in) ==
  /\ stage \notin {"header", "done"} => len = Size(in)
  /\ stage = "cipher_suites" => i = Suites(in)
  /\ stage = "compression_methods" => i = Methods(in)
  /\ stage = "extensions" => i = Block(in)
  /\ stage = "extension" =>
       /\ HasExts(in) /\ stop = Size(in) /\ j \in in.exts
       /\ \A x \in Exts(in) : FirstOf(Exts(in), ExtTypes(in), x) => j <= x
  /\ stage = "server_name" =>
       /\ HasExts(in)
       /\ \E x \in Exts(in) : HasSni(in, x) /\ j = x + 4 /\ ext_end = x + 4 + Word(in, x + 2)
  /\ stage = "name" =>
       /\ HasExts(in)
       /\ \E x \in Exts(in) :
            /\ HasSni(in, x) /\ list_end = ListEnd(in, x) /\ k \in in.names
            /\ \A n \in Names(in, x) : FirstOf(Names(in, x), NameTypes(in, x), n) => k <= n
  /\ stage = "done" => result /= "error" /\ Returned \in in.asked

\* The message at hand is a well-formed one and is read as one.
ReadsHello(in) ==
  in.bytes = clienthello /\ in.asked = asked /\ WellFormed(in) /\ OnTrack(in)

Found == asked /= {} => \E in \in Inputs : ReadsHello(in)

\* The bytes that extract_sni reads are the ones that WellFormed speaks of.
LEMMA SameBytes ==
  ASSUME NEW in, in.bytes = clienthello
  PROVE  \A n : Byte(n) = At(in, n) /\ U16(n) = Word(in, n)
BY DEF Byte, U16, At, Word

\* In the body of a message every byte and every pair of bytes is a number.
LEMMA HelloBytes ==
  ASSUME Core, NEW in, in.bytes = clienthello, Size(in) >= 35
  PROVE  /\ Size(in) \in Nat
         /\ \A n \in Nat : n < Size(in) => At(in, n) \in 0..255
         /\ \A n \in Nat : n + 1 < Size(in) => Word(in, n) \in Nat
<1>1. clienthello \in Seq(0..255) /\ Len(clienthello) \in Nat
  BY DEF Core, TypeOK
<1>2. Size(in) = Len(clienthello) - 4 /\ Size(in) \in Nat
  BY <1>1 DEF Size
<1>3. ASSUME NEW n \in Nat, n < Size(in) PROVE At(in, n) \in 0..255
  <2>1. n + 5 \in 1..Len(clienthello)
    BY <1>1, <1>2, <1>3
  <2>2. clienthello[n + 5] \in 0..255
    BY <1>1, <2>1, Element
  <2> QED
    BY <2>2 DEF At
<1>4. ASSUME NEW n \in Nat, n + 1 < Size(in) PROVE Word(in, n) \in Nat
  <2>1. n < Size(in) /\ n + 1 \in Nat
    BY <1>2, <1>4
  <2>2. At(in, n) \in 0..255 /\ At(in, n + 1) \in 0..255
    BY <1>3, <1>4, <2>1
  <2>3. ASSUME NEW a \in 0..255, NEW b \in 0..255 PROVE 256 * a + b \in Nat
    OBVIOUS
  <2> QED
    BY <2>2, <2>3 DEF Word
<1> QED
  BY <1>2, <1>3, <1>4

\* The vectors of a well-formed message lie inside of it.
LEMMA HelloOffsets ==
  ASSUME Core, NEW in, in.bytes = clienthello, WellFormed(in)
  PROVE  /\ Size(in) \in Nat /\ Size(in) >= 35
         /\ At(in, 34) \in Nat /\ Suites(in) \in Nat /\ Suites(in) = 35 + At(in, 34)
         /\ Suites(in) + 2 <= Size(in) /\ Word(in, Suites(in)) \in Nat /\ Word(in, Suites(in)) % 2 = 0
         /\ Methods(in) = Suites(in) + 2 + Word(in, Suites(in)) /\ Methods(in) \in Nat
         /\ Methods(in) + 1 <= Size(in) /\ At(in, Methods(in)) \in Nat
         /\ Block(in) = Methods(in) + 1 + At(in, Methods(in)) /\ Block(in) \in Nat
         /\ HasExts(in) => Word(in, Block(in)) \in Nat /\ in.exts \subseteq Nat
<1>1. /\ Size(in) >= 35 /\ Suites(in) + 2 <= Size(in) /\ Word(in, Suites(in)) % 2 = 0
      /\ Methods(in) + 1 <= Size(in)
  BY DEF WellFormed
<1>2. /\ Size(in) \in Nat
      /\ \A n \in Nat : n < Size(in) => At(in, n) \in 0..255
      /\ \A n \in Nat : n + 1 < Size(in) => Word(in, n) \in Nat
  BY <1>1, HelloBytes
<1>3. At(in, 34) \in Nat
  <2>1. 34 \in Nat /\ 34 < Size(in)
    BY <1>1, <1>2
  <2>2. At(in, 34) \in 0..255
    BY <1>2, <2>1
  <2> QED
    BY <2>2
<1>4. Suites(in) \in Nat /\ Suites(in) = 35 + At(in, 34)
  BY <1>3 DEF Suites
<1>5. Word(in, Suites(in)) \in Nat
  <2>1. Suites(in) + 1 < Size(in)
    BY <1>1, <1>2, <1>4
  <2> QED
    BY <1>2, <1>4, <2>1
<1>6. Methods(in) = Suites(in) + 2 + Word(in, Suites(in)) /\ Methods(in) \in Nat
  BY <1>4, <1>5 DEF Methods
<1>7. At(in, Methods(in)) \in Nat
  <2>1. Methods(in) < Size(in)
    BY <1>1, <1>2, <1>6
  <2>2. At(in, Methods(in)) \in 0..255
    BY <1>2, <1>6, <2>1
  <2> QED
    BY <2>2
<1>8. Block(in) = Methods(in) + 1 + At(in, Methods(in)) /\ Block(in) \in Nat
  BY <1>6, <1>7 DEF Block
<1>9. ASSUME HasExts(in) PROVE Word(in, Block(in)) \in Nat /\ in.exts \subseteq Nat
  <2>1. Block(in) + 2 <= Size(in) /\ in.exts \subseteq Block(in) + 2..Size(in)
    BY <1>9 DEF HasExts, Elements
  <2>2. Block(in) + 1 < Size(in)
    BY <1>2, <1>8, <2>1
  <2> QED
    BY <1>2, <1>8, <2>1, <2>2
<1> QED
  BY <1>1, <1>2, <1>3, <1>4, <1>5, <1>6, <1>7, <1>8, <1>9

\* A well-formed message stays the same one.
LEMMA HelloStays ==
  ASSUME NEW in, UNCHANGED <<clienthello, asked>>, ReadsHello(in), OnTrack(in)'
  PROVE  ReadsHello(in)'
BY DEF ReadsHello

\* The fields before the extensions.
LEMMA FieldsOnTrack ==
  ASSUME Core, NEW in, ReadsHello(in),
         Header \/ SessionId \/ CipherSuites \/ CompressionMethods
  PROVE  ReadsHello(in)'
<1>1. in.bytes = clienthello /\ WellFormed(in) /\ OnTrack(in)
  BY DEF ReadsHello
<1>2. /\ Size(in) \in Nat /\ Size(in) >= 35
      /\ At(in, 34) \in Nat /\ Suites(in) \in Nat /\ Suites(in) = 35 + At(in, 34)
      /\ Suites(in) + 2 <= Size(in) /\ Word(in, Suites(in)) \in Nat /\ Word(in, Suites(in)) % 2 = 0
      /\ Methods(in) = Suites(in) + 2 + Word(in, Suites(in)) /\ Methods(in) \in Nat
      /\ Methods(in) + 1 <= Size(in) /\ At(in, Methods(in)) \in Nat
      /\ Block(in) = Methods(in) + 1 + At(in, Methods(in)) /\ Block(in) \in Nat
      /\ Block(in) <= Size(in)
  <2>1. Block(in) = Size(in) \/ Block(in) + 2 <= Size(in)
    BY <1>1 DEF WellFormed, HasExts
  <2> QED
    BY <1>1, <2>1, HelloOffsets
<1>3. \A n : Byte(n) = At(in, n) /\ U16(n) = Word(in, n)
  BY <1>1, SameBytes
<1>4. CASE Header
  <2>1. /\ clienthello[1] = 1 /\ body_len = Size(in) /\ Size(in) = Len(clienthello) - 4
        /\ Len(clienthello) \in Nat
    BY <1>1 DEF WellFormed, body_len, Size, Core, TypeOK
  <2>2. ~(Len(clienthello) < 4) /\ ~(Len(clienthello) < 4 + body_len)
    <3>1. ASSUME NEW l \in Nat, NEW b \in Nat, b = l - 4 PROVE ~(l < 4) /\ ~(l < 4 + b)
      BY <3>1
    <3> QED
      BY <1>2, <2>1, <3>1
  <2>3. len' = Size(in) /\ stage' = "session_id" /\ UNCHANGED <<clienthello, asked>>
    BY <1>4, <2>1, <2>2 DEF Header
  <2>4. OnTrack(in)'
    BY <2>3 DEF OnTrack
  <2> QED
    BY <2>3, <2>4, HelloStays
<1>5. CASE SessionId
  <2>1. stage = "session_id" /\ len = Size(in)
    BY <1>1, <1>5 DEF SessionId, OnTrack
  <2>2. ~(len < 35) /\ ~(len < 35 + Byte(34)) /\ 35 + Byte(34) = Suites(in)
    BY <1>2, <1>3, <2>1
  <2>3. i' = Suites(in) /\ stage' = "cipher_suites" /\ len' = len /\ UNCHANGED <<clienthello, asked>>
    BY <1>5, <2>2 DEF SessionId
  <2>4. OnTrack(in)'
    BY <2>1, <2>3 DEF OnTrack
  <2> QED
    BY <2>3, <2>4, HelloStays
<1>6. CASE CipherSuites
  <2>1. stage = "cipher_suites" /\ len = Size(in) /\ i = Suites(in)
    BY <1>1, <1>6 DEF CipherSuites, OnTrack
  <2>2. U16(i) = Word(in, Suites(in))
    BY <1>3, <2>1
  <2>3. ~(len < i + 2) /\ ~(len < i + 2 + U16(i) \/ U16(i) % 2 /= 0) /\ i + 2 + U16(i) = Methods(in)
    BY <1>2, <2>1, <2>2
  <2>4. i' = Methods(in) /\ stage' = "compression_methods" /\ len' = len
        /\ UNCHANGED <<clienthello, asked>>
    BY <1>6, <2>3 DEF CipherSuites
  <2>5. OnTrack(in)'
    BY <2>1, <2>4 DEF OnTrack
  <2> QED
    BY <2>4, <2>5, HelloStays
<1>7. CASE CompressionMethods
  <2>1. stage = "compression_methods" /\ len = Size(in) /\ i = Methods(in)
    BY <1>1, <1>7 DEF CompressionMethods, OnTrack
  <2>2. Byte(i) = At(in, Methods(in))
    BY <1>3, <2>1
  <2>3. ~(len < i + 1) /\ ~(len < i + 1 + Byte(i)) /\ i + 1 + Byte(i) = Block(in)
    BY <1>2, <2>1, <2>2
  <2>4. i' = Block(in) /\ stage' = "extensions" /\ len' = len /\ UNCHANGED <<clienthello, asked>>
    BY <1>7, <2>3 DEF CompressionMethods
  <2>5. OnTrack(in)'
    BY <2>1, <2>4 DEF OnTrack
  <2> QED
    BY <2>4, <2>5, HelloStays
<1> QED
  BY <1>4, <1>5, <1>6, <1>7

\* What Elements says of one element.
LEMMA Element1 ==
  ASSUME NEW S, NEW header \in Nat, NEW after, NEW first1 \in Nat, NEW last \in Nat,
         Elements(S, header, after, first1, last), NEW m \in S
  PROVE  /\ m \in Nat /\ first1 <= m /\ m <= last
         /\ m /= last => m + header <= last /\ after[m] \in S /\ after[m] \in Nat /\ after[m] <= last
         /\ \A n \in S : m < n => after[m] <= n
<1>1. S \subseteq first1..last
  BY DEF Elements
<1>2. m \in Nat /\ first1 <= m /\ m <= last
  BY <1>1
<1>3. ASSUME m /= last
      PROVE  m + header <= last /\ after[m] \in S /\ after[m] \in Nat /\ after[m] <= last
  <2>1. m + header <= last /\ after[m] \in S
    BY <1>3 DEF Elements
  <2>2. ASSUME NEW a \in S PROVE a \in Nat /\ a <= last
    BY <1>1, <2>2
  <2> QED
    BY <2>1, <2>2
<1>4. \A n \in S : m < n => after[m] <= n
  BY DEF Elements
<1> QED
  BY <1>2, <1>3, <1>4

\* An extension of a well-formed message.
LEMMA OneExtension ==
  ASSUME Core, NEW in, in.bytes = clienthello, WellFormed(in), HasExts(in), NEW x \in in.exts
  PROVE  /\ x \in Nat /\ x <= Size(in)
         /\ x /= Size(in) =>
              /\ x \in Exts(in) /\ x + 4 <= Size(in) /\ Word(in, x) \in Nat /\ Word(in, x + 2) \in Nat
              /\ x + 4 + Word(in, x + 2) \in in.exts /\ x + 4 + Word(in, x + 2) <= Size(in)
              /\ ExtTypes(in)[x] = Word(in, x)
              /\ \A n \in in.exts : x < n => x + 4 + Word(in, x + 2) <= n
<1> DEFINE after == [n \in Exts(in) |-> n + 4 + Word(in, n + 2)]
<1>1. Size(in) \in Nat /\ Size(in) >= 35 /\ Block(in) \in Nat
  BY HelloOffsets
<1>2. Block(in) + 2 \in Nat
  BY <1>1
<1>3. Elements(in.exts, 4, after, Block(in) + 2, Size(in))
  BY DEF HasExts
<1>4. /\ x \in Nat /\ x <= Size(in)
      /\ x /= Size(in) => /\ x + 4 <= Size(in) /\ after[x] \in in.exts /\ after[x] \in Nat
                          /\ after[x] <= Size(in)
      /\ \A n \in in.exts : x < n => after[x] <= n
  <2> DEFINE head == 4  S == in.exts  first1 == Block(in) + 2  last == Size(in)
  <2>1. head \in Nat /\ first1 \in Nat /\ last \in Nat /\ Elements(S, head, after, first1, last) /\ x \in S
    BY <1>1, <1>2, <1>3
  <2> HIDE DEF head, after, S, first1, last
  <2>2. /\ x \in Nat /\ x <= last
        /\ x /= last => x + head <= last /\ after[x] \in S /\ after[x] \in Nat /\ after[x] <= last
        /\ \A n \in S : x < n => after[x] <= n
    BY <2>1, Element1
  <2> QED
    BY <2>2 DEF head, S, last
<1>5. ASSUME x /= Size(in)
      PROVE  x \in Exts(in) /\ after[x] = x + 4 + Word(in, x + 2) /\ ExtTypes(in)[x] = Word(in, x)
  BY <1>5 DEF Exts, ExtTypes
<1>6. ASSUME x /= Size(in) PROVE Word(in, x) \in Nat /\ Word(in, x + 2) \in Nat
  <2>1. \A n \in Nat : n + 1 < Size(in) => Word(in, n) \in Nat
    BY <1>1, HelloBytes
  <2>2. x \in Nat /\ x + 2 \in Nat /\ x + 1 < Size(in) /\ x + 2 + 1 < Size(in)
    BY <1>1, <1>4, <1>6
  <2> QED
    BY <2>1, <2>2
<1> HIDE DEF after
<1> QED
  BY <1>4, <1>5, <1>6

\* An extension of type 0 with none before it is the one that the message has
\* its name in.
LEMMA SniHere ==
  ASSUME Core, NEW in, in.bytes = clienthello, WellFormed(in), HasExts(in), NEW x \in Exts(in),
         Word(in, x) = 0,
         \A m \in Exts(in) : FirstOf(Exts(in), ExtTypes(in), m) => x <= m
  PROVE  HasSni(in, x)
<1>1. Exts(in) \subseteq Nat
  BY OneExtension DEF Exts
<1>2. ExtTypes(in)[x] = 0
  BY DEF ExtTypes
<1>3. Block(in) /= Size(in)
  <2>1. Block(in) \in Nat /\ Block(in) + 2 <= Size(in)
    BY HelloOffsets DEF HasExts
  <2> QED
    BY <2>1
<1>4. PICK m \in Exts(in) : HasSni(in, m)
  BY <1>2, <1>3 DEF WellFormed
<1>5. FirstOf(Exts(in), ExtTypes(in), m)
  BY <1>4 DEF HasSni
<1>6. x <= m
  BY <1>5
<1>7. ~(x < m)
  BY <1>2, <1>5 DEF FirstOf
<1>8. x = m
  BY <1>1, <1>6, <1>7
<1> QED
  BY <1>4, <1>8

\* A message without a server_name asks for no name.
LEMMA NoSni ==
  ASSUME NEW in, WellFormed(in), \A m \in Exts(in) : ~FirstOf(Exts(in), ExtTypes(in), m)
  PROVE  in.asked = {{}}
<1>1. \A m \in Exts(in) : ~HasSni(in, m)
  BY DEF HasSni
<1> QED
  BY <1>1 DEF WellFormed

\* The fields of the server_name extension.
LEMMA SniOffsets ==
  ASSUME Core, NEW in, in.bytes = clienthello, WellFormed(in), HasExts(in), NEW x \in Exts(in),
         HasSni(in, x)
  PROVE  /\ x \in Nat /\ Word(in, x + 2) \in Nat /\ Word(in, x + 4) \in Nat
         /\ Word(in, x + 2) >= 2 /\ 2 + Word(in, x + 4) = Word(in, x + 2)
         /\ ListEnd(in, x) = x + 6 + Word(in, x + 4) /\ ListEnd(in, x) \in Nat
         /\ ListEnd(in, x) <= Size(in) /\ Size(in) \in Nat /\ Size(in) >= 35
<1>1. x \in in.exts /\ x /= Size(in)
  BY DEF Exts
<1>2. x \in Nat /\ Word(in, x + 2) \in Nat /\ x + 4 + Word(in, x + 2) <= Size(in)
  BY <1>1, OneExtension
<1>3. Size(in) \in Nat /\ Size(in) >= 35
  BY HelloOffsets
<1>4. Word(in, x + 2) >= 2 /\ 2 + Word(in, x + 4) = Word(in, x + 2)
  BY DEF HasSni
<1>5. Word(in, x + 4) \in Nat
  <2>1. x + 4 \in Nat /\ x + 4 + 1 < Size(in)
    BY <1>2, <1>3, <1>4
  <2>2. \A n \in Nat : n + 1 < Size(in) => Word(in, n) \in Nat
    BY <1>3, HelloBytes
  <2> QED
    BY <2>1, <2>2
<1>6. ListEnd(in, x) = x + 6 + Word(in, x + 4)
  BY DEF ListEnd
<1>7. ListEnd(in, x) \in Nat /\ ListEnd(in, x) <= Size(in)
  BY <1>2, <1>3, <1>4, <1>5, <1>6
<1> QED
  BY <1>2, <1>3, <1>4, <1>5, <1>6, <1>7

\* A name of the list.
LEMMA OneName ==
  ASSUME Core, NEW in, in.bytes = clienthello, WellFormed(in), HasExts(in), NEW x \in Exts(in),
         HasSni(in, x), NEW m \in in.names
  PROVE  /\ m \in Nat /\ x + 6 <= m /\ m <= ListEnd(in, x)
         /\ m /= ListEnd(in, x) =>
              /\ m \in Names(in, x) /\ m + 3 <= ListEnd(in, x)
              /\ At(in, m) \in Nat /\ Word(in, m + 1) \in Nat
              /\ m + 3 + Word(in, m + 1) \in in.names
              /\ m + 3 + Word(in, m + 1) <= ListEnd(in, x)
              /\ NameTypes(in, x)[m] = At(in, m)
              /\ \A n \in in.names : m < n => m + 3 + Word(in, m + 1) <= n
<1> DEFINE after == [n \in Names(in, x) |-> n + 3 + Word(in, n + 1)]
<1>1. /\ x \in Nat /\ ListEnd(in, x) \in Nat
      /\ ListEnd(in, x) <= Size(in) /\ Size(in) \in Nat /\ Size(in) >= 35
  BY SniOffsets
<1>2. x + 6 \in Nat
  BY <1>1
<1>3. Elements(in.names, 3, after, x + 6, ListEnd(in, x))
  BY DEF HasSni
<1>4. /\ m \in Nat /\ x + 6 <= m /\ m <= ListEnd(in, x)
      /\ m /= ListEnd(in, x) => /\ m + 3 <= ListEnd(in, x) /\ after[m] \in in.names
                                /\ after[m] \in Nat /\ after[m] <= ListEnd(in, x)
      /\ \A n \in in.names : m < n => after[m] <= n
  <2> DEFINE head == 3  S == in.names  first1 == x + 6  last == ListEnd(in, x)
  <2>1. head \in Nat /\ first1 \in Nat /\ last \in Nat /\ Elements(S, head, after, first1, last) /\ m \in S
    BY <1>1, <1>2, <1>3
  <2> HIDE DEF head, after, S, first1, last
  <2>2. /\ m \in Nat /\ first1 <= m /\ m <= last
        /\ m /= last => m + head <= last /\ after[m] \in S /\ after[m] \in Nat /\ after[m] <= last
        /\ \A n \in S : m < n => after[m] <= n
    BY <2>1, Element1
  <2> QED
    BY <2>2 DEF head, S, first1, last
<1>5. ASSUME m /= ListEnd(in, x)
      PROVE  m \in Names(in, x) /\ after[m] = m + 3 + Word(in, m + 1) /\ NameTypes(in, x)[m] = At(in, m)
  BY <1>5 DEF Names, NameTypes
<1>6. ASSUME m /= ListEnd(in, x) PROVE At(in, m) \in Nat /\ Word(in, m + 1) \in Nat
  <2>1. /\ \A n \in Nat : n < Size(in) => At(in, n) \in 0..255
        /\ \A n \in Nat : n + 1 < Size(in) => Word(in, n) \in Nat
    BY <1>1, HelloBytes
  <2>2. m \in Nat /\ m + 1 \in Nat /\ m < Size(in) /\ m + 1 + 1 < Size(in)
    BY <1>1, <1>4, <1>6
  <2>3. At(in, m) \in 0..255
    BY <2>1, <2>2
  <2> QED
    BY <2>1, <2>2, <2>3
<1> HIDE DEF after
<1> QED
  BY <1>4, <1>5, <1>6

\* The extensions, up to the server_name.
LEMMA ExtensionsOnTrack ==
  ASSUME Core, NEW in, ReadsHello(in), Extensions \/ Extension
  PROVE  ReadsHello(in)'
<1>1. in.bytes = clienthello /\ in.asked = asked /\ WellFormed(in) /\ OnTrack(in)
  BY DEF ReadsHello
<1>2. Size(in) \in Nat /\ Size(in) >= 35 /\ Block(in) \in Nat
  BY <1>1, HelloOffsets
<1>3. \A n : Byte(n) = At(in, n) /\ U16(n) = Word(in, n)
  BY <1>1, SameBytes
<1>4. ASSUME Return("none"), in.asked = {{}}
      PROVE  ReadsHello(in)'
  <2>1. stage' = "done" /\ result' = "none" /\ UNCHANGED <<clienthello, asked>>
    BY <1>4 DEF Return
  <2>2. Returned' = {}
    BY <2>1 DEF Returned
  <2>3. OnTrack(in)'
    BY <1>4, <2>1, <2>2 DEF OnTrack
  <2> QED
    BY <2>1, <2>3, HelloStays
<1>5. CASE Extensions
  <2>1. stage = "extensions" /\ len = Size(in) /\ i = Block(in)
    BY <1>1, <1>5 DEF Extensions, OnTrack
  <2>2. CASE Block(in) = Size(in)
    <3>1. ~HasExts(in)
      BY <1>2, <2>2 DEF HasExts
    <3>2. in.asked = {{}}
      BY <1>1, <3>1 DEF WellFormed
    <3>3. Return("none")
      BY <1>5, <2>1, <2>2 DEF Extensions
    <3> QED
      BY <1>4, <3>2, <3>3
  <2>3. CASE Block(in) /= Size(in)
    <3>1. HasExts(in)
      BY <1>1, <2>3 DEF WellFormed
    <3>2. Block(in) + 2 <= Size(in) /\ Block(in) + 2 + Word(in, Block(in)) = Size(in)
          /\ Block(in) + 2 \in in.exts
      BY <3>1 DEF HasExts, Elements
    <3>3. U16(i) = Word(in, Block(in)) /\ Word(in, Block(in)) \in Nat
      BY <1>1, <1>3, <2>1, <3>1, HelloOffsets
    <3>4. i /= len /\ ~(len < i + 2) /\ ~(len < i + 2 + U16(i)) /\ i + 2 + U16(i) = Size(in)
      BY <1>2, <2>1, <2>3, <3>2, <3>3
    <3>5. /\ j' = Block(in) + 2 /\ stop' = Size(in) /\ stage' = "extension" /\ len' = len
          /\ UNCHANGED <<clienthello, asked>>
      BY <1>5, <2>1, <3>4 DEF Extensions
    <3>6. \A x \in Exts(in) : Block(in) + 2 <= x
      <4>1. in.exts \subseteq Block(in) + 2..Size(in)
        BY <3>1 DEF HasExts, Elements
      <4> QED
        BY <1>2, <4>1 DEF Exts
    <3>7. OnTrack(in)'
      BY <2>1, <3>1, <3>2, <3>5, <3>6 DEF OnTrack
    <3> QED
      BY <3>5, <3>7, HelloStays
  <2> QED
    BY <2>2, <2>3
<1>6. CASE Extension
  <2>1. /\ stage = "extension" /\ len = Size(in) /\ HasExts(in) /\ stop = Size(in) /\ j \in in.exts
        /\ \A x \in Exts(in) : FirstOf(Exts(in), ExtTypes(in), x) => j <= x
    BY <1>1, <1>6 DEF Extension, OnTrack
  <2>2. j \in Nat /\ j <= Size(in)
    BY <1>1, <2>1, OneExtension
  <2>3. CASE j = Size(in)
    <3>1. \A x \in Exts(in) : ~(j <= x)
      <4>1. TAKE x \in Exts(in)
      <4>2. x \in Nat /\ x <= Size(in) /\ x /= Size(in)
        BY <1>1, <2>1, OneExtension DEF Exts
      <4> QED
        BY <1>2, <2>3, <4>2
    <3>2. in.asked = {{}}
      BY <1>1, <2>1, <3>1, NoSni
    <3>3. Return("none")
      <4>1. j + 4 > stop
        BY <1>2, <2>1, <2>3
      <4> QED
        BY <1>6, <4>1 DEF Extension
    <3> QED
      BY <1>4, <3>2, <3>3
  <2>4. CASE j /= Size(in)
    <3>1. /\ j \in Exts(in) /\ j + 4 <= Size(in) /\ Word(in, j) \in Nat /\ Word(in, j + 2) \in Nat
          /\ j + 4 + Word(in, j + 2) \in in.exts /\ j + 4 + Word(in, j + 2) <= Size(in)
          /\ ExtTypes(in)[j] = Word(in, j)
          /\ \A n \in in.exts : j < n => j + 4 + Word(in, j + 2) <= n
      BY <1>1, <2>1, <2>4, OneExtension
    <3>2. U16(j) = Word(in, j) /\ U16(j + 2) = Word(in, j + 2)
      BY <1>3
    <3>3. ~(j + 4 > stop) /\ ~Truncated(j, 4, U16(j + 2), stop)
      BY <1>2, <2>1, <2>2, <3>1, <3>2 DEF Truncated
    <3>4. CASE U16(j) = 0
      <4>1. HasSni(in, j)
        BY <1>1, <2>1, <3>1, <3>2, <3>4, SniHere
      <4>2. /\ j' = j + 4 /\ ext_end' = j + 4 + Word(in, j + 2) /\ stage' = "server_name"
            /\ len' = len /\ UNCHANGED <<clienthello, asked>>
        BY <1>6, <3>2, <3>3, <3>4 DEF Extension
      <4>3. \E x \in Exts(in) : HasSni(in, x) /\ j' = x + 4 /\ ext_end' = x + 4 + Word(in, x + 2)
        BY <3>1, <4>1, <4>2
      <4>4. OnTrack(in)'
        BY <2>1, <4>2, <4>3 DEF OnTrack
      <4> QED
        BY <4>2, <4>4, HelloStays
    <3>5. CASE U16(j) /= 0
      <4>1. /\ j' = j + 4 + Word(in, j + 2) /\ stage' = stage /\ stop' = stop
            /\ len' = len /\ UNCHANGED <<clienthello, asked>>
        BY <1>6, <3>2, <3>3, <3>5 DEF Extension, Behind
      <4>2. ASSUME NEW x \in Exts(in), FirstOf(Exts(in), ExtTypes(in), x) PROVE j' <= x
        <5>1. j <= x /\ j /= x
          BY <2>1, <3>1, <3>2, <3>5, <4>2 DEF FirstOf
        <5>2. x \in Nat /\ x \in in.exts
          BY <1>1, <2>1, OneExtension DEF Exts
        <5>3. j < x
          BY <2>2, <5>1, <5>2
        <5> QED
          BY <3>1, <4>1, <5>2, <5>3
      <4>3. OnTrack(in)'
        BY <2>1, <3>1, <4>1, <4>2 DEF OnTrack
      <4> QED
        BY <4>1, <4>3, HelloStays
    <3> QED
      BY <3>4, <3>5
  <2> QED
    BY <2>3, <2>4
<1> QED
  BY <1>5, <1>6

\* The list of names, up to the host_name.
LEMMA NamesOnTrack ==
  ASSUME Core, NEW in, ReadsHello(in), ServerName \/ Name
  PROVE  ReadsHello(in)'
<1>1. in.bytes = clienthello /\ in.asked = asked /\ WellFormed(in) /\ OnTrack(in)
  BY DEF ReadsHello
<1>2. Size(in) \in Nat /\ Size(in) >= 35
  BY <1>1, HelloOffsets
<1>3. \A n : Byte(n) = At(in, n) /\ U16(n) = Word(in, n)
  BY <1>1, SameBytes
<1>4. CASE ServerName
  <2>1. PICK x \in Exts(in) : /\ HasSni(in, x) /\ j = x + 4 /\ ext_end = x + 4 + Word(in, x + 2)
                              /\ HasExts(in) /\ len = Size(in)
    BY <1>1, <1>4 DEF ServerName, OnTrack
  <2>2. /\ x \in Nat /\ Word(in, x + 2) \in Nat /\ Word(in, x + 4) \in Nat
        /\ Word(in, x + 2) >= 2 /\ 2 + Word(in, x + 4) = Word(in, x + 2)
        /\ ListEnd(in, x) = x + 6 + Word(in, x + 4) /\ ListEnd(in, x) \in Nat
    BY <1>1, <2>1, SniOffsets
  <2>3. U16(j) = Word(in, x + 4)
    BY <1>3, <2>1
  <2>4. /\ ~(ext_end < j + 2) /\ ~(ext_end < j + 2 + U16(j))
        /\ j + 2 = x + 6 /\ j + 2 + U16(j) = ListEnd(in, x)
    BY <2>1, <2>2, <2>3
  <2>5. /\ k' = x + 6 /\ list_end' = ListEnd(in, x) /\ stage' = "name"
        /\ len' = len /\ UNCHANGED <<clienthello, asked>>
    BY <1>4, <2>4 DEF ServerName
  <2>6. x + 6 \in in.names
    BY <2>1 DEF HasSni, Elements
  <2>7. \A n \in Names(in, x) : x + 6 <= n
    BY <1>1, <2>1, OneName DEF Names
  <2>8. OnTrack(in)'
    BY <2>1, <2>5, <2>6, <2>7 DEF OnTrack
  <2> QED
    BY <2>5, <2>8, HelloStays
<1>5. CASE Name
  <2>1. PICK x \in Exts(in) :
          /\ HasSni(in, x) /\ list_end = ListEnd(in, x) /\ k \in in.names
          /\ \A n \in Names(in, x) : FirstOf(Names(in, x), NameTypes(in, x), n) => k <= n
          /\ HasExts(in) /\ len = Size(in) /\ stage = "name"
    BY <1>1, <1>5 DEF Name, OnTrack
  <2>2. k \in Nat /\ k <= ListEnd(in, x) /\ ListEnd(in, x) \in Nat
    BY <1>1, <2>1, OneName, SniOffsets
  <2>3. \A n \in Names(in, x) : n \in Nat /\ n \in in.names /\ n < ListEnd(in, x)
    <3>1. TAKE n \in Names(in, x)
    <3>2. n \in Nat /\ n \in in.names /\ n <= ListEnd(in, x) /\ n /= ListEnd(in, x)
      BY <1>1, <2>1, OneName DEF Names
    <3> QED
      BY <2>2, <3>2
  <2>4. CASE k = ListEnd(in, x)
    <3>1. \A n \in Names(in, x) : ~FirstOf(Names(in, x), NameTypes(in, x), n)
      <4>1. TAKE n \in Names(in, x)
      <4>2. ~(k <= n)
        BY <2>2, <2>3, <2>4
      <4> QED
        BY <2>1, <4>2
    <3>2. in.asked = {{}}
      BY <2>1, <3>1 DEF HasSni
    <3>3. Return("none")
      <4>1. k + 3 > list_end
        BY <2>1, <2>2, <2>4
      <4> QED
        BY <1>5, <4>1 DEF Name
    <3>4. stage' = "done" /\ result' = "none" /\ UNCHANGED <<clienthello, asked>>
      BY <3>3 DEF Return
    <3>5. Returned' = {}
      BY <3>4 DEF Returned
    <3>6. OnTrack(in)'
      BY <3>2, <3>4, <3>5 DEF OnTrack
    <3> QED
      BY <3>4, <3>6, HelloStays
  <2>5. CASE k /= ListEnd(in, x)
    <3>1. /\ k \in Names(in, x) /\ k + 3 <= ListEnd(in, x)
          /\ At(in, k) \in Nat /\ Word(in, k + 1) \in Nat
          /\ k + 3 + Word(in, k + 1) \in in.names
          /\ k + 3 + Word(in, k + 1) <= ListEnd(in, x)
          /\ NameTypes(in, x)[k] = At(in, k)
          /\ \A n \in in.names : k < n => k + 3 + Word(in, k + 1) <= n
      BY <1>1, <2>1, <2>5, OneName
    <3>2. Byte(k) = At(in, k) /\ U16(k + 1) = Word(in, k + 1)
      BY <1>3
    <3>3. ~(k + 3 > list_end) /\ ~Truncated(k, 3, U16(k + 1), list_end)
      BY <2>1, <2>2, <3>1, <3>2 DEF Truncated
    <3>4. CASE Byte(k) = 0
      <4>1. PICK n \in Names(in, x) :
              /\ FirstOf(Names(in, x), NameTypes(in, x), n)
              /\ in.asked = {{SubSeq(in.bytes, n + 8, n + 7 + Word(in, n + 1))}}
        BY <2>1, <3>1, <3>2, <3>4 DEF HasSni
      <4>2. k <= n /\ ~(k < n)
        BY <2>1, <3>1, <3>2, <3>4, <4>1 DEF FirstOf
      <4>3. k = n
        BY <2>2, <2>3, <4>2
      <4>4. /\ result' = "host" /\ host' = <<k + 3, Word(in, k + 1)>> /\ stage' = "done"
            /\ UNCHANGED <<clienthello, asked>>
        BY <1>5, <3>2, <3>3, <3>4 DEF Name
      <4>5. host'[1] = k + 3 /\ host'[2] = Word(in, k + 1)
        BY <4>4
      <4>6. host'[1] + 5 = k + 8 /\ host'[1] + 4 + host'[2] = k + 7 + Word(in, k + 1)
        BY <2>2, <3>1, <4>5
      <4>7. Returned' = {SubSeq(in.bytes, k + 8, k + 7 + Word(in, k + 1))}
        BY <1>1, <4>4, <4>6 DEF Returned
      <4>8. OnTrack(in)'
        BY <4>1, <4>3, <4>4, <4>7 DEF OnTrack
      <4> QED
        BY <4>4, <4>8, HelloStays
    <3>5. CASE Byte(k) /= 0
      <4>1. /\ k' = k + 3 + Word(in, k + 1) /\ stage' = stage /\ list_end' = list_end
            /\ len' = len /\ UNCHANGED <<clienthello, asked>>
        BY <1>5, <3>2, <3>3, <3>5 DEF Name, Behind
      <4>2. ASSUME NEW n \in Names(in, x), FirstOf(Names(in, x), NameTypes(in, x), n) PROVE k' <= n
        <5>1. k <= n /\ k /= n
          BY <2>1, <3>1, <3>2, <3>5, <4>2 DEF FirstOf
        <5>2. n \in Nat /\ n \in in.names
          BY <2>3
        <5>3. k < n
          BY <2>2, <5>1, <5>2
        <5> QED
          BY <3>1, <4>1, <5>2, <5>3
      <4>3. OnTrack(in)'
        BY <2>1, <3>1, <4>1, <4>2 DEF OnTrack
      <4> QED
        BY <4>1, <4>3, HelloStays
    <3> QED
      BY <3>4, <3>5
  <2> QED
    BY <2>4, <2>5
<1> QED
  BY <1>4, <1>5

(* For every message that a client may send: the name of a well-formed     *)
(* ClientHello is found.                                                   *)
LEMMA HelloInitFound == HelloInit => Core /\ Found
<1> SUFFICES ASSUME HelloInit PROVE Core /\ Found
  OBVIOUS
<1>1. CASE part = "parse" /\ Init
  <2>1. Core
    BY <1>1, InputAssumption, InitCore
  <2>2. ASSUME asked /= {} PROVE \E in \in Inputs : ReadsHello(in)
    <3>1. PICK in \in Inputs : Call(in)
      BY <1>1 DEF Init
    <3>2. clienthello = in.bytes /\ asked = in.asked /\ stage = "header"
      BY <3>1 DEF Call
    <3>3. WellFormed(in)
      BY <2>2, <3>2, InputAssumption DEF InputsAreHellos
    <3>4. OnTrack(in)
      BY <3>2 DEF OnTrack
    <3> QED
      BY <3>2, <3>3, <3>4 DEF ReadsHello
  <2> QED
    BY <2>1, <2>2 DEF Found
<1>2. CASE Call([bytes |-> <<>>, asked |-> {}])
  <2>1. /\ clienthello = <<>> /\ asked = {} /\ stage = "header" /\ len = 0
        /\ i = 0 /\ j = 0 /\ k = 0
        /\ stop = 0 /\ ext_end = 0 /\ list_end = 0 /\ result = "none" /\ host = <<0, 0>>
    BY <1>2 DEF Call
  <2>2. clienthello \in Seq(0..255)
    BY <2>1
  <2> QED
    BY <2>1, <2>2 DEF Core, TypeOK, Stages, HostInside, Found
<1> QED
  BY <1>1, <1>2 DEF HelloInit

LEMMA HelloNextFound ==
  ASSUME Core, Found, [HelloNext]_<<part, vars, records>>
  PROVE  Core' /\ Found'
<1>1. CASE Next
  <2>1. Core'
    BY <1>1, HeaderKeeps, SessionIdKeeps, CipherSuitesKeeps, CompressionMethodsKeeps,
       ExtensionsKeeps, ExtensionKeeps, ServerNameKeeps, NameKeeps DEF Next
  <2>2. asked' = asked
    BY <1>1 DEF Next, Header, SessionId, CipherSuites, CompressionMethods, Extensions, Extension,
                ServerName, Name, Return
  <2>3. ASSUME NEW in \in Inputs, ReadsHello(in) PROVE ReadsHello(in)'
    BY <1>1, <2>3, FieldsOnTrack, ExtensionsOnTrack, NamesOnTrack DEF Next
  <2>4. Found'
    BY <2>2, <2>3 DEF Found
  <2> QED
    BY <2>1, <2>4
<1>2. CASE UNCHANGED vars
  <2>1. Core'
    BY <1>2 DEF vars, Core, TypeOK, HostInside
  <2>2. asked' = asked
    BY <1>2 DEF vars
  <2>3. ASSUME NEW in \in Inputs, ReadsHello(in) PROVE ReadsHello(in)'
    <3>1. Returned' = Returned
      BY <1>2 DEF vars, Returned
    <3>2. OnTrack(in)'
      BY <1>2, <2>3, <3>1 DEF vars, OnTrack, ReadsHello
    <3> QED
      BY <1>2, <2>3, <3>2, HelloStays DEF vars
  <2>4. Found'
    BY <2>2, <2>3 DEF Found
  <2> QED
    BY <2>1, <2>4
<1> QED
  BY <1>1, <1>2 DEF HelloNext

(* For every message that a client may send: extract_sni indexes only      *)
(* inside of the message, and the name it returns lies inside of the list  *)
(* of names, that inside of the server_name extension, and that inside of  *)
(* the extensions.                                                         *)
THEOREM ParsesInside == HelloSpec => []Nested
<1>1. HelloInit => Core /\ Found
  BY HelloInitFound
<1>2. Core /\ Found /\ [HelloNext]_<<part, vars, records>> => (Core /\ Found)'
  BY HelloNextFound
<1>3. Core => Nested
  BY NestedIsCore
<1> QED
  BY <1>1, <1>2, <1>3, PTL DEF HelloSpec

(* For every well-formed ClientHello, whatever it holds and in whatever    *)
(* order: extract_sni does not fail, and what it returns is the first      *)
(* host_name of the first server_name extension, or nothing if there is    *)
(* none.                                                                   *)
THEOREM NameIsFound == HelloSpec => []RoundTrip
<1>1. HelloInit => Core /\ Found
  BY HelloInitFound
<1>2. Core /\ Found /\ [HelloNext]_<<part, vars, records>> => (Core /\ Found)'
  BY HelloNextFound
<1>3. Found => RoundTrip
  <2> SUFFICES ASSUME Found, stage = "done", asked /= {}
               PROVE  result /= "error" /\ Returned \in asked
    BY DEF RoundTrip
  <2>1. PICK in \in Inputs : ReadsHello(in)
    BY DEF Found
  <2> QED
    BY <2>1 DEF ReadsHello, OnTrack
<1> QED
  BY <1>1, <1>2, <1>3, PTL DEF HelloSpec

-----------------------------------------------------------------------------
(* The records of a client. *)

\* Where record n starts, or would start behind the last one.
Start(n) == IF n <= Len(Records!recs) THEN Records!recs[n].at ELSE Records!Total

\* The bytes of the first message in the records before record n.
Parsed(n) == Start(n) - 5 * (n - 1)

\* No record before record n decides what the first message is.
Undecided(n) == \A m \in 1..n - 1 : ~Records!Decides(m)

\* What the length field says, once its bytes have been read.
NeededAfter(read) ==
  IF read >= Records!HandshakeHeader /\ client.client_hello
  THEN {Records!HandshakeHeader + client.body_len} ELSE {}

\* What the connection is routed by when record d decides it.
VerdictAt(d) ==
  IF Records!HandshakeRecord(Records!recs[d])
  THEN <<IF client.client_hello THEN "hello" ELSE "no_hello", NeededAfter(Parsed(d + 1))>>
  ELSE <<"no_hello", NeededAfter(Parsed(d))>>

FirstDecides(d) == d \in 1..Len(Records!recs) /\ Undecided(d) /\ Records!Decides(d)

\* What a client can make the router read before it knows that it must read on.
Surplus == 6 * (Records!HandshakeHeader + client.body_len - 1)

-----------------------------------------------------------------------------
(* The inductive invariant of TlsRecords. *)

BytesInv == initial <= got /\ pos <= got /\ got <= delivered /\ delivered <= Records!Total

\* read_tls_clienthello is at a record that no earlier one made superfluous,
\* and has taken from the socket what it has parsed and no more.
PrereadInv ==
  /\ phase \in Records!Prereading =>
       /\ got <= Records!Larger(initial, pos)
       /\ needed = NeededAfter(hello) /\ plain = <<>>
  /\ phase \in {"header", "payload"} =>
       /\ Undecided(next) /\ hello = Parsed(next) /\ next - 1 <= hello
  /\ phase = "header" => pos = Start(next)
  /\ phase = "payload" =>
       /\ next <= Len(Records!recs) /\ Records!HandshakeRecord(Records!recs[next])
       /\ pos = Start(next) + 5
  /\ phase \in {"hello", "no_hello"} =>
       /\ pos <= Surplus + 5 + MaxRecord
       /\ \E d \in 1..Len(Records!recs) :
            /\ FirstDecides(d) /\ pos = Records!DecidedAt(d) /\ Records!Verdict = VerdictAt(d)

\* What a router passes on shows the next one the same first message.
HopsInv ==
  hops > 0 =>
    \E d \in 1..Len(Records!recs) :
      FirstDecides(d) /\ Records!DecidedAt(d) <= initial /\ first = {VerdictAt(d)}

\* The data has been given up to some record, and when the kernel reads up to
\* the one that it has come to.
DataInv == \E m \in client.finished..Len(Records!recs) : Records!Given(m)
KernelInv ==
  \E m \in 1..Len(Records!recs) :
    client.finished <= m /\ got = Start(m + 1) /\ Records!Given(m)

\* tls_handshake is at the start of a record, with nothing behind it when it
\* leaves its loop, and the plaintext is of the records behind Finished.
TlsInv ==
  /\ phase \in {"tls_header", "tls_payload", "drain", "tls_write", "keys"} => pos = Start(next)
  /\ phase \in {"tls_header", "tls_payload"} => Records!is_handshaking /\ plain = <<>>
  /\ phase = "tls_payload" => next <= Len(Records!recs)
  /\ phase = "drain" => ~Records!is_handshaking
  /\ phase = "tls_write" => Records!is_handshaking \/ pos = got
  /\ phase = "keys" => ~Records!is_handshaking /\ pos = got /\ unsent = 0
  /\ phase \in {"drain", "tls_write", "keys"} =>
       IF Records!is_handshaking THEN plain = <<>> ELSE Records!Given(next - 1)
  /\ phase \in {"ktls", "eio"} => KernelInv
  /\ DataInv

RecordsInv == Records!TypeOK /\ BytesInv /\ PrereadInv /\ HopsInv /\ TlsInv

-----------------------------------------------------------------------------
(* The layout of a stream. *)

\* What ClientAssumption says of the client of this connection.
LEMMA ClientFacts ==
  ASSUME client \in Clients
  PROVE  /\ MaxHops \in Nat /\ MaxRecord \in Nat
         /\ client.recs \in Seq(Records!Record) /\ Len(client.recs) \in Nat \ {0}
         /\ client.client_hello \in BOOLEAN /\ client.body_len \in Nat
         /\ client.finished \in 0..Len(client.recs)
         /\ client.recs[1].at = 0
         /\ \A n \in 1..Len(client.recs) - 1 :
              client.recs[n + 1].at = client.recs[n].at + 5 + client.recs[n].len
         /\ \A n \in 1..Len(client.recs) :
              /\ client.recs[n].at \in Nat /\ client.recs[n].len \in 0..MaxRecord
              /\ client.recs[n].handshake \in BOOLEAN
<1>1. /\ client.recs \in Seq(Records!Record) /\ client.recs /= <<>>
      /\ MaxHops \in Nat /\ MaxRecord \in Nat
      /\ client.client_hello \in BOOLEAN /\ client.body_len \in Nat
      /\ client.finished \in 0..Len(client.recs)
      /\ client.recs[1].at = 0
      /\ \A n \in 1..Len(client.recs) - 1 :
           client.recs[n + 1].at = client.recs[n].at + 5 + client.recs[n].len
  BY StreamAssumption DEF Records!ClientAssumption, Records!REC_HDR_LEN
<1>2. \A n \in 1..Len(client.recs) : client.recs[n] \in Records!Record
  BY <1>1
<1>3. Len(client.recs) \in Nat \ {0}
  BY <1>1
<1> QED
  BY <1>1, <1>2, <1>3 DEF Records!Record

\* Records follow each other, each at least a header long.
LEMMA Layout ==
  ASSUME client \in Clients
  PROVE  /\ Len(Records!recs) \in Nat \ {0}
         /\ Start(1) = 0 /\ Start(Len(Records!recs) + 1) = Records!Total
         /\ \A n \in 1..Len(Records!recs) + 1 : Start(n) \in Nat /\ Start(n) <= Records!Total
         /\ \A n \in 1..Len(Records!recs) :
              /\ Records!recs[n].len \in 0..MaxRecord
              /\ Records!recs[n].at = Start(n)
              /\ Records!End(n) = Start(n + 1)
              /\ Start(n + 1) = Start(n) + 5 + Records!recs[n].len
         /\ \A m, n \in 1..Len(Records!recs) + 1 : m < n => Start(m) + 5 <= Start(n)
<1> DEFINE L == Len(client.recs)
<1>1. /\ L \in Nat \ {0} /\ Records!recs = client.recs
      /\ MaxRecord \in Nat /\ client.recs[1].at = 0
      /\ \A n \in 1..L : client.recs[n].at \in Nat /\ client.recs[n].len \in 0..MaxRecord
      /\ \A n \in 1..L - 1 : client.recs[n + 1].at = client.recs[n].at + 5 + client.recs[n].len
  BY ClientFacts DEF Records!recs
<1>2. Records!Total = client.recs[L].at + 5 + client.recs[L].len
  BY <1>1 DEF Records!Total, Records!End, Records!REC_HDR_LEN
<1>3. \A n \in 1..L : Start(n) = client.recs[n].at
  BY <1>1 DEF Start
<1>4. Start(L + 1) = Records!Total
  BY <1>1 DEF Start
<1>5. \A n \in 1..L : Start(n + 1) = Start(n) + 5 + client.recs[n].len
  <2> SUFFICES ASSUME NEW n \in 1..L PROVE Start(n + 1) = Start(n) + 5 + client.recs[n].len
    OBVIOUS
  <2>1. CASE n = L
    BY <1>1, <1>2, <1>3, <1>4, <2>1
  <2>2. CASE n < L
    <3>1. n \in 1..L - 1 /\ n + 1 \in 1..L
      BY <1>1, <2>2
    <3> QED
      BY <1>1, <1>3, <3>1
  <2> QED
    BY <1>1, <2>1, <2>2
<1>6. \A n \in 1..L : Records!End(n) = Start(n + 1)
  BY <1>1, <1>3, <1>5 DEF Records!End, Records!REC_HDR_LEN
<1>7. ASSUME NEW n \in 1..L + 1 PROVE Start(n) \in Nat
  <2>1. CASE n \in 1..L
    BY <1>1, <1>3, <2>1
  <2>2. CASE n = L + 1
    BY <1>1, <1>2, <1>4, <2>2, SMTT(30)
  <2> QED
    BY <1>1, <2>1, <2>2
<1> HIDE DEF L
<1> DEFINE Wrong == {n \in 1..L + 1 : \E m \in 1..L + 1 : m < n /\ ~(Start(m) + 5 <= Start(n))}
<1>8. Wrong = {}
  <2> SUFFICES ASSUME Wrong # {} PROVE FALSE
    OBVIOUS
  <2>1. Wrong \subseteq Nat
    OBVIOUS
  <2>2. PICK n \in Wrong : \A x \in Wrong : n <= x
    <3> HIDE DEF Wrong
    <3> QED
      BY <2>1, MinNat
  <2>3. PICK m \in 1..L + 1 : m < n /\ ~(Start(m) + 5 <= Start(n))
    OBVIOUS
  <2>4. n - 1 \in 1..L /\ n - 1 \in 1..L + 1 /\ n - 1 \notin Wrong
    BY <1>1, <2>2, <2>3
  <2>5. Start(n) = Start(n - 1) + 5 + client.recs[n - 1].len
    <3>1. Start((n - 1) + 1) = Start(n - 1) + 5 + client.recs[n - 1].len
      BY <1>5, <2>4
    <3> QED
      BY <3>1, <1>1
  <2>6. client.recs[n - 1].len \in Nat
    BY <1>1, <2>4
  <2>7. CASE m = n - 1
    BY <1>7, <2>3, <2>4, <2>5, <2>6, <2>7
  <2>8. CASE m < n - 1
    <3>1. Start(m) + 5 <= Start(n - 1)
      BY <2>4, <2>8
    <3> QED
      BY <1>7, <2>3, <2>4, <2>5, <2>6, <3>1
  <2> QED
    BY <2>3, <2>7, <2>8, <1>1
<1>9. \A m, n \in 1..L + 1 : m < n => Start(m) + 5 <= Start(n)
  BY <1>8
<1>10. ASSUME NEW n \in 1..L + 1 PROVE Start(n) <= Start(L + 1)
  <2>1. L + 1 \in 1..L + 1
    BY <1>1
  <2> QED
    BY <1>1, <1>7, <1>9, <2>1
<1>11. Start(1) = 0
  BY <1>1, <1>3
<1> QED
  BY <1>1, <1>3, <1>4, <1>5, <1>6, <1>7, <1>9, <1>10, <1>11 DEF L

\* The stream stays as the client sends it.
LEMMA Static ==
  ASSUME client' = client
  PROVE  /\ Records!recs' = Records!recs /\ Records!Total' = Records!Total /\ Surplus' = Surplus
         /\ \A n : Start(n)' = Start(n) /\ Parsed(n)' = Parsed(n)
         /\ \A n : Undecided(n)' <=> Undecided(n)
         /\ \A n : NeededAfter(n)' = NeededAfter(n)
         /\ \A n : VerdictAt(n)' = VerdictAt(n) /\ Records!DecidedAt(n)' = Records!DecidedAt(n)
         /\ \A n : FirstDecides(n)' <=> FirstDecides(n)
BY DEF Records!recs, Records!Total, Records!End, Surplus, Start, Parsed, Undecided, NeededAfter,
       VerdictAt, FirstDecides, Records!DecidedAt, Records!Decides, Records!Payload,
       Records!HandshakeRecord

\* What has been given stays given while nothing is added to it.
LEMMA GivenKept ==
  ASSUME UNCHANGED <<client, plain>>
  PROVE  /\ \A m : Records!Given(m)' <=> Records!Given(m)
         /\ DataInv' <=> DataInv
         /\ got' = got => (KernelInv' <=> KernelInv)
<1>1. \A m : Records!Given(m)' <=> Records!Given(m)
  BY DEF Records!Given, Records!recs
<1>2. DataInv' <=> DataInv
  BY <1>1, Static DEF DataInv
<1>3. got' = got => (KernelInv' <=> KernelInv)
  BY <1>1, Static DEF KernelInv
<1> QED
  BY <1>1, <1>2, <1>3

\* Up to Finished there is nothing to give.
LEMMA NothingGiven ==
  ASSUME client.finished \in Nat, plain = <<>> PROVE Records!Given(client.finished)
BY DEF Records!Given

-----------------------------------------------------------------------------
(* The steps keep the invariant. *)

\* The types of what the steps compute with.
LEMMA RecordsTypes ==
  ASSUME RecordsInv
  PROVE  /\ client \in Clients /\ eof \in BOOLEAN
         /\ delivered \in Nat /\ initial \in Nat /\ got \in Nat /\ pos \in Nat /\ hello \in Nat
         /\ next \in Nat /\ 1 <= next /\ next <= Len(Records!recs) + 1
         /\ unsent \in Nat /\ answers \in Nat /\ hops \in Nat
         /\ plain \in Seq(1..Len(Records!recs)) /\ Len(plain) \in Nat
         /\ Len(Records!recs) \in Nat \ {0} /\ MaxRecord \in Nat /\ MaxHops \in Nat
         /\ client.finished \in Nat /\ client.finished <= Len(Records!recs)
         /\ client.client_hello \in BOOLEAN /\ client.body_len \in Nat
         /\ Records!Total \in Nat
<1>1. Records!TypeOK
  BY DEF RecordsInv
<1>2. client \in Clients
  BY <1>1 DEF Records!TypeOK
<1>3. Len(Records!recs) \in Nat \ {0} /\ Records!Total \in Nat
  <2>1. Len(Records!recs) \in Nat \ {0} /\ Start(Len(Records!recs) + 1) = Records!Total
        /\ \A n \in 1..Len(Records!recs) + 1 : Start(n) \in Nat
    BY <1>2, Layout
  <2>2. Len(Records!recs) + 1 \in 1..Len(Records!recs) + 1
    BY <2>1
  <2> QED
    BY <2>1, <2>2
<1>4. Records!recs = client.recs
  BY DEF Records!recs
<1>5. /\ MaxHops \in Nat /\ MaxRecord \in Nat /\ client.finished \in 0..Len(client.recs)
      /\ client.client_hello \in BOOLEAN /\ client.body_len \in Nat
  BY <1>2, ClientFacts
<1> QED
  BY <1>1, <1>3, <1>4, <1>5 DEF Records!TypeOK

\* The least element is the same operator in the two modules.
LEMMA RecordsMin == \A S : Records!Min(S) = Min(S)
BY DEF Records!Min, Min

\* The record at hand.
LEMMA RecordAt ==
  ASSUME RecordsInv, next <= Len(Records!recs)
  PROVE  /\ next \in 1..Len(Records!recs) /\ next + 1 \in 1..Len(Records!recs) + 1
         /\ Records!recs[next].len \in Nat /\ Records!recs[next].len <= MaxRecord
         /\ Records!recs[next].at = Start(next) /\ Records!End(next) = Start(next + 1)
         /\ Start(next) \in Nat /\ Start(next + 1) \in Nat
         /\ Start(next + 1) = Start(next) + 5 + Records!recs[next].len
         /\ Start(next + 1) <= Records!Total
<1> DEFINE L == Len(Records!recs)
<1>1. /\ client \in Clients /\ next \in Nat /\ 1 <= next /\ MaxRecord \in Nat /\ L \in Nat
  BY RecordsTypes
<1>2. next \in 1..L /\ next \in 1..L + 1 /\ next + 1 \in 1..L + 1
  BY <1>1
<1>3. /\ \A n \in 1..L + 1 : Start(n) \in Nat /\ Start(n) <= Records!Total
      /\ \A n \in 1..L :
           /\ Records!recs[n].len \in 0..MaxRecord
           /\ Records!recs[n].at = Start(n)
           /\ Records!End(n) = Start(n + 1)
           /\ Start(n + 1) = Start(n) + 5 + Records!recs[n].len
  BY <1>1, Layout
<1> HIDE DEF L
<1>4. Records!recs[next].len \in 0..MaxRecord
  BY <1>2, <1>3
<1> QED
  BY <1>1, <1>2, <1>3, <1>4 DEF L

\* A client sends no more than its records.
LEMMA SendableBound ==
  ASSUME client \in Clients PROVE Records!Sendable \in Nat /\ Records!Sendable <= Records!Total
<1> DEFINE L == Len(Records!recs)
           waiting == {n \in 1..L : Records!recs[n].after > answers}
<1>1. /\ L \in Nat \ {0} /\ Start(L + 1) = Records!Total
      /\ \A n \in 1..L + 1 : Start(n) \in Nat /\ Start(n) <= Records!Total
      /\ \A n \in 1..L : Records!recs[n].at = Start(n)
  BY Layout
<1>2. Records!Sendable = IF waiting = {} THEN Records!Total ELSE Records!recs[Min(waiting)].at
  BY RecordsMin DEF Records!Sendable
<1> HIDE DEF L
<1>3. CASE waiting = {}
  BY <1>1, <1>2, <1>3
<1>4. CASE waiting # {}
  <2>1. waiting \subseteq Nat
    BY <1>1
  <2>2. Min(waiting) \in waiting
    <3> HIDE DEF waiting
    <3> QED
      BY <1>4, <2>1, MinNat
  <2>3. Min(waiting) \in 1..L /\ Min(waiting) \in 1..L + 1
    BY <2>2, <1>1
  <2> HIDE DEF waiting
  <2> QED
    BY <1>1, <1>2, <1>4, <2>3
<1> QED
  BY <1>3, <1>4

\* The records that leave the first message undecided are short together: each
\* has a byte of less than what the message announces, and a header.
LEMMA UndecidedShort ==
  ASSUME client \in Clients, NEW n \in 1..Len(Records!recs) + 1, Undecided(n), n - 1 <= Parsed(n)
  PROVE  Start(n) \in Nat /\ Start(n) <= Surplus /\ Surplus \in Nat
<1>1. /\ Len(Records!recs) \in Nat \ {0} /\ Start(1) = 0 /\ Start(n) \in Nat
      /\ client.body_len \in Nat /\ client.client_hello \in BOOLEAN
  BY Layout, ClientFacts
<1>2. Surplus \in Nat /\ Surplus = 6 * (client.body_len + 3)
  BY <1>1 DEF Surplus, Records!HandshakeHeader
<1>3. CASE n = 1
  BY <1>1, <1>2, <1>3
<1>4. CASE n > 1
  <2>1. n - 1 \in 1..n - 1 /\ n - 1 \in 1..Len(Records!recs)
    BY <1>1, <1>4
  <2>2. ~Records!Decides(n - 1)
    BY <2>1 DEF Undecided
  <2>3. Records!End(n - 1) = Start(n)
    <3>1. Records!End(n - 1) = Start((n - 1) + 1)
      BY <2>1, Layout
    <3> QED
      BY <3>1
  <2>4. Records!Payload(n - 1) = Parsed(n) /\ Parsed(n) = Start(n) - 5 * (n - 1)
    BY <1>1, <2>3 DEF Records!Payload, Parsed, Records!REC_HDR_LEN
  <2>5. Parsed(n) <= client.body_len + 3
    BY <1>1, <2>2, <2>4 DEF Records!Decides, Records!HandshakeHeader
  <2> QED
    BY <1>1, <1>2, <2>4, <2>5
<1> QED
  BY <1>3, <1>4

\* Where a record decides is a place in the stream, behind the record's header.
LEMMA DecidedAtType ==
  ASSUME client \in Clients, NEW d \in 1..Len(Records!recs)
  PROVE  /\ Records!DecidedAt(d) \in Nat /\ Start(d) + 5 <= Records!DecidedAt(d)
         /\ Records!HandshakeRecord(Records!recs[d]) => Records!DecidedAt(d) = Start(d + 1)
<1>1. Len(Records!recs) \in Nat /\ d \in 1..Len(Records!recs) + 1
  BY Layout
<1>2. /\ Records!recs[d].len \in 0..MaxRecord /\ Records!recs[d].at = Start(d)
      /\ Records!End(d) = Start(d + 1) /\ Start(d + 1) = Start(d) + 5 + Records!recs[d].len
      /\ Start(d) \in Nat /\ MaxRecord \in Nat
  BY <1>1, Layout, ClientFacts
<1>3. Records!recs[d].len \in Nat
  BY <1>2
<1> QED
  BY <1>2, <1>3 DEF Records!DecidedAt, Records!HandshakeRecord, Records!REC_HDR_LEN

\* Between two records nothing has been read of the first one.
LEMMA RecordsInit == Records!Init => RecordsInv
<1> SUFFICES ASSUME Records!Init PROVE RecordsInv
  OBVIOUS
<1>1. /\ client \in Clients /\ initial \in 0..Records!Sendable
      /\ eof = FALSE /\ answers = 0 /\ delivered = initial /\ got = initial
      /\ pos = 0 /\ next = 1 /\ hello = 0 /\ needed = {} /\ phase = "header" /\ unsent = 0
      /\ plain = <<>> /\ hops = 0 /\ first = {}
  BY DEF Records!Init
<1>2. Records!Sendable \in Nat /\ Records!Sendable <= Records!Total
  BY <1>1, SendableBound
<1>3. /\ Len(Records!recs) \in Nat \ {0} /\ Start(1) = 0
      /\ client.finished \in 0..Len(client.recs) /\ MaxHops \in Nat
      /\ Len(Records!recs) = Len(client.recs)
  BY <1>1, Layout, ClientFacts DEF Records!recs
<1>4. Records!TypeOK
  <2>1. plain \in Seq(1..Len(Records!recs))
    BY <1>1
  <2>2. next \in 1..Len(Records!recs) + 1 /\ hops \in 0..MaxHops /\ initial \in Nat
    BY <1>1, <1>2, <1>3
  <2> QED
    BY <1>1, <2>1, <2>2 DEF Records!TypeOK, Records!Reading
<1>5. BytesInv
  <2>1. Records!Total \in Nat
    BY <1>1, Layout
  <2> QED
    BY <1>1, <1>2, <2>1 DEF BytesInv
<1>6. PrereadInv
  <2>1. got <= Records!Larger(initial, pos)
    BY <1>1, <1>2 DEF Records!Larger
  <2>2. needed = NeededAfter(hello)
    BY <1>1 DEF NeededAfter, Records!HandshakeHeader
  <2>3. Undecided(next) /\ hello = Parsed(next) /\ pos = Start(next)
    BY <1>1, <1>3 DEF Undecided, Parsed
  <2> QED
    BY <1>1, <2>1, <2>2, <2>3 DEF PrereadInv
<1>7. HopsInv
  BY <1>1 DEF HopsInv
<1>8. TlsInv
  <2>1. DataInv
    BY <1>1, <1>3, NothingGiven DEF DataInv
  <2> QED
    BY <1>1, <2>1 DEF TlsInv
<1> QED
  BY <1>4, <1>5, <1>6, <1>7, <1>8 DEF RecordsInv

\* What the first router found out stays true while nothing is passed on.
LEMMA HopsKept ==
  ASSUME HopsInv, UNCHANGED <<client, initial, hops, first>> PROVE HopsInv'
BY Static DEF HopsInv

\* The stream is read in the same way, whatever has arrived and whether it ends.
LEMMA StreamStep ==
  ASSUME RecordsInv, Records!Arrive \/ Records!Close \/ UNCHANGED records PROVE RecordsInv'
<1>1. /\ UNCHANGED <<client, initial, got, pos, next, hello, needed, phase, unsent, answers,
                     plain, hops, first>>
      /\ eof' \in BOOLEAN
      /\ delivered' = delivered \/ delivered' \in (delivered + 1)..Records!Sendable
  BY RecordsTypes DEF Records!Arrive, Records!Close, Records!stream, Records!preread,
     Records!tls, records
<1>2. delivered' \in Nat /\ delivered' >= delivered /\ delivered' <= Records!Total
  <2>1. delivered <= Records!Total
    BY DEF RecordsInv, BytesInv
  <2>2. delivered \in Nat /\ Records!Total \in Nat /\ client \in Clients
    BY RecordsTypes
  <2>3. Records!Sendable \in Nat /\ Records!Sendable <= Records!Total
    BY <2>2, SendableBound
  <2> QED
    BY <1>1, <2>1, <2>2, <2>3
<1>3. Records!TypeOK'
  BY <1>1, <1>2 DEF RecordsInv, Records!TypeOK, Records!recs
<1>4. BytesInv'
  <2>1. Records!Total' = Records!Total
    BY <1>1, Static
  <2> QED
    BY <1>1, <1>2, <2>1, RecordsTypes DEF RecordsInv, BytesInv
<1>5. PrereadInv'
  BY <1>1, Static DEF RecordsInv, PrereadInv, Records!Verdict, Records!HandshakeRecord,
     Records!Larger
<1>6. TlsInv'
  BY <1>1, Static, GivenKept DEF RecordsInv, TlsInv, Records!is_handshaking
<1> QED
  BY <1>1, <1>3, <1>4, <1>5, <1>6, HopsKept DEF RecordsInv

\* A connection that fails keeps what it has.
LEMMA FailStep ==
  ASSUME RecordsInv, phase' = "failed",
         UNCHANGED <<client, delivered, eof, initial, got, pos, next, hello, needed, unsent,
                     answers, plain, hops, first>>
  PROVE  RecordsInv'
<1>1. Records!TypeOK'
  BY DEF RecordsInv, Records!TypeOK, Records!recs
<1>2. BytesInv'
  BY Static DEF RecordsInv, BytesInv
<1>3. PrereadInv'
  BY DEF PrereadInv, Records!Prereading
<1>4. TlsInv'
  BY GivenKept DEF RecordsInv, TlsInv
<1> QED
  BY <1>1, <1>2, <1>3, <1>4, HopsKept DEF RecordsInv

\* After ensure_bytes_available nothing more than it was asked for is taken.
LEMMA EnsureFacts ==
  ASSUME RecordsInv, NEW want \in Nat, Records!ensure_bytes_available(want)
  PROVE  /\ got' \in Nat /\ got' >= got /\ got' >= want /\ got' <= delivered
         /\ got' = got \/ got' = want
BY RecordsTypes, SMTT(30) DEF Records!ensure_bytes_available, RecordsInv, BytesInv

\* read_tls_clienthello, the header of a record.
LEMMA RecordHeaderStep ==
  ASSUME RecordsInv, Records!RecordHeader PROVE RecordsInv'
<1> DEFINE L == Len(Records!recs)
<1>1. /\ phase = "header" /\ Records!ensure_bytes_available(pos + 5) /\ pos' = pos + 5
      /\ phase' = IF Records!HandshakeRecord(Records!recs[next]) THEN "payload" ELSE "no_hello"
      /\ UNCHANGED <<client, delivered, eof, initial, next, hello, needed, unsent, answers, plain,
                     hops, first>>
  BY DEF Records!RecordHeader, Records!REC_HDR_LEN, Records!stream, Records!preread, Records!tls
<1>2. /\ got' \in Nat /\ got' >= got /\ got' >= pos + 5 /\ got' <= delivered
      /\ got' = got \/ got' = pos + 5
  BY <1>1, EnsureFacts, RecordsTypes, SMTT(30)
<1>3. /\ pos = Start(next) /\ Undecided(next) /\ hello = Parsed(next) /\ next - 1 <= hello
      /\ got <= Records!Larger(initial, pos) /\ needed = NeededAfter(hello) /\ plain = <<>>
  BY <1>1 DEF RecordsInv, PrereadInv, Records!Prereading
<1>4. /\ initial <= got /\ pos <= got /\ got <= delivered /\ delivered <= Records!Total
  BY DEF RecordsInv, BytesInv
<1>0. /\ pos \in Nat /\ got \in Nat /\ initial \in Nat /\ delivered \in Nat /\ Records!Total \in Nat
      /\ next \in Nat /\ L \in Nat /\ next <= L + 1 /\ MaxRecord \in Nat /\ client \in Clients
  BY RecordsTypes
<1>5. next <= L
  <2>1. CASE next = L + 1
    <3>1. pos = Records!Total
      BY <1>3, <2>1, RecordsTypes, Layout
    <3> QED
      BY <1>0, <1>2, <1>4, <3>1
  <2> QED
    BY <1>0, <2>1
<1>6. /\ next \in 1..L /\ Records!recs[next].len \in Nat /\ Records!recs[next].at = Start(next)
  BY <1>5, RecordAt
<1>7. Records!TypeOK'
  <2>1. phase' \in {"payload", "no_hello"}
    BY <1>1
  <2> QED
    BY <1>1, <1>2, <2>1, RecordsTypes DEF RecordsInv, Records!TypeOK, Records!recs, Records!Reading
<1>8. BytesInv'
  <2>1. Records!Total' = Records!Total
    BY <1>1, Static
  <2> QED
    BY <1>0, <1>1, <1>2, <1>4, <2>1 DEF BytesInv
<1>9. PrereadInv'
  <2>1. got' <= Records!Larger(initial, pos')
    <3>1. got <= IF initial >= pos THEN initial ELSE pos
      BY <1>3 DEF Records!Larger
    <3>2. got' <= IF initial >= pos' THEN initial ELSE pos'
      BY <1>0, <1>1, <1>2, <1>4, <3>1
    <3> QED
      BY <3>2 DEF Records!Larger
  <2>2. (needed = NeededAfter(hello) /\ plain = <<>>)'
    BY <1>1, <1>3, Static
  <2>3. CASE Records!HandshakeRecord(Records!recs[next])
    <3>1. phase' = "payload"
      BY <1>1, <2>3
    <3>2. (Undecided(next) /\ hello = Parsed(next) /\ next - 1 <= hello)'
      BY <1>1, <1>3, Static
    <3>3. (next <= Len(Records!recs) /\ Records!HandshakeRecord(Records!recs[next])
           /\ pos = Start(next) + 5)'
      <4>1. Records!HandshakeRecord(Records!recs[next])' <=> Records!HandshakeRecord(Records!recs[next])
        BY <1>1 DEF Records!HandshakeRecord, Records!recs
      <4>2. next <= Len(Records!recs) /\ pos' = Start(next) + 5
        BY <1>1, <1>3, <1>5
      <4> QED
        BY <1>1, <4>1, <4>2, <2>3, Static
    <3>4. (got <= Records!Larger(initial, pos))'
      BY <2>1, <1>1 DEF Records!Larger
    <3> QED
      BY <3>1, <3>2, <3>3, <3>4, <2>2 DEF PrereadInv
  <2>4. CASE ~Records!HandshakeRecord(Records!recs[next])
    <3>1. phase' = "no_hello"
      BY <1>1, <2>4
    <3>2. Records!Decides(next)
      BY <2>4, <1>6 DEF Records!Decides, Records!HandshakeRecord
    <3>3. pos' = Records!DecidedAt(next)
      BY <1>1, <1>3, <1>6, <2>4 DEF Records!DecidedAt, Records!HandshakeRecord, Records!REC_HDR_LEN
    <3>4. Records!Verdict' = VerdictAt(next)
      BY <1>1, <1>3, <2>4, <3>1 DEF Records!Verdict, VerdictAt
    <3>5. FirstDecides(next)
      BY <1>3, <1>6, <3>2 DEF FirstDecides
    <3>6. pos' <= Surplus + 5 + MaxRecord
      <4>1. Start(next) \in Nat /\ Start(next) <= Surplus /\ Surplus \in Nat
        <5>1. next \in 1..L + 1
          BY <1>0, <1>6
        <5> QED
          BY <1>0, <1>3, <5>1, UndecidedShort
      <4> QED
        BY <1>0, <1>1, <1>3, <4>1
    <3>7. (got <= Records!Larger(initial, pos))'
      BY <2>1, <1>1 DEF Records!Larger
    <3>8. (\E d \in 1..Len(Records!recs) :
             FirstDecides(d) /\ pos = Records!DecidedAt(d) /\ Records!Verdict = VerdictAt(d))'
      BY <1>1, <1>6, <3>3, <3>4, <3>5, Static
    <3>9. (pos <= Surplus + 5 + MaxRecord)'
      BY <1>1, <3>6, Static
    <3> QED
      BY <3>1, <3>7, <3>8, <3>9, <2>2 DEF PrereadInv
  <2> QED
    BY <2>3, <2>4
<1>10. TlsInv'
  <2>1. phase' \in {"payload", "no_hello"}
    BY <1>1
  <2> QED
    BY <1>1, <2>1, GivenKept DEF RecordsInv, TlsInv
<1> QED
  BY <1>1, <1>7, <1>8, <1>9, <1>10, HopsKept DEF RecordsInv

\* read_tls_clienthello, the payload of a record.
LEMMA RecordPayloadStep ==
  ASSUME RecordsInv, Records!RecordPayload PROVE RecordsInv'
<1> DEFINE L == Len(Records!recs)
<1>1. /\ phase = "payload" /\ Records!ensure_bytes_available(pos + Records!recs[next].len)
      /\ pos' = pos + Records!recs[next].len /\ next' = next + 1
      /\ hello' = hello + Records!recs[next].len
      /\ needed' = IF hello' >= 4 /\ client.client_hello THEN {4 + client.body_len} ELSE needed
      /\ phase' = IF hello' >= 4 /\ ~client.client_hello THEN "no_hello"
                  ELSE IF Records!Complete(hello', needed') THEN "hello" ELSE "header"
      /\ UNCHANGED <<client, delivered, eof, initial, unsent, answers, plain, hops, first>>
  BY DEF Records!RecordPayload, Records!HandshakeHeader, Records!stream, Records!tls
<1>2. /\ pos = Start(next) + 5 /\ Undecided(next) /\ hello = Parsed(next) /\ next - 1 <= hello
      /\ got <= Records!Larger(initial, pos) /\ needed = NeededAfter(hello) /\ plain = <<>>
      /\ next <= L /\ Records!HandshakeRecord(Records!recs[next])
  BY <1>1 DEF RecordsInv, PrereadInv, Records!Prereading
<1>3. /\ initial <= got /\ pos <= got /\ got <= delivered /\ delivered <= Records!Total
  BY DEF RecordsInv, BytesInv
<1>0. /\ pos \in Nat /\ got \in Nat /\ initial \in Nat /\ delivered \in Nat /\ Records!Total \in Nat
      /\ next \in Nat /\ L \in Nat /\ next <= L + 1 /\ MaxRecord \in Nat /\ client \in Clients
      /\ hello \in Nat /\ client.client_hello \in BOOLEAN /\ client.body_len \in Nat
  BY RecordsTypes
<1>4. next \in 1..L /\ next + 1 \in 1..L + 1
  BY <1>2, RecordAt
<1>5. /\ Records!recs[next].len \in Nat /\ Records!recs[next].len <= MaxRecord
      /\ Records!recs[next].len > 0 /\ Records!recs[next].handshake
      /\ Start(next + 1) = Start(next) + 5 + Records!recs[next].len
      /\ Records!End(next) = Start(next + 1) /\ Start(next) \in Nat /\ Start(next + 1) \in Nat
  BY <1>2, RecordAt DEF Records!HandshakeRecord
<1>6. /\ got' \in Nat /\ got' >= got /\ got' >= pos' /\ got' <= delivered
      /\ got' = got \/ got' = pos'
  <2>1. pos + Records!recs[next].len \in Nat
    BY <1>0, <1>5, SMTT(30)
  <2> QED
    BY <1>1, <2>1, EnsureFacts
<1>7. /\ pos' = Start(next + 1) /\ hello' = Parsed(next + 1) /\ hello' = Records!Payload(next)
      /\ next <= hello' /\ hello' \in Nat /\ pos' \in Nat /\ hello <= hello'
  <2>1. /\ Parsed(next) = Start(next) - 5 * (next - 1)
        /\ Parsed(next + 1) = Start(next + 1) - 5 * ((next + 1) - 1)
        /\ Records!Payload(next) = Records!End(next) - next * 5
    BY DEF Parsed, Records!Payload, Records!REC_HDR_LEN
  <2>2. pos' = Start(next + 1) /\ pos' \in Nat
    BY <1>0, <1>1, <1>2, <1>5
  <2>3. hello' = Start(next + 1) - 5 * next /\ hello' > hello /\ hello' \in Nat
    <3> DEFINE size == Records!recs[next].len
    <3>1. /\ hello = Start(next) - 5 * (next - 1) /\ hello' = hello + size
          /\ Start(next + 1) = Start(next) + 5 + size /\ size \in Nat /\ size > 0
      BY <1>1, <1>2, <1>5, <2>1
    <3> HIDE DEF size
    <3>2. 5 * (next - 1) = 5 * next - 5 /\ 5 * next \in Nat
      BY <1>0
    <3>3. hello + size \in Nat /\ hello + size > hello
      BY <1>0, <3>1
    <3>4. hello + size = Start(next + 1) - 5 * next
      BY <1>0, <1>5, <3>1, <3>2, SMTT(30)
    <3> QED
      BY <3>1, <3>3, <3>4
  <2>4. next <= hello'
    BY <1>0, <1>2, <2>3
  <2> QED
    BY <1>0, <1>5, <2>1, <2>2, <2>3, <2>4
<1>8. needed' = NeededAfter(hello')
  <2>1. /\ NeededAfter(hello) = IF hello >= 4 /\ client.client_hello THEN {4 + client.body_len} ELSE {}
        /\ NeededAfter(hello') = IF hello' >= 4 /\ client.client_hello THEN {4 + client.body_len} ELSE {}
    BY DEF NeededAfter, Records!HandshakeHeader
  <2> QED
    BY <1>0, <1>1, <1>2, <1>7, <2>1, SMTT(30)
<1>9. Records!DecidedAt(next) = Start(next + 1)
  BY <1>5 DEF Records!DecidedAt
<1>10. Records!Decides(next) <=>
         \/ hello' >= 4 /\ ~client.client_hello
         \/ hello' >= 4 + client.body_len /\ client.client_hello
  BY <1>5, <1>7 DEF Records!Decides, Records!HandshakeHeader
<1>11. phase' = IF Records!Decides(next)
                THEN IF client.client_hello THEN "hello" ELSE "no_hello"
                ELSE "header"
  <2>1. Records!Complete(hello', needed') <=> hello' >= 4 + client.body_len /\ client.client_hello
    <3>1. needed' = IF hello' >= 4 /\ client.client_hello THEN {4 + client.body_len} ELSE {}
      BY <1>8 DEF NeededAfter, Records!HandshakeHeader
    <3> QED
      BY <1>0, <1>7, <3>1 DEF Records!Complete
  <2> QED
    BY <1>0, <1>1, <1>10, <2>1
<1>12. Records!TypeOK'
  <2>1. phase' \in {"header", "hello", "no_hello"}
    BY <1>11
  <2>2. needed' \in {{}, {Records!HandshakeHeader + client.body_len}}
    BY <1>8 DEF NeededAfter
  <2>3. next' \in 1..Len(Records!recs) + 1
    BY <1>1, <1>4
  <2> QED
    BY <1>1, <1>6, <1>7, <2>1, <2>2, <2>3, RecordsTypes
    DEF RecordsInv, Records!TypeOK, Records!recs, Records!Reading
<1>13. BytesInv'
  <2>1. Records!Total' = Records!Total
    BY <1>1, Static
  <2> QED
    BY <1>1, <1>3, <1>6, <2>1, RecordsTypes, SMTT(30) DEF BytesInv
<1>14. PrereadInv'
  <2>1. (got <= Records!Larger(initial, pos))'
    <3>1. got <= IF initial >= pos THEN initial ELSE pos
      BY <1>2 DEF Records!Larger
    <3>2. got' <= IF initial >= pos' THEN initial ELSE pos'
      <4>1. pos' >= pos
        <5>1. pos' = pos + Records!recs[next].len /\ Records!recs[next].len \in Nat /\ pos \in Nat
          BY <1>0, <1>1, <1>5
        <5>2. ASSUME NEW a \in Nat, NEW b \in Nat PROVE a + b >= a
          OBVIOUS
        <5> QED
          BY <5>1, <5>2
      <4> QED
        BY <1>0, <1>3, <1>6, <1>7, <3>1, <4>1
    <3> QED
      BY <1>1, <3>2 DEF Records!Larger
  <2>2. (needed = NeededAfter(hello) /\ plain = <<>>)'
    <3>1. NeededAfter(hello') = NeededAfter(hello)'
      BY <1>1 DEF NeededAfter, Records!HandshakeHeader
    <3> QED
      BY <1>1, <1>2, <1>8, <3>1
  <2>3. CASE ~Records!Decides(next)
    <3>1. phase' = "header"
      BY <1>11, <2>3
    <3>2. Undecided(next + 1)
      BY <1>2, <1>4, <2>3, RecordsTypes DEF Undecided
    <3>3. (Undecided(next) /\ hello = Parsed(next) /\ next - 1 <= hello /\ pos = Start(next))'
      <4>1. \A n : (Undecided(n)' <=> Undecided(n)) /\ Parsed(n)' = Parsed(n) /\ Start(n)' = Start(n)
        BY <1>1, Static
      <4> QED
        BY <1>0, <1>1, <1>7, <3>2, <4>1
    <3> QED
      BY <3>1, <3>3, <2>1, <2>2 DEF PrereadInv
  <2>4. CASE Records!Decides(next)
    <3>1. phase' \in {"hello", "no_hello"}
      BY <1>11, <2>4
    <3>2. FirstDecides(next)
      BY <1>2, <1>4, <2>4 DEF FirstDecides
    <3>3. Records!Verdict' = VerdictAt(next)
      BY <1>2, <1>7, <1>8, <1>11, <2>4 DEF Records!Verdict, VerdictAt
    <3>4. pos' <= Surplus + 5 + MaxRecord
      <4>1. Start(next) <= Surplus /\ Surplus \in Nat
        <5>1. next \in 1..L + 1
          BY <1>0, <1>4
        <5> QED
          BY <1>0, <1>2, <5>1, UndecidedShort
      <4> QED
        BY <1>0, <1>5, <1>7, <4>1, SMTT(30)
    <3>5. (\E d \in 1..Len(Records!recs) :
             FirstDecides(d) /\ pos = Records!DecidedAt(d) /\ Records!Verdict = VerdictAt(d))'
      BY <1>1, <1>4, <1>7, <1>9, <3>2, <3>3, Static
    <3>6. (pos <= Surplus + 5 + MaxRecord)'
      BY <1>1, <3>4, Static
    <3> QED
      BY <3>1, <3>5, <3>6, <2>1, <2>2 DEF PrereadInv
  <2> QED
    BY <2>3, <2>4
<1>15. TlsInv'
  <2>1. phase' \in {"header", "hello", "no_hello"}
    BY <1>11
  <2> QED
    BY <1>1, <2>1, GivenKept DEF RecordsInv, TlsInv
<1> QED
  BY <1>1, <1>12, <1>13, <1>14, <1>15, HopsKept DEF RecordsInv

\* The socket and the bytes go to another router, or tls_handshake starts over.
LEMMA PassOnStep ==
  ASSUME RecordsInv, Records!PassOn PROVE RecordsInv'
<1> DEFINE L == Len(Records!recs)
<1>1. /\ phase \in {"hello", "no_hello"} /\ hops < MaxHops /\ hops' = hops + 1
      /\ first' = IF hops = 0 THEN {Records!Verdict} ELSE first
      /\ initial' = got /\ got' = got /\ pos' = 0 /\ next' = 1 /\ hello' = 0 /\ needed' = {}
      /\ phase' = "header"
      /\ UNCHANGED <<client, delivered, eof, unsent, answers, plain>>
  BY DEF Records!PassOn, Records!PassedBytes, Records!stream, Records!tls
<1>2. PICK d \in 1..L :
        FirstDecides(d) /\ pos = Records!DecidedAt(d) /\ Records!Verdict = VerdictAt(d)
  BY <1>1 DEF RecordsInv, PrereadInv
<1>3. plain = <<>>
  BY <1>1 DEF RecordsInv, PrereadInv, Records!Prereading
<1>4. /\ initial <= got /\ pos <= got /\ got <= delivered /\ delivered <= Records!Total
      /\ Records!Total' = Records!Total
  BY <1>1, Static DEF RecordsInv, BytesInv
<1>5. /\ client \in Clients /\ L \in Nat \ {0} /\ got \in Nat /\ pos \in Nat /\ hops \in Nat
      /\ MaxHops \in Nat /\ initial \in Nat /\ Records!recs' = Records!recs
  BY <1>1, RecordsTypes, Static
<1>6. Records!TypeOK'
  <2>1. next' \in 1..Len(Records!recs) + 1 /\ hops' \in 0..MaxHops /\ 0 \in Nat
    BY <1>1, <1>5
  <2> QED
    BY <1>1, <1>5, <2>1 DEF RecordsInv, Records!TypeOK, Records!Reading
<1>7. BytesInv'
  BY <1>1, <1>4, <1>5 DEF BytesInv
<1>8. PrereadInv'
  <2>1. (got <= Records!Larger(initial, pos))'
    BY <1>1, <1>5 DEF Records!Larger
  <2>2. (needed = NeededAfter(hello))'
    BY <1>1 DEF NeededAfter, Records!HandshakeHeader
  <2>3. Undecided(1) /\ Parsed(1) = 0 /\ Start(1) = 0
    BY <1>5, Layout DEF Undecided, Parsed
  <2>4. (Undecided(next) /\ hello = Parsed(next) /\ next - 1 <= hello /\ pos = Start(next))'
    <3>1. \A n : (Undecided(n)' <=> Undecided(n)) /\ Parsed(n)' = Parsed(n) /\ Start(n)' = Start(n)
      BY <1>1, Static
    <3> QED
      BY <1>1, <2>3, <3>1
  <2> QED
    BY <1>1, <1>3, <2>1, <2>2, <2>4 DEF PrereadInv
<1>9. HopsInv'
  <2>1. CASE hops = 0
    <3>1. first' = {VerdictAt(d)} /\ Records!DecidedAt(d) <= initial'
      BY <1>1, <1>2, <1>4, <2>1
    <3>2. (\E e \in 1..Len(Records!recs) :
             FirstDecides(e) /\ Records!DecidedAt(e) <= initial /\ first = {VerdictAt(e)})'
      BY <1>1, <1>2, <3>1, Static
    <3> QED
      BY <3>2 DEF HopsInv
  <2>2. CASE hops > 0
    <3>1. PICK e \in 1..L :
            FirstDecides(e) /\ Records!DecidedAt(e) <= initial /\ first = {VerdictAt(e)}
      BY <2>2 DEF RecordsInv, HopsInv
    <3>2. Records!DecidedAt(e) \in Nat
      BY <1>5, <3>1, DecidedAtType
    <3>3. first' = {VerdictAt(e)} /\ Records!DecidedAt(e) <= initial'
      BY <1>1, <1>4, <1>5, <2>2, <3>1, <3>2
    <3>4. (\E x \in 1..Len(Records!recs) :
             FirstDecides(x) /\ Records!DecidedAt(x) <= initial /\ first = {VerdictAt(x)})'
      BY <1>1, <3>1, <3>3, Static
    <3> QED
      BY <3>4 DEF HopsInv
  <2> QED
    BY <1>5, <2>1, <2>2
<1>10. TlsInv'
  BY <1>1, GivenKept DEF RecordsInv, TlsInv
<1> QED
  BY <1>6, <1>7, <1>8, <1>9, <1>10 DEF RecordsInv

\* tls_handshake starts over with the bytes that have been read.
LEMMA TlsStartStep ==
  ASSUME RecordsInv, Records!TlsStart PROVE RecordsInv'
<1>1. /\ phase \in {"hello", "no_hello"} /\ pos' = 0 /\ next' = 1 /\ phase' = "tls_header"
      /\ UNCHANGED <<client, delivered, eof, initial, got, hello, needed, unsent, answers, plain,
                     hops, first>>
  BY DEF Records!TlsStart, Records!stream, Records!preread, Records!tls
<1>2. plain = <<>>
  BY <1>1 DEF RecordsInv, PrereadInv, Records!Prereading
<1>3. /\ client \in Clients /\ Len(Records!recs) \in Nat \ {0} /\ got \in Nat
      /\ client.finished \in Nat /\ Records!recs' = Records!recs
  BY <1>1, RecordsTypes, Static
<1>4. Records!TypeOK'
  <2>1. next' \in 1..Len(Records!recs) + 1
    BY <1>1, <1>3
  <2> QED
    BY <1>1, <1>3, <2>1 DEF RecordsInv, Records!TypeOK, Records!Reading
<1>5. BytesInv'
  BY <1>1, <1>3, Static DEF RecordsInv, BytesInv
<1>6. PrereadInv'
  BY <1>1 DEF PrereadInv, Records!Prereading
<1>7. TlsInv'
  <2>1. (pos = Start(next))'
    <3>1. Start(1) = 0
      BY <1>3, Layout
    <3>2. \A n : Start(n)' = Start(n)
      BY <1>1, Static
    <3> QED
      BY <1>1, <3>1, <3>2
  <2>2. Records!is_handshaking'
    BY <1>1, <1>3 DEF Records!is_handshaking
  <2> QED
    BY <1>1, <1>2, <2>1, <2>2, GivenKept DEF RecordsInv, TlsInv
<1> QED
  BY <1>1, <1>4, <1>5, <1>6, <1>7, HopsKept DEF RecordsInv

\* tls_handshake, the header of a record.
LEMMA TlsHeaderStep ==
  ASSUME RecordsInv, Records!TlsHeader PROVE RecordsInv'
<1> DEFINE L == Len(Records!recs)
<1>1. /\ phase = "tls_header" /\ Records!ensure_bytes_available(pos + 5) /\ phase' = "tls_payload"
      /\ UNCHANGED <<client, delivered, eof, initial, pos, next, hello, needed, unsent, answers,
                     plain, hops, first>>
  BY DEF Records!TlsHeader, Records!REC_HDR_LEN, Records!stream, Records!preread, Records!tls
<1>2. /\ got' \in Nat /\ got' >= got /\ got' >= pos + 5 /\ got' <= delivered
  BY <1>1, EnsureFacts, RecordsTypes, SMTT(30)
<1>3. pos = Start(next) /\ Records!is_handshaking /\ plain = <<>>
  BY <1>1 DEF RecordsInv, TlsInv
<1>4. /\ initial <= got /\ pos <= got /\ got <= delivered /\ delivered <= Records!Total
      /\ Records!Total' = Records!Total /\ Records!recs' = Records!recs
  BY <1>1, Static DEF RecordsInv, BytesInv
<1>5. /\ pos \in Nat /\ got \in Nat /\ initial \in Nat /\ delivered \in Nat /\ Records!Total \in Nat
      /\ next \in Nat /\ L \in Nat /\ next <= L + 1 /\ client \in Clients
  BY RecordsTypes
<1>6. next <= L
  <2>1. ASSUME next = L + 1 PROVE FALSE
    <3>1. pos = Records!Total
      BY <1>3, <1>5, <2>1, Layout
    <3> QED
      BY <1>2, <1>4, <1>5, <3>1
  <2> QED
    BY <1>5, <2>1
<1>7. Records!TypeOK'
  BY <1>1, <1>2, <1>4 DEF RecordsInv, Records!TypeOK, Records!Reading
<1>8. BytesInv'
  BY <1>1, <1>2, <1>4, <1>5 DEF BytesInv
<1>9. PrereadInv'
  BY <1>1 DEF PrereadInv, Records!Prereading
<1>10. TlsInv'
  <2>1. (pos = Start(next))' /\ Records!is_handshaking'
    BY <1>1, <1>3, Static DEF Records!is_handshaking
  <2> QED
    BY <1>1, <1>3, <1>4, <1>6, <2>1, GivenKept DEF RecordsInv, TlsInv
<1> QED
  BY <1>1, <1>7, <1>8, <1>9, <1>10, HopsKept DEF RecordsInv

\* tls_handshake, a record that rustls is fed.
LEMMA TlsRecordStep ==
  ASSUME RecordsInv, Records!TlsRecord PROVE RecordsInv'
<1> DEFINE L == Len(Records!recs)
<1>1. /\ phase = "tls_payload"
      /\ Records!ensure_bytes_available(pos + 5 + Records!recs[next].len)
      /\ pos' = Records!End(next) /\ next' = next + 1
      /\ unsent' = unsent + (IF Records!recs[next].answered THEN 1 ELSE 0)
      /\ phase' = IF next = client.finished THEN "drain" ELSE "tls_write"
      /\ UNCHANGED <<client, delivered, eof, initial, hello, needed, answers, plain, hops, first>>
  BY DEF Records!TlsRecord, Records!FeedRecord, Records!AfterRecord, Records!REC_HDR_LEN,
     Records!stream, Records!preread
<1>2. pos = Start(next) /\ Records!is_handshaking /\ plain = <<>> /\ next <= L
  BY <1>1 DEF RecordsInv, TlsInv
<1>3. /\ next \in 1..L /\ next + 1 \in 1..L + 1 /\ Records!recs[next].len \in Nat
      /\ Records!End(next) = Start(next + 1) /\ Start(next + 1) \in Nat
      /\ Start(next + 1) = Start(next) + 5 + Records!recs[next].len
  BY <1>2, RecordAt
<1>4. /\ pos \in Nat /\ got \in Nat /\ initial \in Nat /\ delivered \in Nat /\ Records!Total \in Nat
      /\ next \in Nat /\ L \in Nat /\ client \in Clients /\ unsent \in Nat
      /\ client.finished \in Nat
  BY RecordsTypes
<1>5. /\ got' \in Nat /\ got' >= got /\ got' >= pos' /\ got' <= delivered
  <2>1. pos + 5 + Records!recs[next].len \in Nat /\ pos' = pos + 5 + Records!recs[next].len
    BY <1>1, <1>2, <1>3, <1>4
  <2> QED
    BY <1>1, <2>1, EnsureFacts
<1>6. /\ initial <= got /\ pos <= got /\ got <= delivered /\ delivered <= Records!Total
      /\ Records!Total' = Records!Total /\ Records!recs' = Records!recs
  BY <1>1, Static DEF RecordsInv, BytesInv
<1>7. Records!TypeOK'
  <2>1. unsent' \in Nat /\ next' \in 1..L + 1 /\ pos' \in Nat /\ phase' \in {"drain", "tls_write"}
    BY <1>1, <1>3, <1>4, SMTT(30)
  <2> QED
    BY <1>1, <1>5, <1>6, <2>1 DEF RecordsInv, Records!TypeOK, Records!Reading
<1>8. BytesInv'
  BY <1>1, <1>4, <1>5, <1>6 DEF BytesInv
<1>9. PrereadInv'
  BY <1>1 DEF PrereadInv, Records!Prereading
<1>10. TlsInv'
  <2>1. (pos = Start(next))'
    <3>1. \A n : Start(n)' = Start(n)
      BY <1>1, Static
    <3> QED
      BY <1>1, <1>3, <3>1
  <2>2. Records!is_handshaking' <=> next # client.finished
    <3>1. next <= client.finished \/ client.finished = 0
      BY <1>2 DEF Records!is_handshaking
    <3>2. Records!is_handshaking' <=> next + 1 <= client.finished \/ client.finished = 0
      BY <1>1 DEF Records!is_handshaking
    <3> QED
      BY <1>3, <1>4, <3>1, <3>2
  <2>3. phase' = "drain" \/ (phase' = "tls_write" /\ Records!is_handshaking')
    BY <1>1, <2>2
  <2>4. phase' = "drain" => ~Records!is_handshaking' /\ Records!Given(next - 1)'
    <3>1. ASSUME phase' = "drain" PROVE Records!Given(next - 1)'
      <4>1. next = client.finished /\ next' - 1 = next
        BY <1>1, <1>4, <3>1
      <4>2. Records!Given(next)
        BY <1>2, <1>4, <4>1, NothingGiven
      <4>3. \A m : Records!Given(m)' <=> Records!Given(m)
        BY <1>1, GivenKept
      <4> QED
        BY <4>1, <4>2, <4>3
    <3> QED
      BY <1>1, <2>2, <3>1
  <2> QED
    BY <1>1, <1>2, <2>1, <2>3, <2>4, GivenKept DEF RecordsInv, TlsInv
<1> QED
  BY <1>1, <1>7, <1>8, <1>9, <1>10, HopsKept DEF RecordsInv

\* The data of one more record, or a control record that has none.
LEMMA GivenStep ==
  ASSUME RecordsInv, client' = client,
         NEW n \in 1..Len(Records!recs), n > client.finished, Records!Given(n - 1),
         plain' = Records!PlainWith(n)
  PROVE  plain' \in Seq(1..Len(Records!recs)) /\ Records!Given(n)' /\ DataInv'
<1> DEFINE L == Len(Records!recs)
           f == client.finished
<1>1. /\ plain \in Seq(1..L) /\ Len(plain) \in Nat /\ L \in Nat /\ f \in Nat
      /\ Records!recs' = Records!recs
  BY RecordsTypes, Static
<1>2. /\ \A b \in 1..Len(plain) : plain[b] \in f + 1..n - 1 /\ ~Records!recs[plain[b]].control
      /\ \A a, b \in 1..Len(plain) : a < b => plain[a] < plain[b]
      /\ \A x \in f + 1..n - 1 :
           ~Records!recs[x].control => \E b \in 1..Len(plain) : plain[b] = x
  BY DEF Records!Given
<1>3. CASE Records!recs[n].control
  <2>1. plain' = plain
    BY <1>3 DEF Records!PlainWith
  <2>2. \A x \in f + 1..n : ~Records!recs[x].control => \E b \in 1..Len(plain) : plain[b] = x
    <3>1. \A x \in f + 1..n : x # n => x \in f + 1..n - 1
      BY <1>1
    <3> QED
      BY <1>2, <1>3, <3>1
  <2>3. \A b \in 1..Len(plain) : plain[b] \in f + 1..n
    BY <1>1, <1>2
  <2>4. Records!Given(n)'
    BY <1>1, <1>2, <2>1, <2>2, <2>3 DEF Records!Given
  <2> QED
    BY <1>1, <2>1, <2>4 DEF DataInv
<1>4. CASE ~Records!recs[n].control
  <2>1. /\ plain' = Append(plain, n) /\ plain' \in Seq(1..L) /\ Len(plain') = Len(plain) + 1
        /\ \A b \in 1..Len(plain) : plain'[b] = plain[b]
        /\ plain'[Len(plain) + 1] = n
    BY <1>1, <1>4 DEF Records!PlainWith
  <2>2. \A b \in 1..Len(plain) + 1 : b \in 1..Len(plain) \/ b = Len(plain) + 1
    BY <1>1
  <2>3. \A b \in 1..Len(plain') :
          plain'[b] \in f + 1..n /\ ~Records!recs[plain'[b]].control
    BY <1>1, <1>2, <1>4, <2>1, <2>2
  <2>4. \A a, b \in 1..Len(plain') : a < b => plain'[a] < plain'[b]
    <3> SUFFICES ASSUME NEW a \in 1..Len(plain'), NEW b \in 1..Len(plain'), a < b
                 PROVE  plain'[a] < plain'[b]
      OBVIOUS
    <3>1. a \in 1..Len(plain)
      BY <1>1, <2>1
    <3>2. CASE b \in 1..Len(plain)
      BY <1>2, <2>1, <3>1, <3>2
    <3>3. CASE b = Len(plain) + 1
      BY <1>1, <1>2, <2>1, <3>1, <3>3
    <3> QED
      BY <2>1, <2>2, <3>2, <3>3
  <2>5. \A x \in f + 1..n :
          ~Records!recs[x].control => \E b \in 1..Len(plain') : plain'[b] = x
    <3> SUFFICES ASSUME NEW x \in f + 1..n, ~Records!recs[x].control
                 PROVE  \E b \in 1..Len(plain') : plain'[b] = x
      OBVIOUS
    <3>1. CASE x = n
      <4>1. Len(plain) + 1 \in 1..Len(plain')
        BY <1>1, <2>1
      <4> QED
        BY <2>1, <3>1, <4>1
    <3>2. CASE x # n
      <4>1. x \in f + 1..n - 1
        BY <1>1, <3>2
      <4>2. PICK b \in 1..Len(plain) : plain[b] = x
        BY <1>2, <4>1
      <4>3. b \in 1..Len(plain') /\ plain'[b] = x
        BY <1>1, <2>1, <4>2
      <4> QED
        BY <4>3
    <3> QED
      BY <3>1, <3>2
  <2>6. Records!Given(n)'
    BY <1>1, <2>3, <2>4, <2>5 DEF Records!Given
  <2> QED
    BY <1>1, <2>1, <2>6 DEF DataInv
<1> QED
  BY <1>3, <1>4

\* process_buffered_tls_records, a record that is complete.
LEMMA DrainRecordStep ==
  ASSUME RecordsInv, Records!DrainRecord PROVE RecordsInv'
<1> DEFINE L == Len(Records!recs)
<1>1. /\ phase = "drain" /\ pos + 5 <= got /\ Records!End(next) <= got
      /\ pos' = Records!End(next) /\ next' = next + 1
      /\ unsent' = unsent + (IF Records!recs[next].answered THEN 1 ELSE 0)
      /\ plain' = Records!PlainWith(next)
      /\ UNCHANGED <<client, delivered, eof, initial, got, hello, needed, phase, answers, hops,
                     first>>
  BY DEF Records!DrainRecord, Records!FeedRecord, Records!REC_HDR_LEN, Records!stream,
     Records!preread
<1>2. /\ pos = Start(next) /\ ~Records!is_handshaking /\ Records!Given(next - 1)
  BY <1>1 DEF RecordsInv, TlsInv
<1>3. /\ initial <= got /\ pos <= got /\ got <= delivered /\ delivered <= Records!Total
      /\ Records!Total' = Records!Total /\ Records!recs' = Records!recs
  BY <1>1, Static DEF RecordsInv, BytesInv
<1>4. /\ pos \in Nat /\ got \in Nat /\ initial \in Nat /\ delivered \in Nat /\ Records!Total \in Nat
      /\ next \in Nat /\ 1 <= next /\ next <= L + 1 /\ L \in Nat /\ client \in Clients
      /\ unsent \in Nat /\ client.finished \in Nat
  BY RecordsTypes
<1>5. next <= L
  <2>1. ASSUME next = L + 1 PROVE FALSE
    <3>1. pos = Records!Total
      BY <1>2, <1>4, <2>1, Layout
    <3> QED
      BY <1>1, <1>3, <1>4, <3>1
  <2> QED
    BY <1>4, <2>1
<1>6. /\ next \in 1..L /\ next + 1 \in 1..L + 1 /\ Records!End(next) = Start(next + 1)
      /\ Start(next + 1) \in Nat
  BY <1>5, RecordAt
<1>7. PICK n \in 1..L : n = next
  BY <1>6
<1>8. plain' \in Seq(1..L) /\ Records!Given(n)' /\ DataInv'
  <2>1. n > client.finished
    BY <1>2, <1>4, <1>7 DEF Records!is_handshaking
  <2> QED
    BY <1>1, <1>2, <1>7, <2>1, GivenStep
<1>9. Records!TypeOK'
  <2>1. unsent' \in Nat /\ next' \in 1..L + 1 /\ pos' \in Nat
    BY <1>1, <1>4, <1>6
  <2> QED
    BY <1>1, <1>3, <1>8, <2>1 DEF RecordsInv, Records!TypeOK, Records!Reading
<1>10. BytesInv'
  BY <1>1, <1>3 DEF BytesInv
<1>11. PrereadInv'
  BY <1>1 DEF PrereadInv, Records!Prereading
<1>12. TlsInv'
  <2>1. (pos = Start(next))'
    <3>1. \A x : Start(x)' = Start(x)
      BY <1>1, Static
    <3> QED
      BY <1>1, <1>6, <3>1
  <2>2. ~Records!is_handshaking'
    <3>1. ~(next <= client.finished) /\ client.finished # 0
      BY <1>2 DEF Records!is_handshaking
    <3>2. ~(next + 1 <= client.finished)
      BY <1>4, <3>1
    <3> QED
      BY <1>1, <3>1, <3>2 DEF Records!is_handshaking
  <2>3. Records!Given(next - 1)'
    <3>1. next' - 1 = n
      BY <1>1, <1>4, <1>7
    <3> QED
      BY <1>8, <3>1
  <2> QED
    BY <1>1, <1>8, <2>1, <2>2, <2>3 DEF TlsInv
<1> QED
  BY <1>1, <1>9, <1>10, <1>11, <1>12, HopsKept DEF RecordsInv

\* The steps of tls_handshake that read nothing: the buffered records are done,
\* rustls' answers are written, the kernel gets the keys.
LEMMA TlsQuietStep ==
  ASSUME RecordsInv, Records!DrainDone \/ Records!TlsWrite \/ Records!SetKeys PROVE RecordsInv'
<1> DEFINE L == Len(Records!recs)
<1>1. UNCHANGED <<client, delivered, eof, initial, got, pos, next, hello, needed, plain, hops,
                  first>>
  BY DEF Records!DrainDone, Records!TlsWrite, Records!SetKeys, Records!stream, Records!preread,
     Records!tls
<1>2. /\ Records!recs' = Records!recs /\ Records!Total' = Records!Total
      /\ \A n : Start(n)' = Start(n)
      /\ Records!is_handshaking' <=> Records!is_handshaking
      /\ \A m : Records!Given(m)' <=> Records!Given(m)
      /\ (DataInv' <=> DataInv) /\ (KernelInv' <=> KernelInv)
  BY <1>1, Static, GivenKept DEF Records!is_handshaking
<1>3. unsent \in Nat /\ answers \in Nat /\ L \in Nat
  BY RecordsTypes
<1>4. BytesInv'
  BY <1>1, <1>2 DEF RecordsInv, BytesInv
<1>5. CASE Records!DrainDone
  <2>1. phase = "drain" /\ pos = got /\ phase' = "tls_write" /\ UNCHANGED <<unsent, answers>>
    BY <1>5 DEF Records!DrainDone, Records!tls
  <2>2. Records!TypeOK'
    BY <1>1, <1>2, <2>1 DEF RecordsInv, Records!TypeOK, Records!Reading
  <2>3. PrereadInv'
    BY <2>1 DEF PrereadInv, Records!Prereading
  <2>4. TlsInv'
    BY <1>1, <1>2, <2>1 DEF RecordsInv, TlsInv
  <2> QED
    BY <1>1, <1>4, <2>2, <2>3, <2>4, HopsKept DEF RecordsInv
<1>6. CASE Records!TlsWrite
  <2>1. /\ phase = "tls_write" /\ answers' = answers + unsent /\ unsent' = 0
        /\ phase' = IF Records!is_handshaking THEN "tls_header" ELSE "keys"
    BY <1>6 DEF Records!TlsWrite, Records!Flush
  <2>2. phase' \in {"tls_header", "keys"} /\ answers' \in Nat /\ unsent' \in Nat
    BY <1>3, <2>1
  <2>3. Records!TypeOK'
    BY <1>1, <1>2, <2>2 DEF RecordsInv, Records!TypeOK, Records!Reading
  <2>4. PrereadInv'
    BY <2>2 DEF PrereadInv, Records!Prereading
  <2>5. TlsInv'
    <3>1. CASE Records!is_handshaking
      BY <1>1, <1>2, <2>1, <3>1 DEF RecordsInv, TlsInv
    <3>2. CASE ~Records!is_handshaking
      BY <1>1, <1>2, <2>1, <3>2 DEF RecordsInv, TlsInv
    <3> QED
      BY <3>1, <3>2
  <2> QED
    BY <1>1, <1>4, <2>3, <2>4, <2>5, HopsKept DEF RecordsInv
<1>7. CASE Records!SetKeys
  <2>1. phase = "keys" /\ phase' = "ktls" /\ UNCHANGED <<unsent, answers>>
    BY <1>7 DEF Records!SetKeys, Records!tls
  <2>2. Records!TypeOK'
    BY <1>1, <1>2, <2>1 DEF RecordsInv, Records!TypeOK, Records!Reading
  <2>3. PrereadInv'
    BY <2>1 DEF PrereadInv, Records!Prereading
  <2>4. KernelInv
    <3>1. /\ ~Records!is_handshaking /\ got = Start(next) /\ Records!Given(next - 1)
      BY <2>1 DEF RecordsInv, TlsInv
    <3>2. /\ next \in Nat /\ next <= L + 1 /\ client.finished \in Nat
      BY RecordsTypes
    <3>3. next - 1 \in 1..L /\ client.finished <= next - 1 /\ (next - 1) + 1 = next
      BY <1>3, <3>1, <3>2 DEF Records!is_handshaking
    <3> QED
      BY <3>1, <3>3 DEF KernelInv
  <2>5. TlsInv'
    BY <1>1, <1>2, <2>1, <2>4 DEF RecordsInv, TlsInv
  <2> QED
    BY <1>1, <1>4, <2>2, <2>3, <2>5, HopsKept DEF RecordsInv
<1> QED
  BY <1>5, <1>6, <1>7

\* The record that the kernel reads is the one behind the data given so far.
LEMMA KernelAtRecord ==
  ASSUME RecordsInv, phase = "ktls",
         NEW n \in 1..Len(Records!recs), Records!recs[n].at = got
  PROVE  /\ n > client.finished /\ Records!Given(n - 1) /\ Records!End(n) = Start(n + 1)
         /\ Start(n + 1) \in Nat /\ Start(n + 1) >= got
<1> DEFINE L == Len(Records!recs)
<1>1. PICK m \in 1..L : client.finished <= m /\ got = Start(m + 1) /\ Records!Given(m)
  BY DEF RecordsInv, TlsInv, KernelInv
<1>2. L \in Nat /\ client \in Clients /\ client.finished \in Nat
  BY RecordsTypes
<1>3. m + 1 \in 1..L + 1 /\ n \in 1..L + 1 /\ n + 1 \in 1..L + 1 /\ n < n + 1
  BY <1>2
<1>4. /\ Records!recs[n].at = Start(n) /\ Records!End(n) = Start(n + 1)
      /\ Start(n) \in Nat /\ Start(m + 1) \in Nat /\ Start(n + 1) \in Nat
      /\ \A x, y \in 1..L + 1 : x < y => Start(x) + 5 <= Start(y)
  BY <1>2, <1>3, Layout
<1>5. n = m + 1
  <2>1. ~(n < m + 1) /\ ~(m + 1 < n)
    BY <1>1, <1>3, <1>4
  <2> QED
    BY <1>2, <2>1
<1>6. n - 1 = m /\ n > client.finished
  BY <1>1, <1>2, <1>5
<1>7. Start(n) + 5 <= Start(n + 1)
  BY <1>3, <1>4
<1> QED
  BY <1>1, <1>4, <1>6, <1>7

\* The kernel decrypts the record where the socket was read to.
LEMMA KernelRecordStep ==
  ASSUME RecordsInv, Records!KernelRecord PROVE RecordsInv'
<1> DEFINE L == Len(Records!recs)
<1>1. /\ phase = "ktls"
      /\ UNCHANGED <<client, delivered, eof, initial, pos, next, hello, needed, phase, unsent,
                     answers, hops, first>>
  BY DEF Records!KernelRecord, Records!stream, Records!preread
<1>2. PICK n \in 1..L :
        /\ Records!recs[n].at = got /\ Records!End(n) <= delivered /\ ~Records!recs[n].control
        /\ got' = Records!End(n) /\ plain' = Append(plain, n)
  BY DEF Records!KernelRecord
<1>3. /\ initial <= got /\ pos <= got /\ got <= delivered /\ delivered <= Records!Total
      /\ Records!Total' = Records!Total /\ Records!recs' = Records!recs
  BY <1>1, Static DEF RecordsInv, BytesInv
<1>4. /\ pos \in Nat /\ got \in Nat /\ initial \in Nat /\ delivered \in Nat /\ Records!Total \in Nat
      /\ L \in Nat /\ client.finished \in Nat
  BY RecordsTypes
<1>5. /\ n > client.finished /\ Records!Given(n - 1) /\ Records!End(n) = Start(n + 1)
      /\ Start(n + 1) \in Nat /\ Start(n + 1) >= got
  BY <1>1, <1>2, KernelAtRecord
<1>6. got' = Start(n + 1) /\ got' >= got /\ got' <= delivered /\ got' \in Nat
  BY <1>2, <1>5
<1>7. plain' \in Seq(1..L) /\ Records!Given(n)' /\ DataInv'
  <2>1. plain' = Records!PlainWith(n)
    BY <1>2 DEF Records!PlainWith
  <2> QED
    BY <1>1, <1>5, <2>1, GivenStep
<1>8. Records!TypeOK'
  BY <1>1, <1>3, <1>6, <1>7 DEF RecordsInv, Records!TypeOK, Records!Reading
<1>9. BytesInv'
  BY <1>1, <1>3, <1>4, <1>6 DEF BytesInv
<1>10. PrereadInv'
  BY <1>1 DEF PrereadInv, Records!Prereading
<1>11. TlsInv'
  <2>1. KernelInv'
    <3>1. client.finished <= n
      BY <1>4, <1>5
    <3>2. (got = Start(n + 1))'
      BY <1>1, <1>6, Static
    <3> QED
      BY <1>1, <1>3, <1>7, <3>1, <3>2 DEF KernelInv
  <2> QED
    BY <1>1, <1>7, <2>1 DEF TlsInv
<1> QED
  BY <1>1, <1>8, <1>9, <1>10, <1>11, HopsKept DEF RecordsInv

\* The kernel's read fails at a control record.
LEMMA KernelControlStep ==
  ASSUME RecordsInv, Records!KernelControl PROVE RecordsInv'
<1>1. /\ phase = "ktls" /\ phase' = "eio"
      /\ UNCHANGED <<client, delivered, eof, initial, got, pos, next, hello, needed, unsent,
                     answers, plain, hops, first>>
  BY DEF Records!KernelControl, Records!stream, Records!preread, Records!tls
<1>2. Records!TypeOK'
  BY <1>1 DEF RecordsInv, Records!TypeOK, Records!recs
<1>3. BytesInv'
  BY <1>1, Static DEF RecordsInv, BytesInv
<1>4. PrereadInv'
  BY <1>1 DEF PrereadInv, Records!Prereading
<1>5. TlsInv'
  BY <1>1, GivenKept DEF RecordsInv, TlsInv
<1> QED
  BY <1>1, <1>2, <1>3, <1>4, <1>5, HopsKept DEF RecordsInv

\* Every step of the connection keeps the invariant.
LEMMA RecordsNext ==
  ASSUME RecordsInv, Records!Next PROVE RecordsInv'
<1>1. CASE Records!Arrive \/ Records!Close
  BY <1>1, StreamStep
<1>2. CASE Records!ReadFails \/ Records!TlsFails \/ Records!DrainPartial
  BY <1>2, FailStep DEF Records!ReadFails, Records!TlsFails, Records!DrainPartial, Records!stream,
     Records!preread, Records!tls
<1>3. CASE Records!Preread
  BY <1>3, RecordHeaderStep, RecordPayloadStep, PassOnStep DEF Records!Preread
<1>4. CASE Records!TlsStart \/ Records!TlsHeader \/ Records!TlsRecord \/ Records!DrainRecord
  BY <1>4, TlsStartStep, TlsHeaderStep, TlsRecordStep, DrainRecordStep
<1>5. CASE Records!DrainDone \/ Records!TlsWrite \/ Records!SetKeys
  BY <1>5, TlsQuietStep
<1>6. CASE Records!KernelRead
  BY <1>6, KernelRecordStep, KernelControlStep DEF Records!KernelRead
<1> QED
  BY <1>1, <1>2, <1>3, <1>4, <1>5, <1>6 DEF Records!Next, Records!Handshake

\* The connection keeps the invariant beside the parser.
LEMMA RecordsInvariant == HelloSpec => []RecordsInv
<1>1. HelloInit => RecordsInv
  BY RecordsInit DEF HelloInit
<1>2. RecordsInv /\ [HelloNext]_<<part, vars, records>> => RecordsInv'
  <2> SUFFICES ASSUME RecordsInv, [HelloNext]_<<part, vars, records>> PROVE RecordsInv'
    OBVIOUS
  <2>1. CASE Records!Next
    BY <2>1, RecordsNext
  <2>2. CASE UNCHANGED records
    BY <2>2, StreamStep
  <2> QED
    BY <2>1, <2>2 DEF HelloNext
<1> QED
  BY <1>1, <1>2, PTL DEF HelloSpec

-----------------------------------------------------------------------------
(* What the invariant says. *)

\* The first record that decides is the only first one.
LEMMA FirstIsOne ==
  ASSUME client \in Clients, NEW d, NEW e, FirstDecides(d), FirstDecides(e) PROVE d = e
<1>1. Len(Records!recs) \in Nat
  BY Layout
<1> QED
  BY <1>1 DEF FirstDecides, Undecided

\* Until the first message is known, no more has been read than up to the place
\* where any record that decides is found to do so.
LEMMA NotBeyond ==
  ASSUME RecordsInv, phase \in Records!Prereading,
         NEW d \in 1..Len(Records!recs), Records!Decides(d)
  PROVE  pos <= Records!DecidedAt(d) /\ Records!DecidedAt(d) \in Nat
<1> DEFINE L == Len(Records!recs)
<1>1. /\ client \in Clients /\ pos \in Nat /\ next \in Nat /\ next >= 1 /\ L \in Nat
  BY RecordsTypes
<1>2. /\ Records!DecidedAt(d) \in Nat /\ Start(d) + 5 <= Records!DecidedAt(d)
      /\ Records!HandshakeRecord(Records!recs[d]) => Records!DecidedAt(d) = Start(d + 1)
  BY <1>1, DecidedAtType
<1>3. /\ \A n \in 1..L + 1 : Start(n) \in Nat
      /\ \A x, y \in 1..L + 1 : x < y => Start(x) + 5 <= Start(y)
      /\ \A n \in 1..L : Start(n + 1) = Start(n) + 5 + Records!recs[n].len /\ Records!recs[n].len \in Nat
  <2>1. MaxRecord \in Nat
    BY RecordsTypes
  <2> QED
    BY <1>1, <2>1, Layout
<1>4. CASE phase \in {"header", "payload"}
  <2>1. Undecided(next)
    BY <1>4 DEF RecordsInv, PrereadInv
  <2>2. next <= d /\ d \in 1..L + 1 /\ next \in 1..L + 1
    BY <1>1, <2>1 DEF Undecided
  <2>3. Start(next) <= Start(d) /\ Start(next) \in Nat /\ Start(d) \in Nat
    BY <1>1, <1>3, <2>2
  <2>4. CASE phase = "header"
    BY <1>1, <1>2, <2>3, <2>4 DEF RecordsInv, PrereadInv
  <2>5. CASE phase = "payload"
    BY <1>1, <1>2, <2>3, <2>5 DEF RecordsInv, PrereadInv
  <2> QED
    BY <1>4, <2>4, <2>5
<1>5. CASE phase \in {"hello", "no_hello"}
  <2>1. PICK e \in 1..L : FirstDecides(e) /\ pos = Records!DecidedAt(e)
    BY <1>5 DEF RecordsInv, PrereadInv
  <2>2. e <= d
    BY <1>1, <2>1 DEF FirstDecides, Undecided
  <2>3. CASE e = d
    BY <1>1, <1>2, <2>1, <2>3
  <2>4. CASE e < d
    <3>1. Records!DecidedAt(e) <= Start(e + 1)
      <4>1. /\ Records!recs[e].at = Start(e) /\ Records!End(e) = Start(e + 1)
            /\ Start(e + 1) = Start(e) + 5 + Records!recs[e].len /\ Records!recs[e].len \in Nat
        BY <1>1, <1>3, Layout
      <4>2. Start(e) \in Nat
        BY <1>1, <1>3
      <4> QED
        BY <4>1, <4>2 DEF Records!DecidedAt, Records!REC_HDR_LEN
    <3>2. e + 1 \in 1..L + 1 /\ d \in 1..L + 1 /\ e + 1 <= d
      BY <1>1, <2>4
    <3>3. Start(e + 1) <= Start(d) /\ Start(e + 1) \in Nat /\ Start(d) \in Nat
      BY <1>3, <3>2
    <3> QED
      BY <1>1, <1>2, <2>1, <3>1, <3>3
  <2> QED
    BY <2>2, <2>3, <2>4
<1> QED
  BY <1>4, <1>5 DEF Records!Prereading

\* read_tls_clienthello reads up to the record that decides and not beyond it.
LEMMA PrereadIsExact == RecordsInv => Records!PrereadExact
<1> SUFFICES ASSUME RecordsInv, phase \in Records!Prereading
    PROVE  /\ \A d \in 1..Len(Records!recs) :
                Records!Decides(d) => got <= Records!Larger(initial, Records!DecidedAt(d))
           /\ phase \in {"hello", "no_hello"} =>
                \E d \in 1..Len(Records!recs) : Records!Decides(d) /\ pos = Records!DecidedAt(d)
  BY DEF Records!PrereadExact
<1>1. ASSUME NEW d \in 1..Len(Records!recs), Records!Decides(d)
      PROVE  got <= Records!Larger(initial, Records!DecidedAt(d))
  <2>1. pos <= Records!DecidedAt(d) /\ Records!DecidedAt(d) \in Nat
    BY <1>1, NotBeyond
  <2>2. got <= IF initial >= pos THEN initial ELSE pos
    BY DEF RecordsInv, PrereadInv, Records!Larger
  <2>3. got \in Nat /\ pos \in Nat /\ initial \in Nat
    BY RecordsTypes
  <2>4. got <= IF initial >= Records!DecidedAt(d) THEN initial ELSE Records!DecidedAt(d)
    BY <2>1, <2>2, <2>3
  <2> QED
    BY <2>4 DEF Records!Larger
<1>2. phase \in {"hello", "no_hello"} =>
        \E d \in 1..Len(Records!recs) : Records!Decides(d) /\ pos = Records!DecidedAt(d)
  BY DEF RecordsInv, PrereadInv, FirstDecides
<1> QED
  BY <1>1, <1>2

\* What has been buffered is bounded by what the ClientHello announces.
LEMMA PrereadIsBounded == RecordsInv => Records!PrereadBounded
<1> SUFFICES ASSUME RecordsInv, phase \in Records!Prereading
    PROVE  got <= Records!Larger(initial, Surplus + 5 + MaxRecord)
  BY DEF Records!PrereadBounded, Surplus, Records!REC_HDR_LEN
<1> DEFINE L == Len(Records!recs)
<1>1. /\ client \in Clients /\ got \in Nat /\ pos \in Nat /\ initial \in Nat /\ MaxRecord \in Nat
      /\ next \in Nat /\ next >= 1 /\ next <= L + 1 /\ L \in Nat /\ client.body_len \in Nat
      /\ got <= delivered /\ delivered <= Records!Total
  BY RecordsTypes DEF RecordsInv, BytesInv
<1>2. Surplus \in Nat
  BY <1>1 DEF Surplus, Records!HandshakeHeader
<1>3. pos <= Surplus + 5 + MaxRecord
  <2>1. CASE phase \in {"hello", "no_hello"}
    BY <2>1 DEF RecordsInv, PrereadInv
  <2>2. CASE phase = "payload"
    <3>1. next <= L /\ Undecided(next) /\ hello = Parsed(next) /\ next - 1 <= hello /\ pos = Start(next) + 5
      BY <2>2 DEF RecordsInv, PrereadInv
    <3>2. Start(next) \in Nat /\ Start(next) <= Surplus
      <4>1. next \in 1..L + 1
        BY <1>1
      <4> QED
        BY <1>1, <3>1, <4>1, UndecidedShort
    <3> QED
      BY <1>1, <1>2, <3>1, <3>2
  <2>3. CASE phase = "header"
    <3>1. Undecided(next) /\ hello = Parsed(next) /\ next - 1 <= hello /\ pos = Start(next)
      BY <2>3 DEF RecordsInv, PrereadInv
    <3>2. Start(next) \in Nat /\ Start(next) <= Surplus
      <4>1. next \in 1..L + 1
        BY <1>1
      <4> QED
        BY <1>1, <3>1, <4>1, UndecidedShort
    <3> QED
      BY <1>1, <1>2, <3>1, <3>2
  <2> QED
    BY <2>1, <2>2, <2>3 DEF Records!Prereading
<1>4. got <= IF initial >= pos THEN initial ELSE pos
  BY DEF RecordsInv, PrereadInv, Records!Larger
<1>5. got <= IF initial >= Surplus + 5 + MaxRecord THEN initial ELSE Surplus + 5 + MaxRecord
  BY <1>1, <1>2, <1>3, <1>4
<1> QED
  BY <1>5 DEF Records!Larger

\* The next router has all the bytes that it needs, and they say the same.
LEMMA HandoffsAgree == RecordsInv => Records!HandoffAgrees
<1> SUFFICES ASSUME RecordsInv, hops > 0, phase \in Records!Prereading
    PROVE  got = initial /\ (phase \in {"hello", "no_hello"} => first = {Records!Verdict})
  BY DEF Records!HandoffAgrees, Records!Prereading
<1> DEFINE L == Len(Records!recs)
<1>1. PICK d \in 1..L : FirstDecides(d) /\ Records!DecidedAt(d) <= initial /\ first = {VerdictAt(d)}
  BY DEF RecordsInv, HopsInv
<1>2. /\ client \in Clients /\ got \in Nat /\ pos \in Nat /\ initial \in Nat /\ initial <= got
  BY RecordsTypes DEF RecordsInv, BytesInv
<1>3. pos <= Records!DecidedAt(d) /\ Records!DecidedAt(d) \in Nat
  BY <1>1, NotBeyond DEF FirstDecides
<1>4. got <= IF initial >= pos THEN initial ELSE pos
  BY DEF RecordsInv, PrereadInv, Records!Larger
<1>5. got = initial
  BY <1>1, <1>2, <1>3, <1>4
<1>6. ASSUME phase \in {"hello", "no_hello"} PROVE first = {Records!Verdict}
  <2>1. PICK e \in 1..L : FirstDecides(e) /\ Records!Verdict = VerdictAt(e)
    BY <1>6 DEF RecordsInv, PrereadInv
  <2>2. d = e
    BY <1>1, <1>2, <2>1, FirstIsOne
  <2> QED
    BY <1>1, <2>1, <2>2
<1> QED
  BY <1>5, <1>6

(* read_tls_clienthello takes from the socket exactly the records up to    *)
(* the one that shows what the first message is, buffers no more than six  *)
(* times what the ClientHello announces and one record, and a router that  *)
(* is passed the connection reads nothing more and comes to the same       *)
(* verdict: for every stream of records and any number of handoffs.        *)
THEOREM HelloIsRead == HelloSpec => []HelloRead
<1>1. RecordsInv => HelloRead
  BY PrereadIsExact, PrereadIsBounded, HandoffsAgree DEF HelloRead
<1> QED
  BY <1>1, RecordsInvariant, PTL

(* When tls_handshake hands over to the kernel, all that was taken from    *)
(* the socket has been given to rustls as whole records and all that       *)
(* rustls had to say has been sent; and the backend gets the data of the   *)
(* records behind the handshake in order, each once, whoever decrypted     *)
(* them, up to where the kernel has read or met a control record: for      *)
(* every stream of records.                                                *)
THEOREM KernelAlwaysTakesOver == HelloSpec => []KernelTakesOver
<1>1. RecordsInv => KernelTakesOver
  <2> SUFFICES ASSUME RecordsInv PROVE KernelTakesOver
    OBVIOUS
  <2>1. /\ client \in Clients /\ next \in Nat /\ next >= 1 /\ next <= Len(Records!recs) + 1
        /\ Len(Records!recs) \in Nat /\ client.finished \in Nat
    BY RecordsTypes
  <2>2. ASSUME phase = "keys"
        PROVE  /\ pos = got /\ unsent = 0
               /\ \E n \in client.finished..Len(Records!recs) : got = Records!End(n)
    <3>1. ~Records!is_handshaking /\ pos = got /\ unsent = 0 /\ pos = Start(next)
      BY <2>2 DEF RecordsInv, TlsInv
    <3>2. next > client.finished /\ client.finished > 0
      BY <2>1, <3>1 DEF Records!is_handshaking
    <3>3. next - 1 \in client.finished..Len(Records!recs) /\ next - 1 \in 1..Len(Records!recs)
      BY <2>1, <3>2
    <3>4. Records!End(next - 1) = Start(next)
      <4>1. Records!End(next - 1) = Start((next - 1) + 1)
        BY <2>1, <3>3, Layout
      <4> QED
        BY <2>1, <4>1
    <3> QED
      BY <3>1, <3>3, <3>4
  <2>3. Records!KernelInStep
    BY <2>2 DEF Records!KernelInStep
  <2>4. \E m \in client.finished..Len(Records!recs) :
          Records!Given(m) /\ (phase \in {"ktls", "eio"} => got = Records!End(m))
    <3>1. CASE phase \in {"ktls", "eio"}
      <4>1. PICK m \in 1..Len(Records!recs) :
              client.finished <= m /\ got = Start(m + 1) /\ Records!Given(m)
        BY <3>1 DEF RecordsInv, TlsInv, KernelInv
      <4>2. m \in client.finished..Len(Records!recs) /\ Records!End(m) = Start(m + 1)
        BY <2>1, <4>1, Layout
      <4> QED
        BY <4>1, <4>2
    <3>2. CASE phase \notin {"ktls", "eio"}
      BY <3>2 DEF RecordsInv, TlsInv, DataInv
    <3> QED
      BY <3>1, <3>2
  <2>5. Records!InOrder
    BY <2>4 DEF RecordsInv, Records!InOrder
  <2> QED
    BY <2>3, <2>5 DEF KernelTakesOver
<1> QED
  BY <1>1, RecordsInvariant, PTL
=============================================================================
