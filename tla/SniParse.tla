------------------------------ MODULE SniParse ------------------------------
(***************************************************************************)
(* extract_sni: the walk over the nested, length-prefixed vectors of a     *)
(* ClientHello to the name in its server_name extension.  sni-router and   *)
(* sni-router-h3 have a copy each; what comes in is chosen by the client.  *)
(*                                                                         *)
(* One action per vector.  Offsets are the code's, counted from 0 in the   *)
(* body of the message; k, which the code counts within the extension, is  *)
(* counted in the body too.  An index or a slice outside of the body is a  *)
(* panic.                                                                  *)
(***************************************************************************)
EXTENDS Naturals, Sequences

CONSTANT Inputs          \* what clients send: the bytes of the message, and of a
                         \* well-formed one the Option of the name it asks for
                         \* and where its extensions and names start

\* What is assumed of them.
InputsAreBytes == \A in \in Inputs : in.bytes \in Seq(0..255)

VARIABLES
  clienthello,
  asked,         \* history: {the Option of the name}, {} if not well-formed
  stage,         \* the vector that is next
  len,           \* body.len()
  i, j, k,
  stop,          \* i + ext_total: where the extensions end
  ext_end,       \* where the server_name extension ends
  list_end,      \* where its list ends
  result,        \* "none", "error" or "host"
  host           \* the slice that is the host: <<first, length>>

vars == <<clienthello, asked, stage, len, i, j, k, stop, ext_end, list_end, result, host>>

Byte(n) == clienthello[n + 5]
U16(n) == 256 * Byte(n) + Byte(n + 1)

\* The call for one message.
Call(in) ==
  /\ clienthello = in.bytes /\ asked = in.asked
  /\ stage = "header" /\ len = 0 /\ i = 0 /\ j = 0 /\ k = 0
  /\ stop = 0 /\ ext_end = 0 /\ list_end = 0 /\ result = "none" /\ host = <<0, 0>>

Init == \E in \in Inputs : Call(in)

Return(r) ==
  /\ stage' = "done" /\ result' = r
  /\ UNCHANGED <<clienthello, asked, len, i, j, k, stop, ext_end, list_end, host>>

body_len == 65536 * clienthello[2] + 256 * clienthello[3] + clienthello[4]

Header ==
  /\ stage = "header"
  /\ IF Len(clienthello) < 4 THEN Return("error")
     ELSE IF clienthello[1] /= 1 \/ Len(clienthello) < 4 + body_len THEN Return("error")
     ELSE /\ len' = body_len /\ stage' = "session_id"
          /\ UNCHANGED <<clienthello, asked, i, j, k, stop, ext_end, list_end, result, host>>

\* legacy_version and random, and the session ID
SessionId ==
  /\ stage = "session_id"
  /\ IF len < 35 THEN Return("error")
     ELSE IF len < 35 + Byte(34) THEN Return("error")
     ELSE /\ i' = 35 + Byte(34) /\ stage' = "cipher_suites"
          /\ UNCHANGED <<clienthello, asked, len, j, k, stop, ext_end, list_end, result, host>>

CipherSuites ==
  /\ stage = "cipher_suites"
  /\ IF len < i + 2 THEN Return("error")
     ELSE IF len < i + 2 + U16(i) \/ U16(i) % 2 /= 0 THEN Return("error")
     ELSE /\ i' = i + 2 + U16(i) /\ stage' = "compression_methods"
          /\ UNCHANGED <<clienthello, asked, len, j, k, stop, ext_end, list_end, result, host>>

CompressionMethods ==
  /\ stage = "compression_methods"
  /\ IF len < i + 1 THEN Return("error")
     ELSE IF len < i + 1 + Byte(i) THEN Return("error")
     ELSE /\ i' = i + 1 + Byte(i) /\ stage' = "extensions"
          /\ UNCHANGED <<clienthello, asked, len, j, k, stop, ext_end, list_end, result, host>>

Extensions ==
  /\ stage = "extensions"
  /\ IF i = len THEN Return("none")
     ELSE IF len < i + 2 THEN Return("error")
     ELSE IF len < i + 2 + U16(i) THEN Return("error")
     ELSE /\ i' = i + 2 /\ j' = i + 2 /\ stop' = i + 2 + U16(i) /\ stage' = "extension"
          /\ UNCHANGED <<clienthello, asked, len, k, ext_end, list_end, result, host>>

\* Mutant of Behind: the header of a vector is not counted.
BehindBody(start, header, length) == start + length

\* Where the next element starts.
Behind(start, header, length) == start + header + length

\* Mutant of Truncated: an extension may reach to the end of the message.
TruncatedHeader(start, header, length, end) == start + header > end

Truncated(start, header, length, end) == start + header + length > end

Extension ==
  /\ stage = "extension"
  /\ IF j + 4 > stop THEN Return("none")
     ELSE IF Truncated(j, 4, U16(j + 2), stop) THEN Return("error")
     ELSE IF U16(j) = 0
     THEN /\ j' = j + 4 /\ ext_end' = j + 4 + U16(j + 2) /\ stage' = "server_name"
          /\ UNCHANGED <<clienthello, asked, len, i, k, stop, list_end, result, host>>
     ELSE /\ j' = Behind(j, 4, U16(j + 2))
          /\ UNCHANGED <<clienthello, asked, stage, len, i, k, stop, ext_end, list_end, result, host>>

ServerName ==
  /\ stage = "server_name"
  /\ IF ext_end < j + 2 THEN Return("error")
     ELSE IF ext_end < j + 2 + U16(j) THEN Return("error")
     ELSE /\ k' = j + 2 /\ list_end' = j + 2 + U16(j) /\ stage' = "name"
          /\ UNCHANGED <<clienthello, asked, len, i, j, stop, ext_end, result, host>>

Name ==
  /\ stage = "name"
  /\ IF k + 3 > list_end THEN Return("none")
     ELSE IF Truncated(k, 3, U16(k + 1), list_end) THEN Return("error")
     ELSE IF Byte(k) = 0 
     THEN /\ result' = "host" /\ host' = <<k + 3, U16(k + 1)>> /\ stage' = "done"
          /\ UNCHANGED <<clienthello, asked, len, i, j, k, stop, ext_end, list_end>>
     ELSE /\ k' = Behind(k, 3, U16(k + 1))
          /\ UNCHANGED <<clienthello, asked, stage, len, i, j, stop, ext_end, list_end, result, host>>

Next ==
  \/ Header \/ SessionId \/ CipherSuites \/ CompressionMethods
  \/ Extensions \/ Extension \/ ServerName \/ Name

Spec == Init /\ [][Next]_vars

\* The function runs on.
FairSpec == Spec /\ WF_vars(Next)

-----------------------------------------------------------------------------
(* Properties. *)

Stages == {"header", "session_id", "cipher_suites", "compression_methods", "extensions",
           "extension", "server_name", "name", "done"}

TypeOK ==
  /\ clienthello \in Seq(0..255) /\ stage \in Stages
  /\ len \in Nat /\ i \in Nat /\ j \in Nat /\ k \in Nat
  /\ stop \in Nat /\ ext_end \in Nat /\ list_end \in Nat
  /\ result \in {"none", "error", "host"} /\ host \in Nat \X Nat

\* The indices that the next step reads, behind its own length check.
Reads ==
  CASE stage = "session_id" /\ len >= 35 -> {34}
    [] stage = "cipher_suites" /\ len >= i + 2 -> {i, i + 1}
    [] stage = "compression_methods" /\ len >= i + 1 -> {i}
    [] stage = "extensions" /\ len >= i + 2 -> {i, i + 1}
    [] stage = "extension" /\ j + 4 <= stop -> j..j + 3
    [] stage = "server_name" /\ ext_end >= j + 2 -> {j, j + 1}
    [] stage = "name" /\ k + 3 <= list_end -> k..k + 2
    [] OTHER -> {}

\* No message makes extract_sni panic: it indexes only inside of the body,
\* and the body lies inside of the message.
NoPanic == (\A n \in Reads : n < len) /\ len + (IF len > 0 THEN 4 ELSE 0) <= Len(clienthello)

\* The name that is returned lies inside of the list, inside of the
\* extension, inside of the extensions: no length field, however wrong, makes
\* the router take bytes for a name that are outside of the field.
HostInside ==
  result = "host" =>
    /\ host[1] + host[2] <= list_end /\ list_end <= ext_end
    /\ ext_end <= stop /\ stop <= len

\* extract_sni neither indexes outside of the ClientHello nor returns a name
\* from outside of its field. What makes these two inductive: the vectors that
\* have been entered are nested in each other.
Nested ==
  /\ TypeOK
  /\ stage /= "header" /\ stage /= "done" => len + 4 <= Len(clienthello)
  /\ len = 0 \/ len + 4 <= Len(clienthello)
  /\ stage \in {"extension", "server_name", "name"} => stop <= len
  /\ stage \in {"server_name", "name"} => ext_end <= stop
  /\ stage = "name" => list_end <= ext_end
  /\ stage /= "done" => result = "none"
  /\ NoPanic /\ HostInside

Returned ==
  IF result /= "host" THEN {} ELSE {SubSeq(clienthello, host[1] + 5, host[1] + 4 + host[2])}

\* The elements of a vector from first to last start at the offsets in S; each
\* has a header, and ends where after says: there is nothing else in the
\* vector, and no two elements overlap.
Elements(S, header, after, first, last) ==
  /\ S \subseteq first..last /\ first \in S /\ last \in S
  /\ \A m \in S \ {last} : m + header <= last /\ after[m] \in S
  /\ \A m, n \in S : m < n => after[m] <= n

\* Element x of S is the first that has the type.
FirstOf(S, types, x) == types[x] = 0 /\ \A m \in S : m < x => types[m] /= 0

\* The body of the ClientHello in an input: its bytes, and where its vectors
\* start and end.
At(in, n) == in.bytes[n + 5]
Word(in, n) == 256 * At(in, n) + At(in, n + 1)
Size(in) == Len(in.bytes) - 4
Suites(in) == 35 + At(in, 34)
Methods(in) == Suites(in) + 2 + Word(in, Suites(in))
Block(in) == Methods(in) + 1 + At(in, Methods(in))
Exts(in) == in.exts \ {Size(in)}
ListEnd(in, x) == x + 6 + Word(in, x + 4)
Names(in, x) == in.names \ {ListEnd(in, x)}

ExtTypes(in) == [n \in Exts(in) |-> Word(in, n)]
NameTypes(in, x) == [n \in Names(in, x) |-> At(in, n)]

HasExts(in) ==
  /\ Block(in) + 2 <= Size(in) /\ Block(in) + 2 + Word(in, Block(in)) = Size(in)
  /\ Elements(in.exts, 4, [n \in Exts(in) |-> n + 4 + Word(in, n + 2)], Block(in) + 2, Size(in))

\* Extension x is the first server_name, and what it asks for is its first
\* host_name.
HasSni(in, x) ==
  /\ FirstOf(Exts(in), ExtTypes(in), x)
  /\ Word(in, x + 2) >= 2 /\ 2 + Word(in, x + 4) = Word(in, x + 2)
  /\ Elements(in.names, 3, [n \in Names(in, x) |-> n + 3 + Word(in, n + 1)], x + 6, ListEnd(in, x))
  /\ \/ in.asked = {{}} /\ \A n \in Names(in, x) : NameTypes(in, x)[n] /= 0
     \/ \E n \in Names(in, x) :
          /\ FirstOf(Names(in, x), NameTypes(in, x), n)
          /\ in.asked = {{SubSeq(in.bytes, n + 8, n + 7 + Word(in, n + 1))}}

\* What a ClientHello is, and the name it asks for.
WellFormed(in) ==
  /\ Size(in) >= 35 /\ in.bytes[1] = 1
  /\ 65536 * in.bytes[2] + 256 * in.bytes[3] + in.bytes[4] = Size(in)
  /\ Suites(in) + 2 <= Size(in) /\ Word(in, Suites(in)) % 2 = 0 /\ Methods(in) + 1 <= Size(in)
  /\ \/ Block(in) = Size(in) /\ in.asked = {{}}
     \/ HasExts(in) /\ in.asked = {{}} /\ \A x \in Exts(in) : ExtTypes(in)[x] /= 0
     \/ HasExts(in) /\ \E x \in Exts(in) : HasSni(in, x)

InputsAreHellos == \A in \in Inputs : in.asked /= {} => WellFormed(in)

\* The name of a well-formed ClientHello is found wherever its extension
\* stands, and is the name that the client asks for; without one there is
\* none, and no error either.
RoundTrip ==
  stage = "done" /\ asked /= {} => result /= "error" /\ Returned \in asked

\* extract_sni returns, whatever it is given: every round of its loops moves
\* on by at least the header of an element.
Returns == <>(stage = "done")
=============================================================================
