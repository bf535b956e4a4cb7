--------------------------- MODULE InitialFrames ----------------------------
(***************************************************************************)
(* read_crypto_frames: the walk over the frames of a decrypted Initial     *)
(* packet that collects the CRYPTO frames, whose data CryptoReassembly     *)
(* puts together.  The payload is chosen by the client; a frame that is    *)
(* skipped wrongly hides the frames behind it, or makes others up.         *)
(*                                                                         *)
(* The fields of a frame are variable-length integers, read one by one     *)
(* from todo, which says what each of them is for.                         *)
(***************************************************************************)
EXTENDS Naturals, Sequences

CONSTANT Inputs          \* what clients send: the bytes of the payload, and of a
                         \* well-formed one the CRYPTO frames in it and where its
                         \* numbers and its frames start

\* What is assumed of them.
InputsAreBytes == \A in \in Inputs : in.bytes \in Seq(0..255)

VARIABLES
  payload,
  sent,          \* history: {its CRYPTO frames}, {} if not well-formed
  i,
  todo,          \* the fields that are left of the frame at hand
  ranges,        \* how many varints the loop over the ACK ranges still reads
  offset,        \* of the CRYPTO frame at hand
  frames,        \* CRYPTO frames: <<offset, first byte, length>>
  outcome        \* "running", "ok" or "error"

vars == <<payload, sent, i, todo, ranges, offset, frames, outcome>>

\* The call for one payload.
Call(in) ==
  /\ payload = in.bytes /\ sent = in.sent
  /\ i = 0 /\ todo = <<>> /\ ranges = 0 /\ offset = 0 /\ frames = <<>>
  /\ outcome = "running"

Init == \E in \in Inputs : Call(in)

-----------------------------------------------------------------------------
(* read_varint. *)

Byte(buf, n) == buf[n + 1]
VarintLen(buf, n) ==
  CASE Byte(buf, n) \div 64 = 0 -> 1 [] Byte(buf, n) \div 64 = 1 -> 2
    [] Byte(buf, n) \div 64 = 2 -> 4 [] OTHER -> 8

\* The loop of read_varint_at over one, two and four bytes: (value << 8) | b.
Shift(buf, value, n) == 256 * value + Byte(buf, n)
Shift2(buf, value, n) == Shift(buf, Shift(buf, value, n), n + 1)
Shift4(buf, value, n) == Shift2(buf, Shift2(buf, value, n), n + 2)

VarintValue(buf, n) ==
  LET v1 == Byte(buf, n) % 64
      v2 == Shift(buf, v1, n + 1)
      v4 == Shift2(buf, v2, n + 2)
  IN  CASE VarintLen(buf, n) = 1 -> v1 [] VarintLen(buf, n) = 2 -> v2
        [] VarintLen(buf, n) = 4 -> v4 [] VarintLen(buf, n) = 8 -> Shift4(buf, v4, n + 4)

\* read_varint_at: the Option of value and length.
read_varint_at(buf, n) ==
  IF n >= Len(buf) THEN {}
  ELSE IF Len(buf) < n + VarintLen(buf, n) THEN {}
  ELSE {[value |-> VarintValue(buf, n), len |-> VarintLen(buf, n)]}

Varint == read_varint_at(payload, i)

\* Mutant of Fail: the error is dropped and the frame tried again.
Retry == UNCHANGED vars

Fail ==
  /\ outcome' = "error"
  /\ UNCHANGED <<payload, sent, i, todo, ranges, offset, frames>>

-----------------------------------------------------------------------------
(* read_crypto_frames. *)

\* Mutant of AckFields: the three counts of an ECN ACK are left.
AckFieldsPlain(has_ecn) == <<"skip", "skip", "count", "skip", "ranges">>

\* skip_ack_frame
AckFields(has_ecn) ==
  <<"skip", "skip", "count", "skip", "ranges">>
  \o (IF has_ecn THEN <<"skip", "skip", "skip">> ELSE <<>>)

Known == {0, 1, 2, 3, 6, 28, 29}

\* PADDING, PING, ACK, CRYPTO and the two CONNECTION_CLOSE frames.
Fields(type) ==
  CASE type \in {0, 1} -> <<>>
    [] type \in {2, 3} -> AckFields(type = 3)
    [] type = 6 -> <<"offset", "data">>
    [] type = 28 -> <<"skip", "skip", "reason">>
    [] type = 29 -> <<"skip", "reason">>

FrameType ==
  /\ outcome = "running" /\ todo = <<>> /\ i < Len(payload)
  /\ \/ Varint = {} /\ Fail
     \/ \E v \in Varint :
          IF v.value \notin Known THEN Fail
          ELSE /\ i' = i + v.len /\ todo' = Fields(v.value)
               /\ UNCHANGED <<payload, sent, ranges, offset, frames, outcome>>

\* A number that is skipped or kept.
Number ==
  /\ outcome = "running" /\ todo /= <<>> /\ todo[1] \in {"skip", "count", "offset"}
  /\ \/ Varint = {} /\ Fail
     \/ \E v \in Varint :
          /\ i' = i + v.len /\ todo' = Tail(todo)
          /\ ranges' = IF todo[1] = "count" THEN 2 * v.value ELSE ranges
          /\ offset' = IF todo[1] = "offset" THEN v.value ELSE offset
          /\ UNCHANGED <<payload, sent, frames, outcome>>

\* One turn of the loop over the ACK ranges, or its end.
AckRange ==
  /\ outcome = "running" /\ todo /= <<>> /\ todo[1] = "ranges"
  /\ IF ranges = 0
     THEN todo' = Tail(todo) /\ UNCHANGED <<payload, sent, i, ranges, offset, frames, outcome>>
     ELSE \/ Varint = {} /\ Fail
          \/ \E v \in Varint :
               /\ i' = i + v.len /\ ranges' = ranges - 1
               /\ UNCHANGED <<payload, sent, todo, offset, frames, outcome>>

\* Mutant of Fits: the length field itself is not counted.
FitsWithout(header, length) == i + length <= Len(payload)

\* payload.len() >= i + len, behind the length field.
Fits(header, length) == i + header + length <= Len(payload)

\* The data of a CRYPTO frame, or the reason of a CONNECTION_CLOSE.
Slice ==
  /\ outcome = "running" /\ todo /= <<>> /\ todo[1] \in {"data", "reason"}
  /\ \/ Varint = {} /\ Fail
     \/ \E v \in Varint :
          IF ~Fits(v.len, v.value) THEN Fail
          ELSE /\ i' = i + v.len + v.value /\ todo' = Tail(todo)
               /\ frames' = IF todo[1] = "data"
                            THEN Append(frames, <<offset, i + v.len, v.value>>) ELSE frames
               /\ UNCHANGED <<payload, sent, ranges, offset, outcome>>

Done ==
  /\ outcome = "running" /\ todo = <<>> /\ i >= Len(payload)
  /\ outcome' = "ok"
  /\ UNCHANGED <<payload, sent, i, todo, ranges, offset, frames>>

Next == FrameType \/ Number \/ AckRange \/ Slice \/ Done

Spec == Init /\ [][Next]_vars

\* The function runs on.
FairSpec == Spec /\ WF_vars(Next)

-----------------------------------------------------------------------------
(* Properties. *)

Purposes == {"skip", "count", "offset", "ranges", "data", "reason"}

TypeOK ==
  /\ payload \in Seq(0..255) /\ i \in Nat /\ ranges \in Nat /\ offset \in Nat
  /\ todo \in Seq(Purposes) /\ frames \in Seq(Nat \X Nat \X Nat)
  /\ outcome \in {"running", "ok", "error"}

\* The walk never leaves the payload, and the CRYPTO frames it has found are
\* slices of the payload, in order and apart from each other: no byte is
\* handed to reassembly twice, whatever lengths the frames claim.
FramesInside ==
  /\ TypeOK /\ i <= Len(payload)
  /\ \A n \in 1..Len(frames) :
       /\ frames[n][2] + frames[n][3] <= i
       /\ n < Len(frames) => frames[n][2] + frames[n][3] <= frames[n + 1][2]

-----------------------------------------------------------------------------
(* What a well-formed payload is, and the CRYPTO frames in it: its numbers *)
(* start at the offsets in.numbers, and frames start with the numbers      *)
(* in.heads, CRYPTO frames with the numbers in.cryptos.                    *)

Val(in, m) == VarintValue(in.bytes, in.numbers[m])
After(in, m) == in.numbers[m] + VarintLen(in.bytes, in.numbers[m])
Last(in) == Len(in.numbers) + 1
Pos(in, m) == IF m = Last(in) THEN Len(in.bytes) ELSE in.numbers[m]

\* How many numbers the frame that starts with number h consists of.
Size(in, h) ==
  CASE Val(in, h) \in {0, 1} -> 1
    [] Val(in, h) = 2 -> 5 + 2 * Val(in, h + 3)
    [] Val(in, h) = 3 -> 8 + 2 * Val(in, h + 3)
    [] Val(in, h) = 28 -> 4
    [] OTHER -> 3

\* The last number of these is the length of what follows it.
HasSlice(in, h) == Val(in, h) \in {6, 28, 29}

\* Frame h is followed by another one or by the end.
IsFrame(in, h) ==
  /\ Val(in, h) \in Known /\ (Val(in, h) \in {2, 3} => h + 3 < Last(in))
  /\ h + Size(in, h) \in in.heads
  /\ \A m \in h..h + Size(in, h) - 1 :
       Pos(in, m + 1) = After(in, m) + IF HasSlice(in, h) /\ m + 1 = h + Size(in, h)
                                       THEN Val(in, m) ELSE 0

\* A CRYPTO frame: its offset and its data.
CryptoFrame(in, h) ==
  <<Val(in, h + 1), SubSeq(in.bytes, After(in, h + 2) + 1, After(in, h + 2) + Val(in, h + 2))>>

WellFormed(in) ==
  /\ in.numbers \in Seq(Nat) /\ Pos(in, 1) = 0
  /\ \A m \in 1..Len(in.numbers) : in.numbers[m] < Len(in.bytes) /\ After(in, m) <= Len(in.bytes)
  /\ in.heads \subseteq 1..Last(in) /\ 1 \in in.heads /\ Last(in) \in in.heads
  /\ \A h \in in.heads \ {Last(in)} : IsFrame(in, h)
  /\ \A h, n \in in.heads : h < n => h + Size(in, h) <= n
  /\ in.cryptos \in Seq(in.heads \ {Last(in)})
  /\ \A m, n \in 1..Len(in.cryptos) : m < n => in.cryptos[m] < in.cryptos[n]
  /\ \A h \in in.heads \ {Last(in)} :
       Val(in, h) = 6 <=> \E n \in 1..Len(in.cryptos) : in.cryptos[n] = h
  /\ in.sent = {[n \in 1..Len(in.cryptos) |-> CryptoFrame(in, in.cryptos[n])]}

InputsAreFrames == \A in \in Inputs : in.sent /= {} => WellFormed(in)

Found == [n \in 1..Len(frames) |->
            <<frames[n][1], SubSeq(payload, frames[n][2] + 1, frames[n][2] + frames[n][3])>>]

\* Of a well-formed payload exactly the CRYPTO frames are found, with their
\* offsets and data, whatever other frames stand between them.
RoundTrip == outcome /= "running" /\ sent /= {} => outcome = "ok" /\ Found \in sent

\* The walk ends on every payload, also on an ACK that claims more ranges
\* than fit.
Ends == <>(outcome /= "running")
=============================================================================
