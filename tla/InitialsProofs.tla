--------------------------- MODULE InitialsProofs ---------------------------
(***************************************************************************)
(* The three parts of Initials, for every set of frames, connection IDs,   *)
(* headers and payloads.                                                   *)
(*                                                                         *)
(* CryptoReassembly: IndInv is inductive, and with it clienthello() finds  *)
(* its message exactly when all of its bytes have arrived.                 *)
(*                                                                         *)
(* CidRoutes: the table with its lengths forgotten is the flat table, of   *)
(* which every operation is the operation, and match_prefix finds in the   *)
(* longest length what the flat table calls the longest prefix.            *)
(*                                                                         *)
(* InitialFrames: at every step over a well-formed payload the walk stands *)
(* before a number of it, in the field of a frame that the number is for,  *)
(* and has found the CRYPTO frames before that frame.                      *)
(***************************************************************************)
EXTENDS Initials, SetLemmas, SequenceTheorems, FiniteSetTheorems, TLAPS

-----------------------------------------------------------------------------
(* CryptoReassembly. *)

\* The data of a frame is a sequence of its length, each byte at its place.
LEMMA DataPlaces ==
  ASSUME NEW o \in Nat, NEW n \in Nat
  PROVE  /\ Data(o, n) \in Seq(Nat)
         /\ Len(Data(o, n)) = n
         /\ \A q \in 1..n : Data(o, n)[q] = o + q - 1
<1>1. \A q \in 1..n : o + q - 1 \in Nat
  OBVIOUS
<1>2. Data(o, n) \in Seq(Nat) /\ Len(Data(o, n)) = n
  BY <1>1 DEF Data
<1> QED
  BY <1>2 DEF Data

\* append: the prefix grows to the end of the data, if that is beyond it, and
\* keeps every byte at its place.
LEMMA AppendPlaces ==
  ASSUME TypeOK, InPlace,
         NEW o \in Nat, o <= Len(bytes),
         NEW data \in Seq(Nat), \A q \in 1..Len(data) : data[q] = o + q - 1
  PROVE  LET grown == bytes \o Suffix(o, data)
         IN  /\ grown \in Seq(Nat)
             /\ Len(grown) = IF o + Len(data) > Len(bytes) THEN o + Len(data) ELSE Len(bytes)
             /\ \A q \in 1..Len(grown) : grown[q] = q - 1
<1> DEFINE m == Len(bytes) - o + 1
           suf == SubSeq(data, m, Len(data))
           grown == bytes \o suf
<1>1. bytes \in Seq(Nat) /\ Len(bytes) \in Nat /\ Len(data) \in Nat /\ m \in Int /\ m >= 1
  BY DEF TypeOK
<1>2. \A q \in m..Len(data) : data[q] \in Nat
  BY <1>1
<1>3. /\ suf \in Seq(Nat)
      /\ Len(suf) = IF m <= Len(data) THEN Len(data) - m + 1 ELSE 0
      /\ \A q \in 1..(Len(data) - m + 1) : suf[q] = data[m + q - 1]
  <2> HIDE DEF m
  <2> QED BY <1>1, <1>2, SubSeqProperties
<1>4. /\ grown \in Seq(Nat)
      /\ Len(grown) = Len(bytes) + Len(suf)
      /\ \A q \in 1..(Len(bytes) + Len(suf)) :
           grown[q] = IF q <= Len(bytes) THEN bytes[q] ELSE suf[q - Len(bytes)]
  <2> HIDE DEF suf
  <2> QED BY <1>1, <1>3, ConcatProperties
<1>5. Len(grown) = IF o + Len(data) > Len(bytes) THEN o + Len(data) ELSE Len(bytes)
  <2> HIDE DEF suf, grown
  <2> QED BY <1>1, <1>3, <1>4
<1>6. ASSUME NEW q \in 1..Len(grown) PROVE grown[q] = q - 1
  <2> HIDE DEF suf, grown
  <2>1. CASE q <= Len(bytes)
    BY <1>1, <1>3, <1>4, <2>1 DEF InPlace
  <2>2. CASE q > Len(bytes)
    <3> DEFINE k == q - Len(bytes)
    <3>1. Len(suf) > 0 /\ Len(suf) = Len(data) - m + 1
      BY <1>1, <1>3, <1>4, <2>2
    <3>2. k \in 1..(Len(data) - m + 1) /\ grown[q] = suf[k]
      BY <1>1, <1>4, <2>2, <3>1
    <3>3. suf[k] = data[m + k - 1] /\ m + k - 1 \in 1..Len(data)
      BY <1>1, <1>3, <3>2, SMTT(30)
    <3>4. data[m + k - 1] = o + (m + k - 1) - 1
      BY <3>3
    <3> QED BY <1>1, <3>2, <3>3, <3>4
  <2> QED BY <1>1, <1>4, <2>1, <2>2
<1> QED BY <1>4, <1>5, <1>6 DEF Suffix

\* No byte is lost, position by position: the form of Conserved the steps use.
Arrived(p) ==
  p \in received <=> \/ p < Len(bytes)
                     \/ \E o \in DOMAIN fragments : o <= p /\ p < o + Len(fragments[o])

\* The two forms say the same.
LEMMA ConservedPointwise ==
  ASSUME TypeOK
  PROVE  Conserved <=> \A p \in Nat : Arrived(p)
<1>1. Len(bytes) \in Nat /\ \A o \in DOMAIN fragments : o \in Nat /\ Len(fragments[o]) \in Nat
  BY DEF TypeOK
<1> DEFINE Held == (0 .. Len(bytes) - 1) \cup
                   UNION {o .. o + Len(fragments[o]) - 1 : o \in DOMAIN fragments}
<1>2. \A p \in Nat : p \in Held <=> \/ p < Len(bytes)
                                    \/ \E o \in DOMAIN fragments : o <= p /\ p < o + Len(fragments[o])
  BY <1>1
<1>3. Held \subseteq Nat /\ received \subseteq Nat
  BY <1>1 DEF TypeOK
<1> HIDE DEF Held
<1>4. received = Held <=> \A p \in Nat : p \in received <=> p \in Held
  BY <1>3
<1>5. Conserved <=> received = Held
  BY DEF Conserved, Held
<1> QED BY <1>2, <1>4, <1>5 DEF Arrived

\* A frame that starts beyond the prefix is stored.
LEMMA StoreStep ==
  ASSUME IndInv, NEW f \in Frames, ~draining, Store(f)
  PROVE  IndInv'
<1> USE FrameAssumption
<1> DEFINE data == Data(f.offset, f.len)
<1>1. f.offset \in Nat /\ f.len \in Nat /\ Len(bytes) \in Nat
  BY DEF IndInv, TypeOK
<1>2. data \in Seq(Nat) /\ Len(data) = f.len
        /\ \A q \in 1..f.len : data[q] = f.offset + q - 1
  BY <1>1, DataPlaces
<1> HIDE DEF data
<1>3. /\ DOMAIN fragments' = DOMAIN fragments \cup {f.offset}
      /\ \A o \in DOMAIN fragments : o /= f.offset => fragments'[o] = fragments[o]
      /\ \/ fragments'[f.offset] = data
            /\ (f.offset \in DOMAIN fragments => Len(fragments[f.offset]) < f.len)
         \/ f.offset \in DOMAIN fragments /\ fragments'[f.offset] = fragments[f.offset]
            /\ Len(fragments[f.offset]) >= f.len
  BY <1>1 DEF Store, data, IndInv, TypeOK
<1>4. bytes' = bytes /\ draining' = draining /\ failed' = failed
      /\ received' = received \cup (f.offset .. f.offset + f.len - 1)
  BY DEF Store
<1>5. TypeOK'
  <2>1. DOMAIN fragments' \subseteq Nat /\ \A o \in DOMAIN fragments' : fragments'[o] \in Seq(Nat)
    BY <1>1, <1>2, <1>3 DEF IndInv, TypeOK
  <2>2. fragments' = [o \in DOMAIN fragments' |-> fragments'[o]]
    BY DEF Store
  <2>3. fragments' \in [DOMAIN fragments' -> Seq(Nat)]
    BY <2>1, <2>2
  <2> QED BY <1>1, <1>4, <2>1, <2>3 DEF IndInv, TypeOK
<1>6. InPlace'
  BY <1>1, <1>2, <1>3, <1>4 DEF IndInv, InPlace
<1>7. Conserved'
  <2>1. \A p \in Nat : Arrived(p)
    BY ConservedPointwise DEF IndInv
  <2>2. ASSUME NEW p \in Nat PROVE Arrived(p)'
    <3>1. \A o \in DOMAIN fragments' : o \in Nat /\ Len(fragments'[o]) \in Nat
      BY <1>5 DEF TypeOK
    <3>2. \A o \in DOMAIN fragments : o \in Nat /\ Len(fragments[o]) \in Nat
      BY DEF IndInv, TypeOK
    <3>3. p \in received' <=> p \in received \/ (f.offset <= p /\ p < f.offset + f.len)
      BY <1>1, <1>4
    <3>4. ASSUME p \in received', ~(p < Len(bytes))
          PROVE  \E o \in DOMAIN fragments' : o <= p /\ p < o + Len(fragments'[o])
      <4>1. CASE f.offset <= p /\ p < f.offset + f.len
        BY <4>1, <1>1, <1>2, <1>3, <3>1, <3>2
      <4>2. CASE p \in received
        <5>1. PICK o \in DOMAIN fragments : o <= p /\ p < o + Len(fragments[o])
          BY <2>1, <3>4, <4>2 DEF Arrived
        <5> QED BY <5>1, <1>1, <1>2, <1>3, <3>1, <3>2
      <4> QED BY <3>3, <3>4, <4>1, <4>2
    <3>5. ASSUME NEW o \in DOMAIN fragments', o <= p, p < o + Len(fragments'[o])
          PROVE  p \in received'
      <4>1. CASE o = f.offset /\ fragments'[f.offset] = data
        BY <3>3, <3>5, <4>1, <1>2
      <4>2. CASE o \in DOMAIN fragments /\ fragments'[o] = fragments[o]
        BY <2>1, <3>3, <3>5, <4>2 DEF Arrived
      <4> QED BY <1>3, <4>1, <4>2
    <3>6. p < Len(bytes) => p \in received'
      BY <2>1, <3>3 DEF Arrived
    <3> QED BY <1>4, <3>4, <3>5, <3>6 DEF Arrived
  <2>3. (TypeOK => (Conserved <=> \A p \in Nat : Arrived(p)))'
    BY ConservedPointwise, PTL
  <2> QED BY <1>5, <2>2, <2>3
<1>8. Gap'
  BY <1>1, <1>3, <1>4 DEF IndInv, Gap, Store
<1>9. FragmentLimit'
  <2>1. IsFiniteSet(DOMAIN fragments) /\ Cardinality(DOMAIN fragments) \in Nat
    BY FS_CardinalityType DEF IndInv, FragmentLimit
  <2>2. /\ IsFiniteSet(DOMAIN fragments \cup {f.offset})
        /\ Cardinality(DOMAIN fragments \cup {f.offset}) =
             IF f.offset \in DOMAIN fragments THEN Cardinality(DOMAIN fragments)
             ELSE Cardinality(DOMAIN fragments) + 1
    BY <2>1, FS_AddElement
  <2> QED BY <1>3, <2>1, <2>2 DEF IndInv, FragmentLimit, Store
<1> QED BY <1>5, <1>6, <1>7, <1>8, <1>9 DEF IndInv

\* What a grown prefix covers: what it covered, and the data appended.
LEMMA GrownCovers ==
  ASSUME IndInv, NEW o \in Nat, o <= Len(bytes),
         NEW data \in Seq(Nat), \A q \in 1..Len(data) : data[q] = o + q - 1,
         bytes' = bytes \o Suffix(o, data)
  PROVE  /\ bytes' \in Seq(Nat)
         /\ \A q \in 1..Len(bytes') : bytes'[q] = q - 1
         /\ \A p \in Nat : p < Len(bytes') <=> p < Len(bytes) \/ (o <= p /\ p < o + Len(data))
<1>1. /\ bytes' \in Seq(Nat)
      /\ Len(bytes') = IF o + Len(data) > Len(bytes) THEN o + Len(data) ELSE Len(bytes)
      /\ \A q \in 1..Len(bytes') : bytes'[q] = q - 1
  BY AppendPlaces DEF IndInv
<1>2. Len(bytes) \in Nat /\ Len(data) \in Nat
  BY DEF IndInv, TypeOK
<1> QED BY <1>1, <1>2, SMTT(30)

\* A frame that touches the prefix extends it.
LEMMA ExtendStep ==
  ASSUME IndInv, NEW f \in Frames, Extend(f)
  PROVE  IndInv'
<1> USE FrameAssumption
<1> DEFINE data == Data(f.offset, f.len)
<1>1. f.offset \in Nat /\ f.len \in Nat /\ Len(bytes) \in Nat
  BY DEF IndInv, TypeOK
<1>2. data \in Seq(Nat) /\ Len(data) = f.len
        /\ \A q \in 1..Len(data) : data[q] = f.offset + q - 1
  BY <1>1, DataPlaces, ZenonT(30)
<1>3. f.offset <= Len(bytes) /\ bytes' = bytes \o Suffix(f.offset, data)
  BY DEF Extend
<1> HIDE DEF data
<1>4. /\ bytes' \in Seq(Nat)
      /\ \A q \in 1..Len(bytes') : bytes'[q] = q - 1
      /\ \A p \in Nat : p < Len(bytes') <=> p < Len(bytes) \/ (f.offset <= p /\ p < f.offset + f.len)
  BY <1>1, <1>2, <1>3, GrownCovers
<1>5. fragments' = fragments /\ failed' = failed /\ draining' = TRUE
      /\ received' = received \cup (f.offset .. f.offset + f.len - 1)
  BY DEF Extend
<1>6. TypeOK'
  BY <1>1, <1>4, <1>5 DEF IndInv, TypeOK
<1>7. InPlace'
  BY <1>4, <1>5 DEF IndInv, InPlace
<1>8. Conserved'
  <2>1. \A p \in Nat : Arrived(p)
    BY ConservedPointwise DEF IndInv
  <2>2. \A p \in Nat : p \in received' <=> p \in received \/ (f.offset <= p /\ p < f.offset + f.len)
    BY <1>1, <1>5
  <2>3. (\A p \in Nat : Arrived(p))'
    BY <1>4, <1>5, <2>1, <2>2 DEF Arrived
  <2>4. (TypeOK => (Conserved <=> \A p \in Nat : Arrived(p)))'
    BY ConservedPointwise, PTL
  <2> QED BY <1>6, <2>3, <2>4
<1>9. Gap' /\ FragmentLimit'
  BY <1>5 DEF IndInv, Gap, FragmentLimit
<1> QED BY <1>6, <1>7, <1>8, <1>9 DEF IndInv

\* The loop takes the first fragment over into the prefix.
LEMMA DrainStep ==
  ASSUME IndInv, NEW o \in Contiguous, DrainFragment(o)
  PROVE  IndInv'
<1> DEFINE data == fragments[o]
<1>1. /\ o \in DOMAIN fragments /\ o \in Nat /\ o <= Len(bytes)
      /\ data \in Seq(Nat) /\ Len(data) \in Nat
      /\ \A q \in 1..Len(data) : data[q] = o + q - 1
  BY DEF Contiguous, IndInv, TypeOK, InPlace
<1>2. bytes' = bytes \o Suffix(o, data)
  BY DEF DrainFragment
<1> HIDE DEF data
<1>3. /\ bytes' \in Seq(Nat)
      /\ \A q \in 1..Len(bytes') : bytes'[q] = q - 1
      /\ \A p \in Nat : p < Len(bytes') <=> p < Len(bytes) \/ (o <= p /\ p < o + Len(data))
  BY <1>1, <1>2, GrownCovers
<1>4. /\ fragments' = [u \in DOMAIN fragments \ {o} |-> fragments[u]]
      /\ draining /\ draining' = draining /\ failed' = failed /\ received' = received
  BY DEF DrainFragment, Restrict
<1>5. DOMAIN fragments' = DOMAIN fragments \ {o}
      /\ \A u \in DOMAIN fragments' : fragments'[u] = fragments[u]
  BY <1>4
<1>6. TypeOK'
  <2>1. fragments' \in [DOMAIN fragments' -> Seq(Nat)]
    BY <1>4, <1>5 DEF IndInv, TypeOK
  <2> QED BY <1>3, <1>4, <1>5, <2>1 DEF IndInv, TypeOK
<1>7. InPlace'
  BY <1>3, <1>5 DEF IndInv, InPlace
<1>8. Conserved'
  <2>1. \A p \in Nat : Arrived(p)
    BY ConservedPointwise DEF IndInv
  <2>2. ASSUME NEW p \in Nat PROVE Arrived(p)'
    <3>1. (\E u \in DOMAIN fragments : u <= p /\ p < u + Len(fragments[u]))
            <=> \/ o <= p /\ p < o + Len(data)
                \/ \E u \in DOMAIN fragments' : u <= p /\ p < u + Len(fragments'[u])
      BY <1>1, <1>5 DEF data
    <3> QED BY <1>3, <1>4, <2>1, <3>1 DEF Arrived
  <2>3. (TypeOK => (Conserved <=> \A p \in Nat : Arrived(p)))'
    BY ConservedPointwise, PTL
  <2> QED BY <1>6, <2>2, <2>3
<1>9. Gap'
  BY <1>4 DEF Gap
<1>10. FragmentLimit'
  <2>1. IsFiniteSet(DOMAIN fragments) /\ Cardinality(DOMAIN fragments) \in Nat
    BY FS_CardinalityType DEF IndInv, FragmentLimit
  <2>2. /\ IsFiniteSet(DOMAIN fragments \ {o})
        /\ Cardinality(DOMAIN fragments \ {o}) = Cardinality(DOMAIN fragments) - 1
    BY <1>1, <2>1, FS_RemoveElement
  <2> QED BY <1>5, <2>1, <2>2, FrameAssumption DEF IndInv, FragmentLimit
<1> QED BY <1>6, <1>7, <1>8, <1>9, <1>10 DEF IndInv

\* The loop ends when the first fragment is beyond the prefix, and so are all.
LEMMA DrainEndStep ==
  ASSUME IndInv, DrainEnd
  PROVE  IndInv'
<1>1. /\ bytes' = bytes /\ fragments' = fragments
      /\ failed' = failed /\ received' = received /\ draining' = FALSE
  BY DEF DrainEnd
<1>2. Contiguous = {}
  BY DEF DrainEnd, DrainEnds
<1>3. ASSUME NEW o \in DOMAIN fragments PROVE o > Len(bytes)
  <2> DEFINE D == DOMAIN fragments
  <2>1. IsFiniteSet(D) /\ D \subseteq Nat /\ Len(bytes) \in Nat
    BY DEF IndInv, FragmentLimit, TypeOK
  <2>2. PICK m \in D : \A u \in D : m <= u
    BY <1>3, <2>1, MinNat
  <2>3. ~ (m <= Len(bytes))
    BY <1>2, <2>2 DEF Contiguous
  <2> QED BY <1>3, <2>1, <2>2, <2>3
<1>4. TypeOK' /\ InPlace' /\ Conserved' /\ FragmentLimit'
  BY <1>1 DEF IndInv, TypeOK, InPlace, Conserved, FragmentLimit
<1>5. Gap'
  BY <1>1, <1>3 DEF Gap
<1> QED BY <1>4, <1>5 DEF IndInv

\* Initially nothing has arrived.
LEMMA InitInv == Init => IndInv
<1> SUFFICES ASSUME Init PROVE IndInv
  OBVIOUS
<1>1. DOMAIN fragments = {} /\ bytes = <<>> /\ received = {}
  BY DEF Init
<1>2. TypeOK
  <2>1. fragments \in [DOMAIN fragments -> Seq(Nat)]
    BY DEF Init
  <2>2. bytes \in Seq(Nat) /\ DOMAIN fragments \subseteq Nat /\ received \subseteq Nat
    BY <1>1
  <2>3. draining \in BOOLEAN /\ failed \in BOOLEAN
    BY DEF Init
  <2> QED BY <2>1, <2>2, <2>3 DEF TypeOK
<1>3. \A p \in Nat : Arrived(p)
  BY <1>1 DEF Arrived
<1>4. Conserved
  BY <1>2, <1>3, ConservedPointwise
<1>5. InPlace /\ Gap
  BY <1>1 DEF InPlace, Gap
<1>6. FragmentLimit
  BY <1>1, FS_EmptySet, FrameAssumption DEF FragmentLimit
<1> QED BY <1>2, <1>4, <1>5, <1>6 DEF IndInv

\* insert puts every byte at its place, loses none, and leaves a gap before
\* every fragment it keeps, after every step, for all frames and limits.
THEOREM Reassembled == InitialsSpec => []IndInv
<1>1. IndInv /\ [InitialsNext]_<<part, vars, table, walk>> => IndInv'
  <2> SUFFICES ASSUME IndInv, [Next]_vars PROVE IndInv'
    BY DEF InitialsNext
  <2>1. ASSUME NEW f \in Frames, Insert(f) PROVE IndInv'
    <3>1. CASE Store(f)
      BY <2>1, <3>1, StoreStep DEF Insert
    <3>2. CASE Overflow(f)
      <4>1. failed' = TRUE /\ UNCHANGED <<bytes, fragments, draining, received>>
        BY <3>2 DEF Overflow
      <4> QED BY <4>1 DEF IndInv, TypeOK, InPlace, Conserved, Gap, FragmentLimit
    <3>3. CASE Extend(f)
      BY <3>3, ExtendStep
    <3> QED BY <2>1, <3>1, <3>2, <3>3 DEF Insert
  <2>2. ASSUME NEW o \in Contiguous, DrainFragment(o) PROVE IndInv'
    BY <2>2, DrainStep
  <2>3. CASE DrainEnd
    BY <2>3, DrainEndStep
  <2>4. CASE UNCHANGED vars
    BY <2>4 DEF vars, IndInv, TypeOK, InPlace, Conserved, Gap, FragmentLimit
  <2> QED BY <2>1, <2>2, <2>3, <2>4 DEF Next
<1>2. InitialsInit => IndInv
  BY InitInv DEF InitialsInit
<1> QED BY <1>1, <1>2, PTL DEF InitialsSpec

\* clienthello() returns the message as soon as, and not before, all of its
\* bytes have arrived, whatever the order, the overlaps and the repetitions.
THEOREM HelloFound == InitialsSpec => []HelloWhenComplete
<1>1. IndInv => HelloWhenComplete
  <2> SUFFICES ASSUME IndInv, ~draining
               PROVE  HasClientHello <=> (0 .. HelloLen - 1) \subseteq received
    BY DEF HelloWhenComplete
  <2>1. Len(bytes) \in Nat /\ HelloLen \in Nat /\ HelloLen >= 4
    BY FrameAssumption DEF IndInv, TypeOK
  <2>2. \A p \in Nat : Arrived(p)
    BY ConservedPointwise DEF IndInv
  <2>3. ASSUME Len(bytes) >= HelloLen, NEW p \in 0 .. HelloLen - 1
        PROVE  p \in received
    BY <2>1, <2>2, <2>3 DEF Arrived
  <2>4. ASSUME Len(bytes) < HelloLen
        PROVE  Len(bytes) \notin received
    <3>1. \A o \in DOMAIN fragments : o \in Nat /\ ~ (o <= Len(bytes))
      BY <2>1 DEF IndInv, TypeOK, Gap
    <3> QED BY <2>1, <2>2, <3>1 DEF Arrived
  <2> QED BY <2>1, <2>3, <2>4 DEF HasClientHello
<1> QED BY Reassembled, <1>1, PTL

-----------------------------------------------------------------------------
(* CidRoutes. *)

\* Of any table: its type, the IDs in it, and the table with its lengths
\* forgotten.
Typed(t) ==
  /\ DOMAIN t \subseteq Table!Lengths
  /\ \A n \in DOMAIN t :
       /\ DOMAIN t[n] \subseteq {c \in Cids : Len(c) = n}
       /\ \A c \in DOMAIN t[n] : t[n][c] \in Paths

Holds(t, c) == Len(c) \in DOMAIN t /\ c \in DOMAIN t[Len(c)]

FlatOf(t) == [c \in UNION {DOMAIN t[n] : n \in DOMAIN t} |-> t[Len(c)][c]]

\* What makes LengthsInUse inductive and the answers those of a flat table: no
\* empty ID is in the table.
GoodTable(t) == Typed(t) /\ (\A n \in DOMAIN t : DOMAIN t[n] # {}) /\ ~Holds(t, <<>>)

TableInv == GoodTable(by_length)

LEMMA TableIs ==
  /\ TableInv => Table!LengthsInUse
  /\ Table!Owner = FlatOf(by_length) /\ Table!Owner' = FlatOf(by_length')
  /\ \A c : Table!Registered(c) <=> Holds(by_length, c)
BY DEF TableInv, GoodTable, Typed, Holds, FlatOf, Table!LengthsInUse, Table!TypeOK, Table!Owner,
       Table!Registered

\* The length of an ID is a number, and only the empty one has none.
LEMMA CidLen == \A c \in Cids : Len(c) \in Nat /\ (c = <<>> <=> Len(c) = 0)
<1>1. \A c \in Seq(0..255) : Len(c) \in Nat /\ (c = <<>> <=> Len(c) = 0)
  BY EmptySeq
<1> QED
  BY <1>1, TableAssumption

\* An ID that is anywhere in the table is in the map of its length.
LEMMA FlatFacts ==
  ASSUME NEW t, Typed(t)
  PROVE  /\ DOMAIN FlatOf(t) = {c \in Cids : Holds(t, c)}
         /\ \A c \in DOMAIN FlatOf(t) : FlatOf(t)[c] = t[Len(c)][c]
         /\ \A c : Holds(t, c) <=> c \in DOMAIN FlatOf(t)
         /\ FlatOf(t) = [c \in DOMAIN FlatOf(t) |-> FlatOf(t)[c]]
<1> DEFINE held == UNION {DOMAIN t[n] : n \in DOMAIN t}
<1>1. FlatOf(t) = [c \in held |-> t[Len(c)][c]]
  BY DEF FlatOf
<1>2. ASSUME NEW c, c \in held PROVE Holds(t, c) /\ c \in Cids
  <2>1. PICK n \in DOMAIN t : c \in DOMAIN t[n]
    BY <1>2
  <2>2. c \in Cids /\ Len(c) = n
    BY <2>1 DEF Typed
  <2> QED
    BY <2>1, <2>2 DEF Holds
<1>3. ASSUME NEW c, Holds(t, c) PROVE c \in held
  BY <1>3 DEF Holds
<1>4. held = {c \in Cids : Holds(t, c)}
  BY <1>2, <1>3
<1>5. \A c : Holds(t, c) <=> c \in held
  BY <1>2, <1>3
<1> HIDE DEF held
<1> QED
  BY <1>1, <1>4, <1>5

LEMMA TableInit == Table!Init => TableInv /\ Table!Flat!Init
<1> SUFFICES ASSUME Table!Init PROVE TableInv /\ Table!Flat!Init
  OBVIOUS
<1>1. by_length = <<>> /\ answer = None /\ DOMAIN by_length = {}
  BY DEF Table!Init
<1>2. TableInv
  BY <1>1 DEF TableInv, GoodTable, Typed, Holds
<1>3. Table!Owner = <<>>
  BY <1>1 DEF Table!Owner
<1> QED
  BY <1>1, <1>2, <1>3 DEF Table!Flat!Init

\* The table after insert of an ID that is new.
Grown(t, cid, path) ==
  [n \in DOMAIN t \cup {Len(cid)} |->
     IF n = Len(cid)
     THEN [c \in (IF n \in DOMAIN t THEN DOMAIN t[n] ELSE {}) \cup {cid} |->
             IF c = cid THEN path ELSE t[n][c]]
     ELSE t[n]]

\* The same of a flat table.
Plus(f, cid, path) == [c \in DOMAIN f \cup {cid} |-> IF c = cid THEN path ELSE f[c]]

\* The map of the length, and the table, after remove.
Rest(t, cid) == [c \in DOMAIN t[Len(cid)] \ {cid} |-> t[Len(cid)][c]]

Trimmed(t, cid) ==
  IF DOMAIN Rest(t, cid) = {} THEN [n \in DOMAIN t \ {Len(cid)} |-> t[n]]
  ELSE [n \in DOMAIN t \cup {Len(cid)} |-> IF n = Len(cid) THEN Rest(t, cid) ELSE t[n]]

LEMMA Inserted ==
  ASSUME NEW t, GoodTable(t), NEW cid \in Cids, cid # <<>>, NEW path \in Paths, ~Holds(t, cid)
  PROVE  /\ GoodTable(Grown(t, cid, path))
         /\ FlatOf(Grown(t, cid, path)) = Plus(FlatOf(t), cid, path)
<1> DEFINE u == Grown(t, cid, path)
           L == Len(cid)
           old == IF L \in DOMAIN t THEN DOMAIN t[L] ELSE {}
           new == [c \in old \cup {cid} |-> IF c = cid THEN path ELSE t[L][c]]
<1>1. /\ DOMAIN u = DOMAIN t \cup {L} /\ u[L] = new /\ DOMAIN u[L] = old \cup {cid}
      /\ \A n \in DOMAIN t : n # L => u[n] = t[n]
  BY DEF Grown
<1> HIDE DEF u
<1>2. /\ DOMAIN t \subseteq Table!Lengths
      /\ \A n \in DOMAIN t : /\ DOMAIN t[n] \subseteq {c \in Cids : Len(c) = n}
                             /\ \A c \in DOMAIN t[n] : t[n][c] \in Paths
                             /\ DOMAIN t[n] # {}
      /\ ~Holds(t, <<>>)
  BY DEF GoodTable, Typed
<1>3. L \in Table!Lengths
  BY DEF Table!Lengths
<1>4. ASSUME NEW n \in DOMAIN u
      PROVE  /\ DOMAIN u[n] \subseteq {c \in Cids : Len(c) = n} /\ DOMAIN u[n] # {}
             /\ \A c \in DOMAIN u[n] : u[n][c] \in Paths
  <2>1. CASE n = L
    <3>1. old \subseteq {c \in Cids : Len(c) = L}
      BY <1>2
    <3>2. \A c \in old : t[L][c] \in Paths
      BY <1>2
    <3>3. DOMAIN u[n] \subseteq {c \in Cids : Len(c) = n} /\ DOMAIN u[n] # {}
      BY <1>1, <2>1, <3>1
    <3>4. ASSUME NEW c \in DOMAIN u[n] PROVE u[n][c] \in Paths
      BY <1>1, <2>1, <3>2
    <3> QED
      BY <3>3, <3>4
  <2>2. CASE n # L
    BY <1>1, <1>2, <2>2
  <2> QED
    BY <2>1, <2>2
<1>5. Typed(u)
  BY <1>1, <1>2, <1>3, <1>4 DEF Typed
<1>6. \A c : Holds(u, c) <=> Holds(t, c) \/ c = cid
  <2>1. TAKE c
  <2>2. CASE Len(c) = L
    BY <1>1, <2>2 DEF Holds
  <2>3. CASE Len(c) # L
    BY <1>1, <2>3 DEF Holds
  <2> QED
    BY <2>2, <2>3
<1>7. GoodTable(u)
  BY <1>2, <1>4, <1>5, <1>6 DEF GoodTable
<1>8. \A c : Holds(t, c) <=> c \in DOMAIN FlatOf(t)
  BY FlatFacts DEF GoodTable
<1>9. ASSUME NEW c, Holds(u, c)
      PROVE  u[Len(c)][c] = IF c = cid THEN path ELSE FlatOf(t)[c]
  <2>1. CASE c = cid
    BY <1>1, <2>1
  <2>2. CASE c # cid /\ Len(c) = L
    <3>1. Holds(t, c) /\ c \in old
      BY <1>6, <1>9, <2>2 DEF Holds
    <3>2. u[Len(c)][c] = t[L][c]
      BY <1>1, <2>2, <3>1
    <3>3. FlatOf(t)[c] = t[Len(c)][c]
      BY <1>8, <3>1, FlatFacts DEF GoodTable
    <3> QED
      BY <2>2, <3>2, <3>3
  <2>3. CASE Len(c) # L
    <3>1. Holds(t, c) /\ u[Len(c)] = t[Len(c)]
      BY <1>1, <1>6, <1>9, <2>3 DEF Holds
    <3> QED
      BY <1>8, <2>3, <3>1, FlatFacts, ZenonT(30) DEF GoodTable
  <2> QED
    BY <2>1, <2>2, <2>3
<1>10. FlatOf(u) = [c \in DOMAIN FlatOf(t) \cup {cid} |-> IF c = cid THEN path ELSE FlatOf(t)[c]]
  <2> DEFINE f == [c \in DOMAIN FlatOf(t) \cup {cid} |-> IF c = cid THEN path ELSE FlatOf(t)[c]]
  <2>1. /\ DOMAIN f = DOMAIN FlatOf(t) \cup {cid} /\ f = [c \in DOMAIN f |-> f[c]]
        /\ \A c \in DOMAIN f : f[c] = IF c = cid THEN path ELSE FlatOf(t)[c]
    OBVIOUS
  <2> HIDE DEF f
  <2>2. \A c : Holds(u, c) <=> c \in DOMAIN f
    BY <1>6, <1>8, <2>1
  <2>3. \A c \in DOMAIN f : u[Len(c)][c] = f[c]
    BY <1>9, <2>1, <2>2
  <2>4. /\ \A c : Holds(u, c) <=> c \in DOMAIN FlatOf(u)
        /\ \A c \in DOMAIN FlatOf(u) : FlatOf(u)[c] = u[Len(c)][c]
        /\ FlatOf(u) = [c \in DOMAIN FlatOf(u) |-> FlatOf(u)[c]]
    BY <1>5, FlatFacts
  <2>5. DOMAIN FlatOf(u) = DOMAIN f /\ \A c \in DOMAIN f : FlatOf(u)[c] = f[c]
    BY <2>2, <2>3, <2>4
  <2>6. FlatOf(u) = f
    BY <2>1, <2>4, <2>5
  <2> QED
    BY <2>6 DEF f
<1> QED
  BY <1>7, <1>10 DEF u, Plus

\* remove of an ID whose length is in use.
LEMMA Removed ==
  ASSUME NEW t, GoodTable(t), NEW cid \in Cids, Len(cid) \in DOMAIN t
  PROVE  /\ GoodTable(Trimmed(t, cid))
         /\ FlatOf(Trimmed(t, cid)) = [c \in DOMAIN FlatOf(t) \ {cid} |-> FlatOf(t)[c]]
<1> DEFINE u == Trimmed(t, cid)
           m == Rest(t, cid)
           L == Len(cid)
<1>1. /\ DOMAIN m = DOMAIN t[L] \ {cid} /\ \A c \in DOMAIN m : m[c] = t[L][c]
      /\ DOMAIN u \subseteq DOMAIN t /\ \A n \in DOMAIN t : n # L => n \in DOMAIN u /\ u[n] = t[n]
      /\ L \in DOMAIN u <=> DOMAIN m # {}
      /\ L \in DOMAIN u => u[L] = m
  BY DEF Rest, Trimmed
<1> HIDE DEF u, m
<1>2. /\ DOMAIN t \subseteq Table!Lengths
      /\ \A n \in DOMAIN t : /\ DOMAIN t[n] \subseteq {c \in Cids : Len(c) = n}
                             /\ \A c \in DOMAIN t[n] : t[n][c] \in Paths
                             /\ DOMAIN t[n] # {}
      /\ ~Holds(t, <<>>)
  BY DEF GoodTable, Typed
<1>3. ASSUME NEW n \in DOMAIN u
      PROVE  /\ DOMAIN u[n] \subseteq {c \in Cids : Len(c) = n} /\ DOMAIN u[n] # {}
             /\ \A c \in DOMAIN u[n] : u[n][c] \in Paths
  <2>1. CASE n = L
    <3>1. u[n] = m /\ DOMAIN m # {} /\ DOMAIN m \subseteq DOMAIN t[L] /\ L \in DOMAIN t
      BY <1>1, <2>1
    <3> QED
      BY <1>1, <1>2, <2>1, <3>1
  <2>2. CASE n # L
    BY <1>1, <1>2, <2>2
  <2> QED
    BY <2>1, <2>2
<1>4. Typed(u)
  BY <1>1, <1>2, <1>3 DEF Typed
<1>5. \A c : Holds(u, c) <=> Holds(t, c) /\ c # cid
  <2>1. TAKE c
  <2>2. CASE Len(c) = L
    BY <1>1, <2>2 DEF Holds
  <2>3. CASE Len(c) # L
    BY <1>1, <2>3 DEF Holds
  <2> QED
    BY <2>2, <2>3
<1>6. GoodTable(u)
  BY <1>2, <1>3, <1>4, <1>5 DEF GoodTable
<1>7. \A c : Holds(t, c) <=> c \in DOMAIN FlatOf(t)
  BY FlatFacts DEF GoodTable
<1>8. ASSUME NEW c, Holds(u, c) PROVE u[Len(c)][c] = FlatOf(t)[c]
  <2>1. Holds(t, c) /\ c # cid
    BY <1>5, <1>8
  <2>2. u[Len(c)][c] = t[Len(c)][c]
    <3>1. CASE Len(c) = L
      BY <1>1, <1>8, <3>1 DEF Holds
    <3>2. CASE Len(c) # L
      BY <1>1, <2>1, <3>2 DEF Holds
    <3> QED
      BY <3>1, <3>2
  <2> QED
    BY <1>7, <2>1, <2>2, FlatFacts DEF GoodTable
<1>9. FlatOf(u) = [c \in DOMAIN FlatOf(t) \ {cid} |-> FlatOf(t)[c]]
  <2> DEFINE f == [c \in DOMAIN FlatOf(t) \ {cid} |-> FlatOf(t)[c]]
  <2>1. /\ DOMAIN f = DOMAIN FlatOf(t) \ {cid} /\ f = [c \in DOMAIN f |-> f[c]]
        /\ \A c \in DOMAIN f : f[c] = FlatOf(t)[c]
    OBVIOUS
  <2> HIDE DEF f
  <2>2. \A c : Holds(u, c) <=> c \in DOMAIN f
    BY <1>5, <1>7, <2>1
  <2>3. \A c \in DOMAIN f : u[Len(c)][c] = f[c]
    BY <1>8, <2>1, <2>2
  <2>4. /\ \A c : Holds(u, c) <=> c \in DOMAIN FlatOf(u)
        /\ \A c \in DOMAIN FlatOf(u) : FlatOf(u)[c] = u[Len(c)][c]
        /\ FlatOf(u) = [c \in DOMAIN FlatOf(u) |-> FlatOf(u)[c]]
    BY <1>4, FlatFacts
  <2>5. DOMAIN FlatOf(u) = DOMAIN f /\ \A c \in DOMAIN f : FlatOf(u)[c] = f[c]
    BY <2>2, <2>3, <2>4
  <2>6. FlatOf(u) = f
    BY <2>1, <2>4, <2>5
  <2> QED
    BY <2>6 DEF f
<1> QED
  BY <1>6, <1>9 DEF u

\* The longest hit: some length of a non-empty set of bounded lengths.
LEMMA Longest ==
  ASSUME NEW S, NEW l \in Nat, S \subseteq 0..l, S # {}
  PROVE  \E n \in S : \A m \in S : m <= n
<1> DEFINE T == {l - n : n \in S}
<1>1. T \subseteq Nat /\ T # {}
  <2>1. ASSUME NEW n \in S PROVE l - n \in Nat
    <3>1. n \in 0..l
      OBVIOUS
    <3> QED
      BY <3>1
  <2> QED
    BY <2>1
<1>2. Min(T) \in T /\ \A y \in T : Min(T) <= y
  BY <1>1, MinNat
<1>3. PICK n \in S : Min(T) = l - n
  BY <1>2
<1>4. ASSUME NEW m \in S PROVE m <= n
  <2>1. l - n <= l - m
    BY <1>2, <1>3
  <2> QED
    BY <2>1
<1> QED
  BY <1>4

\* match_prefix finds the longest registered ID that the header starts with.
LEMMA Matched ==
  ASSUME TableInv, NEW header \in Headers, Table!Match(header)
  PROVE  Table!Flat!Match(header)
<1> DEFINE t == by_length
           H == Table!Hits(header)
           C == Table!Flat!Candidates(header)
           cut(n) == SubSeq(header, 1, n)
<1>1. /\ H = {n \in DOMAIN t : n <= Len(header) /\ cut(n) \in DOMAIN t[n]}
      /\ answer' = (IF H = {} THEN None
                    ELSE LET n == CHOOSE n \in H : \A m \in H : m <= n IN t[n][cut(n)])
      /\ t' = t
  BY DEF Table!Match, Table!match_prefix, Table!Hits
<1>2. Table!Owner = FlatOf(t) /\ Table!Owner' = Table!Owner
  BY <1>1, TableIs
<1>3. Typed(t)
  BY DEF TableInv, GoodTable
<1>4. /\ DOMAIN FlatOf(t) = {c \in Cids : Holds(t, c)}
      /\ \A c \in DOMAIN FlatOf(t) : FlatOf(t)[c] = t[Len(c)][c]
  BY <1>3, FlatFacts
<1>5. header \in Seq(0..255) /\ Len(header) \in Nat
  BY TableAssumption
<1>6. DOMAIN t \subseteq Nat
  BY <1>3, CidLen DEF Typed, Table!Lengths
<1>7. C = {c \in DOMAIN FlatOf(t) : Len(c) <= Len(header) /\ SubSeq(c, 1, Len(c)) = cut(Len(c))}
  BY <1>2 DEF Table!Flat!Candidates, Table!Flat!IsPrefix
<1>8. ASSUME NEW c \in Cids PROVE SubSeq(c, 1, Len(c)) = c
  BY TableAssumption
<1>9. ASSUME NEW n \in H PROVE cut(n) \in C /\ Len(cut(n)) = n /\ FlatOf(t)[cut(n)] = t[n][cut(n)]
  <2>1. n \in DOMAIN t /\ cut(n) \in DOMAIN t[n] /\ n <= Len(header)
    BY <1>1
  <2>2. cut(n) \in Cids /\ Len(cut(n)) = n
    BY <1>3, <2>1 DEF Typed
  <2>3. Holds(t, cut(n))
    BY <2>1, <2>2 DEF Holds
  <2>4. cut(n) \in DOMAIN FlatOf(t)
    BY <1>4, <2>2, <2>3
  <2> HIDE DEF cut
  <2> QED
    BY <1>4, <1>7, <1>8, <2>1, <2>2, <2>4
<1>10. ASSUME NEW c \in C PROVE Len(c) \in H /\ cut(Len(c)) = c
  <2>1. c \in Cids /\ Holds(t, c) /\ Len(c) <= Len(header) /\ SubSeq(c, 1, Len(c)) = cut(Len(c))
    BY <1>4, <1>7
  <2>2. cut(Len(c)) = c
    BY <1>8, <2>1
  <2> HIDE DEF cut
  <2> QED
    BY <1>1, <2>1, <2>2 DEF Holds
<1> HIDE DEF cut, H, C
<1>11. CASE H = {}
  <2>1. C = {} /\ answer' = None
    BY <1>1, <1>10, <1>11
  <2> QED
    BY <1>2, <2>1 DEF Table!Flat!Match, C
<1>12. CASE H # {}
  <2> DEFINE n == CHOOSE n \in H : \A m \in H : m <= n
  <2>1. H \subseteq 0..Len(header)
    BY <1>1, <1>5, <1>6
  <2>2. \E x \in H : \A m \in H : m <= x
    BY <1>5, <1>12, <2>1, Longest
  <2>3. n \in H /\ \A m \in H : m <= n
    BY <2>2
  <2>4. answer' = t[n][cut(n)]
    BY <1>1, <1>12
  <2> HIDE DEF n
  <2>5. cut(n) \in C /\ Len(cut(n)) = n /\ answer' = FlatOf(t)[cut(n)]
    BY <1>9, <2>3, <2>4
  <2>6. \A other \in C : Len(other) <= Len(cut(n))
    BY <1>10, <2>3, <2>5
  <2> QED
    BY <1>2, <2>5, <2>6 DEF Table!Flat!Match, C
<1> QED
  BY <1>11, <1>12

(* Every call answers as one of the flat table does, and leaves the table  *)
(* of which the flat one is the image.                                     *)
LEMMA TableStep ==
  ASSUME TableInv, Table!Next
  PROVE  TableInv' /\ Table!Flat!Next
<1> DEFINE t == by_length
           own == Table!Owner
<1>1. /\ own = FlatOf(t) /\ own' = FlatOf(t')
      /\ \A c : Table!Registered(c) <=> Holds(t, c)
      /\ GoodTable(t) /\ Typed(t)
  BY TableIs DEF TableInv, GoodTable
<1>2. /\ \A c : Holds(t, c) <=> c \in DOMAIN own
      /\ \A c \in DOMAIN own : own[c] = t[Len(c)][c]
      /\ own = [c \in DOMAIN own |-> own[c]]
  BY <1>1, FlatFacts
<1>3. ASSUME UNCHANGED by_length PROVE TableInv' /\ own' = own
  BY <1>1, <1>3 DEF TableInv
<1>4. ASSUME NEW cid \in Cids, Table!InsertEmpty(cid) PROVE TableInv' /\ Table!Flat!Next
  <2>1. cid = <<>> /\ answer' = FALSE /\ UNCHANGED by_length
    BY <1>4 DEF Table!InsertEmpty
  <2>2. cid \notin DOMAIN own
    BY <1>1, <1>2, <2>1 DEF GoodTable
  <2>3. PICK path \in Paths : TRUE
    BY TableAssumption
  <2>4. Table!Flat!Register(cid, path)
    BY <1>3, <2>1, <2>2 DEF Table!Flat!Register
  <2> QED
    BY <1>3, <2>1, <2>4 DEF Table!Flat!Next
<1>5. ASSUME NEW cid \in Cids, Table!get(cid) PROVE TableInv' /\ Table!Flat!Next
  <2>1. UNCHANGED by_length /\ answer' = IF Holds(t, cid) THEN t[Len(cid)][cid] ELSE None
    BY <1>1, <1>5 DEF Table!get
  <2>2. Table!Flat!Lookup(cid)
    BY <1>2, <1>3, <2>1 DEF Table!Flat!Lookup
  <2> QED
    BY <1>3, <2>1, <2>2 DEF Table!Flat!Next
<1>6. ASSUME NEW cid \in Cids, Table!remove(cid) PROVE TableInv' /\ Table!Flat!Next
  <2>1. answer' = IF cid \in DOMAIN own THEN own[cid] ELSE None
    BY <1>1, <1>2, <1>6 DEF Table!remove
  <2>2. GoodTable(t') /\ own' = [c \in DOMAIN own \ {cid} |-> own[c]]
    <3>1. CASE Len(cid) \in DOMAIN t
      <4>1. t' = Trimmed(t, cid)
        BY <1>6, <3>1
        DEF Table!remove, Table!Shrunk, Table!Without, Table!With, Trimmed, Rest
      <4> QED
        BY <1>1, <3>1, <4>1, Removed, SMTT(30)
    <3>2. CASE Len(cid) \notin DOMAIN t
      <4>1. t' = t
        BY <1>6, <3>2 DEF Table!remove
      <4>2. cid \notin DOMAIN own
        BY <1>2, <3>2 DEF Holds
      <4>3. DOMAIN own \ {cid} = DOMAIN own
        BY <4>2
      <4> QED
        BY <1>1, <1>2, <1>3, <4>1, <4>3
    <3> QED
      BY <3>1, <3>2
  <2>3. Table!Flat!Unregister(cid)
    BY <2>1, <2>2 DEF Table!Flat!Unregister
  <2> QED
    BY <2>2, <2>3 DEF TableInv, Table!Flat!Next
<1>7. ASSUME NEW cid \in Cids, NEW path \in Paths, Table!InsertVacant(cid, path)
      PROVE  TableInv' /\ Table!Flat!Next
  <2>1. cid # <<>> /\ ~Holds(t, cid) /\ answer' = TRUE
    BY <1>1, <1>7 DEF Table!InsertVacant
  <2>2. t' = Grown(t, cid, path)
    <3> DEFINE L == Len(cid)
               new == [c \in (IF L \in DOMAIN t THEN DOMAIN t[L] ELSE {}) \cup {cid} |->
                         IF c = cid THEN path ELSE t[L][c]]
    <3>1. t' = Table!With(t, L, Table!With(Table!OfLength(L), cid, path))
      BY <1>7 DEF Table!InsertVacant
    <3>2. Table!With(Table!OfLength(L), cid, path) = new
      <4>1. CASE L \in DOMAIN t
        BY <4>1 DEF Table!With, Table!OfLength
      <4>2. CASE L \notin DOMAIN t
        <5>1. Table!OfLength(L) = <<>> /\ DOMAIN <<>> = {}
          BY <4>2 DEF Table!OfLength
        <5>2. Table!With(<<>>, cid, path) = [c \in {cid} |-> path]
          BY <5>1 DEF Table!With
        <5> QED
          BY <4>2, <5>1, <5>2
      <4> QED
        BY <4>1, <4>2
    <3>3. t' = [n \in DOMAIN t \cup {L} |-> IF n = L THEN new ELSE t[n]]
      BY <3>1, <3>2 DEF Table!With
    <3> QED
      BY <3>3 DEF Grown
  <2>3. GoodTable(t') /\ own' = Plus(own, cid, path)
    BY <1>1, <2>1, <2>2, Inserted
  <2>4. cid \notin DOMAIN own
    BY <1>2, <2>1
  <2>5. Table!Flat!Register(cid, path)
    BY <2>1, <2>3, <2>4 DEF Table!Flat!Register, Plus
  <2> QED
    BY <2>3, <2>5 DEF TableInv, Table!Flat!Next
<1>8. ASSUME NEW cid \in Cids, NEW path \in Paths, Table!InsertOccupied(cid, path)
      PROVE  TableInv' /\ Table!Flat!Next
  <2>1. cid # <<>> /\ Holds(t, cid) /\ answer' = (t[Len(cid)][cid] = path) /\ UNCHANGED by_length
    BY <1>1, <1>8 DEF Table!InsertOccupied
  <2>2. cid \in DOMAIN own /\ answer' = (own[cid] = path)
    BY <1>2, <2>1
  <2>3. Table!Flat!Register(cid, path)
    BY <1>3, <2>1, <2>2 DEF Table!Flat!Register
  <2> QED
    BY <1>3, <2>1, <2>3 DEF Table!Flat!Next
<1>9. ASSUME NEW header \in Headers, Table!Match(header) PROVE TableInv' /\ Table!Flat!Next
  <2>1. UNCHANGED by_length
    BY <1>9 DEF Table!Match
  <2> QED
    BY <1>3, <1>9, <2>1, Matched DEF Table!Flat!Next
<1> QED
  BY <1>4, <1>5, <1>6, <1>7, <1>8, <1>9 DEF Table!Next

(* For every set of connection IDs, headers and paths: the index by length *)
(* answers every call of insert, get, remove and match_prefix as a flat    *)
(* table would, in which an owner is never replaced and the longest        *)
(* registered prefix wins, and no length stays in it without an ID.        *)
THEOREM TableIsKept == InitialsSpec => TableKept
<1>1. InitialsInit => TableInv /\ Table!Flat!Init
  BY TableInit DEF InitialsInit
<1>2. TableInv /\ [InitialsNext]_<<part, vars, table, walk>>
      => TableInv' /\ [Table!Flat!Next]_(Table!Flat!vars)
  <2> SUFFICES ASSUME TableInv, [InitialsNext]_<<part, vars, table, walk>>
               PROVE  TableInv' /\ [Table!Flat!Next]_(Table!Flat!vars)
    OBVIOUS
  <2>1. CASE Table!Next
    BY <2>1, TableStep
  <2>2. CASE UNCHANGED table
    BY <2>2, TableIs DEF table, TableInv, Table!Flat!vars
  <2> QED
    BY <2>1, <2>2 DEF InitialsNext
<1>3. TableInv => Table!LengthsInUse
  BY TableIs
<1> QED
  BY <1>1, <1>2, <1>3, PTL DEF InitialsSpec, TableKept, Table!AnswersAsFlat, Table!Flat!Spec

-----------------------------------------------------------------------------
(* InitialFrames. *)

\* The bytes of a buffer are numbers.
LEMMA ByteType ==
  ASSUME NEW buf \in Seq(0..255), NEW n \in Nat, n < Len(buf)
  PROVE  Walk!Byte(buf, n) \in 0..255 /\ Walk!Byte(buf, n) \in Nat
<1>1. n + 1 \in 1..Len(buf)
  OBVIOUS
<1>2. buf[n + 1] \in 0..255
  BY <1>1, ElementOfSeq
<1>3. \A b \in 0..255 : b \in Nat
  OBVIOUS
<1> QED
  BY <1>2, <1>3 DEF Walk!Byte

\* A number of one, two, four or eight bytes.
LEMMA VarintLenType ==
  \A buf, n : Walk!VarintLen(buf, n) \in {1, 2, 4, 8}
BY DEF Walk!VarintLen

\* read_varint_at gives a number that ends inside of the buffer.
LEMMA VarintType ==
  ASSUME NEW buf \in Seq(0..255), NEW n \in Nat, n < Len(buf),
         n + Walk!VarintLen(buf, n) <= Len(buf)
  PROVE  Walk!VarintValue(buf, n) \in Nat
<1> DEFINE l == Walk!VarintLen(buf, n)
           v1 == Walk!Byte(buf, n) % 64
           v2 == Walk!Shift(buf, v1, n + 1)
           v4 == Walk!Shift2(buf, v2, n + 2)
           v8 == Walk!Shift4(buf, v4, n + 4)
<1>0. Len(buf) \in Nat
  OBVIOUS
<1>1. l \in {1, 2, 4, 8} /\ n + l <= Len(buf)
  BY VarintLenType
<1>2. Walk!VarintValue(buf, n) = CASE l = 1 -> v1 [] l = 2 -> v2 [] l = 4 -> v4 [] l = 8 -> v8
  BY DEF Walk!VarintValue
<1>3. ASSUME NEW v \in Nat, NEW m \in Nat, m < Len(buf) PROVE Walk!Shift(buf, v, m) \in Nat
  <2>1. Walk!Byte(buf, m) \in Nat
    BY <1>3, ByteType
  <2>2. \A a, b \in Nat : 256 * a + b \in Nat
    OBVIOUS
  <2> QED
    BY <2>1, <2>2 DEF Walk!Shift
<1>4. ASSUME NEW v \in Nat, NEW m \in Nat, m + 1 < Len(buf) PROVE Walk!Shift2(buf, v, m) \in Nat
  <2>1. m < Len(buf) /\ m + 1 \in Nat
    BY <1>0, <1>4
  <2> QED
    BY <1>3, <1>4, <2>1 DEF Walk!Shift2
<1>5. ASSUME NEW v \in Nat, NEW m \in Nat, m + 3 < Len(buf) PROVE Walk!Shift4(buf, v, m) \in Nat
  <2>1. m + 1 < Len(buf) /\ m + 2 \in Nat /\ (m + 2) + 1 < Len(buf)
    BY <1>0, <1>5
  <2> QED
    BY <1>4, <2>1 DEF Walk!Shift4
<1>6. v1 \in Nat
  <2>1. Walk!Byte(buf, n) \in Nat
    BY ByteType
  <2>2. \A a \in Nat : a % 64 \in Nat
    OBVIOUS
  <2> QED
    BY <2>1, <2>2
<1>7. ASSUME l /= 1 PROVE v2 \in Nat
  <2>1. n + 1 \in Nat /\ n + 1 < Len(buf)
    BY <1>0, <1>1, <1>7
  <2> HIDE DEF v1
  <2> QED
    BY <1>3, <1>6, <2>1
<1>8. ASSUME l \in {4, 8} PROVE v4 \in Nat
  <2>1. n + 2 \in Nat /\ (n + 2) + 1 < Len(buf) /\ l /= 1
    BY <1>0, <1>1, <1>8
  <2> HIDE DEF v2, l
  <2> QED
    BY <1>4, <1>7, <2>1
<1>9. ASSUME l = 8 PROVE v8 \in Nat
  <2>1. n + 4 \in Nat /\ (n + 4) + 3 < Len(buf) /\ l \in {4, 8}
    BY <1>0, <1>1, <1>9
  <2> HIDE DEF v4, l
  <2> QED
    BY <1>5, <1>8, <2>1
<1> HIDE DEF l, v1, v2, v4, v8
<1>10. CASE l = 1
  BY <1>2, <1>6, <1>10
<1>11. CASE l = 2
  BY <1>2, <1>7, <1>11
<1>12. CASE l = 4
  BY <1>2, <1>8, <1>12
<1>13. CASE l = 8
  BY <1>2, <1>9, <1>13
<1> QED
  BY <1>1, <1>10, <1>11, <1>12, <1>13

\* What the walk reads next.
LEMMA ReadsNumber ==
  ASSUME Walk!TypeOK, NEW v \in Walk!Varint
  PROVE  /\ v.len \in Nat /\ v.len >= 1 /\ v.value \in Nat /\ i + v.len <= Len(payload)
         /\ v.len = Walk!VarintLen(payload, i) /\ v.value = Walk!VarintValue(payload, i)
<1>0. payload \in Seq(0..255) /\ Len(payload) \in Nat /\ i \in Nat
  BY DEF Walk!TypeOK
<1>1. /\ ~(i >= Len(payload)) /\ ~(Len(payload) < i + Walk!VarintLen(payload, i))
      /\ v = [value |-> Walk!VarintValue(payload, i), len |-> Walk!VarintLen(payload, i)]
  BY DEF Walk!Varint, Walk!read_varint_at
<1>2. v.len = Walk!VarintLen(payload, i) /\ v.value = Walk!VarintValue(payload, i)
  BY <1>1
<1>3. v.len \in Nat /\ v.len >= 1
  BY <1>2, VarintLenType
<1>4. i < Len(payload) /\ i + v.len <= Len(payload)
  BY <1>0, <1>1, <1>2, <1>3
<1>5. v.value \in Nat
  BY <1>0, <1>2, <1>4, VarintType
<1> QED
  BY <1>2, <1>3, <1>4, <1>5

\* The fields of a frame.
LEMMA FieldsAre ==
  /\ Walk!Fields(0) = <<>> /\ Walk!Fields(1) = <<>>
  /\ Walk!Fields(2) = <<"skip", "skip", "count", "skip", "ranges">>
  /\ Walk!Fields(3) = <<"skip", "skip", "count", "skip", "ranges", "skip", "skip", "skip">>
  /\ Walk!Fields(6) = <<"offset", "data">>
  /\ Walk!Fields(28) = <<"skip", "skip", "reason">>
  /\ Walk!Fields(29) = <<"skip", "reason">>
<1>1. Walk!Fields(0) = <<>> /\ Walk!Fields(1) = <<>>
  BY DEF Walk!Fields
<1>2. Walk!Fields(2) = <<"skip", "skip", "count", "skip", "ranges">>
  BY DEF Walk!Fields, Walk!AckFields
<1>3. Walk!Fields(3) = <<"skip", "skip", "count", "skip", "ranges", "skip", "skip", "skip">>
  <2>1. Walk!Fields(3) = Walk!AckFields(3 = 3)
    BY DEF Walk!Fields
  <2>2. Walk!AckFields(TRUE) = <<"skip", "skip", "count", "skip", "ranges">> \o <<"skip", "skip", "skip">>
    BY DEF Walk!AckFields
  <2>3. (3 = 3) = TRUE
    OBVIOUS
  <2>4. Walk!Fields(3) = <<"skip", "skip", "count", "skip", "ranges">> \o <<"skip", "skip", "skip">>
    BY <2>1, <2>2, <2>3, Zenon
  <2> QED
    BY <2>4
<1>4. Walk!Fields(6) = <<"offset", "data">>
  BY DEF Walk!Fields
<1>5. Walk!Fields(28) = <<"skip", "skip", "reason">>
  BY DEF Walk!Fields
<1>6. Walk!Fields(29) = <<"skip", "reason">>
  BY DEF Walk!Fields
<1> QED
  BY <1>1, <1>2, <1>3, <1>4, <1>5, <1>6

LEMMA FieldsType ==
  ASSUME NEW type \in Walk!Known
  PROVE  Walk!Fields(type) \in Seq(Walk!Purposes) /\ Len(Walk!Fields(type)) \in Nat
<1>1. /\ <<>> \in Seq(Walk!Purposes)
      /\ <<"skip", "skip", "count", "skip", "ranges">> \in Seq(Walk!Purposes)
      /\ <<"skip", "skip", "count", "skip", "ranges", "skip", "skip", "skip">> \in Seq(Walk!Purposes)
      /\ <<"offset", "data">> \in Seq(Walk!Purposes)
      /\ <<"skip", "skip", "reason">> \in Seq(Walk!Purposes)
      /\ <<"skip", "reason">> \in Seq(Walk!Purposes)
  BY DEF Walk!Purposes
<1>2. type \in {0, 1, 2, 3, 6, 28, 29}
  BY DEF Walk!Known
<1>3. Walk!Fields(type) \in Seq(Walk!Purposes)
  BY <1>1, <1>2, FieldsAre, Zenon
<1> QED
  BY <1>3

LEMMA InsideFacts ==
  ASSUME Walk!FramesInside
  PROVE  /\ payload \in Seq(0..255) /\ Len(payload) \in Nat /\ i \in Nat /\ i <= Len(payload)
         /\ ranges \in Nat /\ offset \in Nat /\ todo \in Seq(Walk!Purposes)
         /\ frames \in Seq(Nat \X Nat \X Nat) /\ Len(frames) \in Nat
         /\ outcome \in {"running", "ok", "error"} /\ Walk!TypeOK
BY DEF Walk!FramesInside, Walk!TypeOK

\* A step that finds no frame moves forwards, inside of the payload.
LEMMA MovesInside ==
  ASSUME Walk!FramesInside, Walk!TypeOK', payload' = payload, frames' = frames,
         i <= i', i' <= Len(payload)
  PROVE  Walk!FramesInside'
<1>1. i \in Nat /\ i' \in Nat /\ Len(payload) \in Nat
  BY DEF Walk!FramesInside, Walk!TypeOK
<1>2. ASSUME NEW n \in 1..Len(frames)
      PROVE  /\ frames[n][2] + frames[n][3] <= i'
             /\ n < Len(frames) => frames[n][2] + frames[n][3] <= frames[n + 1][2]
  <2>1. /\ frames[n][2] + frames[n][3] <= i
        /\ n < Len(frames) => frames[n][2] + frames[n][3] <= frames[n + 1][2]
    BY DEF Walk!FramesInside
  <2>2. frames[n] \in Nat \X Nat \X Nat
    BY InsideFacts, ElementOfSeq
  <2>3. frames[n][2] + frames[n][3] \in Nat
    BY <2>2
  <2>4. frames[n][2] + frames[n][3] <= i'
    BY <1>1, <2>1, <2>3
  <2> QED
    BY <2>1, <2>4
<1> QED
  BY <1>2 DEF Walk!FramesInside

LEMMA FailInside ==
  ASSUME Walk!FramesInside, Walk!Fail PROVE Walk!FramesInside'
<1>1. Walk!TypeOK' /\ payload' = payload /\ frames' = frames /\ i' = i
  BY InsideFacts DEF Walk!Fail, Walk!TypeOK
<1> QED
  BY <1>1, InsideFacts, MovesInside

LEMMA FrameTypeInside ==
  ASSUME Walk!FramesInside, Walk!FrameType PROVE Walk!FramesInside'
<1>1. CASE Walk!Fail
  BY <1>1, FailInside
<1>2. CASE ~Walk!Fail
  <2>1. PICK v \in Walk!Varint :
          /\ v.value \in Walk!Known /\ i' = i + v.len /\ todo' = Walk!Fields(v.value)
          /\ UNCHANGED <<payload, sent, ranges, offset, frames, outcome>>
    BY <1>2 DEF Walk!FrameType
  <2>2. v.len \in Nat /\ i + v.len <= Len(payload)
    BY InsideFacts, ReadsNumber
  <2>3. i' \in Nat /\ i <= i' /\ i' <= Len(payload)
    BY <2>1, <2>2, InsideFacts
  <2>4. todo' \in Seq(Walk!Purposes)
    BY <2>1, FieldsType
  <2>5. Walk!TypeOK'
    BY <2>1, <2>3, <2>4, InsideFacts DEF Walk!TypeOK
  <2> QED
    BY <2>1, <2>3, <2>5, MovesInside
<1> QED
  BY <1>1, <1>2

\* One field less.
LEMMA TailTodo ==
  ASSUME Walk!FramesInside, todo /= <<>>
  PROVE  Tail(todo) \in Seq(Walk!Purposes)
BY InsideFacts, HeadTailProperties

LEMMA NumberInside ==
  ASSUME Walk!FramesInside, Walk!Number PROVE Walk!FramesInside'
<1>1. CASE Walk!Fail
  BY <1>1, FailInside
<1>2. CASE ~Walk!Fail
  <2>1. PICK v \in Walk!Varint :
          /\ i' = i + v.len /\ todo' = Tail(todo)
          /\ ranges' \in {2 * v.value, ranges} /\ offset' \in {v.value, offset}
          /\ UNCHANGED <<payload, sent, frames, outcome>>
    BY <1>2 DEF Walk!Number
  <2>2. v.len \in Nat /\ v.value \in Nat /\ i + v.len <= Len(payload)
    BY InsideFacts, ReadsNumber
  <2>3. i' \in Nat /\ i <= i' /\ i' <= Len(payload)
    BY <2>1, <2>2, InsideFacts
  <2>4. todo' \in Seq(Walk!Purposes)
    BY <2>1, TailTodo DEF Walk!Number
  <2>5. ranges' \in Nat /\ offset' \in Nat
    <3>1. 2 * v.value \in Nat
      BY <2>2
    <3> QED
      BY <2>1, <2>2, <3>1, InsideFacts
  <2>6. Walk!TypeOK'
    BY <2>1, <2>3, <2>4, <2>5, InsideFacts DEF Walk!TypeOK
  <2> QED
    BY <2>1, <2>3, <2>6, MovesInside
<1> QED
  BY <1>1, <1>2

LEMMA AckRangeInside ==
  ASSUME Walk!FramesInside, Walk!AckRange PROVE Walk!FramesInside'
<1>1. CASE Walk!Fail
  BY <1>1, FailInside
<1>2. CASE ranges = 0
  <2>1. todo' = Tail(todo) /\ UNCHANGED <<payload, sent, i, ranges, offset, frames, outcome>>
    BY <1>2 DEF Walk!AckRange
  <2>2. todo' \in Seq(Walk!Purposes)
    BY <2>1, TailTodo DEF Walk!AckRange
  <2>3. Walk!TypeOK'
    BY <2>1, <2>2, InsideFacts DEF Walk!TypeOK
  <2> QED
    BY <2>1, <2>3, InsideFacts, MovesInside
<1>3. CASE ranges /= 0 /\ ~Walk!Fail
  <2>1. PICK v \in Walk!Varint :
          /\ i' = i + v.len /\ ranges' = ranges - 1
          /\ UNCHANGED <<payload, sent, todo, offset, frames, outcome>>
    BY <1>3 DEF Walk!AckRange
  <2>2. v.len \in Nat /\ i + v.len <= Len(payload)
    BY InsideFacts, ReadsNumber
  <2>3. i' \in Nat /\ i <= i' /\ i' <= Len(payload) /\ ranges' \in Nat
    BY <1>3, <2>1, <2>2, InsideFacts
  <2>4. Walk!TypeOK'
    BY <2>1, <2>3, InsideFacts DEF Walk!TypeOK
  <2> QED
    BY <2>1, <2>3, <2>4, MovesInside
<1> QED
  BY <1>1, <1>2, <1>3

\* The slice that is found begins behind all that were found before it.
LEMMA SliceInside ==
  ASSUME Walk!FramesInside, Walk!Slice PROVE Walk!FramesInside'
<1>1. CASE Walk!Fail
  BY <1>1, FailInside
<1>2. CASE ~Walk!Fail
  <2>1. PICK v \in Walk!Varint :
          /\ Walk!Fits(v.len, v.value) /\ i' = i + v.len + v.value /\ todo' = Tail(todo)
          /\ frames' = (IF todo[1] = "data" THEN Append(frames, <<offset, i + v.len, v.value>>)
                        ELSE frames)
          /\ UNCHANGED <<payload, sent, ranges, offset, outcome>>
    BY <1>2 DEF Walk!Slice
  <2>2. v.len \in Nat /\ v.value \in Nat /\ i + v.len <= Len(payload)
    BY InsideFacts, ReadsNumber
  <2>3. i + v.len + v.value <= Len(payload)
    BY <2>1 DEF Walk!Fits
  <2>4. i' \in Nat /\ i <= i' /\ i' <= Len(payload)
    <3>1. \A a, b, c \in Nat : a + b + c \in Nat /\ a <= a + b + c
      OBVIOUS
    <3>2. i \in Nat
      BY InsideFacts
    <3> QED
      BY <2>1, <2>2, <2>3, <3>1, <3>2
  <2>5. todo' \in Seq(Walk!Purposes)
    BY <2>1, TailTodo DEF Walk!Slice
  <2>6. CASE todo[1] /= "data"
    <3>1. frames' = frames
      BY <2>1, <2>6
    <3>2. Walk!TypeOK'
      BY <2>1, <2>4, <2>5, <3>1, InsideFacts DEF Walk!TypeOK
    <3> QED
      BY <2>1, <2>4, <3>1, <3>2, MovesInside
  <2>7. CASE todo[1] = "data"
    <3> DEFINE s == i + v.len
               f == <<offset, s, v.value>>
               l == Len(frames)
    <3>1. s \in Nat /\ i <= s /\ i' = s + v.value
      BY <2>1, <2>2, InsideFacts, SMTT(30)
    <3>2. frames' = Append(frames, f) /\ f \in Nat \X Nat \X Nat /\ f[2] = s /\ f[3] = v.value
      BY <2>1, <2>2, <2>7, <3>1, InsideFacts
    <3> HIDE DEF s, f
    <3>3. frames' \in Seq(Nat \X Nat \X Nat) /\ Len(frames') = l + 1 /\ frames'[l + 1] = f
          /\ \A n \in 1..l : frames'[n] = frames[n]
      BY <3>2, InsideFacts, AppendProperties
    <3>4. Walk!TypeOK'
      BY <2>1, <2>4, <2>5, <3>3, InsideFacts DEF Walk!TypeOK
    <3>5. ASSUME NEW n \in 1..l
          PROVE  /\ frames[n][2] + frames[n][3] <= i /\ frames[n][2] + frames[n][3] \in Nat
                 /\ n < l => frames[n][2] + frames[n][3] <= frames[n + 1][2]
      <4>1. frames[n] \in Nat \X Nat \X Nat
        BY InsideFacts, ElementOfSeq
      <4> QED
        BY <4>1 DEF Walk!FramesInside
    <3>6. ASSUME NEW n \in 1..l + 1
          PROVE  /\ frames'[n][2] + frames'[n][3] <= i'
                 /\ n < l + 1 => frames'[n][2] + frames'[n][3] <= frames'[n + 1][2]
      <4>1. l \in Nat /\ i \in Nat
        BY InsideFacts
      <4>2. CASE n = l + 1
        <5>1. frames'[n][2] = s /\ frames'[n][3] = v.value
          BY <3>2, <3>3, <4>2
        <5>2. ~(n < l + 1)
          BY <4>1, <4>2
        <5> QED
          BY <2>2, <3>1, <5>1, <5>2
      <4>3. CASE n = l /\ n \in 1..l
        <5>1. frames'[n] = frames[n] /\ frames'[n + 1][2] = s
          BY <3>2, <3>3, <4>3
        <5>2. frames[n][2] + frames[n][3] <= i /\ frames[n][2] + frames[n][3] \in Nat
          BY <3>5, <4>3
        <5>3. frames[n][2] + frames[n][3] <= s /\ frames[n][2] + frames[n][3] <= i'
          BY <2>4, <3>1, <4>1, <5>2
        <5> QED
          BY <5>1, <5>3
      <4>4. CASE n < l
        <5>1. n \in 1..l /\ n + 1 \in 1..l
          BY <4>1, <4>4
        <5>2. frames'[n] = frames[n] /\ frames'[n + 1] = frames[n + 1]
          BY <3>3, <5>1
        <5>3. /\ frames[n][2] + frames[n][3] <= i /\ frames[n][2] + frames[n][3] \in Nat
              /\ frames[n][2] + frames[n][3] <= frames[n + 1][2]
          BY <3>5, <4>4, <5>1
        <5>4. frames[n][2] + frames[n][3] <= i'
          BY <2>4, <4>1, <5>3
        <5> QED
          BY <5>2, <5>3, <5>4
      <4> QED
        BY <4>1, <4>2, <4>3, <4>4
    <3> QED
      BY <2>1, <2>4, <3>3, <3>4, <3>6 DEF Walk!FramesInside
  <2> QED
    BY <2>6, <2>7
<1> QED
  BY <1>1, <1>2

LEMMA DoneInside ==
  ASSUME Walk!FramesInside, Walk!Done \/ UNCHANGED walk PROVE Walk!FramesInside'
<1>1. Walk!TypeOK' /\ payload' = payload /\ frames' = frames /\ i' = i
  BY InsideFacts DEF Walk!Done, walk, Walk!TypeOK
<1> QED
  BY <1>1, InsideFacts, MovesInside

LEMMA WalkInside ==
  ASSUME Walk!FramesInside, Walk!Next \/ UNCHANGED walk PROVE Walk!FramesInside'
BY FrameTypeInside, NumberInside, AckRangeInside, SliceInside, DoneInside DEF Walk!Next

-----------------------------------------------------------------------------
(* A well-formed payload. *)

\* What is asked of the fields of each type of frame.
LEMMA FieldKinds ==
  /\ Len(Walk!Fields(0)) = 0 /\ Len(Walk!Fields(1)) = 0 /\ Len(Walk!Fields(2)) = 5
  /\ Len(Walk!Fields(3)) = 8 /\ Len(Walk!Fields(6)) = 2 /\ Len(Walk!Fields(28)) = 3
  /\ Len(Walk!Fields(29)) = 2
  /\ \A n \in {1, 2, 4} : Walk!Fields(2)[n] = "skip" /\ Walk!Fields(3)[n] = "skip"
  /\ Walk!Fields(2)[3] = "count" /\ Walk!Fields(3)[3] = "count"
  /\ Walk!Fields(2)[5] = "ranges" /\ Walk!Fields(3)[5] = "ranges"
  /\ \A n \in {6, 7, 8} : Walk!Fields(3)[n] = "skip"
  /\ Walk!Fields(6)[1] = "offset" /\ Walk!Fields(6)[2] = "data"
  /\ Walk!Fields(28)[1] = "skip" /\ Walk!Fields(28)[2] = "skip" /\ Walk!Fields(28)[3] = "reason"
  /\ Walk!Fields(29)[1] = "skip" /\ Walk!Fields(29)[2] = "reason"
BY FieldsAre

\* Field x of a frame of a type, of l fields, is for p.
FieldCase(type, x, p, l) ==
  \/ type \in {2, 3} /\ x \in {1, 2, 4} /\ p = "skip" /\ x < l
  \/ type \in {2, 3} /\ x = 3 /\ p = "count" /\ x < l
  \/ type = 2 /\ x = 5 /\ p = "ranges" /\ x = l
  \/ type = 3 /\ x = 5 /\ p = "ranges" /\ x < l
  \/ type = 3 /\ x \in {6, 7} /\ p = "skip" /\ x < l
  \/ type = 3 /\ x = 8 /\ p = "skip" /\ x = l
  \/ type = 6 /\ x = 1 /\ p = "offset" /\ x < l
  \/ type = 6 /\ x = 2 /\ p = "data" /\ x = l
  \/ type = 28 /\ x \in {1, 2} /\ p = "skip" /\ x < l
  \/ type = 28 /\ x = 3 /\ p = "reason" /\ x = l
  \/ type = 29 /\ x = 1 /\ p = "skip" /\ x < l
  \/ type = 29 /\ x = 2 /\ p = "reason" /\ x = l

LEMMA FieldCases ==
  ASSUME NEW type \in Walk!Known, NEW x \in 1..Len(Walk!Fields(type))
  PROVE  FieldCase(type, x, Walk!Fields(type)[x], Len(Walk!Fields(type)))
<1> DEFINE l == Len(Walk!Fields(type))
           p == Walk!Fields(type)[x]
<1>1. type \in {0, 1, 2, 3, 6, 28, 29} /\ x \in 1..l
  BY DEF Walk!Known
<1> HIDE DEF l, p
<1>2. CASE type \in {0, 1}
  <2>1. l = 0
    BY <1>2, FieldKinds DEF l
  <2> QED
    BY <1>1, <2>1
<1>3. CASE type = 2
  <2>1. l = 5
    BY <1>3, FieldKinds DEF l
  <2>2. ASSUME x = 1 PROVE p = "skip"
    BY <1>3, <2>2, FieldKinds DEF p
  <2>3. ASSUME x = 2 PROVE p = "skip"
    BY <1>3, <2>3, FieldKinds DEF p
  <2>4. ASSUME x = 3 PROVE p = "count"
    BY <1>3, <2>4, FieldKinds DEF p
  <2>5. ASSUME x = 4 PROVE p = "skip"
    BY <1>3, <2>5, FieldKinds DEF p
  <2>6. ASSUME x = 5 PROVE p = "ranges"
    BY <1>3, <2>6, FieldKinds DEF p
  <2>7. x \in {1, 2, 3, 4, 5}
    BY <1>1, <2>1
  <2>8. FieldCase(2, x, p, 5)
    BY <2>2, <2>3, <2>4, <2>5, <2>6, <2>7 DEF FieldCase
  <2> QED
    BY <1>3, <2>1, <2>8 DEF l, p
<1>4. CASE type = 3
  <2>1. l = 8
    BY <1>4, FieldKinds DEF l
  <2>2. ASSUME x = 1 PROVE p = "skip"
    BY <1>4, <2>2, FieldKinds DEF p
  <2>3. ASSUME x = 2 PROVE p = "skip"
    BY <1>4, <2>3, FieldKinds DEF p
  <2>4. ASSUME x = 3 PROVE p = "count"
    BY <1>4, <2>4, FieldKinds DEF p
  <2>5. ASSUME x = 4 PROVE p = "skip"
    BY <1>4, <2>5, FieldKinds DEF p
  <2>6. ASSUME x = 5 PROVE p = "ranges"
    BY <1>4, <2>6, FieldKinds DEF p
  <2>7. ASSUME x = 6 PROVE p = "skip"
    BY <1>4, <2>7, FieldKinds DEF p
  <2>8. ASSUME x = 7 PROVE p = "skip"
    BY <1>4, <2>8, FieldKinds DEF p
  <2>9. ASSUME x = 8 PROVE p = "skip"
    BY <1>4, <2>9, FieldKinds DEF p
  <2>10. x \in {1, 2, 3, 4, 5, 6, 7, 8}
    BY <1>1, <2>1
  <2>11. FieldCase(3, x, p, 8)
    BY <2>2, <2>3, <2>4, <2>5, <2>6, <2>7, <2>8, <2>9, <2>10 DEF FieldCase
  <2> QED
    BY <1>4, <2>1, <2>11 DEF l, p
<1>5. CASE type = 6
  <2>1. l = 2
    BY <1>5, FieldKinds DEF l
  <2>2. ASSUME x = 1 PROVE p = "offset"
    BY <1>5, <2>2, FieldKinds DEF p
  <2>3. ASSUME x = 2 PROVE p = "data"
    BY <1>5, <2>3, FieldKinds DEF p
  <2>4. x \in {1, 2}
    BY <1>1, <2>1
  <2>5. FieldCase(6, x, p, 2)
    BY <2>2, <2>3, <2>4 DEF FieldCase
  <2> QED
    BY <1>5, <2>1, <2>5 DEF l, p
<1>6. CASE type = 28
  <2>1. l = 3
    BY <1>6, FieldKinds DEF l
  <2>2. ASSUME x = 1 PROVE p = "skip"
    BY <1>6, <2>2, FieldKinds DEF p
  <2>3. ASSUME x = 2 PROVE p = "skip"
    BY <1>6, <2>3, FieldKinds DEF p
  <2>4. ASSUME x = 3 PROVE p = "reason"
    BY <1>6, <2>4, FieldKinds DEF p
  <2>5. x \in {1, 2, 3}
    BY <1>1, <2>1
  <2>6. FieldCase(28, x, p, 3)
    BY <2>2, <2>3, <2>4, <2>5 DEF FieldCase
  <2> QED
    BY <1>6, <2>1, <2>6 DEF l, p
<1>7. CASE type = 29
  <2>1. l = 2
    BY <1>7, FieldKinds DEF l
  <2>2. ASSUME x = 1 PROVE p = "skip"
    BY <1>7, <2>2, FieldKinds DEF p
  <2>3. ASSUME x = 2 PROVE p = "reason"
    BY <1>7, <2>3, FieldKinds DEF p
  <2>4. x \in {1, 2}
    BY <1>1, <2>1
  <2>5. FieldCase(29, x, p, 2)
    BY <2>2, <2>3, <2>4 DEF FieldCase
  <2> QED
    BY <1>7, <2>1, <2>5 DEF l, p
<1> QED
  BY <1>1, <1>2, <1>3, <1>4, <1>5, <1>6, <1>7

\* The walk is between two frames, before frame h.
Between(in, h) == todo = <<>> /\ h \in in.heads /\ i = Walk!Pos(in, h)

\* The walk is in frame h, of which it reads field x, number m of the payload.
Reading(in, h, x, m) ==
  /\ h \in in.heads \ {Walk!Last(in)} /\ x \in 1..Len(Walk!Fields(Walk!Val(in, h))) /\ m \in Nat
  /\ todo = SubSeq(Walk!Fields(Walk!Val(in, h)), x, Len(Walk!Fields(Walk!Val(in, h))))
  /\ i = Walk!Pos(in, m)
  /\ Walk!Val(in, h) \notin {2, 3} \/ x < 5 => m = h + x
  /\ Walk!Val(in, h) \in {2, 3} =>
       /\ x = 4 => ranges = 2 * Walk!Val(in, h + 3)
       /\ x = 5 => h + 5 <= m /\ m + ranges = h + 5 + 2 * Walk!Val(in, h + 3)
       /\ x > 5 => m = h + x - 1 + 2 * Walk!Val(in, h + 3)
  /\ Walk!Val(in, h) = 6 /\ x = 2 => offset = Walk!Val(in, h + 1)

\* The CRYPTO frames before frame h have been found.
FoundBefore(in, h) ==
  /\ Len(frames) <= Len(in.cryptos)
  /\ \A n \in 1..Len(in.cryptos) : n <= Len(frames) <=> in.cryptos[n] < h
  /\ \A n \in 1..Len(frames) :
       frames[n] = <<Walk!Val(in, in.cryptos[n] + 1), Walk!After(in, in.cryptos[n] + 2),
                     Walk!Val(in, in.cryptos[n] + 2)>>

WalkOnTrack(in) ==
  /\ outcome /= "error"
  /\ outcome = "running" =>
       \E h \in in.heads : FoundBefore(in, h) /\ (Between(in, h) \/ \E x, m : Reading(in, h, x, m))
  /\ outcome = "ok" => Walk!Found \in in.sent

ReadsPayload(in) ==
  in.bytes = payload /\ in.sent = sent /\ Walk!WellFormed(in) /\ WalkOnTrack(in)

\* The payload at hand is a well-formed one and is read as one.
WalkFinds == sent /= {} => \E in \in Inputs : ReadsPayload(in)

\* The numbers of a well-formed payload lie inside of it.
LEMMA PayloadFacts ==
  ASSUME Walk!FramesInside, NEW in, in.bytes = payload, Walk!WellFormed(in)
  PROVE  /\ Len(in.numbers) \in Nat /\ Walk!Last(in) = Len(in.numbers) + 1
         /\ Walk!Pos(in, Walk!Last(in)) = Len(payload)
         /\ \A h \in in.heads : h \in Nat /\ 1 <= h /\ h <= Walk!Last(in)
         /\ \A m \in 1..Len(in.numbers) :
              /\ Walk!Pos(in, m) = in.numbers[m] /\ Walk!Pos(in, m) \in Nat
              /\ Walk!Pos(in, m) < Len(payload)
              /\ Walk!Val(in, m) \in Nat /\ Walk!Val(in, m) = Walk!VarintValue(payload, Walk!Pos(in, m))
              /\ Walk!After(in, m) = Walk!Pos(in, m) + Walk!VarintLen(payload, Walk!Pos(in, m))
              /\ Walk!After(in, m) \in Nat /\ Walk!After(in, m) <= Len(payload)
<1>1. in.numbers \in Seq(Nat) /\ Len(in.numbers) \in Nat /\ Walk!Last(in) = Len(in.numbers) + 1
  BY DEF Walk!WellFormed, Walk!Last
<1>2. Walk!Pos(in, Walk!Last(in)) = Len(payload)
  BY DEF Walk!Pos
<1>3. ASSUME NEW h \in in.heads PROVE h \in Nat /\ 1 <= h /\ h <= Walk!Last(in)
  <2>1. h \in 1..Walk!Last(in)
    BY DEF Walk!WellFormed
  <2> QED
    BY <1>1, <2>1
<1>4. ASSUME NEW m \in 1..Len(in.numbers)
      PROVE  /\ Walk!Pos(in, m) = in.numbers[m] /\ Walk!Pos(in, m) \in Nat
             /\ Walk!Pos(in, m) < Len(payload)
             /\ Walk!Val(in, m) \in Nat /\ Walk!Val(in, m) = Walk!VarintValue(payload, Walk!Pos(in, m))
             /\ Walk!After(in, m) = Walk!Pos(in, m) + Walk!VarintLen(payload, Walk!Pos(in, m))
             /\ Walk!After(in, m) \in Nat /\ Walk!After(in, m) <= Len(payload)
  <2> DEFINE o == in.numbers[m]
  <2>1. m /= Walk!Last(in)
    BY <1>1, <1>4
  <2>2. Walk!Pos(in, m) = o
    BY <2>1 DEF Walk!Pos
  <2>3. o \in Nat
    BY <1>1, <1>4, ElementOfSeq
  <2>4. Walk!After(in, m) = o + Walk!VarintLen(payload, o) /\ Walk!Val(in, m) = Walk!VarintValue(payload, o)
    BY DEF Walk!After, Walk!Val
  <2>5. o < Len(payload) /\ Walk!After(in, m) <= Len(payload)
    BY <1>4 DEF Walk!WellFormed
  <2> HIDE DEF o
  <2>6. Walk!After(in, m) \in Nat
    BY <2>3, <2>4, VarintLenType
  <2>7. payload \in Seq(0..255)
    BY InsideFacts
  <2>8. o + Walk!VarintLen(payload, o) <= Len(payload)
    BY <2>4, <2>5
  <2>9. Walk!VarintValue(payload, o) \in Nat
    BY <2>3, <2>5, <2>7, <2>8, VarintType
  <2> QED
    BY <2>2, <2>3, <2>4, <2>5, <2>6, <2>9 DEF o
<1> QED
  BY <1>1, <1>2, <1>3, <1>4

\* A frame of a well-formed payload.
LEMMA FrameFacts ==
  ASSUME Walk!FramesInside, NEW in, in.bytes = payload, Walk!WellFormed(in),
         NEW h \in in.heads, h /= Walk!Last(in)
  PROVE  /\ h \in Nat /\ h >= 1 /\ Walk!Val(in, h) \in Walk!Known
         /\ Walk!Size(in, h) \in Nat /\ Walk!Size(in, h) >= 1
         /\ h + Walk!Size(in, h) \in in.heads /\ h + Walk!Size(in, h) <= Len(in.numbers) + 1
         /\ Walk!Val(in, h) \in {2, 3} => Walk!Val(in, h + 3) \in Nat
         /\ Walk!Val(in, h) \in {0, 1} => Walk!Size(in, h) = 1
         /\ Walk!Val(in, h) = 2 => Walk!Size(in, h) = 5 + 2 * Walk!Val(in, h + 3)
         /\ Walk!Val(in, h) = 3 => Walk!Size(in, h) = 8 + 2 * Walk!Val(in, h + 3)
         /\ Walk!Val(in, h) \in {6, 29} => Walk!Size(in, h) = 3
         /\ Walk!Val(in, h) = 28 => Walk!Size(in, h) = 4
<1> DEFINE t == Walk!Val(in, h)
           c == Walk!Val(in, h + 3)
           s == Walk!Size(in, h)
<1>1. /\ Len(in.numbers) \in Nat /\ Walk!Last(in) = Len(in.numbers) + 1
      /\ h \in Nat /\ 1 <= h /\ h <= Walk!Last(in)
  BY PayloadFacts
<1>2. Walk!IsFrame(in, h)
  BY DEF Walk!WellFormed
<1>3. t \in Walk!Known /\ (t \in {2, 3} => h + 3 < Walk!Last(in)) /\ h + s \in in.heads
  BY <1>2 DEF Walk!IsFrame
<1>4. t \in {2, 3} => c \in Nat
  <2>1. t \in {2, 3} => h + 3 \in 1..Len(in.numbers)
    BY <1>1, <1>3
  <2> QED
    BY <2>1, PayloadFacts
<1>5. /\ t \in {0, 1} => s = 1
      /\ t = 2 => s = 5 + 2 * c
      /\ t = 3 => s = 8 + 2 * c
      /\ t \in {6, 29} => s = 3
      /\ t = 28 => s = 4
  BY DEF Walk!Size
<1>6. h + s <= Len(in.numbers) + 1
  BY <1>1, <1>3, PayloadFacts
<1>7. t \in {0, 1, 2, 3, 6, 28, 29}
  BY <1>3 DEF Walk!Known
<1> HIDE DEF t, c, s
<1>8. s \in Nat /\ s >= 1
  BY <1>4, <1>5, <1>7
<1> QED
  BY <1>1, <1>3, <1>4, <1>5, <1>6, <1>8 DEF t, c, s

\* Where the number after number m starts.
LEMMA NextNumber ==
  ASSUME Walk!FramesInside, NEW in, in.bytes = payload, Walk!WellFormed(in),
         NEW h \in in.heads, h /= Walk!Last(in), NEW m \in Nat, h <= m, m < h + Walk!Size(in, h)
  PROVE  /\ m \in 1..Len(in.numbers)
         /\ ~Walk!HasSlice(in, h) \/ m + 1 /= h + Walk!Size(in, h) => Walk!Pos(in, m + 1) = Walk!After(in, m)
         /\ Walk!HasSlice(in, h) /\ m + 1 = h + Walk!Size(in, h) =>
              Walk!Pos(in, m + 1) = Walk!After(in, m) + Walk!Val(in, m)
<1>1. /\ h \in Nat /\ h >= 1 /\ Walk!Size(in, h) \in Nat /\ h + Walk!Size(in, h) <= Len(in.numbers) + 1
      /\ Len(in.numbers) \in Nat
  BY FrameFacts, PayloadFacts
<1>2. m \in h..h + Walk!Size(in, h) - 1 /\ m \in 1..Len(in.numbers)
  BY <1>1
<1>3. Walk!Pos(in, m + 1) = Walk!After(in, m) + IF Walk!HasSlice(in, h) /\ m + 1 = h + Walk!Size(in, h)
                                                THEN Walk!Val(in, m) ELSE 0
  BY <1>2 DEF Walk!WellFormed, Walk!IsFrame
<1>4. Walk!After(in, m) \in Nat
  BY <1>2, PayloadFacts
<1> QED
  BY <1>2, <1>3, <1>4

\* The walk reads number m.
LEMMA NumberHere ==
  ASSUME Walk!FramesInside, NEW in, in.bytes = payload, Walk!WellFormed(in),
         NEW m \in 1..Len(in.numbers), i = Walk!Pos(in, m)
  PROVE  /\ Walk!Varint /= {}
         /\ \A v \in Walk!Varint : v.value = Walk!Val(in, m) /\ i + v.len = Walk!After(in, m)
<1>1. /\ i \in Nat /\ i < Len(payload) /\ Len(payload) \in Nat
      /\ Walk!Val(in, m) = Walk!VarintValue(payload, i)
      /\ Walk!After(in, m) = i + Walk!VarintLen(payload, i)
      /\ Walk!After(in, m) \in Nat /\ Walk!After(in, m) <= Len(payload)
  BY PayloadFacts, InsideFacts
<1>2. ~(i >= Len(payload)) /\ ~(Len(payload) < i + Walk!VarintLen(payload, i))
  BY <1>1
<1>3. Walk!Varint /= {}
  BY <1>2 DEF Walk!Varint, Walk!read_varint_at
<1> QED
  BY <1>1, <1>3, InsideFacts, ReadsNumber

\* A frame that is not a CRYPTO frame leaves nothing to be found.
LEMMA PassFrame ==
  ASSUME Walk!FramesInside, NEW in, in.bytes = payload, Walk!WellFormed(in),
         NEW h \in in.heads, h /= Walk!Last(in), FoundBefore(in, h), Walk!Val(in, h) /= 6,
         frames' = frames
  PROVE  FoundBefore(in, h + Walk!Size(in, h))'
<1> DEFINE g == h + Walk!Size(in, h)
<1>1. h \in Nat /\ g \in Nat /\ h < g
  BY FrameFacts
<1>2. ASSUME NEW n \in 1..Len(in.cryptos) PROVE in.cryptos[n] < g <=> in.cryptos[n] < h
  <2> DEFINE c == in.cryptos[n]
  <2>1. c \in in.heads \ {Walk!Last(in)}
    BY ElementOfSeq DEF Walk!WellFormed
  <2>2. c \in Nat
    BY <2>1, PayloadFacts
  <2>3. c /= h
    BY <1>2, <2>1 DEF Walk!WellFormed
  <2>4. h < c => g <= c
    BY <2>1 DEF Walk!WellFormed
  <2> HIDE DEF c, g
  <2>5. c < g <=> c < h
    BY <1>1, <2>2, <2>3, <2>4
  <2> QED
    BY <2>5 DEF c
<1>3. FoundBefore(in, g)'
  BY <1>2 DEF FoundBefore
<1> QED
  BY <1>3

\* A CRYPTO frame is the next one that is found.
LEMMA TakeFrame ==
  ASSUME Walk!FramesInside, NEW in, in.bytes = payload, Walk!WellFormed(in),
         NEW h \in in.heads, h /= Walk!Last(in), FoundBefore(in, h), Walk!Val(in, h) = 6,
         frames' = Append(frames, <<Walk!Val(in, h + 1), Walk!After(in, h + 2), Walk!Val(in, h + 2)>>)
  PROVE  FoundBefore(in, h + Walk!Size(in, h))'
<1> DEFINE g == h + Walk!Size(in, h)
           l == Len(frames)
           f == <<Walk!Val(in, h + 1), Walk!After(in, h + 2), Walk!Val(in, h + 2)>>
           C == Len(in.cryptos)
<1>1. h \in Nat /\ g \in Nat /\ h < g
  BY FrameFacts
<1>2. l \in Nat /\ C \in Nat /\ in.cryptos \in Seq(in.heads \ {Walk!Last(in)}) /\ l <= C
  BY InsideFacts, SMTT(30) DEF Walk!WellFormed, FoundBefore
<1>3. \A n \in 1..C : in.cryptos[n] \in in.heads /\ in.cryptos[n] \in Nat
  BY <1>2, ElementOfSeq, PayloadFacts
<1>4. PICK q \in 1..C : in.cryptos[q] = h
  BY DEF Walk!WellFormed
<1>5. /\ \A n \in 1..C : n <= l <=> in.cryptos[n] < h
      /\ \A a, n \in 1..C : a < n => in.cryptos[a] < in.cryptos[n]
  BY DEF FoundBefore, Walk!WellFormed
<1>6. q = l + 1
  <2>1. ~(q <= l)
    BY <1>1, <1>4, <1>5
  <2>2. ASSUME l + 1 < q PROVE FALSE
    <3>1. l + 1 \in 1..C
      BY <1>2, <2>2
    <3>2. in.cryptos[l + 1] < h
      BY <1>4, <1>5, <2>2, <3>1
    <3>3. l + 1 <= l
      BY <1>5, <3>1, <3>2
    <3> QED
      BY <1>2, <3>3
  <2> QED
    BY <1>2, <2>1, <2>2
<1>7. ASSUME NEW n \in 1..C PROVE n <= l + 1 <=> in.cryptos[n] < g
  <2>1. CASE n <= l
    <3>1. in.cryptos[n] < h /\ n <= l + 1
      BY <1>2, <1>5, <2>1
    <3> QED
      BY <1>1, <1>3, <3>1
  <2>2. CASE n = l + 1
    <3>1. in.cryptos[n] = h /\ n <= l + 1
      BY <1>2, <1>4, <1>6, <2>2
    <3> QED
      BY <1>1, <3>1
  <2>3. CASE n > l + 1
    <3>1. h < in.cryptos[n]
      BY <1>4, <1>5, <1>6, <2>3
    <3>2. g <= in.cryptos[n]
      BY <1>3, <3>1 DEF Walk!WellFormed
    <3>3. ~(in.cryptos[n] < g) /\ ~(n <= l + 1)
      BY <1>1, <1>2, <1>3, <2>3, <3>2
    <3> QED
      BY <3>3
  <2> QED
    BY <1>2, <2>1, <2>2, <2>3
<1> HIDE DEF f, g
<1>8. f \in Nat \X Nat \X Nat
  <2>1. h + Walk!Size(in, h) <= Len(in.numbers) + 1 /\ Walk!Size(in, h) = 3 /\ Len(in.numbers) \in Nat
        /\ h >= 1
    BY FrameFacts, PayloadFacts
  <2>2. h + 1 \in 1..Len(in.numbers) /\ h + 2 \in 1..Len(in.numbers)
    BY <1>1, <2>1
  <2>3. Walk!Val(in, h + 1) \in Nat /\ Walk!After(in, h + 2) \in Nat /\ Walk!Val(in, h + 2) \in Nat
    BY <2>2, PayloadFacts
  <2> QED
    BY <2>3 DEF f
<1>9. Len(frames') = l + 1 /\ frames'[l + 1] = f /\ \A n \in 1..l : frames'[n] = frames[n]
  BY <1>8, InsideFacts, AppendProperties DEF f
<1>10. ASSUME NEW n \in 1..l + 1
       PROVE  frames'[n] = <<Walk!Val(in, in.cryptos[n] + 1), Walk!After(in, in.cryptos[n] + 2),
                             Walk!Val(in, in.cryptos[n] + 2)>>
  <2>1. CASE n = l + 1
    BY <1>4, <1>6, <1>9, <2>1 DEF f
  <2>2. CASE n \in 1..l
    BY <1>9, <2>2 DEF FoundBefore
  <2> QED
    BY <1>2, <2>1, <2>2
<1>11. l + 1 <= C
  BY <1>2, <1>6
<1>12. FoundBefore(in, g)'
  BY <1>7, <1>9, <1>10, <1>11 DEF FoundBefore
<1> QED
  BY <1>12 DEF g

\* The fields that are left, and those that are left behind the next one.
LEMMA TodoFacts ==
  ASSUME NEW F \in Seq(Walk!Purposes), NEW x \in 1..Len(F), NEW t, t = SubSeq(F, x, Len(F))
  PROVE  /\ t /= <<>> /\ t[1] = F[x] /\ Tail(t) = SubSeq(F, x + 1, Len(F))
         /\ x = Len(F) => Tail(t) = <<>>
<1> DEFINE l == Len(F)
           u == SubSeq(F, x + 1, l)
<1>1. l \in Nat /\ x \in Nat /\ 1 <= x /\ x <= l
  OBVIOUS
<1>2. \A n \in 1..l : F[n] \in Walk!Purposes
  BY ElementOfSeq
<1>3. /\ t \in Seq(Walk!Purposes) /\ Len(t) = l - x + 1
      /\ \A n \in 1..l - x + 1 : t[n] = F[x + n - 1]
  <2>1. \A n \in x..l : F[n] \in Walk!Purposes
    BY <1>1, <1>2
  <2> QED
    BY <1>1, <2>1, SubSeqProperties
<1>4. /\ u \in Seq(Walk!Purposes) /\ Len(u) = l - x
      /\ \A n \in 1..l - x : u[n] = F[x + n]
  <2>1. \A n \in x + 1..l : F[n] \in Walk!Purposes
    BY <1>1, <1>2
  <2>2. x + 1 \in 1..l + 1
    BY <1>1
  <2>3. /\ u \in Seq(Walk!Purposes)
        /\ Len(u) = IF x + 1 <= l THEN l - (x + 1) + 1 ELSE 0
        /\ \A n \in 1..l - (x + 1) + 1 : u[n] = F[x + 1 + n - 1]
    <3> HIDE DEF l
    <3> QED
      BY <1>1, <2>1, <2>2, SubSeqProperties DEF l
  <2> HIDE DEF u, l
  <2>4. Len(u) = l - x /\ l - (x + 1) + 1 = l - x
    BY <1>1, <2>3
  <2>5. ASSUME NEW n \in 1..l - x PROVE u[n] = F[x + n]
    <3>1. x + 1 + n - 1 = x + n
      BY <1>1
    <3> QED
      BY <2>3, <2>4, <3>1
  <2> QED
    BY <2>3, <2>4, <2>5
<1> HIDE DEF u, l
<1>5. Len(t) >= 1 /\ t /= <<>>
  <2>1. Len(t) >= 1 /\ Len(t) /= 0
    BY <1>1, <1>3
  <2>2. Len(<<>>) = 0
    OBVIOUS
  <2> QED
    BY <2>1, <2>2
<1>6. t[1] = F[x]
  BY <1>1, <1>3
<1>7. /\ Tail(t) \in Seq(Walk!Purposes) /\ Len(Tail(t)) = Len(t) - 1
      /\ \A n \in 1..Len(Tail(t)) : Tail(t)[n] = t[n + 1]
  BY <1>3, <1>5, HeadTailProperties
<1>8. Tail(t) = u
  <2>1. Len(Tail(t)) = Len(u) /\ Len(u) \in Nat
    BY <1>1, <1>3, <1>4, <1>7
  <2>2. ASSUME NEW n \in 1..Len(u) PROVE Tail(t)[n] = u[n]
    <3>1. n \in 1..l - x /\ n + 1 \in 1..l - x + 1 /\ x + (n + 1) - 1 = x + n
      BY <1>1, <1>4
    <3>2. Tail(t)[n] = t[n + 1] /\ t[n + 1] = F[x + n]
      BY <1>3, <1>7, <2>1, <3>1
    <3> QED
      BY <1>4, <3>1, <3>2
  <2> QED
    BY <1>4, <1>7, <2>1, <2>2, SeqEqual
<1>9. ASSUME x = l PROVE Tail(t) = <<>>
  <2>1. Len(Tail(t)) = 0
    BY <1>1, <1>3, <1>7, <1>9
  <2> QED
    BY <1>7, <2>1, EmptySeq
<1> QED
  BY <1>5, <1>6, <1>8, <1>9 DEF u, l

\* In a frame: what the next field is for, and the number it is.
LEMMA ReadingFacts ==
  ASSUME Walk!FramesInside, NEW in, in.bytes = payload, Walk!WellFormed(in),
         NEW h, NEW x, NEW m, Reading(in, h, x, m)
  PROVE  LET F == Walk!Fields(Walk!Val(in, h))
         IN  /\ F \in Seq(Walk!Purposes) /\ Len(F) \in Nat /\ x \in 1..Len(F)
             /\ todo /= <<>> /\ FieldCase(Walk!Val(in, h), x, todo[1], Len(F))
             /\ Tail(todo) = SubSeq(F, x + 1, Len(F)) /\ (x = Len(F) => Tail(todo) = <<>>)
             /\ h \in in.heads /\ h /= Walk!Last(in) /\ Walk!Val(in, h) \in Walk!Known
<1> DEFINE F == Walk!Fields(Walk!Val(in, h))
<1>1. h \in in.heads /\ h /= Walk!Last(in) /\ x \in 1..Len(F) /\ todo = SubSeq(F, x, Len(F))
  BY DEF Reading
<1>2. Walk!Val(in, h) \in Walk!Known
  BY <1>1, FrameFacts
<1>3. F \in Seq(Walk!Purposes) /\ Len(F) \in Nat
  BY <1>2, FieldsType
<1>4. FieldCase(Walk!Val(in, h), x, F[x], Len(F))
  BY <1>1, <1>2, FieldCases
<1> HIDE DEF F
<1>5. /\ todo /= <<>> /\ todo[1] = F[x] /\ Tail(todo) = SubSeq(F, x + 1, Len(F))
      /\ x = Len(F) => Tail(todo) = <<>>
  BY <1>1, <1>3, TodoFacts
<1> QED
  BY <1>1, <1>2, <1>3, <1>4, <1>5 DEF F

\* A payload that is read on as it should be.
LEMMA PayloadStays ==
  ASSUME NEW in, ReadsPayload(in), UNCHANGED <<payload, sent>>, outcome' = "running",
         NEW h \in in.heads, FoundBefore(in, h)',
         Between(in, h)' \/ \E x, m : Reading(in, h, x, m)'
  PROVE  ReadsPayload(in)'
<1>1. WalkOnTrack(in)'
  BY DEF WalkOnTrack
<1> QED
  BY <1>1 DEF ReadsPayload

LEMMA FrameTypeFinds ==
  ASSUME Walk!FramesInside, NEW in, ReadsPayload(in), Walk!FrameType
  PROVE  ReadsPayload(in)'
<1>1. in.bytes = payload /\ Walk!WellFormed(in) /\ WalkOnTrack(in)
  BY DEF ReadsPayload
<1>2. outcome = "running" /\ todo = <<>> /\ i < Len(payload)
  BY DEF Walk!FrameType
<1>3. PICK h \in in.heads : FoundBefore(in, h) /\ (Between(in, h) \/ \E x, m : Reading(in, h, x, m))
  BY <1>1, <1>2 DEF WalkOnTrack
<1>4. Between(in, h)
  BY <1>1, <1>2, <1>3, ReadingFacts
<1>5. h /= Walk!Last(in) /\ i = Walk!Pos(in, h)
  <2>1. ~(Len(payload) < Len(payload))
    BY InsideFacts
  <2> QED
    BY <1>1, <1>2, <1>4, <2>1, PayloadFacts DEF Between
<1> DEFINE t == Walk!Val(in, h)
           s == Walk!Size(in, h)
           F == Walk!Fields(t)
<1>6. /\ h \in Nat /\ h >= 1 /\ t \in Walk!Known /\ s \in Nat /\ s >= 1
      /\ h + s \in in.heads /\ (t \in {0, 1} => s = 1)
      /\ (t \notin {0, 1} => s > 1)
  <2>1. t \in {0, 1, 2, 3, 6, 28, 29}
    BY <1>1, <1>5, FrameFacts DEF Walk!Known
  <2>2. t \notin {0, 1} => s > 1
    <3>1. /\ t \in {2, 3} => Walk!Val(in, h + 3) \in Nat
          /\ t = 2 => s = 5 + 2 * Walk!Val(in, h + 3)
          /\ t = 3 => s = 8 + 2 * Walk!Val(in, h + 3)
          /\ t \in {6, 29} => s = 3
          /\ t = 28 => s = 4
      BY <1>1, <1>5, FrameFacts
    <3> HIDE DEF t, s
    <3> QED
      BY <2>1, <3>1
  <2> QED
    BY <1>1, <1>5, <2>2, FrameFacts
<1>7. h <= h /\ h < h + s
  BY <1>6
<1>8. h \in 1..Len(in.numbers) /\ (~Walk!HasSlice(in, h) \/ h + 1 /= h + s => Walk!Pos(in, h + 1) = Walk!After(in, h))
  BY <1>1, <1>5, <1>6, <1>7, NextNumber
<1>9. Walk!Varint /= {} /\ \A v \in Walk!Varint : v.value = t /\ i + v.len = Walk!After(in, h)
  BY <1>1, <1>5, <1>8, NumberHere
<1>10. /\ i' = Walk!After(in, h) /\ todo' = F
       /\ UNCHANGED <<payload, sent, ranges, offset, frames, outcome>>
  <2>1. PICK v \in Walk!Varint :
          IF v.value \notin Walk!Known THEN Walk!Fail
          ELSE /\ i' = i + v.len /\ todo' = Walk!Fields(v.value)
               /\ UNCHANGED <<payload, sent, ranges, offset, frames, outcome>>
    BY <1>9 DEF Walk!FrameType
  <2>2. v.value = t /\ v.value \in Walk!Known /\ i + v.len = Walk!After(in, h)
    BY <1>6, <1>9
  <2> QED
    BY <2>1, <2>2
<1>11. i' = Walk!Pos(in, h + 1)
  <2>1. ~Walk!HasSlice(in, h) \/ h + 1 /= h + s
    <3>1. CASE t \in {0, 1}
      BY <3>1 DEF Walk!HasSlice
    <3>2. CASE t \notin {0, 1}
      <4> HIDE DEF s, t
      <4>1. h + 1 /= h + s
        BY <1>6, <3>2
      <4> QED
        BY <4>1
    <3> QED
      BY <3>1, <3>2
  <2> QED
    BY <1>8, <1>10, <2>1
<1>12. CASE t \in {0, 1}
  <2>1. todo' = <<>> /\ h + s = h + 1
    BY <1>6, <1>10, <1>12, FieldsAre
  <2>2. Between(in, h + s)'
    BY <1>6, <1>11, <2>1 DEF Between
  <2>3. FoundBefore(in, h + s)'
    BY <1>1, <1>3, <1>5, <1>10, <1>12, PassFrame
  <2>4. outcome' = "running" /\ UNCHANGED <<payload, sent>>
    BY <1>2, <1>10
  <2> HIDE DEF s
  <2> QED
    BY <1>6, <2>2, <2>3, <2>4, PayloadStays
<1>13. CASE t \notin {0, 1}
  <2>1. F \in Seq(Walk!Purposes) /\ Len(F) \in Nat /\ Len(F) >= 1
    <3>1. Len(F) /= 0
      <4>1. t \in {2, 3, 6, 28, 29}
        BY <1>6, <1>13 DEF Walk!Known
      <4> QED
        BY <4>1, FieldKinds
    <3> QED
      BY <1>6, <3>1, FieldsType
  <2>2. SubSeq(F, 1, Len(F)) = F /\ 1 \in 1..Len(F) /\ h + 1 \in Nat
    BY <1>6, <2>1
  <2>3. Reading(in, h, 1, h + 1)'
    BY <1>5, <1>10, <1>11, <2>2 DEF Reading
  <2>4. FoundBefore(in, h)'
    BY <1>3, <1>10 DEF FoundBefore
  <2>5. outcome' = "running" /\ UNCHANGED <<payload, sent>>
    BY <1>2, <1>10
  <2> QED
    BY <2>3, <2>4, <2>5, PayloadStays
<1> QED
  BY <1>12, <1>13

\* What is known of the field that is read next.
LEMMA InFrame ==
  ASSUME Walk!FramesInside, NEW in, ReadsPayload(in), outcome = "running", todo /= <<>>
  PROVE  \E h \in in.heads, x \in Nat, m \in Nat : FoundBefore(in, h) /\ Reading(in, h, x, m)
<1>1. PICK h \in in.heads : FoundBefore(in, h) /\ \E x, m : Reading(in, h, x, m)
  BY DEF ReadsPayload, WalkOnTrack, Between
<1>2. PICK x, m : Reading(in, h, x, m)
  BY <1>1
<1>3. x \in Nat
  BY <1>2, ReadingFacts DEF ReadsPayload
<1>4. m \in Nat
  BY <1>2 DEF Reading
<1> QED
  BY <1>1, <1>2, <1>3, <1>4

\* What is known of the frame that is read.
LEMMA InFrameFacts ==
  ASSUME Walk!FramesInside, NEW in, in.bytes = payload, Walk!WellFormed(in),
         NEW h, NEW x, NEW m, Reading(in, h, x, m)
  PROVE  LET t == Walk!Val(in, h)
             c == Walk!Val(in, h + 3)
             s == Walk!Size(in, h)
         IN  /\ h \in Nat /\ x \in Nat /\ m \in Nat /\ s \in Nat /\ ranges \in Nat
             /\ i = Walk!Pos(in, m) /\ h + s \in in.heads /\ (t \in {2, 3} => c \in Nat)
             /\ t = 2 => s = 5 + 2 * c
             /\ t = 3 => s = 8 + 2 * c
             /\ t \in {6, 29} => s = 3
             /\ t = 28 => s = 4
             /\ t \notin {2, 3} => m = h + x
             /\ x < 5 => m = h + x
             /\ t \in {2, 3} /\ x = 4 => ranges = 2 * c
             /\ t \in {2, 3} /\ x = 5 => h + 5 <= m /\ m + ranges = h + 5 + 2 * c
             /\ t \in {2, 3} /\ x > 5 => m = h + x - 1 + 2 * c
             /\ t = 6 /\ x = 2 => offset = Walk!Val(in, h + 1)
             /\ Walk!HasSlice(in, h) <=> t \in {6, 28, 29}
<1>1. h \in in.heads /\ h /= Walk!Last(in)
  BY DEF Reading
<1>2. ranges \in Nat
  BY InsideFacts
<1>3. x \in Nat
  BY ReadingFacts
<1>4. Walk!HasSlice(in, h) <=> Walk!Val(in, h) \in {6, 28, 29}
  BY DEF Walk!HasSlice
<1>5. /\ m \in Nat /\ i = Walk!Pos(in, m)
      /\ Walk!Val(in, h) \notin {2, 3} => m = h + x
      /\ x < 5 => m = h + x
      /\ Walk!Val(in, h) \in {2, 3} /\ x = 4 => ranges = 2 * Walk!Val(in, h + 3)
      /\ Walk!Val(in, h) \in {2, 3} /\ x = 5 =>
           h + 5 <= m /\ m + ranges = h + 5 + 2 * Walk!Val(in, h + 3)
      /\ Walk!Val(in, h) \in {2, 3} /\ x > 5 => m = h + x - 1 + 2 * Walk!Val(in, h + 3)
      /\ Walk!Val(in, h) = 6 /\ x = 2 => offset = Walk!Val(in, h + 1)
  BY DEF Reading
<1>6. /\ h \in Nat /\ Walk!Size(in, h) \in Nat /\ h + Walk!Size(in, h) \in in.heads
      /\ Walk!Val(in, h) \in {2, 3} => Walk!Val(in, h + 3) \in Nat
      /\ Walk!Val(in, h) = 2 => Walk!Size(in, h) = 5 + 2 * Walk!Val(in, h + 3)
      /\ Walk!Val(in, h) = 3 => Walk!Size(in, h) = 8 + 2 * Walk!Val(in, h + 3)
      /\ Walk!Val(in, h) \in {6, 29} => Walk!Size(in, h) = 3
      /\ Walk!Val(in, h) = 28 => Walk!Size(in, h) = 4
  BY <1>1, FrameFacts
<1> QED
  BY <1>2, <1>3, <1>4, <1>5, <1>6

LEMMA NumberFinds ==
  ASSUME Walk!FramesInside, NEW in, ReadsPayload(in), Walk!Number
  PROVE  ReadsPayload(in)'
<1>1. in.bytes = payload /\ Walk!WellFormed(in)
  BY DEF ReadsPayload
<1>2. outcome = "running" /\ todo /= <<>> /\ todo[1] \in {"skip", "count", "offset"}
  BY DEF Walk!Number
<1>3. PICK h \in in.heads, x \in Nat, m \in Nat : FoundBefore(in, h) /\ Reading(in, h, x, m)
  BY <1>2, InFrame
<1> DEFINE t == Walk!Val(in, h)
           c == Walk!Val(in, h + 3)
           s == Walk!Size(in, h)
           F == Walk!Fields(t)
           l == Len(F)
           p == todo[1]
           q == IF p = "count" THEN 2 * c ELSE ranges
<1>4. /\ F \in Seq(Walk!Purposes) /\ l \in Nat /\ FieldCase(t, x, p, l)
      /\ Tail(todo) = SubSeq(F, x + 1, l) /\ (x = l => Tail(todo) = <<>>)
      /\ h /= Walk!Last(in)
  BY <1>1, <1>3, ReadingFacts
<1>5. /\ h \in Nat /\ x \in Nat /\ m \in Nat /\ s \in Nat /\ ranges \in Nat
      /\ i = Walk!Pos(in, m) /\ h + s \in in.heads /\ (t \in {2, 3} => c \in Nat)
      /\ t = 2 => s = 5 + 2 * c
      /\ t = 3 => s = 8 + 2 * c
      /\ t \in {6, 29} => s = 3
      /\ t = 28 => s = 4
      /\ t \notin {2, 3} => m = h + x
      /\ x < 5 => m = h + x
      /\ t \in {2, 3} /\ x = 4 => ranges = 2 * c
      /\ t \in {2, 3} /\ x > 5 => m = h + x - 1 + 2 * c
      /\ Walk!HasSlice(in, h) <=> t \in {6, 28, 29}
  BY <1>1, <1>3, InFrameFacts
<1>6. q = IF p = "count" THEN 2 * c ELSE ranges
  OBVIOUS
<1> HIDE DEF t, c, s, F, l, p, q
<1>7. p \in {"skip", "count", "offset"}
  BY <1>2 DEF p
<1>8. /\ h <= m /\ m < h + s
      /\ t \notin {6, 28, 29} \/ m + 1 /= h + s
      /\ p = "count" <=> t \in {2, 3} /\ x = 3
      /\ p = "offset" <=> t = 6 /\ x = 1
      /\ x = l => t = 3 /\ m + 1 = h + s
      /\ x /= l => x + 1 \in 1..l
      /\ t \notin {2, 3} \/ x + 1 < 5 => m + 1 = h + (x + 1)
      /\ t \in {2, 3} =>
           /\ x + 1 = 4 => q = 2 * c
           /\ x + 1 = 5 => h + 5 <= m + 1 /\ m + 1 + q = h + 5 + 2 * c
           /\ x + 1 > 5 => m + 1 = h + (x + 1) - 1 + 2 * c
  <2>0. /\ l \in Nat /\ h \in Nat /\ x \in Nat /\ m \in Nat /\ s \in Nat /\ ranges \in Nat
        /\ (t \in {2, 3} => c \in Nat)
        /\ t = 2 => s = 5 + 2 * c
        /\ t = 3 => s = 8 + 2 * c
        /\ t \in {6, 29} => s = 3
        /\ t = 28 => s = 4
        /\ t \notin {2, 3} => m = h + x
        /\ x < 5 => m = h + x
        /\ t \in {2, 3} /\ x = 4 => ranges = 2 * c
        /\ t \in {2, 3} /\ x > 5 => m = h + x - 1 + 2 * c
    BY <1>4, <1>5
  <2>1. CASE t \in {2, 3} /\ x \in {1, 2, 4} /\ p = "skip" /\ x < l
    BY <1>6, <2>0, <2>1
  <2>2. CASE t \in {2, 3} /\ x = 3 /\ p = "count" /\ x < l
    BY <1>6, <2>0, <2>2
  <2>3. CASE t = 3 /\ x \in {6, 7} /\ p = "skip" /\ x < l
    BY <1>6, <2>0, <2>3
  <2>4. CASE t = 3 /\ x = 8 /\ p = "skip" /\ x = l
    BY <1>6, <2>0, <2>4
  <2>5. CASE t = 6 /\ x = 1 /\ p = "offset" /\ x < l
    BY <1>6, <2>0, <2>5
  <2>6. CASE t = 28 /\ x \in {1, 2} /\ p = "skip" /\ x < l
    BY <1>6, <2>0, <2>6
  <2>7. CASE t = 29 /\ x = 1 /\ p = "skip" /\ x < l
    BY <1>6, <2>0, <2>7
  <2> QED
    BY <1>4, <1>7, <2>1, <2>2, <2>3, <2>4, <2>5, <2>6, <2>7 DEF FieldCase
<1>9. m \in 1..Len(in.numbers) /\ Walk!Pos(in, m + 1) = Walk!After(in, m)
  BY <1>1, <1>4, <1>5, <1>8, NextNumber DEF s
<1>10. Walk!Varint /= {} /\ \A v \in Walk!Varint : v.value = Walk!Val(in, m) /\ i + v.len = Walk!After(in, m)
  BY <1>1, <1>5, <1>9, NumberHere
<1>11. p = "count" => Walk!Val(in, m) = c
  BY <1>5, <1>8 DEF c
<1>12. PICK v \in Walk!Varint :
         /\ i' = i + v.len /\ todo' = Tail(todo)
         /\ ranges' = IF todo[1] = "count" THEN 2 * v.value ELSE ranges
         /\ offset' = IF todo[1] = "offset" THEN v.value ELSE offset
         /\ UNCHANGED <<payload, sent, frames, outcome>>
  BY <1>10 DEF Walk!Number
<1>13. i' = Walk!Pos(in, m + 1) /\ v.value = Walk!Val(in, m)
  BY <1>9, <1>10, <1>12
<1>14. ranges' = q
  BY <1>6, <1>11, <1>12, <1>13 DEF p
<1>15. outcome' = "running" /\ UNCHANGED <<payload, sent>> /\ frames' = frames
  BY <1>2, <1>12
<1>16. CASE x /= l
  <2>1. todo' = SubSeq(F, x + 1, l) /\ x + 1 \in 1..l /\ m + 1 \in Nat
    BY <1>4, <1>5, <1>8, <1>12, <1>16
  <2>2. t = 6 /\ x + 1 = 2 => offset' = Walk!Val(in, h + 1)
    <3> SUFFICES ASSUME t = 6, x + 1 = 2 PROVE offset' = Walk!Val(in, h + 1)
      OBVIOUS
    <3>1. x = 1 /\ m = h + 1 /\ p = "offset"
      BY <1>5, <1>8
    <3> QED
      BY <1>12, <1>13, <3>1 DEF p
  <2>3. Reading(in, h, x + 1, m + 1)'
    <3>1. h \in in.heads \ {Walk!Last(in)}
      BY <1>4
    <3> DEFINE y == x + 1
               n == m + 1
    <3>2. /\ t \notin {2, 3} \/ y < 5 => n = h + y
          /\ t \in {2, 3} =>
               /\ y = 4 => q = 2 * c
               /\ y = 5 => h + 5 <= n /\ n + q = h + 5 + 2 * c
               /\ y > 5 => n = h + y - 1 + 2 * c
      BY <1>8
    <3>3. todo' = SubSeq(F, y, l) /\ y \in 1..l /\ n \in Nat /\ i' = Walk!Pos(in, n)
      BY <1>13, <2>1
    <3>4. t = 6 /\ y = 2 => offset' = Walk!Val(in, h + 1)
      BY <2>2
    <3> HIDE DEF y, n
    <3>5. Reading(in, h, y, n)'
      BY <1>14, <3>1, <3>2, <3>3, <3>4 DEF Reading, t, c, F, l
    <3> QED
      BY <3>5 DEF y, n
  <2>4. FoundBefore(in, h)'
    BY <1>3, <1>15 DEF FoundBefore
  <2> QED
    BY <1>15, <2>3, <2>4, PayloadStays
<1>17. CASE x = l
  <2>1. todo' = <<>> /\ i' = Walk!Pos(in, h + s)
    BY <1>4, <1>8, <1>12, <1>13, <1>17
  <2>2. Between(in, h + s)'
    BY <1>5, <2>1 DEF Between
  <2>3. t /= 6
    BY <1>8, <1>17
  <2>4. FoundBefore(in, h + s)'
    BY <1>1, <1>3, <1>4, <1>15, <2>3, PassFrame DEF s, t
  <2> QED
    BY <1>5, <1>15, <2>2, <2>4, PayloadStays
<1> QED
  BY <1>16, <1>17

LEMMA AckRangeFinds ==
  ASSUME Walk!FramesInside, NEW in, ReadsPayload(in), Walk!AckRange
  PROVE  ReadsPayload(in)'
<1>1. in.bytes = payload /\ Walk!WellFormed(in)
  BY DEF ReadsPayload
<1>2. outcome = "running" /\ todo /= <<>> /\ todo[1] = "ranges"
  BY DEF Walk!AckRange
<1>3. PICK h \in in.heads, x \in Nat, m \in Nat : FoundBefore(in, h) /\ Reading(in, h, x, m)
  BY <1>2, InFrame
<1> DEFINE t == Walk!Val(in, h)
           c == Walk!Val(in, h + 3)
           s == Walk!Size(in, h)
           F == Walk!Fields(t)
           l == Len(F)
<1>4. /\ F \in Seq(Walk!Purposes) /\ l \in Nat /\ FieldCase(t, x, "ranges", l)
      /\ Tail(todo) = SubSeq(F, x + 1, l) /\ (x = l => Tail(todo) = <<>>)
      /\ h /= Walk!Last(in)
  BY <1>1, <1>2, <1>3, ReadingFacts
<1>5. /\ h \in Nat /\ x \in Nat /\ m \in Nat /\ s \in Nat /\ ranges \in Nat
      /\ i = Walk!Pos(in, m) /\ h + s \in in.heads /\ (t \in {2, 3} => c \in Nat)
      /\ t = 2 => s = 5 + 2 * c
      /\ t = 3 => s = 8 + 2 * c
      /\ t \in {2, 3} /\ x = 5 => h + 5 <= m /\ m + ranges = h + 5 + 2 * c
      /\ Walk!HasSlice(in, h) <=> t \in {6, 28, 29}
  BY <1>1, <1>3, InFrameFacts
<1> HIDE DEF t, c, s, F, l
<1>6. t \in {2, 3} /\ x = 5 /\ (t = 2 <=> x = l) /\ (t = 3 <=> x < l)
  BY <1>4 DEF FieldCase
<1>7. /\ c \in Nat /\ h + 5 <= m /\ m + ranges = h + 5 + 2 * c
      /\ ~Walk!HasSlice(in, h)
  BY <1>5, <1>6
<1>8. h \in in.heads \ {Walk!Last(in)}
  BY <1>4
<1>9. CASE ranges = 0
  <2>1. todo' = Tail(todo) /\ UNCHANGED <<payload, sent, i, ranges, offset, frames, outcome>>
    BY <1>9 DEF Walk!AckRange
  <2>2. m = h + 5 + 2 * c
    BY <1>5, <1>7, <1>9
  <2>3. CASE t = 2
    <3>1. todo' = <<>> /\ m = h + s
      <4>1. s = 5 + 2 * c /\ todo' = <<>>
        BY <1>4, <1>5, <1>6, <2>1, <2>3
      <4> QED
        BY <1>5, <1>7, <2>2, <4>1, SMTT(30)
    <3>2. Between(in, h + s)'
      BY <1>5, <2>1, <3>1 DEF Between
    <3>3. FoundBefore(in, h + s)'
      BY <1>1, <1>3, <1>4, <2>1, <2>3, PassFrame DEF s, t
    <3> QED
      BY <1>2, <1>5, <2>1, <3>2, <3>3, PayloadStays
  <2>4. CASE t = 3
    <3> DEFINE y == x + 1
    <3>1. y = 6 /\ y \in 1..l /\ todo' = SubSeq(F, y, l) /\ m = h + y - 1 + 2 * c
      BY <1>4, <1>5, <1>6, <1>7, <2>1, <2>2, <2>4
    <3> HIDE DEF y
    <3>2. Reading(in, h, y, m)'
      <4>1. ~(y < 5) /\ y /= 5 /\ y /= 4 /\ t /= 6
        BY <2>4, <3>1
      <4> QED
        BY <1>5, <1>6, <1>8, <2>1, <3>1, <4>1 DEF Reading, t, c, F, l
    <3>3. FoundBefore(in, h)'
      BY <1>3, <2>1 DEF FoundBefore
    <3> QED
      BY <1>2, <2>1, <3>2, <3>3, PayloadStays
  <2> QED
    BY <1>6, <2>3, <2>4
<1>10. CASE ranges /= 0
  <2>1. h <= m /\ m < h + s
    <3>1. m < h + 5 + 2 * c
      BY <1>5, <1>7, <1>10
    <3> QED
      BY <1>5, <1>6, <1>7, <3>1
  <2>2. m \in 1..Len(in.numbers) /\ Walk!Pos(in, m + 1) = Walk!After(in, m)
    BY <1>1, <1>4, <1>5, <1>7, <2>1, NextNumber DEF s
  <2>3. Walk!Varint /= {} /\ \A v \in Walk!Varint : v.value = Walk!Val(in, m) /\ i + v.len = Walk!After(in, m)
    BY <1>1, <1>5, <2>2, NumberHere
  <2>4. PICK v \in Walk!Varint :
          /\ i' = i + v.len /\ ranges' = ranges - 1
          /\ UNCHANGED <<payload, sent, todo, offset, frames, outcome>>
    BY <1>10, <2>3 DEF Walk!AckRange
  <2> DEFINE n == m + 1
  <2>5. i' = Walk!Pos(in, n) /\ n \in Nat /\ h + 5 <= n /\ n + ranges' = h + 5 + 2 * c
    BY <1>5, <1>7, <2>2, <2>3, <2>4, SMTT(30)
  <2>6. x \in 1..l /\ todo = SubSeq(F, x, l)
    BY <1>3 DEF Reading, F, l, t
  <2> HIDE DEF n
  <2>7. Reading(in, h, x, n)'
    <3>1. ~(x < 5) /\ ~(x > 5) /\ x /= 4 /\ t /= 6
      BY <1>6
    <3> QED
      BY <1>6, <1>8, <2>4, <2>5, <2>6, <3>1 DEF Reading, t, c, F, l
  <2>8. FoundBefore(in, h)'
    BY <1>3, <2>4 DEF FoundBefore
  <2> QED
    BY <1>2, <2>4, <2>7, <2>8, PayloadStays
<1> QED
  BY <1>9, <1>10

LEMMA SliceFinds ==
  ASSUME Walk!FramesInside, NEW in, ReadsPayload(in), Walk!Slice
  PROVE  ReadsPayload(in)'
<1>1. in.bytes = payload /\ Walk!WellFormed(in)
  BY DEF ReadsPayload
<1>2. outcome = "running" /\ todo /= <<>> /\ todo[1] \in {"data", "reason"}
  BY DEF Walk!Slice
<1>3. PICK h \in in.heads, x \in Nat, m \in Nat : FoundBefore(in, h) /\ Reading(in, h, x, m)
  BY <1>2, InFrame
<1> DEFINE t == Walk!Val(in, h)
           s == Walk!Size(in, h)
           F == Walk!Fields(t)
           l == Len(F)
           p == todo[1]
<1>4. /\ F \in Seq(Walk!Purposes) /\ l \in Nat /\ FieldCase(t, x, p, l)
      /\ (x = l => Tail(todo) = <<>>) /\ h /= Walk!Last(in)
  BY <1>1, <1>2, <1>3, ReadingFacts
<1>5. /\ h \in Nat /\ x \in Nat /\ m \in Nat /\ s \in Nat
      /\ i = Walk!Pos(in, m) /\ h + s \in in.heads
      /\ t \in {6, 29} => s = 3
      /\ t = 28 => s = 4
      /\ t \notin {2, 3} => m = h + x
      /\ t = 6 /\ x = 2 => offset = Walk!Val(in, h + 1)
      /\ Walk!HasSlice(in, h) <=> t \in {6, 28, 29}
  BY <1>1, <1>3, InFrameFacts
<1> HIDE DEF t, s, F, l, p
<1>6. p \in {"data", "reason"}
  BY <1>2 DEF p
<1>7. /\ t \in {6, 28, 29} /\ x = l /\ (p = "data" <=> t = 6)
      /\ t \in {6, 29} => x = 2
      /\ t = 28 => x = 3
  BY <1>4, <1>6 DEF FieldCase
<1>8. Walk!HasSlice(in, h) /\ h <= m /\ m < h + s /\ m + 1 = h + s
  BY <1>5, <1>7
<1>9. m \in 1..Len(in.numbers) /\ Walk!Pos(in, h + s) = Walk!After(in, m) + Walk!Val(in, m)
  BY <1>1, <1>4, <1>5, <1>8, NextNumber DEF s
<1>10. Walk!Varint /= {} /\ \A v \in Walk!Varint : v.value = Walk!Val(in, m) /\ i + v.len = Walk!After(in, m)
  BY <1>1, <1>5, <1>9, NumberHere
<1>11. Walk!Pos(in, h + s) <= Len(payload)
  <2>1. /\ Len(in.numbers) \in Nat /\ Walk!Last(in) = Len(in.numbers) + 1
        /\ h + s <= Walk!Last(in) /\ Len(payload) \in Nat
    BY <1>1, <1>5, PayloadFacts, InsideFacts
  <2>2. CASE h + s = Walk!Last(in)
    BY <1>1, <2>1, <2>2, PayloadFacts
  <2>3. CASE h + s /= Walk!Last(in)
    <3>1. h + s \in 1..Len(in.numbers)
      BY <1>5, <1>8, <2>1, <2>3, SMTT(30)
    <3>2. Walk!Pos(in, h + s) \in Nat /\ Walk!Pos(in, h + s) < Len(payload)
      BY <1>1, <3>1, PayloadFacts
    <3> QED
      BY <2>1, <3>2
  <2> QED
    BY <2>2, <2>3
<1>12. PICK v \in Walk!Varint :
         IF ~Walk!Fits(v.len, v.value) THEN Walk!Fail
         ELSE /\ i' = i + v.len + v.value /\ todo' = Tail(todo)
              /\ frames' = IF todo[1] = "data"
                           THEN Append(frames, <<offset, i + v.len, v.value>>) ELSE frames
              /\ UNCHANGED <<payload, sent, ranges, offset, outcome>>
  BY <1>10 DEF Walk!Slice
<1>13. v.value = Walk!Val(in, m) /\ i + v.len = Walk!After(in, m)
  BY <1>10
<1>14. Walk!Fits(v.len, v.value)
  BY <1>9, <1>11, <1>13 DEF Walk!Fits
<1>15. /\ i' = i + v.len + v.value /\ todo' = Tail(todo)
       /\ frames' = IF p = "data" THEN Append(frames, <<offset, i + v.len, v.value>>) ELSE frames
       /\ UNCHANGED <<payload, sent, ranges, offset, outcome>>
  BY <1>12, <1>14 DEF p
<1>16. todo' = <<>> /\ i' = Walk!Pos(in, h + s)
  BY <1>4, <1>7, <1>9, <1>13, <1>15
<1>17. Between(in, h + s)'
  BY <1>5, <1>16 DEF Between
<1>18. FoundBefore(in, h + s)'
  <2>1. CASE t = 6
    <3>1. p = "data" /\ m = h + 2 /\ offset = Walk!Val(in, h + 1)
      BY <1>5, <1>7, <2>1
    <3>2. frames' = Append(frames, <<Walk!Val(in, h + 1), Walk!After(in, h + 2), Walk!Val(in, h + 2)>>)
      BY <1>13, <1>15, <3>1
    <3> QED
      BY <1>1, <1>3, <1>4, <2>1, <3>2, TakeFrame DEF s, t
  <2>2. CASE t /= 6
    <3>1. frames' = frames
      BY <1>7, <1>15, <2>2
    <3> QED
      BY <1>1, <1>3, <1>4, <2>2, <3>1, PassFrame DEF s, t
  <2> QED
    BY <2>1, <2>2
<1> QED
  BY <1>2, <1>5, <1>15, <1>17, <1>18, PayloadStays

\* At the end of the payload all of its CRYPTO frames have been found.
LEMMA DoneFinds ==
  ASSUME Walk!FramesInside, NEW in, ReadsPayload(in), Walk!Done
  PROVE  ReadsPayload(in)'
<1>1. in.bytes = payload /\ in.sent = sent /\ Walk!WellFormed(in) /\ WalkOnTrack(in)
  BY DEF ReadsPayload
<1>2. /\ outcome = "running" /\ todo = <<>> /\ i >= Len(payload) /\ outcome' = "ok"
      /\ UNCHANGED <<payload, sent, i, todo, ranges, offset, frames>>
  BY DEF Walk!Done
<1>3. PICK h \in in.heads : FoundBefore(in, h) /\ Between(in, h)
  BY <1>1, <1>2, ReadingFacts DEF WalkOnTrack
<1>4. h = Walk!Last(in)
  <2>1. /\ Len(in.numbers) \in Nat /\ Walk!Last(in) = Len(in.numbers) + 1
        /\ h \in Nat /\ 1 <= h /\ h <= Walk!Last(in) /\ Len(payload) \in Nat /\ i \in Nat
    BY <1>1, PayloadFacts, InsideFacts
  <2> SUFFICES ASSUME h /= Walk!Last(in) PROVE FALSE
    OBVIOUS
  <2>2. h \in 1..Len(in.numbers)
    BY <2>1
  <2>3. i < Len(payload)
    BY <1>1, <1>3, <2>2, PayloadFacts DEF Between
  <2> QED
    BY <1>2, <2>1, <2>3
<1> DEFINE C == Len(in.cryptos)
           l == Len(frames)
<1>5. l \in Nat /\ C \in Nat /\ l <= C /\ in.cryptos \in Seq(in.heads \ {Walk!Last(in)})
  BY <1>1, <1>3, InsideFacts DEF Walk!WellFormed, FoundBefore
<1>6. \A n \in 1..C : in.cryptos[n] < h
  <2> SUFFICES ASSUME NEW n \in 1..C PROVE in.cryptos[n] < h
    OBVIOUS
  <2>1. in.cryptos[n] \in in.heads \ {Walk!Last(in)}
    BY <1>5, ElementOfSeq
  <2>2. in.cryptos[n] \in Nat /\ in.cryptos[n] <= Walk!Last(in) /\ Walk!Last(in) \in Nat
    BY <1>1, <2>1, PayloadFacts
  <2> QED
    BY <1>4, <2>1, <2>2
<1>7. l = C
  <2>1. \A n \in 1..C : n <= l
    BY <1>3, <1>6 DEF FoundBefore
  <2> HIDE DEF l, C
  <2>2. C > 0 => C \in 1..C
    BY <1>5
  <2> QED
    BY <1>5, <2>1, <2>2
<1>8. Walk!Found = [n \in 1..C |-> Walk!CryptoFrame(in, in.cryptos[n])]
  <2>1. ASSUME NEW n \in 1..C
        PROVE  <<frames[n][1], SubSeq(payload, frames[n][2] + 1, frames[n][2] + frames[n][3])>>
                 = Walk!CryptoFrame(in, in.cryptos[n])
    <3> DEFINE a == Walk!Val(in, in.cryptos[n] + 1)
               b == Walk!After(in, in.cryptos[n] + 2)
               d == Walk!Val(in, in.cryptos[n] + 2)
    <3>1. frames[n] = <<a, b, d>>
      BY <1>3, <1>7 DEF FoundBefore
    <3>2. Walk!CryptoFrame(in, in.cryptos[n]) = <<a, SubSeq(payload, b + 1, b + d)>>
      BY <1>1 DEF Walk!CryptoFrame
    <3> HIDE DEF a, b, d
    <3>3. frames[n][1] = a /\ frames[n][2] = b /\ frames[n][3] = d
      BY <3>1
    <3> QED
      BY <3>2, <3>3
  <2> QED
    BY <1>7, <2>1 DEF Walk!Found
<1>9. Walk!Found \in in.sent
  BY <1>1, <1>8 DEF Walk!WellFormed
<1>10. (Walk!Found \in in.sent)'
  BY <1>2, <1>9 DEF Walk!Found
<1>11. WalkOnTrack(in)'
  BY <1>2, <1>10 DEF WalkOnTrack
<1> QED
  BY <1>1, <1>2, <1>11 DEF ReadsPayload

\* A payload that is read as a well-formed one stays so.
LEMMA WalkStep ==
  ASSUME Walk!FramesInside, WalkFinds, Walk!Next \/ UNCHANGED walk
  PROVE  WalkFinds'
<1>1. sent' = sent
  BY DEF Walk!Next, Walk!FrameType, Walk!Number, Walk!AckRange, Walk!Slice, Walk!Done, Walk!Fail, walk
<1> SUFFICES ASSUME sent /= {} PROVE \E in \in Inputs : ReadsPayload(in)'
  BY <1>1 DEF WalkFinds
<1>2. PICK in \in Inputs : ReadsPayload(in)
  BY DEF WalkFinds
<1>3. CASE Walk!Next
  BY <1>2, <1>3, FrameTypeFinds, NumberFinds, AckRangeFinds, SliceFinds, DoneFinds DEF Walk!Next
<1>4. CASE UNCHANGED walk
  <2>1. UNCHANGED <<payload, sent, i, todo, ranges, offset, frames, outcome>>
    BY <1>4 DEF walk
  <2>2. \A h : (Between(in, h)' <=> Between(in, h)) /\ (FoundBefore(in, h)' <=> FoundBefore(in, h))
    BY <2>1 DEF Between, FoundBefore
  <2>3. \A h, x, m : Reading(in, h, x, m)' <=> Reading(in, h, x, m)
    BY <2>1 DEF Reading
  <2>4. Walk!Found' = Walk!Found
    BY <2>1 DEF Walk!Found
  <2>5. WalkOnTrack(in) => WalkOnTrack(in)'
    BY <2>1, <2>2, <2>3, <2>4 DEF WalkOnTrack
  <2> QED
    BY <1>2, <2>1, <2>5 DEF ReadsPayload
<1> QED
  BY <1>3, <1>4

LEMMA WalkInit ==
  ASSUME InitialsInit PROVE Walk!FramesInside /\ WalkFinds
<1>1. /\ i = 0 /\ todo = <<>> /\ ranges = 0 /\ offset = 0 /\ frames = <<>> /\ outcome = "running"
  BY DEF InitialsInit, Walk!Init, Walk!Call
<1>2. CASE part = "frames" /\ Walk!Init
  <2>1. PICK in \in Inputs : payload = in.bytes /\ sent = in.sent
    BY <1>2 DEF Walk!Init, Walk!Call
  <2>2. payload \in Seq(0..255) /\ Len(payload) \in Nat
    BY <2>1, PayloadAssumption DEF Walk!InputsAreBytes
  <2>3. Walk!FramesInside
    BY <1>1, <2>2 DEF Walk!FramesInside, Walk!TypeOK
  <2>4. ASSUME sent /= {} PROVE ReadsPayload(in)
    <3>1. Walk!WellFormed(in)
      BY <2>1, <2>4, PayloadAssumption DEF Walk!InputsAreFrames
    <3>2. 1 \in in.heads /\ Walk!Pos(in, 1) = 0
      BY <3>1 DEF Walk!WellFormed
    <3>3. Between(in, 1)
      BY <1>1, <3>2 DEF Between
    <3>4. Len(frames) = 0
      BY <1>1
    <3>5. Len(in.cryptos) \in Nat /\ in.cryptos \in Seq(in.heads \ {Walk!Last(in)})
      BY <3>1 DEF Walk!WellFormed
    <3>6. ASSUME NEW n \in 1..Len(in.cryptos) PROVE ~(n <= 0) /\ ~(in.cryptos[n] < 1)
      <4>1. in.cryptos[n] \in in.heads
        BY <3>5, ElementOfSeq
      <4>2. in.cryptos[n] \in Nat /\ 1 <= in.cryptos[n]
        BY <2>1, <2>3, <3>1, <4>1, PayloadFacts
      <4> QED
        BY <3>5, <4>2
    <3>7. FoundBefore(in, 1)
      BY <3>4, <3>5, <3>6 DEF FoundBefore
    <3>8. WalkOnTrack(in)
      BY <1>1, <3>2, <3>3, <3>7 DEF WalkOnTrack
    <3> QED
      BY <2>1, <3>1, <3>8 DEF ReadsPayload
  <2> QED
    BY <2>3, <2>4 DEF WalkFinds
<1>3. CASE Walk!Call([bytes |-> <<>>, sent |-> {}])
  <2>1. payload = <<>> /\ sent = {}
    BY <1>3 DEF Walk!Call
  <2> QED
    BY <1>1, <2>1 DEF Walk!FramesInside, Walk!TypeOK, WalkFinds
<1> QED
  BY <1>2, <1>3 DEF InitialsInit

\* read_crypto_frames finds slices of the payload, in order and apart from each
\* other, and of every well-formed payload exactly the CRYPTO frames, with their
\* offsets and data, whatever other frames stand between them.
THEOREM FramesAreFound == InitialsSpec => []FramesFound
<1>1. InitialsInit => Walk!FramesInside /\ WalkFinds
  BY WalkInit
<1>2. Walk!FramesInside /\ WalkFinds /\ [InitialsNext]_<<part, vars, table, walk>>
        => (Walk!FramesInside /\ WalkFinds)'
  <2> SUFFICES ASSUME Walk!FramesInside, WalkFinds, [InitialsNext]_<<part, vars, table, walk>>
               PROVE  Walk!FramesInside' /\ WalkFinds'
    OBVIOUS
  <2>1. Walk!Next \/ UNCHANGED walk
    BY DEF InitialsNext
  <2> QED
    BY <2>1, WalkInside, WalkStep
<1>3. Walk!FramesInside /\ WalkFinds => FramesFound
  <2> SUFFICES ASSUME Walk!FramesInside, WalkFinds PROVE Walk!RoundTrip
    BY DEF FramesFound
  <2> SUFFICES ASSUME outcome /= "running", sent /= {} PROVE outcome = "ok" /\ Walk!Found \in sent
    BY DEF Walk!RoundTrip
  <2>1. PICK in \in Inputs : ReadsPayload(in)
    BY DEF WalkFinds
  <2> QED
    BY <2>1, InsideFacts DEF ReadsPayload, WalkOnTrack
<1> QED
  BY <1>1, <1>2, <1>3, PTL DEF InitialsSpec
=============================================================================
