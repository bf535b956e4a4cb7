------------------------------ MODULE UdpProofs ------------------------------
(***************************************************************************)
(* Proofs about the two ends of a UDP socket, for any number of paths, any *)
(* lengths and limits and any number of datagrams.                         *)
(*                                                                         *)
(* SendQueue: the counter pending_bytes is exact and bounds the queue, and *)
(* the queue implements LossyFifo.                                         *)
(*                                                                         *)
(* BackendReaders: every buffer is in one pair of hands, a place in the    *)
(* channel is free, given to a task or taken by a datagram, and the        *)
(* datagrams of a path that were sent and not handled yet are in the line, *)
(* whole and in order.                                                     *)
(***************************************************************************)
EXTENDS Udp, SetLemmas, SequenceTheorems, FiniteSetTheorems, TLAPS

-----------------------------------------------------------------------------
(* SendQueue: the inductive invariant. *)

\* What the step of the caller or of the writer says about the rest: the
\* permit taken, the bypass, the queue made, the abort requested.
Phases ==
  /\ caller /= "idle" => packet \in Datagram /\ packet.id = submitted /\ ~dropped
  /\ caller \in {"charge", "uncharge", "push"} => exists
  /\ caller \in {"charge", "push"} => Len(channel) < MAX_QUEUED_DATAGRAMS
  /\ caller = "try" => channel = <<>> /\ writer \in {"none", "recv"}
  /\ exists <=> writer /= "none"
  /\ dropped => exists
  /\ writer = "none" => channel = <<>>
  /\ writer = "aborted" => dropped /\ channel = <<>>
  /\ IF writer \in {"send", "release"} THEN datagram \in Datagram ELSE datagram = <<>>

\* The writer's datagram is older than those in the channel, which are in the
\* order of the calls and older than the one being handed over.
Order ==
  /\ \A i, j \in DOMAIN channel : i < j => channel[i].id < channel[j].id
  /\ \A i \in DOMAIN channel :
       /\ channel[i].id <= submitted
       /\ caller /= "idle" => channel[i].id < submitted
       /\ writer = "send" => datagram.id < channel[i].id
  /\ writer = "send" => /\ datagram.id <= submitted
                        /\ caller /= "idle" => datagram.id < submitted

\* The accounts, and that a datagram about to be pushed has been let in.
Accounts ==
  /\ writer /= "aborted" => pending_bytes = Charged
  /\ Bounded
  /\ caller = "push" => Charged <= MAX_QUEUED_BYTES

QueueInv == TypeOK /\ Phases /\ Order /\ Accounts

-----------------------------------------------------------------------------
(* SendQueue: the charges of a sequence of datagrams. *)

\* No datagram is free: an empty one is charged too.
LEMMA ChargeType ==
  ASSUME NEW d \in Datagram PROVE d.id \in Nat /\ Charge(d) \in Nat /\ Charge(d) > 0
<1>1. d.id \in Nat /\ d.len \in Nat
  BY QueueAssumption DEF Datagram
<1> QED
  BY <1>1 DEF Charge

\* The charges of a sequence are naturals over a finite set of indices.
LEMMA ChargesType ==
  ASSUME NEW s \in Seq(Datagram)
  PROVE  /\ IsFiniteSet(DOMAIN s) /\ DOMAIN s = 1..Len(s) /\ Len(s) \in Nat
         /\ \A i \in DOMAIN s : Charges(s)[i] = Charge(s[i]) /\ Charges(s)[i] \in Nat
<1>1. DOMAIN s = 1..Len(s) /\ Len(s) \in Nat
  OBVIOUS
<1>2. IsFiniteSet(1..Len(s))
  BY <1>1, FS_Interval
<1>3. ASSUME NEW i \in DOMAIN s PROVE s[i] \in Datagram
  OBVIOUS
<1>4. \A i \in DOMAIN s : Charges(s)[i] = Charge(s[i])
  BY DEF Charges
<1> QED
  BY <1>1, <1>2, <1>3, <1>4, ChargeType

\* What is charged for a channel is a number of bytes.
LEMMA ChargeOfNat ==
  ASSUME NEW s \in Seq(Datagram) PROVE ChargeOf(s) \in Nat
  BY ChargesType, SumNat DEF ChargeOf

\* Nothing is charged for an empty channel.
LEMMA ChargeOfEmpty == ChargeOf(<<>>) = 0
<1>1. DOMAIN (<<>>) = {}
  OBVIOUS
<1> QED
  BY <1>1, SumEmpty DEF ChargeOf

\* permit.send adds the charge of its datagram.
LEMMA ChargeOfAppend ==
  ASSUME NEW s \in Seq(Datagram), NEW d \in Datagram
  PROVE  ChargeOf(Append(s, d)) = ChargeOf(s) + Charge(d)
<1> DEFINE t == Append(s, d)
           n == Len(s)
           F == Charges(s)
           G == Charges(t)
<1>1. /\ t \in Seq(Datagram) /\ n \in Nat /\ DOMAIN s = 1..n /\ DOMAIN t = 1..n + 1
      /\ t[n + 1] = d /\ \A i \in 1..n : t[i] = s[i]
  OBVIOUS
<1> HIDE DEF t, n
<1>2. /\ IsFiniteSet(DOMAIN s) /\ IsFiniteSet(DOMAIN t)
      /\ \A i \in 1..n : F[i] = Charge(s[i]) /\ F[i] \in Nat
      /\ \A i \in 1..n + 1 : G[i] = Charge(t[i]) /\ G[i] \in Nat
  BY <1>1, ChargesType
<1> HIDE DEF F, G
<1>3. (1..n + 1) \ {n + 1} = 1..n /\ n + 1 \in 1..n + 1 /\ 1..n \subseteq 1..n + 1
  BY <1>1
<1>4. SumFunctionOnSet(G, 1..n + 1) = G[n + 1] + SumFunctionOnSet(G, (1..n + 1) \ {n + 1})
  BY <1>1, <1>2, <1>3, SumRemove
<1>5. \A i \in 1..n : G[i] = F[i]
  BY <1>1, <1>2, <1>3
<1>6. SumFunctionOnSet(G, 1..n) = SumFunctionOnSet(F, 1..n)
  BY <1>1, <1>2, <1>5, SumEq
<1>7. ChargeOf(t) = SumFunctionOnSet(G, 1..n + 1) /\ ChargeOf(s) = SumFunctionOnSet(F, 1..n)
  BY <1>1 DEF ChargeOf, F, G
<1>8. G[n + 1] = Charge(d) /\ Charge(d) \in Nat /\ ChargeOf(s) \in Nat
  BY <1>1, <1>2, <1>3, ChargeType, ChargeOfNat
<1>9. SumFunctionOnSet(G, 1..n + 1) = G[n + 1] + SumFunctionOnSet(G, 1..n)
  BY <1>3, <1>4
<1>10. ChargeOf(t) = Charge(d) + ChargeOf(s)
  BY <1>6, <1>7, <1>8, <1>9
<1>11. ChargeOf(t) = ChargeOf(s) + Charge(d)
  BY <1>8, <1>10
<1> QED
  BY <1>11 DEF t

\* recv takes the charge of the first datagram off the channel.
LEMMA ChargeOfTail ==
  ASSUME NEW s \in Seq(Datagram), s # <<>>
  PROVE  ChargeOf(s) = Charge(Head(s)) + ChargeOf(Tail(s))
<1> DEFINE t == Tail(s)
           n == Len(t)
           F == Charges(s)
           G == Charges(t)
<1>1. /\ t \in Seq(Datagram) /\ n \in Nat /\ DOMAIN t = 1..n /\ DOMAIN s = 1..n + 1
      /\ s[1] = Head(s) /\ Head(s) \in Datagram /\ \A i \in 1..n : t[i] = s[i + 1]
  OBVIOUS
<1> HIDE DEF t, n
<1>2. /\ IsFiniteSet(DOMAIN s)
      /\ \A i \in 1..n + 1 : F[i] = Charge(s[i]) /\ F[i] \in Nat
      /\ \A i \in 1..n : G[i] = Charge(t[i]) /\ G[i] \in Nat
  BY <1>1, ChargesType
<1> HIDE DEF F, G
<1>3. (1..n + 1) \ {1} = 2..n + 1 /\ 1 \in 1..n + 1 /\ \A i \in 1..n : i + 1 \in 1..n + 1
  BY <1>1
<1>4. SumFunctionOnSet(F, 1..n + 1) = F[1] + SumFunctionOnSet(F, (1..n + 1) \ {1})
  <2> DEFINE D == 1..n + 1
  <2>1. IsFiniteSet(D) /\ 1 \in D /\ \A i \in D : F[i] \in Nat
    BY <1>1, <1>2, <1>3
  <2> HIDE DEF D
  <2>2. SumFunctionOnSet(F, D) = F[1] + SumFunctionOnSet(F, D \ {1})
    BY <2>1, SumRemove
  <2> QED
    BY <2>2 DEF D
<1>5. \A i \in 1..n : G[i] = F[i + 1] /\ G[i] \in Nat
  BY <1>1, <1>2, <1>3
<1>6. SumFunctionOnSet(G, 1..n) = SumFunctionOnSet(F, 2..n + 1)
  BY <1>1, <1>5, SumShift
<1>7. ChargeOf(s) = SumFunctionOnSet(F, 1..n + 1) /\ ChargeOf(t) = SumFunctionOnSet(G, 1..n)
  BY <1>1 DEF ChargeOf, F, G
<1>8. F[1] = Charge(Head(s))
  BY <1>1, <1>2, <1>3
<1>9. ChargeOf(s) = Charge(Head(s)) + ChargeOf(t)
  BY <1>3, <1>4, <1>6, <1>7, <1>8
<1> QED
  BY <1>9 DEF t

\* Nothing charged is nothing queued: what the bypass relies on.
LEMMA ChargeOfZero ==
  ASSUME NEW s \in Seq(Datagram), ChargeOf(s) = 0
  PROVE  s = <<>>
<1> SUFFICES ASSUME s # <<>> PROVE FALSE
  OBVIOUS
<1>1. Head(s) \in Datagram /\ Tail(s) \in Seq(Datagram)
  OBVIOUS
<1>2. /\ Charge(Head(s)) \in Nat /\ Charge(Head(s)) > 0 /\ ChargeOf(Tail(s)) \in Nat
      /\ ChargeOf(s) = Charge(Head(s)) + ChargeOf(Tail(s))
  BY <1>1, ChargeType, ChargeOfNat, ChargeOfTail
<1> QED
  BY <1>2

-----------------------------------------------------------------------------
(* SendQueue: the invariant is preserved. *)

\* <<>>, which stands for no datagram, is not one.
LEMMA NoDatagram == <<>> \notin Datagram
  BY DEF Datagram

\* The ids the order is about are numbers.
LEMMA IdType ==
  ASSUME QueueInv PROVE \A i \in DOMAIN channel : channel[i].id \in Nat
<1>1. ASSUME NEW i \in DOMAIN channel PROVE channel[i] \in Datagram
  BY DEF QueueInv, TypeOK
<1> QED
  BY <1>1, ChargeType

\* The types the arithmetic of the accounts rests on.
LEMMA Charging ==
  ASSUME QueueInv
  PROVE  /\ ChargeOf(channel) \in Nat /\ pending_bytes \in Nat
         /\ caller /= "idle" => Charge(packet) \in Nat /\ Charge(packet) > 0
         /\ writer \in {"send", "release"} => Charge(datagram) \in Nat /\ Charge(datagram) > 0
         /\ datagram = <<>> <=> writer \notin {"send", "release"}
         /\ MAX_QUEUED_BYTES \in Nat /\ MAX_QUEUED_DATAGRAMS \in Nat
         /\ submitted \in Nat /\ Len(channel) \in Nat
  BY NoDatagram, ChargeType, ChargeOfNat, QueueAssumption DEF QueueInv, TypeOK, Phases

\* A queue that was not made yet has charged nothing.
LEMMA InitInv == Init => QueueInv
<1> SUFFICES ASSUME Init PROVE QueueInv
  OBVIOUS
<1>1. ChargeOf(channel) = 0 /\ Len(channel) = 0 /\ DOMAIN channel = {}
  BY ChargeOfEmpty DEF Init
<1>2. TypeOK
  <2>1. 0 \in 0..MaxCalls /\ 0 \in 0..0 /\ <<>> \in Seq(Datagram)
    BY QueueAssumption
  <2> QED
    BY <2>1 DEF Init, TypeOK
<1>3. Phases /\ Order
  BY <1>1 DEF Init, Phases, Order
<1>4. Accounts
  BY <1>1, QueueAssumption DEF Init, Accounts, Bounded, Charged
<1> QED
  BY <1>2, <1>3, <1>4 DEF QueueInv

\* A call brings the newest datagram.
LEMMA CallInv ==
  ASSUME QueueInv, NEW len \in Lens, Call(len)
  PROVE  QueueInv'
<1> USE DEF QueueInv
<1>1. packet' \in Datagram /\ packet'.id = submitted' /\ submitted' = submitted + 1
  BY Charging DEF Call, Datagram
<1>2. TypeOK'
  BY <1>1, Charging, QueueAssumption DEF Call, TypeOK
<1>3. Phases'
  BY <1>1 DEF Call, Phases
<1>4. Order'
  <2>1. \A i \in DOMAIN channel : channel[i].id \in Nat
    BY IdType
  <2>2. writer = "send" => datagram.id \in Nat
    BY DEF Phases, Datagram
  <2> QED
    BY <1>1, <2>1, <2>2, Charging DEF Call, Order
<1>5. Accounts'
  BY DEF Call, Accounts, Bounded, Charged
<1> QED
  BY <1>2, <1>3, <1>4, <1>5

\* The counter is zero only if no older datagram is queued or in flight.
LEMMA LoadInv ==
  ASSUME QueueInv, Load
  PROVE  QueueInv'
<1> USE DEF QueueInv
<1>1. TypeOK'
  BY DEF Load, TypeOK
<1>2. Bypass => channel = <<>> /\ writer \in {"none", "recv"}
  <2>1. CASE ~exists
    BY <2>1 DEF Phases
  <2>2. CASE pending_bytes = 0
    <3>1. writer /= "aborted" /\ Charged = 0
      BY <2>2 DEF Load, Phases, Accounts
    <3>2. ChargeOf(channel) = 0 /\ writer \notin {"send", "release"}
      BY <3>1, Charging DEF Charged, Load
    <3>3. channel = <<>>
      BY <3>2, ChargeOfZero DEF TypeOK
    <3> QED
      BY <3>1, <3>2, <3>3 DEF TypeOK
  <2> QED
    BY <2>1, <2>2 DEF Bypass
<1>3. Phases'
  BY <1>2 DEF Load, Phases
<1>4. Order'
  BY DEF Load, Order
<1>5. Accounts'
  BY DEF Load, Accounts, Bounded, Charged
<1> QED
  BY <1>1, <1>3, <1>4, <1>5

\* The direct send leaves the queue and its counter alone.
LEMMA TrySendInv ==
  ASSUME QueueInv, TrySend
  PROVE  QueueInv'
<1> USE DEF QueueInv
<1>1. TypeOK'
  BY Charging DEF TrySend, TypeOK, Phases
<1>2. Phases'
  BY DEF TrySend, Phases
<1>3. Order'
  BY DEF TrySend, Order
<1>4. Accounts'
  BY DEF TrySend, Accounts, Bounded, Charged
<1> QED
  BY <1>1, <1>2, <1>3, <1>4

\* A permit is a place that nobody else takes: there is one caller.
LEMMA ReserveInv ==
  ASSUME QueueInv, Reserve
  PROVE  QueueInv'
<1> USE DEF QueueInv
<1>1. TypeOK'
  BY DEF Reserve, TypeOK
<1>2. Phases'
  BY DEF Reserve, Phases
<1>3. writer' = "send" => writer = "send"
  BY DEF Reserve, Phases
<1>4. Order'
  BY <1>3 DEF Reserve, Order
<1>5. Accounts'
  <2>1. writer' \in {"send", "release"} <=> writer \in {"send", "release"}
    BY DEF Reserve, Phases
  <2>2. Charged' = Charged
    BY <2>1 DEF Reserve, Charged
  <2>3. writer /= "aborted"
    BY DEF Reserve, Phases
  <2> QED
    BY <2>2, <2>3 DEF Reserve, Accounts, Bounded
<1> QED
  BY <1>1, <1>2, <1>4, <1>5

\* The charge is added before the limit is compared.
LEMMA ChargeBytesInv ==
  ASSUME QueueInv, ChargeBytes
  PROVE  QueueInv'
<1> USE DEF QueueInv
<1>1. TypeOK'
  BY Charging DEF ChargeBytes, TypeOK
<1>2. Phases'
  BY DEF ChargeBytes, Phases
<1>3. Order'
  BY DEF ChargeBytes, Order
<1>4. Accounts'
  <2>1. writer /= "aborted" /\ pending_bytes = Charged
    BY DEF ChargeBytes, Phases, Accounts
  <2>2. Charged' = Charged + Charge(packet)
    BY Charging DEF ChargeBytes, Charged
  <2>3. caller' = "push" => pending_bytes + Charge(packet) <= MAX_QUEUED_BYTES
    BY Charging DEF ChargeBytes, OverBytes
  <2> QED
    BY <2>1, <2>2, <2>3 DEF ChargeBytes, Accounts, Bounded
<1> QED
  BY <1>1, <1>2, <1>3, <1>4

\* A datagram above the limit gives back what it was charged.
LEMMA UnchargeInv ==
  ASSUME QueueInv, Uncharge
  PROVE  QueueInv'
<1> USE DEF QueueInv
<1>1. writer /= "aborted" /\ pending_bytes = Charged
  BY DEF Uncharge, Phases, Accounts
<1>2. Charged' = Charged - Charge(packet) /\ Charged' \in Nat
  BY Charging DEF Uncharge, Charged
<1>3. TypeOK'
  BY <1>1, <1>2 DEF Uncharge, TypeOK
<1>4. Phases'
  BY DEF Uncharge, Phases
<1>5. Order'
  BY DEF Uncharge, Order
<1>6. Accounts'
  BY <1>1, <1>2 DEF Uncharge, Accounts, Bounded
<1> QED
  BY <1>3, <1>4, <1>5, <1>6

\* The pushed datagram is the newest, fits, and brings its charge along.
LEMMA PushInv ==
  ASSUME QueueInv, Push
  PROVE  QueueInv'
<1> USE DEF QueueInv
<1>1. /\ channel \in Seq(Datagram) /\ packet \in Datagram /\ packet.id = submitted
      /\ channel' = Append(channel, packet) /\ caller' = "idle"
  BY DEF Push, TypeOK, Phases
<1>2. /\ channel' \in Seq(Datagram) /\ Len(channel') = Len(channel) + 1
      /\ DOMAIN channel = 1..Len(channel)
      /\ DOMAIN channel' = 1..Len(channel) + 1
      /\ channel'[Len(channel) + 1] = packet
      /\ \A i \in 1..Len(channel) : channel'[i] = channel[i]
  BY <1>1
<1>3. TypeOK'
  BY <1>2 DEF Push, TypeOK
<1>4. Phases'
  BY DEF Push, Phases
<1>5. Order'
  <2>1. \A i \in DOMAIN channel : channel[i].id \in Nat
    BY IdType
  <2>2. \A i, j \in DOMAIN channel' : i < j => channel'[i].id < channel'[j].id
    BY <1>1, <1>2, <2>1, Charging DEF Push, Order
  <2>3. ASSUME NEW i \in DOMAIN channel'
        PROVE  /\ channel'[i].id <= submitted
               /\ writer = "send" => datagram.id < channel'[i].id
    BY <1>1, <1>2, <2>1, Charging DEF Push, Order
  <2> QED
    BY <1>1, <2>2, <2>3 DEF Push, Order
<1>6. Accounts'
  <2>1. ChargeOf(channel') = ChargeOf(channel) + Charge(packet)
    BY <1>1, ChargeOfAppend
  <2>2. writer /= "aborted" /\ pending_bytes = Charged /\ Charged <= MAX_QUEUED_BYTES
    BY DEF Push, Phases, Accounts
  <2>3. Charged' = Charged
    BY <1>1, <2>1, Charging DEF Push, Charged
  <2>4. Len(channel') <= MAX_QUEUED_DATAGRAMS
    BY <1>2, Charging DEF Push, Phases
  <2>5. ChargeOf(channel') + (IF datagram = <<>> THEN 0 ELSE Charge(datagram)) = Charged
    BY <2>1, Charging DEF Push, Charged
  <2> QED
    BY <2>2, <2>3, <2>4, <2>5 DEF Push, Accounts, Bounded
<1> QED
  BY <1>3, <1>4, <1>5, <1>6

\* Drop only asks the writer to end.
LEMMA DropInv ==
  ASSUME QueueInv, Drop
  PROVE  QueueInv'
<1> USE DEF QueueInv
<1>1. TypeOK' /\ Phases' /\ Order'
  BY DEF Drop, TypeOK, Phases, Order
<1>2. Accounts'
  BY DEF Drop, Accounts, Bounded, Charged
<1> QED
  BY <1>1, <1>2

\* The writer takes the oldest datagram and its charge.
LEMMA RecvInv ==
  ASSUME QueueInv, Recv
  PROVE  QueueInv'
<1> USE DEF QueueInv
<1>1. /\ channel \in Seq(Datagram) /\ channel # <<>>
      /\ channel' = Tail(channel) /\ datagram' = Head(channel)
      /\ writer = "recv" /\ writer' = "send"
  BY DEF Recv, TypeOK
<1>2. /\ channel' \in Seq(Datagram) /\ datagram' \in Datagram /\ datagram' = channel[1]
      /\ Len(channel') = Len(channel) - 1 /\ 1 \in DOMAIN channel
      /\ \A i \in DOMAIN channel' : /\ channel'[i] = channel[i + 1] /\ i + 1 \in DOMAIN channel
                                    /\ i \in Nat /\ i >= 1
  BY <1>1
<1>3. TypeOK'
  BY <1>2 DEF Recv, TypeOK
<1>4. Phases'
  BY <1>1, <1>2, Charging DEF Recv, Phases
<1>5. Order'
  <2>1. ASSUME NEW i \in DOMAIN channel', NEW j \in DOMAIN channel', i < j
        PROVE  channel'[i].id < channel'[j].id
    <3>1. i + 1 < j + 1 /\ i + 1 \in DOMAIN channel /\ j + 1 \in DOMAIN channel
      BY <1>2, <2>1
    <3>2. channel[i + 1].id < channel[j + 1].id
      BY <3>1 DEF Order
    <3> QED
      BY <1>2, <3>2
  <2>2. \A i \in DOMAIN channel' :
          /\ channel'[i].id <= submitted
          /\ caller /= "idle" => channel'[i].id < submitted
          /\ datagram'.id < channel'[i].id
    BY <1>2 DEF Order
  <2>3. datagram'.id <= submitted /\ (caller /= "idle" => datagram'.id < submitted)
    BY <1>2 DEF Order
  <2> QED
    BY <2>1, <2>2, <2>3 DEF Recv, Order
<1>6. Accounts'
  <2>1. ChargeOf(channel) = Charge(datagram') + ChargeOf(channel')
    BY <1>1, ChargeOfTail
  <2>2. ChargeOf(channel') \in Nat /\ Charge(datagram') \in Nat
    BY <1>2, ChargeOfNat, ChargeType
  <2>3. datagram = <<>> /\ datagram' # <<>>
    BY <1>1, <1>2, NoDatagram, Charging
  <2>4. Charged' = Charged
    BY <1>1, <2>1, <2>2, Charging DEF Recv, Charged
  <2>5. Bounded'
    BY <1>2, <2>1, <2>2, <2>3, Charging DEF Accounts, Bounded
  <2> QED
    BY <1>1, <2>4, <2>5 DEF Recv, Accounts
<1> QED
  BY <1>3, <1>4, <1>5, <1>6

\* Sent or failed, the datagram keeps its charge until it is released.
LEMMA WriterSendInv ==
  ASSUME QueueInv, WriterSend
  PROVE  QueueInv'
<1> USE DEF QueueInv
<1>1. datagram \in Datagram /\ datagram.id \in Nat /\ datagram.id <= submitted
  BY DEF WriterSend, Phases, Order, Datagram
<1>2. TypeOK'
  BY <1>1, Charging DEF WriterSend, TypeOK
<1>3. Phases'
  BY DEF WriterSend, Phases
<1>4. Order'
  BY DEF WriterSend, Order
<1>5. Accounts'
  BY DEF WriterSend, Accounts, Bounded, Charged
<1> QED
  BY <1>2, <1>3, <1>4, <1>5

\* What the writer gives back is the charge of the datagram it held.
LEMMA ReleaseInv ==
  ASSUME QueueInv, Release
  PROVE  QueueInv'
<1> USE DEF QueueInv
<1>1. /\ pending_bytes = Charged /\ pending_bytes' = Charged'
      /\ Charged' = Charged - Charge(datagram) /\ Charged' \in Nat
  BY Charging DEF Release, Released, Accounts, Charged
<1>2. TypeOK'
  BY <1>1 DEF Release, TypeOK
<1>3. Phases'
  BY DEF Release, Phases
<1>4. Order'
  BY DEF Release, Order
<1>5. Accounts'
  <2>1. Bounded'
    BY Charging DEF Release, Accounts, Bounded
  <2>2. Charged' <= Charged /\ Charged \in Nat
    BY <1>1, Charging DEF Release
  <2> QED
    BY <1>1, <2>1, <2>2, Charging DEF Release, Accounts
<1> QED
  BY <1>2, <1>3, <1>4, <1>5

\* The abort loses what the channel and the writer held.
LEMMA AbortedInv ==
  ASSUME QueueInv, Aborted
  PROVE  QueueInv'
<1> USE DEF QueueInv
<1>1. ChargeOf(channel') = 0 /\ Len(channel') = 0 /\ DOMAIN channel' = {}
  BY ChargeOfEmpty DEF Aborted
<1>2. TypeOK'
  BY DEF Aborted, TypeOK
<1>3. Phases'
  BY <1>1, Charging DEF Aborted, Phases
<1>4. Order'
  BY <1>1 DEF Aborted, Order
<1>5. caller = "idle"
  BY DEF Aborted, Phases
<1>6. Accounts'
  BY <1>1, <1>5, Charging DEF Aborted, Accounts, Bounded
<1> QED
  BY <1>2, <1>3, <1>4, <1>6

\* Every step of the two tasks preserves the invariant.
LEMMA NextInv ==
  ASSUME QueueInv, [Next]_vars
  PROVE  QueueInv'
<1>1. CASE UNCHANGED vars
  BY <1>1 DEF vars, QueueInv, TypeOK, Phases, Order, Accounts, Bounded, Charged
<1>2. CASE CallerNext
  BY <1>2, CallInv, LoadInv, TrySendInv, ReserveInv, ChargeBytesInv, UnchargeInv, PushInv, DropInv
     DEF CallerNext
<1>3. CASE WriterNext
  BY <1>3, RecvInv, WriterSendInv, ReleaseInv, AbortedInv DEF WriterNext
<1> QED
  BY <1>1, <1>2, <1>3 DEF Next

\* A step of the composition is one of the queue or leaves the queue alone.
LEMMA SendSteps ==
  ASSUME [UdpNext]_all PROVE [Next]_vars
  BY DEF UdpNext, all

\* Phases, order and accounts of the queue hold in every interleaving of the
\* caller with the writer.
THEOREM Invariance == UdpSpec => []QueueInv
<1>1. UdpInit => QueueInv
  BY InitInv DEF UdpInit
<1>2. QueueInv /\ [UdpNext]_all => QueueInv'
  BY SendSteps, NextInv
<1> QED
  BY <1>1, <1>2, PTL DEF UdpSpec

\* pending_bytes is exact at every step of the caller and the writer, and the
\* queue stays within both of its limits.
THEOREM QueueAccounted == UdpSpec => []Accounted
<1>1. QueueInv => Accounted
  BY DEF QueueInv, Accounts, Accounted, PendingExact
<1> QED
  BY <1>1, Invariance, PTL

-----------------------------------------------------------------------------
(* SendQueue implements LossyFifo. *)

\* The refinement mapping: the datagrams neither sent nor lost.
Held == InChannel \cup InFlight \cup InCall

\* Datagrams given up are a Lose.
LEMMA LoseStep ==
  ASSUME NEW lost, Held' = Held \ lost, UNCHANGED <<submitted, last>>
  PROVE  Fifo!Next
<1>1. lost \cap Held \in SUBSET Held /\ Held' = Held \ (lost \cap Held)
  OBVIOUS
<1> QED
  BY <1>1 DEF Fifo!Next, Fifo!Lose, Held

\* The kernel takes the oldest one: a Depart.
LEMMA DepartStep ==
  ASSUME NEW d \in Held, \A e \in Held : d <= e, Held' = Held \ {d}, last' = d,
         UNCHANGED submitted
  PROVE  Fifo!Next
  BY DEF Fifo!Next, Fifo!Depart, Held

\* What moves a datagram between the caller, the channel and the writer is none
\* of LossyFifo's steps.
LEMMA IdleStep ==
  ASSUME Held' = Held, UNCHANGED <<submitted, last>>
  PROVE  UNCHANGED Fifo!vars
  BY DEF Fifo!vars, Held

\* The steps of the caller.
LEMMA CallerRefines ==
  ASSUME QueueInv, CallerNext
  PROVE  [Fifo!Next]_Fifo!vars
<1>1. ASSUME NEW len \in Lens, Call(len)
      PROVE  Fifo!Next
  <2>1. Held' = Held \cup {submitted + 1}
    BY <1>1 DEF Call, Held, InChannel, InFlight, InCall, Ids
  <2> QED
    BY <1>1, <2>1 DEF Call, Fifo!Next, Fifo!Submit, Held
<1>2. \A id \in InChannel \cup InFlight : caller /= "idle" => id < submitted
  BY DEF QueueInv, Order, InChannel, InFlight, Ids
<1>3. caller /= "idle" => packet.id = submitted /\ submitted \in Nat
  BY Charging DEF QueueInv, Phases
<1>4. ASSUME caller \in {"load", "try", "reserve", "charge", "push"},
             caller' \in {"idle", "uncharge"}, UNCHANGED <<channel, writer, datagram>>
      PROVE  Held' = Held \ {packet.id} /\ packet.id \in Held
  <2>1. packet.id \notin InChannel \cup InFlight
    BY <1>2, <1>3, <1>4
  <2> QED
    BY <1>4, <2>1 DEF Held, InChannel, InFlight, InCall, Ids
<1>5. CASE Load \/ Uncharge \/ Drop
  <2>1. Held' = Held
    BY <1>5 DEF Load, Uncharge, Drop, Held, InChannel, InFlight, InCall, Ids
  <2> QED
    BY <1>5, <2>1, IdleStep DEF Load, Uncharge, Drop
<1>6. CASE TrySend
  <2>1. CASE caller' = "reserve" /\ UNCHANGED last
    <3>1. Held' = Held
      BY <1>6, <2>1 DEF TrySend, Held, InChannel, InFlight, InCall, Ids
    <3> QED
      BY <1>6, <2>1, <3>1, IdleStep DEF TrySend
  <2>2. CASE caller' = "idle" /\ UNCHANGED last
    BY <1>4, <1>6, <2>2, LoseStep DEF TrySend
  <2>3. CASE caller' = "idle" /\ last' = packet.id
    <3>1. Held' = Held \ {packet.id} /\ packet.id \in Held
      BY <1>4, <1>6, <2>3 DEF TrySend
    <3>2. Held = {packet.id} /\ packet.id \in Nat
      BY <1>3, <1>6 DEF TrySend, QueueInv, Phases, Held, InChannel, InFlight, InCall, Ids
    <3> QED
      BY <1>6, <2>3, <3>1, <3>2, DepartStep DEF TrySend
  <2> QED
    BY <1>6, <2>1, <2>2, <2>3 DEF TrySend
<1>7. CASE Reserve
  <2>1. writer' = "send" <=> writer = "send"
    BY <1>7 DEF Reserve, QueueInv, Phases
  <2>2. InChannel' = InChannel /\ InFlight' = InFlight
    BY <1>7, <2>1 DEF Reserve, InChannel, InFlight, Ids
  <2>3. CASE caller' = "charge"
    <3>1. Held' = Held
      BY <1>7, <2>2, <2>3 DEF Reserve, Held, InCall
    <3> QED
      BY <1>7, <3>1, IdleStep DEF Reserve
  <2>4. CASE caller' = "idle"
    <3>1. packet.id \notin InChannel \cup InFlight
      BY <1>2, <1>3, <1>7 DEF Reserve
    <3>2. Held' = Held \ {packet.id}
      BY <1>7, <2>2, <2>4, <3>1 DEF Reserve, Held, InCall
    <3> QED
      BY <1>7, <3>2, LoseStep DEF Reserve
  <2> QED
    BY <1>7, <2>3, <2>4 DEF Reserve
<1>8. CASE ChargeBytes
  <2>1. CASE caller' = "push"
    <3>1. Held' = Held
      BY <1>8, <2>1 DEF ChargeBytes, Held, InChannel, InFlight, InCall, Ids
    <3> QED
      BY <1>8, <3>1, IdleStep DEF ChargeBytes
  <2>2. CASE caller' = "uncharge"
    BY <1>4, <1>8, <2>2, LoseStep DEF ChargeBytes
  <2> QED
    BY <1>8, <2>1, <2>2 DEF ChargeBytes
<1>9. CASE Push
  <2>1. channel \in Seq(Datagram) /\ packet \in Datagram /\ channel' = Append(channel, packet)
    BY <1>9 DEF Push, QueueInv, TypeOK, Phases
  <2>2. /\ DOMAIN channel = 1..Len(channel) /\ DOMAIN channel' = 1..Len(channel) + 1
        /\ channel'[Len(channel) + 1] = packet /\ Len(channel) \in Nat
        /\ \A i \in 1..Len(channel) : channel'[i] = channel[i]
    BY <2>1
  <2>3. InChannel' = InChannel \cup {packet.id}
    BY <2>2 DEF InChannel, Ids
  <2>4. Held' = Held
    BY <1>9, <2>3 DEF Push, Held, InFlight, InCall
  <2> QED
    BY <1>9, <2>4, IdleStep DEF Push
<1> QED
  BY <1>1, <1>5, <1>6, <1>7, <1>8, <1>9 DEF CallerNext

\* The steps of the writer.
LEMMA WriterRefines ==
  ASSUME QueueInv, WriterNext
  PROVE  [Fifo!Next]_Fifo!vars
<1>1. CASE Recv
  <2>1. /\ channel \in Seq(Datagram) /\ channel # <<>>
        /\ channel' = Tail(channel) /\ datagram' = Head(channel)
    BY <1>1 DEF Recv, QueueInv, TypeOK
  <2>2. /\ datagram' = channel[1] /\ 1 \in DOMAIN channel
        /\ \A i \in DOMAIN channel' : channel'[i] = channel[i + 1] /\ i + 1 \in DOMAIN channel
        /\ \A i \in DOMAIN channel : i # 1 => i - 1 \in DOMAIN channel' /\ (i - 1) + 1 = i
    BY <2>1
  <2>3. InChannel = InChannel' \cup {datagram'.id}
    <3>1. InChannel' \cup {datagram'.id} \subseteq InChannel
      BY <2>2 DEF InChannel, Ids
    <3>2. ASSUME NEW i \in DOMAIN channel, i # 1
          PROVE  channel[i].id \in InChannel'
      <4>1. i - 1 \in DOMAIN channel' /\ channel'[i - 1] = channel[i]
        BY <2>2, <3>2
      <4> QED
        BY <4>1 DEF InChannel, Ids
    <3>3. InChannel \subseteq InChannel' \cup {datagram'.id}
      BY <2>2, <3>2 DEF InChannel, Ids
    <3> QED
      BY <3>1, <3>3
  <2>4. InFlight = {} /\ InFlight' = {datagram'.id} /\ InCall' = InCall
    BY <1>1 DEF Recv, InFlight, InCall
  <2>5. Held' = Held
    BY <2>3, <2>4 DEF Held
  <2> QED
    BY <1>1, <2>5, IdleStep DEF Recv
<1>2. CASE WriterSend
  <2>1. datagram.id \in Nat /\ InFlight = {datagram.id} /\ InFlight' = {}
    BY <1>2, ChargeType DEF WriterSend, QueueInv, Phases, InFlight
  <2>2. \A e \in InChannel : datagram.id < e /\ e \in Nat
    BY <1>2, IdType DEF WriterSend, QueueInv, Order, InChannel, Ids
  <2>3. \A e \in InCall : datagram.id < e /\ e \in Nat
    BY <1>2, Charging DEF WriterSend, QueueInv, Phases, Order, InCall
  <2>4. InChannel' = InChannel /\ InCall' = InCall
    BY <1>2 DEF WriterSend, InChannel, InCall, Ids
  <2>5. Held' = Held \ {datagram.id} /\ datagram.id \in Held
    BY <2>1, <2>2, <2>3, <2>4 DEF Held
  <2>6. \A e \in Held : datagram.id <= e
    BY <2>1, <2>2, <2>3 DEF Held
  <2>7. CASE last' = last
    BY <1>2, <2>5, <2>7, LoseStep DEF WriterSend
  <2>8. CASE last' = datagram.id
    BY <1>2, <2>5, <2>6, <2>8, DepartStep DEF WriterSend
  <2> QED
    BY <1>2, <2>7, <2>8 DEF WriterSend
<1>3. CASE Release
  <2>1. Held' = Held
    BY <1>3 DEF Release, Held, InChannel, InFlight, InCall, Ids
  <2> QED
    BY <1>3, <2>1, IdleStep DEF Release
<1>4. CASE Aborted
  <2>1. InCall = {} /\ InCall' = {} /\ InFlight' = {}
    BY <1>4 DEF Aborted, QueueInv, Phases, InCall, InFlight
  <2>2. InChannel' = {}
    BY <1>4 DEF Aborted, InChannel, Ids
  <2>3. Held' = Held \ Held
    BY <2>1, <2>2 DEF Held
  <2> QED
    BY <1>4, <2>3, LoseStep DEF Aborted
<1> QED
  BY <1>1, <1>2, <1>3, <1>4 DEF WriterNext

\* The datagrams of a socket leave in the order of the calls, none twice,
\* whichever bypass the queue: send_or_queue and its writer implement LossyFifo.
THEOREM QueueIsFifo == UdpSpec => Ordered
<1>1. UdpInit => Fifo!Init
  BY DEF UdpInit, Init, Fifo!Init, InChannel, InFlight, InCall, Ids
<1>2. ASSUME QueueInv, [Next]_vars
      PROVE  [Fifo!Next]_Fifo!vars
  <2>1. CASE UNCHANGED vars
    BY <2>1 DEF vars, Fifo!vars, InChannel, InFlight, InCall, Ids
  <2> QED
    BY <1>2, <2>1, CallerRefines, WriterRefines DEF Next
<1>3. QueueInv /\ [UdpNext]_all => [Fifo!Next]_Fifo!vars
  BY <1>2, SendSteps
<1> QED
  BY <1>1, <1>3, Invariance, PTL DEF UdpSpec, Ordered, Fifo!Spec

-----------------------------------------------------------------------------
(* BackendReaders: the inductive invariant. *)

\* Where a task has a place in the channel, and where it has a Packet.
Holding == {"granted"} \cup Backend!Running
Carrying == {"recv", "send", "blocked", "failed"}

States == Backend!Awaiting \cup Backend!Running \cup {"ended"}

Hold(at) == {r \in Readers : at[r] \in Holding}

Entry == [conn_id : Readers, packet : Backend!Packets]
Content == {<<>>} \cup (Readers \X Nat)

\* Who has a buffer: a task, a datagram in the line, or the cache.
Own(r, b) == r \in Readers /\ pc[r] \in Carrying /\ packets[r].buffer = b
Queued(n, b) == n \in 1..Len(Backend!Line) /\ Backend!Line[n].packet.buffer = b
Cached(n, b) == n \in 1..Len(cache) /\ cache[n] = b

Types ==
  /\ Backend!TypeOK
  /\ handled \in Seq(Entry) /\ Len(handled) <= 1
  /\ bytes \in [Backend!Buffers -> [1..2 -> Content]]
  /\ seen \in [Readers -> Seq(Seq(Content))]

\* A place is free, has been given to a task or is taken by a datagram.
Places == permits + Cardinality(Hold(pc)) + Len(received) = Capacity

\* The waiters are the tasks that wait, each of them once.
Waiting(at, ws) ==
  /\ ws \in Seq(Readers) /\ \A m, n \in 1..Len(ws) : ws[m] = ws[n] => m = n
  /\ \A r \in Readers : at[r] = "waiting" <=> \E n \in 1..Len(ws) : ws[n] = r

\* A task has a Packet from Acquire to Send or DropPacket.
Carried ==
  /\ \A r \in Readers : pc[r] \in Carrying => packets[r].buffer \in Backend!Buffers
  /\ \A r \in Readers : pc[r] \notin Carrying => packets[r] = Backend!None
  /\ \A n \in 1..Len(Backend!Line) : Backend!Line[n].packet.buffer \in Backend!Buffers

\* No buffer is in two hands.
Distinct ==
  /\ \A b, r, q : Own(r, b) /\ Own(q, b) => r = q
  /\ \A b, m, n : Queued(m, b) /\ Queued(n, b) => m = n
  /\ \A b, m, n : Cached(m, b) /\ Cached(n, b) => m = n
  /\ \A b, r, n : ~(Own(r, b) /\ Queued(n, b))
  /\ \A b, r, n : ~(Own(r, b) /\ Cached(n, b))
  /\ \A b, m, n : ~(Queued(m, b) /\ Cached(n, b))

\* Of any line L of datagrams and contents B of the buffers: what a Packet holds,
\* that the datagrams are whole and in order, and that those of path r are the
\* ones after lo up to hi.
Holds(B, p) == SubSeq(B[p.buffer], 1, p.len)
NumberOf(B, d) == Holds(B, d.packet)[1][2]

InOrder(B, L) ==
  /\ \A n \in 1..Len(L) : Holds(B, L[n].packet) = Backend!Datagram(L[n].conn_id, NumberOf(B, L[n]))
  /\ \A m, n \in 1..Len(L) :
       m < n /\ L[m].conn_id = L[n].conn_id => NumberOf(B, L[m]) < NumberOf(B, L[n])

InLine(B, L, r, lo, hi) ==
  \A k : (\E n \in 1..Len(L) : L[n].conn_id = r /\ NumberOf(B, L[n]) = k) <=> k \in lo + 1 .. hi

Whole(B, L) ==
  /\ InOrder(B, L)
  /\ \A r \in Readers : /\ InLine(B, L, r, Len(seen[r]), Backend!Forwarded(r))
                        /\ Len(seen[r]) <= Backend!Forwarded(r)

Delivered ==
  /\ \A r \in Readers : seen[r] = [k \in 1..Len(seen[r]) |-> Backend!Datagram(r, k)]
  /\ \A r \in Readers : pc[r] = "send" => Holds(bytes, packets[r]) = Backend!Datagram(r, taken[r])
  /\ Whole(bytes, Backend!Line)

ReadersInv ==
  Types /\ Places /\ Len(cache) <= MaxCached /\ Waiting(pc, waiters) /\ Carried /\ Distinct /\ Delivered

-----------------------------------------------------------------------------
(* BackendReaders: lines of datagrams. *)

\* The number of a datagram is in its bytes.
LEMMA DatagramIs ==
  ASSUME NEW r \in Readers, NEW k \in Nat
  PROVE  /\ Backend!Datagram(r, k) \in Seq(Content)
         /\ Len(Backend!Datagram(r, k)) \in 1..2
         /\ DOMAIN Backend!Datagram(r, k) = 1..Len(Backend!Datagram(r, k))
         /\ \A j \in 1..Len(Backend!Datagram(r, k)) : Backend!Datagram(r, k)[j] = <<r, k>>
         /\ Backend!Datagram(r, k)[1][2] = k
<1> DEFINE l == 1 + (k % 2)
           D == Backend!Datagram(r, k)
<1>1. l \in 1..2 /\ l \in Nat
  OBVIOUS
<1>2. D = [j \in 1..l |-> <<r, k>>]
  BY DEF Backend!Datagram, Backend!BufferSize
<1> HIDE DEF l, D
<1>3. <<r, k>> \in Content
  BY DEF Content
<1>4. D \in Seq(Content) /\ Len(D) = l /\ DOMAIN D = 1..l
  BY <1>1, <1>2, <1>3
<1>5. \A j \in 1..l : D[j] = <<r, k>>
  BY <1>2
<1>6. D[1] = <<r, k>>
  BY <1>1, <1>5
<1> QED
  BY <1>1, <1>4, <1>5, <1>6 DEF D

\* What a line says depends on its own buffers only.
LEMMA OtherBytes ==
  ASSUME NEW B, NEW C, NEW L, \A n \in 1..Len(L) : C[L[n].packet.buffer] = B[L[n].packet.buffer],
         InOrder(B, L)
  PROVE  /\ InOrder(C, L)
         /\ \A r, lo, hi : InLine(B, L, r, lo, hi) => InLine(C, L, r, lo, hi)
<1>1. \A n \in 1..Len(L) : Holds(C, L[n].packet) = Holds(B, L[n].packet) /\ NumberOf(C, L[n]) = NumberOf(B, L[n])
  BY DEF Holds, NumberOf
<1> QED
  BY <1>1 DEF InOrder, InLine

\* Send: the datagram is the next one of its path.
LEMMA AppendLine ==
  ASSUME NEW B, NEW L \in Seq(Entry), NEW e \in Entry, NEW k \in Nat, NEW lo \in Nat,
         Holds(B, e.packet) = Backend!Datagram(e.conn_id, k), lo < k,
         InOrder(B, L), InLine(B, L, e.conn_id, lo, k - 1)
  PROVE  /\ InOrder(B, Append(L, e)) /\ InLine(B, Append(L, e), e.conn_id, lo, k)
         /\ \A r, a, z : r /= e.conn_id /\ InLine(B, L, r, a, z) => InLine(B, Append(L, e), r, a, z)
<1> DEFINE M == Append(L, e)
           l == Len(L)
<1>1. e.conn_id \in Readers
  BY DEF Entry
<1>2. NumberOf(B, e) = k
  BY <1>1, DatagramIs DEF NumberOf
<1>3. /\ l \in Nat /\ Len(M) = l + 1 /\ M[l + 1] = e
      /\ \A n \in 1..l : M[n] = L[n]
  BY AppendProperties
<1> HIDE DEF M, l
<1>4. \A n \in 1..l + 1 : n = l + 1 \/ n \in 1..l
  BY <1>3
<1>5. ASSUME NEW n \in 1..l + 1
      PROVE  Holds(B, M[n].packet) = Backend!Datagram(M[n].conn_id, NumberOf(B, M[n]))
  <2>1. CASE n = l + 1
    BY <1>2, <1>3, <2>1
  <2>2. CASE n \in 1..l
    BY <1>3, <2>2 DEF InOrder, l
  <2> QED
    BY <1>4, <2>1, <2>2
<1>6. ASSUME NEW n \in 1..l, L[n].conn_id = e.conn_id PROVE NumberOf(B, L[n]) < k
  <2>1. NumberOf(B, L[n]) \in lo + 1 .. k - 1
    BY <1>6 DEF InLine, l
  <2> QED
    BY <2>1
<1>7. ASSUME NEW m \in 1..l + 1, NEW n \in 1..l + 1, m < n, M[m].conn_id = M[n].conn_id
      PROVE  NumberOf(B, M[m]) < NumberOf(B, M[n])
  <2>1. m \in 1..l
    BY <1>3, <1>7
  <2>2. CASE n = l + 1
    BY <1>2, <1>3, <1>6, <1>7, <2>1, <2>2
  <2>3. CASE n \in 1..l
    <3>1. L[m].conn_id = L[n].conn_id
      BY <1>3, <1>7, <2>1, <2>3
    <3>2. NumberOf(B, L[m]) < NumberOf(B, L[n])
      BY <1>7, <2>1, <2>3, <3>1 DEF InOrder, l
    <3> QED
      BY <1>3, <2>1, <2>3, <3>2
  <2> QED
    BY <1>4, <2>2, <2>3
<1>8. InOrder(B, M)
  BY <1>3, <1>5, <1>7 DEF InOrder
<1>9. ASSUME NEW j
      PROVE  (\E n \in 1..l + 1 : M[n].conn_id = e.conn_id /\ NumberOf(B, M[n]) = j) <=> j \in lo + 1 .. k
  <2>1. (\E n \in 1..l : L[n].conn_id = e.conn_id /\ NumberOf(B, L[n]) = j) <=> j \in lo + 1 .. k - 1
    BY DEF InLine, l
  <2>2. (\E n \in 1..l + 1 : M[n].conn_id = e.conn_id /\ NumberOf(B, M[n]) = j)
          <=> (\E n \in 1..l : L[n].conn_id = e.conn_id /\ NumberOf(B, L[n]) = j) \/ j = k
    <3>1. l + 1 \in 1..l + 1 /\ \A n \in 1..l : n \in 1..l + 1
      BY <1>3
    <3> QED
      BY <1>2, <1>3, <1>4, <3>1
  <2>3. j \in lo + 1 .. k <=> j \in lo + 1 .. k - 1 \/ j = k
    OBVIOUS
  <2> QED
    BY <2>1, <2>2, <2>3
<1>10. InLine(B, M, e.conn_id, lo, k)
  BY <1>3, <1>9 DEF InLine
<1>11. ASSUME NEW r, NEW a, NEW z, r /= e.conn_id, InLine(B, L, r, a, z)
       PROVE  InLine(B, M, r, a, z)
  <2>1. \A j : (\E n \in 1..l : L[n].conn_id = r /\ NumberOf(B, L[n]) = j) <=> j \in a + 1 .. z
    BY <1>11 DEF InLine, l
  <2>2. ASSUME NEW j
        PROVE  (\E n \in 1..l + 1 : M[n].conn_id = r /\ NumberOf(B, M[n]) = j)
                 <=> (\E n \in 1..l : L[n].conn_id = r /\ NumberOf(B, L[n]) = j)
    <3>1. \A n \in 1..l : n \in 1..l + 1
      BY <1>3
    <3> QED
      BY <1>3, <1>4, <1>11, <3>1
  <2> QED
    BY <1>3, <2>1, <2>2 DEF InLine
<1> QED
  BY <1>8, <1>10, <1>11 DEF M

\* Handle: the first of the line is the next one of its path.
LEMMA TailLine ==
  ASSUME NEW B, NEW L \in Seq(Entry), L /= <<>>, NEW lo \in Nat, NEW hi \in Nat,
         InOrder(B, L), InLine(B, L, L[1].conn_id, lo, hi)
  PROVE  /\ NumberOf(B, L[1]) = lo + 1 /\ lo < hi
         /\ Holds(B, L[1].packet) = Backend!Datagram(L[1].conn_id, lo + 1)
         /\ InOrder(B, Tail(L)) /\ InLine(B, Tail(L), L[1].conn_id, lo + 1, hi)
         /\ \A r, a, z : r /= L[1].conn_id /\ InLine(B, L, r, a, z) => InLine(B, Tail(L), r, a, z)
<1> DEFINE M == Tail(L)
           l == Len(M)
           c == L[1].conn_id
<1>1. /\ l \in Nat /\ Len(L) = l + 1 /\ \A n \in 1..l : M[n] = L[n + 1]
  BY HeadTailProperties
<1> HIDE DEF M, l
<1>2. /\ \A n \in 1..l + 1 : n = 1 \/ (n - 1 \in 1..l /\ n = (n - 1) + 1)
      /\ \A n \in 1..l : n + 1 \in 1..l + 1 /\ n + 1 /= 1 /\ 1 < n + 1
      /\ 1 \in 1..l + 1 /\ \A m, n \in 1..l : m < n => m + 1 < n + 1
  BY <1>1
<1>3. /\ \A n \in 1..l + 1 : Holds(B, L[n].packet) = Backend!Datagram(L[n].conn_id, NumberOf(B, L[n]))
      /\ \A m, n \in 1..l + 1 :
           m < n /\ L[m].conn_id = L[n].conn_id => NumberOf(B, L[m]) < NumberOf(B, L[n])
  BY <1>1 DEF InOrder
<1>4. \A j : (\E n \in 1..l + 1 : L[n].conn_id = c /\ NumberOf(B, L[n]) = j) <=> j \in lo + 1 .. hi
  BY <1>1 DEF InLine
<1>5. NumberOf(B, L[1]) = lo + 1 /\ lo < hi
  <2>1. NumberOf(B, L[1]) \in lo + 1 .. hi
    BY <1>2, <1>4
  <2>2. lo + 1 \in lo + 1 .. hi /\ lo < hi
    BY <2>1
  <2>3. PICK n \in 1..l + 1 : L[n].conn_id = c /\ NumberOf(B, L[n]) = lo + 1
    BY <1>4, <2>2
  <2>4. CASE n = 1
    BY <2>2, <2>3, <2>4
  <2>5. CASE n /= 1
    <3>1. 1 < n
      BY <1>1, <2>5
    <3>2. NumberOf(B, L[1]) < lo + 1
      BY <1>2, <1>3, <2>3, <3>1
    <3> QED
      BY <2>1, <3>2
  <2> QED
    BY <2>4, <2>5
<1>6. InOrder(B, M)
  <2>1. ASSUME NEW n \in 1..l PROVE Holds(B, M[n].packet) = Backend!Datagram(M[n].conn_id, NumberOf(B, M[n]))
    BY <1>1, <1>2, <1>3
  <2>2. ASSUME NEW m \in 1..l, NEW n \in 1..l, m < n, M[m].conn_id = M[n].conn_id
        PROVE  NumberOf(B, M[m]) < NumberOf(B, M[n])
    <3>1. m + 1 \in 1..l + 1 /\ n + 1 \in 1..l + 1 /\ m + 1 < n + 1
      BY <1>2, <2>2
    <3>2. M[m] = L[m + 1] /\ M[n] = L[n + 1]
      BY <1>1
    <3> QED
      BY <1>3, <2>2, <3>1, <3>2
  <2> QED
    BY <2>1, <2>2 DEF InOrder, l
<1>7. ASSUME NEW j
      PROVE  (\E n \in 1..l : M[n].conn_id = c /\ NumberOf(B, M[n]) = j) <=> j \in (lo + 1) + 1 .. hi
  <2>1. (\E n \in 1..l + 1 : L[n].conn_id = c /\ NumberOf(B, L[n]) = j) <=> j \in lo + 1 .. hi
    BY <1>4
  <2>2. ASSUME NEW n \in 1..l, M[n].conn_id = c, NumberOf(B, M[n]) = j
        PROVE  j \in (lo + 1) + 1 .. hi
    <3>1. n + 1 \in 1..l + 1 /\ 1 < n + 1 /\ M[n] = L[n + 1]
      BY <1>1, <1>2
    <3>2. lo + 1 < j
      BY <1>2, <1>3, <1>5, <2>2, <3>1
    <3>3. j \in lo + 1 .. hi
      BY <2>1, <2>2, <3>1
    <3> QED
      BY <3>2, <3>3
  <2>3. ASSUME j \in (lo + 1) + 1 .. hi
        PROVE  \E n \in 1..l : M[n].conn_id = c /\ NumberOf(B, M[n]) = j
    <3>1. j \in lo + 1 .. hi /\ j /= lo + 1
      BY <2>3
    <3>2. PICK n \in 1..l + 1 : L[n].conn_id = c /\ NumberOf(B, L[n]) = j
      BY <2>1, <3>1
    <3>3. n /= 1
      BY <1>5, <3>1, <3>2
    <3>4. n - 1 \in 1..l /\ (n - 1) + 1 = n
      BY <1>2, <3>3
    <3>5. M[n - 1] = L[n]
      BY <1>1, <3>4
    <3> QED
      BY <3>2, <3>4, <3>5
  <2> QED
    BY <2>2, <2>3
<1>8. InLine(B, M, c, lo + 1, hi)
  BY <1>7 DEF InLine, l
<1>9. ASSUME NEW r, NEW a, NEW z, r /= c, InLine(B, L, r, a, z)
      PROVE  InLine(B, M, r, a, z)
  <2>1. \A j : (\E n \in 1..l + 1 : L[n].conn_id = r /\ NumberOf(B, L[n]) = j) <=> j \in a + 1 .. z
    BY <1>1, <1>9 DEF InLine
  <2>2. ASSUME NEW j
        PROVE  (\E n \in 1..l : M[n].conn_id = r /\ NumberOf(B, M[n]) = j)
                 <=> (\E n \in 1..l + 1 : L[n].conn_id = r /\ NumberOf(B, L[n]) = j)
    <3>1. ASSUME NEW n \in 1..l, M[n].conn_id = r, NumberOf(B, M[n]) = j
          PROVE  \E m \in 1..l + 1 : L[m].conn_id = r /\ NumberOf(B, L[m]) = j
      BY <1>1, <1>2, <3>1
    <3>2. ASSUME NEW n \in 1..l + 1, L[n].conn_id = r, NumberOf(B, L[n]) = j
          PROVE  \E m \in 1..l : M[m].conn_id = r /\ NumberOf(B, M[m]) = j
      <4>1. n - 1 \in 1..l /\ (n - 1) + 1 = n
        BY <1>2, <1>9, <3>2
      <4>2. M[n - 1] = L[n]
        BY <1>1, <4>1
      <4> QED
        BY <3>2, <4>1, <4>2
    <3> QED
      BY <3>1, <3>2
  <2> QED
    BY <2>1, <2>2 DEF InLine, l
<1>10. Holds(B, L[1].packet) = Backend!Datagram(c, lo + 1)
  BY <1>2, <1>3, <1>5
<1> QED
  BY <1>5, <1>6, <1>8, <1>9, <1>10 DEF M

-----------------------------------------------------------------------------
(* BackendReaders: places in the channel. *)

\* What the types of the variables say.
LEMMA ReaderTypes ==
  ASSUME Types
  PROVE  /\ pc \in [Readers -> States] /\ waiters \in Seq(Readers) /\ received \in Seq(Entry)
         /\ handled \in Seq(Entry) /\ Len(handled) \in Nat /\ Len(handled) <= 1 /\ permits \in Nat
         /\ cache \in Seq(Backend!Buffers) /\ packets \in [Readers -> Backend!Packets]
         /\ Len(waiters) \in Nat /\ Len(received) \in Nat /\ Len(cache) \in Nat
         /\ taken \in [Readers -> 0..MaxSent] /\ sent \in [Readers -> 0..MaxSent]
         /\ bytes \in [Backend!Buffers -> [1..2 -> Content]]
         /\ seen \in [Readers -> Seq(Seq(Content))]
         /\ ready \in [Readers -> BOOLEAN] /\ errors \subseteq Readers /\ aborted \subseteq Readers
<1>1. permits \in Nat
  BY ReaderAssumption DEF Types, Backend!TypeOK
<1>2. Len(handled) \in Nat /\ Len(handled) <= 1
  BY LenProperties DEF Types
<1> QED
  BY <1>1, <1>2 DEF Types, Backend!TypeOK, States, Entry

\* The types of the variables, but for that of permits.
LEMMA TypesStay ==
  ASSUME pc' \in [Readers -> States], waiters' \in Seq(Readers), received' \in Seq(Entry),
         handled' \in Seq(Entry), Len(handled') <= 1, permits' \in 0..Capacity,
         cache' \in Seq(Backend!Buffers), packets' \in [Readers -> Backend!Packets],
         taken' \in [Readers -> 0..MaxSent], sent' \in [Readers -> 0..MaxSent],
         bytes' \in [Backend!Buffers -> [1..2 -> Content]],
         seen' \in [Readers -> Seq(Seq(Content))],
         ready' \in [Readers -> BOOLEAN], errors' \subseteq Readers, aborted' \subseteq Readers
  PROVE  Types'
<1>1. DOMAIN bytes' = Backend!Buffers
  OBVIOUS
<1> QED
  BY <1>1 DEF Types, Backend!TypeOK, States, Entry

\* The number of places a task has is a number.
LEMMA HoldType ==
  ASSUME NEW at PROVE IsFiniteSet(Hold(at)) /\ Cardinality(Hold(at)) \in Nat
<1>1. Hold(at) \in SUBSET Readers
  BY DEF Hold
<1> QED
  BY <1>1, FS_Subset, FS_CardinalityType, ReaderAssumption

\* The tasks that have a place are the same.
LEMMA HoldSame ==
  ASSUME NEW at \in [Readers -> States], NEW bt \in [Readers -> States],
         \A q \in Readers : at[q] \in Holding <=> bt[q] \in Holding
  PROVE  Cardinality(Hold(bt)) = Cardinality(Hold(at))
<1>1. Hold(bt) = Hold(at)
  BY DEF Hold
<1> QED
  BY <1>1

\* A task gets a place.
LEMMA HoldMore ==
  ASSUME NEW at \in [Readers -> States], NEW bt \in [Readers -> States], NEW r \in Readers,
         at[r] \notin Holding, bt[r] \in Holding, \A q \in Readers : q /= r => bt[q] = at[q]
  PROVE  Cardinality(Hold(bt)) = Cardinality(Hold(at)) + 1
<1>1. Hold(bt) = Hold(at) \cup {r} /\ r \notin Hold(at)
  BY DEF Hold
<1>2. IsFiniteSet(Hold(at))
  BY HoldType
<1> QED
  BY <1>1, <1>2, FS_AddElement

\* A task gives its place up.
LEMMA HoldLess ==
  ASSUME NEW at \in [Readers -> States], NEW bt \in [Readers -> States], NEW r \in Readers,
         at[r] \in Holding, bt[r] \notin Holding, \A q \in Readers : q /= r => bt[q] = at[q]
  PROVE  Cardinality(Hold(bt)) = Cardinality(Hold(at)) - 1
<1>1. Hold(bt) = Hold(at) \ {r} /\ r \in Hold(at)
  BY DEF Hold
<1>2. IsFiniteSet(Hold(at))
  BY HoldType
<1> QED
  BY <1>1, <1>2, FS_RemoveElement

\* A place that becomes free goes to the first waiter, or is free for all.
LEMMA GiveOne ==
  ASSUME NEW at \in [Readers -> States], NEW ws, Waiting(at, ws), permits \in Nat,
         Backend!GivePermit(at, ws)
  PROVE  /\ pc' \in [Readers -> States] /\ Waiting(pc', waiters') /\ permits' \in Nat
         /\ permits' + Cardinality(Hold(pc')) = permits + Cardinality(Hold(at)) + 1
         /\ Cardinality(Hold(pc')) \in Nat
         /\ \A q \in Readers : pc'[q] = at[q] \/ (at[q] = "waiting" /\ pc'[q] = "granted")
<1>1. ws \in Seq(Readers)
  BY DEF Waiting
<1>2. CASE ws = <<>>
  <2>1. permits' = permits + 1 /\ waiters' = ws /\ pc' = at
    BY <1>2 DEF Backend!GivePermit
  <2>2. Cardinality(Hold(at)) \in Nat
    BY HoldType
  <2>3. permits' + Cardinality(Hold(at)) = permits + Cardinality(Hold(at)) + 1
    BY <2>1, <2>2
  <2> QED
    BY <2>1, <2>2, <2>3
<1>3. CASE ws /= <<>>
  <2> DEFINE w == Head(ws)
             v == Tail(ws)
             l == Len(v)
  <2>1. pc' = [at EXCEPT ![w] = "granted"] /\ waiters' = v /\ permits' = permits
    BY <1>3 DEF Backend!GivePermit
  <2>2. /\ w = ws[1] /\ l \in Nat /\ Len(ws) = l + 1 /\ v \in Seq(Readers)
        /\ \A n \in 1..l : v[n] = ws[n + 1]
    BY <1>1, <1>3, HeadTailProperties
  <2> HIDE DEF v, l, w
  <2>3. /\ \A m, n \in 1..l + 1 : ws[m] = ws[n] => m = n
        /\ \A r \in Readers : at[r] = "waiting" <=> \E n \in 1..l + 1 : ws[n] = r
    BY <2>2 DEF Waiting
  <2>4. 1 \in 1..l + 1 /\ \A n \in 1..l : n + 1 \in 1..l + 1 /\ n + 1 /= 1
    BY <2>2
  <2>5. \A n \in 1..l + 1 : n /= 1 => n - 1 \in 1..l /\ (n - 1) + 1 = n
    BY <2>2
  <2>6. w \in Readers /\ at[w] = "waiting"
    <3>1. w \in Readers
      BY <1>1, <2>2, <2>4, ElementOfSeq
    <3> QED
      BY <2>2, <2>3, <2>4, <3>1
  <2>7. "granted" \in States /\ "granted" \in Holding /\ "waiting" \notin Holding
    BY DEF States, Holding, Backend!Awaiting, Backend!Running
  <2>8. /\ Cardinality(Hold(at)) \in Nat /\ Cardinality(Hold(pc')) = Cardinality(Hold(at)) + 1
        /\ pc' \in [Readers -> States] /\ pc'[w] = "granted"
        /\ \A q \in Readers : q /= w => pc'[q] = at[q]
    <3>1. pc' \in [Readers -> States] /\ pc'[w] = "granted" /\ \A q \in Readers : q /= w => pc'[q] = at[q]
      BY <2>1, <2>6, <2>7
    <3>2. at[w] \notin Holding /\ pc'[w] \in Holding
      BY <2>6, <2>7, <3>1
    <3>3. Cardinality(Hold(pc')) = Cardinality(Hold(at)) + 1
      BY <2>6, <3>1, <3>2, HoldMore
    <3> QED
      BY <3>1, <3>3, HoldType
  <2>9. Waiting(pc', v)
    <3>1. ASSUME NEW m \in 1..l, NEW n \in 1..l, v[m] = v[n] PROVE m = n
      <4>1. ws[m + 1] = ws[n + 1] /\ m + 1 \in 1..l + 1 /\ n + 1 \in 1..l + 1
        BY <2>2, <2>4, <3>1
      <4>2. m + 1 = n + 1
        BY <2>3, <4>1
      <4> QED
        BY <2>2, <4>2
    <3>2. ASSUME NEW r \in Readers PROVE pc'[r] = "waiting" <=> \E n \in 1..l : v[n] = r
      <4>1. CASE r = w
        <5>1. ASSUME NEW n \in 1..l, v[n] = r PROVE FALSE
          <6>1. ws[n + 1] = ws[1] /\ n + 1 \in 1..l + 1 /\ n + 1 /= 1
            BY <2>2, <2>4, <4>1, <5>1
          <6> QED
            BY <2>3, <2>4, <6>1
        <5> QED
          BY <2>8, <4>1, <5>1
      <4>2. CASE r /= w
        <5>1. pc'[r] = at[r] /\ (at[r] = "waiting" <=> \E n \in 1..l + 1 : ws[n] = r)
          BY <2>3, <2>8, <4>2
        <5>2. ASSUME NEW n \in 1..l + 1, ws[n] = r PROVE \E m \in 1..l : v[m] = r
          <6>1. n - 1 \in 1..l /\ (n - 1) + 1 = n
            BY <2>2, <2>5, <4>2, <5>2
          <6>2. v[n - 1] = r
            BY <2>2, <5>2, <6>1
          <6> QED
            BY <6>1, <6>2
        <5>3. ASSUME NEW n \in 1..l, v[n] = r PROVE \E m \in 1..l + 1 : ws[m] = r
          BY <2>2, <2>4, <5>3
        <5> QED
          BY <5>1, <5>2, <5>3
      <4> QED
        BY <4>1, <4>2
    <3> QED
      BY <2>2, <3>1, <3>2 DEF Waiting, l
  <2>10. permits' + Cardinality(Hold(pc')) = permits + Cardinality(Hold(at)) + 1 /\ Cardinality(Hold(pc')) \in Nat
    BY <2>1, <2>8
  <2>11. \A q \in Readers : pc'[q] = at[q] \/ (at[q] = "waiting" /\ pc'[q] = "granted")
    BY <2>6, <2>8
  <2> QED
    BY <2>1, <2>8, <2>9, <2>10, <2>11
<1> QED
  BY <1>2, <1>3

\* A task that leaves the line of the waiters.
LEMMA LeaveOne ==
  ASSUME NEW at \in [Readers -> States], NEW ws, Waiting(at, ws), NEW p \in DOMAIN ws, NEW vs,
         vs = Backend!RemoveAt(ws, p), NEW bt, bt = [at EXCEPT ![ws[p]] = "ended"]
  PROVE  Waiting(bt, vs)
<1> DEFINE a == SubSeq(ws, 1, p - 1)
           b == SubSeq(ws, p + 1, Len(ws))
           l == Len(ws)
           r == ws[p]
<1>1. ws \in Seq(Readers) /\ l \in Nat /\ p \in 1..l
  BY DEF Waiting
<1>2. \A n \in 1..l : ws[n] \in Readers
  BY <1>1, ElementOfSeq
<1>3. vs = a \o b
  BY DEF Backend!RemoveAt
<1>4. /\ \A m, n \in 1..l : ws[m] = ws[n] => m = n
      /\ \A q \in Readers : at[q] = "waiting" <=> \E n \in 1..l : ws[n] = q
  BY DEF Waiting
<1>5. r \in Readers /\ bt[r] = "ended" /\ \A q \in Readers : q /= r => bt[q] = at[q]
  BY <1>1, <1>2
<1> HIDE DEF l, r
<1>6. a \in Seq(Readers) /\ Len(a) = p - 1 /\ \A n \in 1..p - 1 : a[n] = ws[n]
  <2>1. /\ 1 \in 1..(p - 1) + 1 /\ p - 1 \in Int
        /\ \A n \in 1..p - 1 : ws[n] \in Readers
    BY <1>1, <1>2
  <2>2. /\ a \in Seq(Readers) /\ Len(a) = IF 1 <= p - 1 THEN (p - 1) - 1 + 1 ELSE 0
        /\ \A n \in 1..(p - 1) - 1 + 1 : a[n] = ws[1 + n - 1]
    BY <2>1, SubSeqProperties
  <2> HIDE DEF a
  <2>3. Len(a) = p - 1 /\ (p - 1) - 1 + 1 = p - 1
    BY <1>1, <2>2
  <2>4. ASSUME NEW n \in 1..p - 1 PROVE a[n] = ws[n]
    <3>1. 1 + n - 1 = n
      OBVIOUS
    <3> QED
      BY <2>2, <2>3, <3>1
  <2> QED
    BY <2>2, <2>3, <2>4
<1>7. b \in Seq(Readers) /\ Len(b) = l - p /\ \A n \in 1..l - p : b[n] = ws[p + n]
  <2>1. /\ p + 1 \in 1..l + 1 /\ p + 1 \in Nat
        /\ \A n \in p + 1..l : ws[n] \in Readers
    BY <1>1, <1>2
  <2>2. /\ b \in Seq(Readers) /\ Len(b) = IF p + 1 <= l THEN l - (p + 1) + 1 ELSE 0
        /\ \A n \in 1..l - (p + 1) + 1 : b[n] = ws[p + 1 + n - 1]
    BY <1>1, <2>1, SubSeqProperties DEF l
  <2> HIDE DEF b
  <2>3. Len(b) = l - p /\ l - (p + 1) + 1 = l - p
    BY <1>1, <2>2
  <2>4. ASSUME NEW n \in 1..l - p PROVE b[n] = ws[p + n]
    <3>1. p + 1 + n - 1 = p + n
      BY <1>1
    <3> QED
      BY <2>2, <2>3, <3>1
  <2> QED
    BY <2>2, <2>3, <2>4
<1> HIDE DEF a, b
<1>8. /\ vs \in Seq(Readers) /\ Len(vs) = Len(a) + Len(b)
      /\ \A n \in 1..Len(a) + Len(b) : vs[n] = IF n <= Len(a) THEN a[n] ELSE b[n - Len(a)]
  <2>1. a \in Seq(Readers) /\ b \in Seq(Readers)
    BY <1>6, <1>7
  <2> QED
    BY <1>3, <2>1, ConcatProperties
<1>9. Len(vs) = l - 1
  BY <1>1, <1>6, <1>7, <1>8
<1>10. \A n \in 1..l - 1 : n < p => vs[n] = ws[n]
  <2> SUFFICES ASSUME NEW n \in 1..l - 1, n < p PROVE vs[n] = ws[n]
    OBVIOUS
  <2>1. n \in 1..p - 1 /\ n <= Len(a) /\ n \in 1..Len(a) + Len(b)
    BY <1>1, <1>6, <1>7
  <2> QED
    BY <1>6, <1>8, <2>1
<1>11. \A n \in 1..l - 1 : ~(n < p) => vs[n] = ws[n + 1]
  <2> SUFFICES ASSUME NEW n \in 1..l - 1, ~(n < p) PROVE vs[n] = ws[n + 1]
    OBVIOUS
  <2>1. ~(n <= Len(a)) /\ n \in 1..Len(a) + Len(b) /\ n - Len(a) \in 1..l - p /\ p + (n - Len(a)) = n + 1
    BY <1>1, <1>6, <1>7
  <2> QED
    BY <1>7, <1>8, <2>1
<1>12. ASSUME NEW m \in 1..l - 1, NEW n \in 1..l - 1, vs[m] = vs[n] PROVE m = n
  <2>1. /\ m \in 1..l /\ n \in 1..l /\ m + 1 \in 1..l /\ n + 1 \in 1..l
        /\ m \in Nat /\ n \in Nat
    BY <1>1
  <2> DEFINE x == IF m < p THEN m ELSE m + 1
             y == IF n < p THEN n ELSE n + 1
  <2>2. vs[m] = ws[x] /\ vs[n] = ws[y] /\ x \in 1..l /\ y \in 1..l
    BY <1>10, <1>11, <2>1
  <2> HIDE DEF x, y
  <2>3. x = y
    <3>1. ws[x] = ws[y]
      BY <1>12, <2>2
    <3>2. x \in 1..l /\ y \in 1..l
      BY <2>2
    <3> HIDE <2>2
    <3> QED
      BY <1>4, <3>1, <3>2
  <2> USE DEF x, y
  <2> QED
    BY <1>1, <2>1, <2>3
<1>13. ASSUME NEW q \in Readers PROVE bt[q] = "waiting" <=> \E n \in 1..l - 1 : vs[n] = q
  <2>1. ASSUME NEW n \in 1..l - 1 PROVE vs[n] /= r /\ \E m \in 1..l : ws[m] = vs[n]
    <3> DEFINE x == IF n < p THEN n ELSE n + 1
    <3>1. vs[n] = ws[x] /\ x \in 1..l /\ x /= p
      <4>1. n \in 1..l /\ n + 1 \in 1..l
        BY <1>1
      <4> QED
        BY <1>1, <1>10, <1>11, <4>1
    <3> QED
      BY <1>1, <1>4, <3>1 DEF r
  <2>2. ASSUME NEW m \in 1..l, ws[m] = q, q /= r PROVE \E n \in 1..l - 1 : vs[n] = q
    <3>1. m /= p
      BY <2>2 DEF r
    <3>2. CASE m < p
      <4>1. m \in 1..l - 1
        BY <1>1, <3>2
      <4> QED
        BY <1>10, <2>2, <3>2, <4>1
    <3>3. CASE m > p
      <4>1. m - 1 \in 1..l - 1 /\ ~(m - 1 < p) /\ (m - 1) + 1 = m
        BY <1>1, <3>3
      <4>2. vs[m - 1] = q
        BY <1>11, <2>2, <4>1
      <4> QED
        BY <4>1, <4>2
    <3> QED
      BY <1>1, <3>1, <3>2, <3>3
  <2>3. CASE q = r
    BY <1>5, <2>1, <2>3
  <2>4. CASE q /= r
    BY <1>4, <1>5, <2>1, <2>2, <2>4
  <2> QED
    BY <2>3, <2>4
<1> QED
  BY <1>8, <1>9, <1>12, <1>13 DEF Waiting

-----------------------------------------------------------------------------
(* BackendReaders: the steps that move no buffer. *)

\* The line of datagrams on their way to handle_backend_datagram.
LEMMA LineFacts ==
  ASSUME Types
  PROVE  /\ Backend!Line \in Seq(Entry) /\ Len(Backend!Line) = Len(handled) + Len(received)
         /\ Len(Backend!Line) \in Nat
         /\ \A n \in 1..Len(Backend!Line) : Backend!Line[n] \in Entry
<1>1. handled \in Seq(Entry) /\ received \in Seq(Entry)
  BY ReaderTypes
<1>2. handled \o received \in Seq(Entry) /\ Len(handled \o received) = Len(handled) + Len(received)
  BY <1>1, ConcatProperties
<1>3. Backend!Line \in Seq(Entry) /\ Len(Backend!Line) = Len(handled) + Len(received)
  BY <1>2 DEF Backend!Line
<1> QED
  BY <1>3, LenProperties, ElementOfSeq

\* The parts of the invariant.
LEMMA ReadersFacts ==
  ASSUME ReadersInv
  PROVE  /\ Types /\ Places /\ Len(cache) <= MaxCached /\ Waiting(pc, waiters) /\ Carried
         /\ Distinct /\ Delivered
BY DEF ReadersInv

\* Free places are not more than there are.
LEMMA PermitsType ==
  ASSUME NEW p \in Nat, NEW h \in Nat, NEW l \in Nat, p + h + l = Capacity
  PROVE  p \in 0..Capacity
<1>1. Capacity \in Nat
  BY ReaderAssumption
<1> QED
  BY <1>1

\* No buffer changes hands and none is written.
LEMMA DataStays ==
  ASSUME ReadersInv, Backend!Line' = Backend!Line, UNCHANGED <<cache, bytes, packets, seen, taken>>,
         \A q \in Readers : (pc'[q] \in Carrying <=> pc[q] \in Carrying) /\ (pc'[q] = "send" <=> pc[q] = "send")
  PROVE  Carried' /\ Distinct' /\ Delivered' /\ Len(cache') <= MaxCached
<1>1. Carried'
  BY ReadersFacts DEF Carried
<1>2. \A r, n, b : /\ Own(r, b)' <=> Own(r, b)
                   /\ Queued(n, b)' <=> Queued(n, b)
                   /\ Cached(n, b)' <=> Cached(n, b)
  BY DEF Own, Queued, Cached
<1>3. Distinct'
  BY <1>2, ReadersFacts, ZenonT(30) DEF Distinct
<1>4. \A r \in Readers : Backend!Forwarded(r)' = Backend!Forwarded(r)
  BY DEF Backend!Forwarded
<1>5. Whole(bytes, Backend!Line)'
  BY <1>4, ReadersFacts DEF Delivered, Whole
<1>6. Delivered'
  BY <1>5, ReadersFacts DEF Delivered
<1> QED
  BY <1>1, <1>3, <1>6, ReadersFacts

\* A step of the tasks, the semaphore or the sockets.
LEMMA ControlStep ==
  ASSUME ReadersInv, pc' \in [Readers -> States], Waiting(pc', waiters'), permits' \in Nat,
         permits' + Cardinality(Hold(pc')) + Len(received') = Capacity,
         received' \in Seq(Entry), handled' \in Seq(Entry), Len(handled') <= 1,
         Backend!Line' = Backend!Line, UNCHANGED <<cache, bytes, packets, seen, taken>>,
         \A q \in Readers : (pc'[q] \in Carrying <=> pc[q] \in Carrying) /\ (pc'[q] = "send" <=> pc[q] = "send"),
         sent' \in [Readers -> 0..MaxSent], ready' \in [Readers -> BOOLEAN], errors' \subseteq Readers,
         aborted' \subseteq Readers
  PROVE  ReadersInv'
<1>1. Carried' /\ Distinct' /\ Delivered' /\ Len(cache') <= MaxCached
  BY DataStays
<1>2. permits' \in 0..Capacity
  <2>1. Cardinality(Hold(pc')) \in Nat /\ Len(received') \in Nat
    BY HoldType, LenProperties
  <2> QED
    BY <2>1, PermitsType
<1>3. waiters' \in Seq(Readers)
  BY DEF Waiting
<1>4. /\ cache' \in Seq(Backend!Buffers) /\ packets' \in [Readers -> Backend!Packets]
      /\ taken' \in [Readers -> 0..MaxSent] /\ bytes' \in [Backend!Buffers -> [1..2 -> Content]]
      /\ seen' \in [Readers -> Seq(Seq(Content))]
  BY ReadersFacts, ReaderTypes
<1>5. Types'
  BY <1>2, <1>3, <1>4, TypesStay
<1> QED
  BY <1>1, <1>5 DEF ReadersInv, Places

\* Something happens on a socket.
LEMMA SocketStep ==
  ASSUME ReadersInv, NEW r \in Readers, Backend!Arrive(r) \/ Backend!Refused(r)
  PROVE  ReadersInv'
<1>1. UNCHANGED <<pc, taken, permits, waiters, received, aborted, cache, bytes, packets, handled, seen>>
  BY DEF Backend!Arrive, Backend!Refused, Backend!queue, Backend!pool
<1>2. sent' \in [Readers -> 0..MaxSent] /\ ready' \in [Readers -> BOOLEAN] /\ errors' \subseteq Readers
  <2>1. sent \in [Readers -> 0..MaxSent] /\ ready \in [Readers -> BOOLEAN] /\ errors \subseteq Readers
    BY ReadersFacts, ReaderTypes
  <2>2. CASE Backend!Arrive(r)
    <3>1. sent[r] + 1 \in 0..MaxSent
      BY <2>1, <2>2, ReaderAssumption DEF Backend!Arrive
    <3> QED
      BY <2>1, <2>2, <3>1 DEF Backend!Arrive
  <2>3. CASE Backend!Refused(r)
    BY <2>1, <2>3 DEF Backend!Refused
  <2> QED
    BY <2>2, <2>3
<1>3. Backend!Line' = Backend!Line
  BY <1>1 DEF Backend!Line
<1>4. /\ pc \in [Readers -> States] /\ Waiting(pc, waiters) /\ permits \in Nat
      /\ permits + Cardinality(Hold(pc)) + Len(received) = Capacity
      /\ received \in Seq(Entry) /\ handled \in Seq(Entry) /\ Len(handled) <= 1 /\ aborted \subseteq Readers
  BY ReadersFacts, ReaderTypes DEF Places
<1> QED
  BY <1>1, <1>2, <1>3, <1>4, ControlStep

\* Which states are which.
LEMMA StateFacts ==
  /\ {"readable", "waiting", "granted", "acquire", "recv", "send", "blocked", "failed", "unwind",
      "unwindFailed", "ended"} \subseteq States
  /\ {"granted", "acquire", "recv", "send", "blocked", "failed", "unwind", "unwindFailed"} \subseteq Holding
  /\ {"readable", "waiting", "ended"} \cap Holding = {}
  /\ {"readable", "waiting", "granted", "acquire", "unwind", "unwindFailed", "ended"} \cap Carrying = {}
  /\ {"recv", "send", "blocked", "failed"} \subseteq Carrying
BY DEF States, Holding, Carrying, Backend!Awaiting, Backend!Running

\* A task goes from one state to another, without a change of places.
LEMMA MoveStep ==
  ASSUME ReadersInv, NEW r \in Readers, NEW w \in States, pc' = [pc EXCEPT ![r] = w],
         w /= "waiting", pc[r] /= "waiting", pc[r] \in Holding <=> w \in Holding,
         pc[r] \in Carrying <=> w \in Carrying, pc[r] = "send" <=> w = "send",
         UNCHANGED <<permits, waiters, received, handled, cache, bytes, packets, seen, taken, sent, errors>>,
         ready' \in [Readers -> BOOLEAN], aborted' \subseteq Readers
  PROVE  ReadersInv'
<1>1. pc \in [Readers -> States]
  BY ReadersFacts, ReaderTypes
<1>2. /\ pc' \in [Readers -> States] /\ pc'[r] = w /\ \A q \in Readers : q /= r => pc'[q] = pc[q]
      /\ Cardinality(Hold(pc')) = Cardinality(Hold(pc))
  <2>1. pc' \in [Readers -> States] /\ pc'[r] = w /\ \A q \in Readers : q /= r => pc'[q] = pc[q]
    BY <1>1
  <2>2. \A q \in Readers : pc[q] \in Holding <=> pc'[q] \in Holding
    BY <2>1
  <2>3. Cardinality(Hold(pc')) = Cardinality(Hold(pc))
    BY <1>1, <2>1, <2>2, HoldSame
  <2> QED
    BY <2>1, <2>3
<1>3. Waiting(pc', waiters)
  BY <1>2, ReadersFacts DEF Waiting
<1>4. Backend!Line' = Backend!Line
  BY DEF Backend!Line
<1>5. \A q \in Readers : (pc'[q] \in Carrying <=> pc[q] \in Carrying) /\ (pc'[q] = "send" <=> pc[q] = "send")
  BY <1>2
<1>6. /\ permits \in Nat /\ permits + Cardinality(Hold(pc)) + Len(received) = Capacity
      /\ received \in Seq(Entry) /\ handled \in Seq(Entry) /\ Len(handled) <= 1
      /\ sent \in [Readers -> 0..MaxSent] /\ errors \subseteq Readers
  BY ReadersFacts, ReaderTypes DEF Places
<1> QED
  BY <1>2, <1>3, <1>4, <1>5, <1>6, ControlStep

\* The task that was given a place goes on.
LEMMA ResumeStep ==
  ASSUME ReadersInv, NEW r \in Readers, Backend!Resume(r) PROVE ReadersInv'
<1>1. /\ pc[r] = "granted" /\ pc' = [pc EXCEPT ![r] = "acquire"]
      /\ UNCHANGED <<permits, waiters, received, handled, cache, bytes, packets, seen, taken, sent,
                     errors, ready, aborted>>
  BY DEF Backend!Resume, Backend!At, Backend!sockets, Backend!queue, Backend!pool
<1>2. ready \in [Readers -> BOOLEAN] /\ aborted \subseteq Readers
  BY ReadersFacts, ReaderTypes
<1>3. /\ "acquire" \in States /\ "acquire" \in Holding /\ "granted" \in Holding
      /\ "acquire" \notin Carrying /\ "granted" \notin Carrying
  BY StateFacts
<1> QED
  BY <1>1, <1>2, <1>3, MoveStep

\* try_recv finds nothing, or an error.
LEMMA WouldBlockStep ==
  ASSUME ReadersInv, NEW r \in Readers, Backend!WouldBlock(r) \/ Backend!RecvFails(r) PROVE ReadersInv'
<1>1. PICK w \in {"blocked", "failed"} :
        /\ pc[r] = "recv" /\ pc' = [pc EXCEPT ![r] = w]
        /\ UNCHANGED <<permits, waiters, received, handled, cache, bytes, packets, seen, taken, sent,
                       errors, aborted>>
  BY DEF Backend!WouldBlock, Backend!RecvFails, Backend!AfterBlock, Backend!At, Backend!sockets,
         Backend!queue, Backend!pool
<1>2. ready \in [Readers -> BOOLEAN] /\ aborted \subseteq Readers
  BY ReadersFacts, ReaderTypes
<1>3. ready' \in [Readers -> BOOLEAN]
  BY <1>2 DEF Backend!WouldBlock, Backend!RecvFails, Backend!sockets
<1>4. /\ w \in States /\ w \in Holding /\ "recv" \in Holding
      /\ w \in Carrying /\ "recv" \in Carrying /\ w /= "waiting" /\ w /= "send"
  BY StateFacts
<1> QED
  BY <1>1, <1>2, <1>3, <1>4, MoveStep

\* reserve(): a place, or the end of the line of waiters.
LEMMA ReserveStep ==
  ASSUME ReadersInv, NEW r \in Readers, Backend!Reserve(r) PROVE ReadersInv'
<1>1. /\ pc[r] = "readable"
      /\ UNCHANGED <<received, handled, cache, bytes, packets, seen, taken, sent, errors, ready, aborted>>
  BY DEF Backend!Reserve, Backend!sockets, Backend!pool
<1>2. /\ pc \in [Readers -> States] /\ Waiting(pc, waiters) /\ permits \in Nat
      /\ permits + Cardinality(Hold(pc)) + Len(received) = Capacity /\ Len(received) \in Nat
      /\ received \in Seq(Entry) /\ handled \in Seq(Entry) /\ Len(handled) <= 1
      /\ sent \in [Readers -> 0..MaxSent] /\ errors \subseteq Readers
      /\ ready \in [Readers -> BOOLEAN] /\ aborted \subseteq Readers
  BY ReadersFacts, ReaderTypes DEF Places
<1>3. Backend!Line' = Backend!Line
  BY <1>1 DEF Backend!Line
<1>4. Capacity \in Nat
  BY ReaderAssumption
<1>5. CASE permits > 0
  <2>1. permits' = permits - 1 /\ pc' = [pc EXCEPT ![r] = "acquire"] /\ waiters' = waiters
    BY <1>5 DEF Backend!Reserve, Backend!At
  <2>2. /\ "acquire" \in States /\ "acquire" \in Holding /\ "readable" \notin Holding
        /\ "acquire" \notin Carrying /\ "readable" \notin Carrying
    BY StateFacts
  <2>3. /\ pc' \in [Readers -> States] /\ pc'[r] = "acquire" /\ \A q \in Readers : q /= r => pc'[q] = pc[q]
        /\ Cardinality(Hold(pc')) = Cardinality(Hold(pc)) + 1 /\ Cardinality(Hold(pc)) \in Nat
    <3>1. pc' \in [Readers -> States] /\ pc'[r] = "acquire" /\ \A q \in Readers : q /= r => pc'[q] = pc[q]
      BY <1>2, <2>1, <2>2
    <3>2. pc[r] \notin Holding /\ pc'[r] \in Holding
      BY <1>1, <2>2, <3>1
    <3>3. Cardinality(Hold(pc')) = Cardinality(Hold(pc)) + 1
      BY <1>2, <3>1, <3>2, HoldMore
    <3> QED
      BY <3>1, <3>3, HoldType
  <2>4. permits' \in Nat /\ permits' + Cardinality(Hold(pc')) + Len(received) = Capacity
    <3> DEFINE h == Cardinality(Hold(pc))
               i == Cardinality(Hold(pc'))
               l == Len(received)
    <3>1. /\ h \in Nat /\ l \in Nat /\ permits \in Nat /\ permits > 0
          /\ permits + h + l = Capacity /\ i = h + 1 /\ permits' = permits - 1
      BY <1>2, <1>5, <2>1, <2>3
    <3> HIDE DEF h, i, l
    <3>2. permits' \in Nat /\ permits' + i + l = Capacity
      BY <3>1
    <3> QED
      BY <3>2 DEF i, l
  <2>5. Waiting(pc', waiters)
    BY <1>1, <1>2, <2>3 DEF Waiting
  <2>6. \A q \in Readers : (pc'[q] \in Carrying <=> pc[q] \in Carrying) /\ (pc'[q] = "send" <=> pc[q] = "send")
    BY <1>1, <2>2, <2>3
  <2> QED
    BY <1>1, <1>2, <1>3, <2>1, <2>3, <2>4, <2>5, <2>6, ControlStep
<1>6. CASE ~(permits > 0)
  <2>1. permits' = permits /\ pc' = [pc EXCEPT ![r] = "waiting"] /\ waiters' = Append(waiters, r)
    BY <1>6 DEF Backend!Reserve, Backend!At
  <2>2. /\ "waiting" \in States /\ "waiting" \notin Holding /\ "readable" \notin Holding
        /\ "waiting" \notin Carrying /\ "readable" \notin Carrying
    BY StateFacts
  <2>3. /\ pc' \in [Readers -> States] /\ pc'[r] = "waiting" /\ \A q \in Readers : q /= r => pc'[q] = pc[q]
        /\ Cardinality(Hold(pc')) = Cardinality(Hold(pc))
    <3>1. pc' \in [Readers -> States] /\ pc'[r] = "waiting" /\ \A q \in Readers : q /= r => pc'[q] = pc[q]
      BY <1>2, <2>1, <2>2
    <3>2. \A q \in Readers : pc[q] \in Holding <=> pc'[q] \in Holding
      BY <1>1, <2>2, <3>1
    <3>3. Cardinality(Hold(pc')) = Cardinality(Hold(pc))
      BY <1>2, <3>1, <3>2, HoldSame
    <3> QED
      BY <3>1, <3>3
  <2>4. Waiting(pc', waiters')
    <3> DEFINE l == Len(waiters)
    <3>1. /\ waiters \in Seq(Readers) /\ \A m, n \in 1..l : waiters[m] = waiters[n] => m = n
          /\ \A q \in Readers : pc[q] = "waiting" <=> \E n \in 1..l : waiters[n] = q
      BY <1>2 DEF Waiting
    <3>2. /\ waiters' \in Seq(Readers) /\ Len(waiters') = l + 1 /\ l \in Nat /\ waiters'[l + 1] = r
          /\ \A n \in 1..l : waiters'[n] = waiters[n]
      BY <2>1, <3>1, AppendProperties
    <3> HIDE DEF l
    <3>3. \A n \in 1..l + 1 : n = l + 1 \/ n \in 1..l
      BY <3>2
    <3>4. l + 1 \in 1..l + 1 /\ \A n \in 1..l : n \in 1..l + 1
      BY <3>2
    <3>5. \A n \in 1..l : waiters[n] /= r
      BY <1>1, <3>1
    <3>6. \A m, n \in 1..l + 1 : waiters'[m] = waiters'[n] => m = n
      BY <3>1, <3>2, <3>3, <3>5
    <3>7. ASSUME NEW q \in Readers PROVE pc'[q] = "waiting" <=> \E n \in 1..l + 1 : waiters'[n] = q
      BY <2>3, <3>1, <3>2, <3>3, <3>4
    <3> QED
      BY <3>2, <3>6, <3>7 DEF Waiting
  <2>5. \A q \in Readers : (pc'[q] \in Carrying <=> pc[q] \in Carrying) /\ (pc'[q] = "send" <=> pc[q] = "send")
    BY <1>1, <2>2, <2>3
  <2> QED
    BY <1>1, <1>2, <1>3, <2>1, <2>3, <2>4, <2>5, ControlStep
<1> QED
  BY <1>5, <1>6

\* Where a round ends.
LEMMA AgainState ==
  \A r : Backend!Again(r) \in {"readable", "ended"}
BY DEF Backend!Again

\* A place is given back, and the task goes to w.
LEMMA GiveBack ==
  ASSUME ReadersInv, NEW r \in Readers, NEW w \in {"readable", "ended"},
         pc[r] \in {"granted", "unwind", "unwindFailed"},
         Backend!GivePermit([pc EXCEPT ![r] = w], waiters),
         UNCHANGED <<received, handled, cache, bytes, packets, seen, taken, sent, errors, ready>>,
         aborted' \subseteq Readers
  PROVE  ReadersInv'
<1> DEFINE at == [pc EXCEPT ![r] = w]
<1>1. /\ pc \in [Readers -> States] /\ Waiting(pc, waiters) /\ permits \in Nat
      /\ permits + Cardinality(Hold(pc)) + Len(received) = Capacity /\ Len(received) \in Nat
      /\ received \in Seq(Entry) /\ handled \in Seq(Entry) /\ Len(handled) <= 1
      /\ sent \in [Readers -> 0..MaxSent] /\ errors \subseteq Readers
      /\ ready \in [Readers -> BOOLEAN]
  BY ReadersFacts, ReaderTypes DEF Places
<1>2. Backend!Line' = Backend!Line
  BY DEF Backend!Line
<1>3. /\ w \in States /\ w \notin Holding /\ pc[r] \in Holding /\ w /= "waiting" /\ pc[r] /= "waiting"
      /\ w \notin Carrying /\ pc[r] \notin Carrying /\ w /= "send" /\ pc[r] /= "send"
  BY StateFacts
<1>4. at = [pc EXCEPT ![r] = w] /\ Backend!GivePermit(at, waiters)
  OBVIOUS
<1> HIDE DEF at
<1>5. /\ at \in [Readers -> States] /\ at[r] = w /\ \A q \in Readers : q /= r => at[q] = pc[q]
      /\ Cardinality(Hold(at)) = Cardinality(Hold(pc)) - 1
      /\ Cardinality(Hold(pc)) \in Nat /\ Cardinality(Hold(at)) \in Nat
  <2>1. at \in [Readers -> States] /\ at[r] = w /\ \A q \in Readers : q /= r => at[q] = pc[q]
    BY <1>1, <1>3, <1>4
  <2>2. Cardinality(Hold(at)) = Cardinality(Hold(pc)) - 1
    BY <1>1, <1>3, <2>1, HoldLess
  <2> QED
    BY <2>1, <2>2, HoldType
<1>6. Waiting(at, waiters)
  BY <1>1, <1>3, <1>5 DEF Waiting
<1>7. /\ pc' \in [Readers -> States] /\ Waiting(pc', waiters') /\ permits' \in Nat
      /\ permits' + Cardinality(Hold(pc')) = permits + Cardinality(Hold(at)) + 1
      /\ Cardinality(Hold(pc')) \in Nat
      /\ \A q \in Readers : pc'[q] = at[q] \/ (at[q] = "waiting" /\ pc'[q] = "granted")
  BY <1>1, <1>4, <1>5, <1>6, GiveOne
<1>8. permits' + Cardinality(Hold(pc')) + Len(received') = Capacity
  BY <1>1, <1>5, <1>7
<1>9. \A q \in Readers : (pc'[q] \in Carrying <=> pc[q] \in Carrying) /\ (pc'[q] = "send" <=> pc[q] = "send")
  <2> SUFFICES ASSUME NEW q \in Readers
               PROVE  (pc'[q] \in Carrying <=> pc[q] \in Carrying) /\ (pc'[q] = "send" <=> pc[q] = "send")
    OBVIOUS
  <2>1. "waiting" \notin Carrying /\ "granted" \notin Carrying
    BY StateFacts
  <2> QED
    BY <1>3, <1>5, <1>7, <2>1
<1> QED
  BY <1>1, <1>2, <1>7, <1>8, <1>9, ControlStep

\* The permit is dropped at the end of a round.
LEMMA DropPermitStep ==
  ASSUME ReadersInv, NEW r \in Readers, Backend!DropPermit(r) PROVE ReadersInv'
<1>1. PICK w \in {"readable", "ended"} : Backend!GivePermit([pc EXCEPT ![r] = w], waiters)
  <2> DEFINE v == IF pc[r] = "unwind" THEN Backend!Again(r) ELSE "ended"
  <2>1. v \in {"readable", "ended"}
    BY AgainState
  <2>2. Backend!GivePermit([pc EXCEPT ![r] = v], waiters)
    BY DEF Backend!DropPermit, Backend!At
  <2> QED
    BY <2>1, <2>2
<1>2. /\ pc[r] \in {"unwind", "unwindFailed"}
      /\ UNCHANGED <<received, handled, cache, bytes, packets, seen, taken, sent, errors, ready, aborted>>
  BY DEF Backend!DropPermit, Backend!sockets, Backend!pool
<1>3. aborted \subseteq Readers
  BY ReadersFacts, ReaderTypes
<1> QED
  BY <1>1, <1>2, <1>3, GiveBack

\* An abort: in the line of waiters, with a place in hand, or elsewhere.
LEMMA AbortStep ==
  ASSUME ReadersInv, NEW r \in Readers, Backend!Abort(r) PROVE ReadersInv'
<1>1. UNCHANGED <<received, handled, cache, bytes, packets, seen, taken, sent, errors, ready>>
  BY DEF Backend!Abort, Backend!sockets, Backend!pool
<1>2. /\ pc \in [Readers -> States] /\ Waiting(pc, waiters) /\ permits \in Nat
      /\ permits + Cardinality(Hold(pc)) + Len(received) = Capacity
      /\ received \in Seq(Entry) /\ handled \in Seq(Entry) /\ Len(handled) <= 1
      /\ sent \in [Readers -> 0..MaxSent] /\ errors \subseteq Readers
      /\ ready \in [Readers -> BOOLEAN] /\ aborted \subseteq Readers
  BY ReadersFacts, ReaderTypes DEF Places
<1>3. aborted' \subseteq Readers
  BY <1>2 DEF Backend!Abort
<1>4. CASE pc[r] = "granted"
  <2>1. Backend!GivePermit([pc EXCEPT ![r] = "ended"], waiters)
    BY <1>4 DEF Backend!Abort, Backend!At
  <2> QED
    BY <1>1, <1>3, <1>4, <2>1, GiveBack
<1>5. CASE pc[r] = "waiting"
  <2>1. PICK n \in DOMAIN waiters : waiters[n] = r /\ waiters' = Backend!RemoveAt(waiters, n)
    BY <1>5 DEF Backend!Abort
  <2>2. pc' = [pc EXCEPT ![r] = "ended"] /\ permits' = permits
    BY <1>5 DEF Backend!Abort, Backend!At
  <2>3. Waiting(pc', waiters')
    BY <1>2, <2>1, <2>2, LeaveOne
  <2>4. /\ "ended" \in States /\ "ended" \notin Holding /\ "waiting" \notin Holding
        /\ "ended" \notin Carrying /\ "waiting" \notin Carrying
    BY StateFacts
  <2>5. /\ pc' \in [Readers -> States] /\ pc'[r] = "ended" /\ \A q \in Readers : q /= r => pc'[q] = pc[q]
        /\ Cardinality(Hold(pc')) = Cardinality(Hold(pc))
    <3>1. pc' \in [Readers -> States] /\ pc'[r] = "ended" /\ \A q \in Readers : q /= r => pc'[q] = pc[q]
      BY <1>2, <2>2, <2>4
    <3>2. \A q \in Readers : pc[q] \in Holding <=> pc'[q] \in Holding
      BY <1>5, <2>4, <3>1
    <3>3. Cardinality(Hold(pc')) = Cardinality(Hold(pc))
      BY <1>2, <3>1, <3>2, HoldSame
    <3> QED
      BY <3>1, <3>3
  <2>6. Backend!Line' = Backend!Line
    BY <1>1 DEF Backend!Line
  <2>7. \A q \in Readers : (pc'[q] \in Carrying <=> pc[q] \in Carrying) /\ (pc'[q] = "send" <=> pc[q] = "send")
    BY <1>5, <2>4, <2>5
  <2> QED
    BY <1>1, <1>2, <1>3, <2>2, <2>3, <2>5, <2>6, <2>7, ControlStep
<1>6. CASE pc[r] \notin {"granted", "waiting"}
  <2> DEFINE w == IF pc[r] \in Backend!Awaiting THEN "ended" ELSE pc[r]
  <2>1. pc' = [pc EXCEPT ![r] = w] /\ UNCHANGED <<permits, waiters>>
    BY <1>6 DEF Backend!Abort, Backend!At
  <2>2. pc[r] \in States
    BY <1>2
  <2>3. pc[r] \in Backend!Awaiting => pc[r] = "readable"
    BY <1>6 DEF Backend!Awaiting
  <2>4. /\ "ended" \in States /\ "ended" \notin Holding /\ "readable" \notin Holding
        /\ "ended" \notin Carrying /\ "readable" \notin Carrying
    BY StateFacts
  <2>5. /\ w \in States /\ w /= "waiting" /\ (pc[r] \in Holding <=> w \in Holding)
        /\ (pc[r] \in Carrying <=> w \in Carrying) /\ (pc[r] = "send" <=> w = "send")
    BY <1>6, <2>2, <2>3, <2>4
  <2> HIDE DEF w
  <2> QED
    BY <1>1, <1>2, <1>3, <1>6, <2>1, <2>5, MoveStep
<1> QED
  BY <1>4, <1>5, <1>6

\* backend_rx.recv(): the datagram is first in the line as before.
LEMMA BackendRecvStep ==
  ASSUME ReadersInv, Backend!Recv PROVE ReadersInv'
<1>1. /\ handled = <<>> /\ received /= <<>> /\ handled' = <<Head(received)>> /\ received' = Tail(received)
      /\ Backend!GivePermit(pc, waiters)
      /\ UNCHANGED <<cache, bytes, packets, seen, taken, sent, errors, ready, aborted>>
  BY DEF Backend!Recv, Backend!sockets, Backend!pool
<1>2. /\ pc \in [Readers -> States] /\ Waiting(pc, waiters) /\ permits \in Nat
      /\ permits + Cardinality(Hold(pc)) + Len(received) = Capacity /\ Len(received) \in Nat
      /\ received \in Seq(Entry)
      /\ sent \in [Readers -> 0..MaxSent] /\ errors \subseteq Readers
      /\ ready \in [Readers -> BOOLEAN] /\ aborted \subseteq Readers
  BY ReadersFacts, ReaderTypes DEF Places
<1>3. /\ received' \in Seq(Entry) /\ Len(received') = Len(received) - 1 /\ Head(received) \in Entry
      /\ Head(received) = received[1] /\ \A n \in 1..Len(received') : received'[n] = received[n + 1]
  BY <1>1, <1>2, HeadTailProperties
<1>4. handled' \in Seq(Entry) /\ Len(handled') = 1
  BY <1>1, <1>3
<1>5. /\ pc' \in [Readers -> States] /\ Waiting(pc', waiters') /\ permits' \in Nat
      /\ permits' + Cardinality(Hold(pc')) = permits + Cardinality(Hold(pc)) + 1
      /\ Cardinality(Hold(pc')) \in Nat
      /\ \A q \in Readers : pc'[q] = pc[q] \/ (pc[q] = "waiting" /\ pc'[q] = "granted")
  BY <1>1, <1>2, GiveOne
<1>6. permits' + Cardinality(Hold(pc')) + Len(received') = Capacity
  <2>1. Cardinality(Hold(pc)) \in Nat
    BY HoldType
  <2> QED
    BY <1>2, <1>3, <1>5, <2>1
<1>7. Backend!Line' = Backend!Line
  <2>1. Backend!Line = received
    BY <1>1, <1>2 DEF Backend!Line
  <2>2. Backend!Line' = <<Head(received)>> \o Tail(received)
    BY <1>1 DEF Backend!Line
  <2>3. received = <<Head(received)>> \o Tail(received)
    BY <1>1, <1>2
  <2> QED
    BY <2>1, <2>2, <2>3
<1>8. \A q \in Readers : (pc'[q] \in Carrying <=> pc[q] \in Carrying) /\ (pc'[q] = "send" <=> pc[q] = "send")
  <2>1. "waiting" \notin Carrying /\ "granted" \notin Carrying
    BY StateFacts
  <2> QED
    BY <1>5, <2>1
<1>9. Len(handled') <= 1
  BY <1>4
<1> QED
  BY <1>1, <1>2, <1>3, <1>4, <1>5, <1>6, <1>7, <1>8, <1>9, ControlStep

-----------------------------------------------------------------------------
(* BackendReaders: the buffers in use. *)

\* The line and the Packets in the channel and in mainloop's hands are the same.
LEMMA LineAll ==
  ASSUME Types
  PROVE  /\ \A d \in Backend!ToSet(received \o handled) : \E n \in 1..Len(Backend!Line) : Backend!Line[n] = d
         /\ \A n \in 1..Len(Backend!Line) : Backend!Line[n] \in Backend!ToSet(received \o handled)
<1> DEFINE h == Len(handled)
           c == Len(received)
           L == Backend!Line
           R == received \o handled
<1>1. h \in Nat /\ c \in Nat /\ handled \in Seq(Entry) /\ received \in Seq(Entry)
  BY ReaderTypes
<1>2. /\ R \in Seq(Entry) /\ Len(R) = c + h
      /\ \A n \in 1..c + h : R[n] = IF n <= c THEN received[n] ELSE handled[n - c]
  BY <1>1, ConcatProperties
<1>3. /\ Len(handled \o received) = h + c
      /\ \A n \in 1..h + c : (handled \o received)[n] = IF n <= h THEN handled[n] ELSE received[n - h]
  BY <1>1, ConcatProperties
<1>4. Len(L) = h + c /\ \A n \in 1..h + c : L[n] = IF n <= h THEN handled[n] ELSE received[n - h]
  BY <1>3 DEF Backend!Line
<1>5. Backend!ToSet(R) = {R[n] : n \in 1..c + h}
  BY <1>2 DEF Backend!ToSet
<1> HIDE DEF h, c, L, R
<1>6. ASSUME NEW n \in 1..c + h PROVE \E m \in 1..h + c : L[m] = R[n]
  <2>1. CASE n <= c
    <3>1. n + h \in 1..h + c /\ ~(n + h <= h) /\ (n + h) - h = n
      BY <1>1, <2>1
    <3>2. L[n + h] = R[n]
      BY <1>2, <1>4, <2>1, <3>1
    <3> QED
      BY <3>1, <3>2
  <2>2. CASE ~(n <= c)
    <3>1. n - c \in 1..h + c /\ n - c <= h
      BY <1>1, <2>2
    <3>2. L[n - c] = R[n]
      BY <1>2, <1>4, <2>2, <3>1
    <3> QED
      BY <3>1, <3>2
  <2> QED
    BY <2>1, <2>2
<1>7. ASSUME NEW n \in 1..h + c PROVE \E m \in 1..c + h : R[m] = L[n]
  <2>1. CASE n <= h
    <3>1. n + c \in 1..c + h /\ ~(n + c <= c) /\ (n + c) - c = n
      BY <1>1, <2>1
    <3>2. R[n + c] = L[n]
      BY <1>2, <1>4, <2>1, <3>1
    <3> QED
      BY <3>1, <3>2
  <2>2. CASE ~(n <= h)
    <3>1. n - h \in 1..c + h /\ n - h <= c
      BY <1>1, <2>2
    <3>2. R[n - h] = L[n]
      BY <1>2, <1>4, <2>2, <3>1
    <3> QED
      BY <3>1, <3>2
  <2> QED
    BY <2>1, <2>2
<1>8. \A d \in Backend!ToSet(R) : \E n \in 1..Len(L) : L[n] = d
  BY <1>4, <1>5, <1>6
<1>9. \A n \in 1..Len(L) : L[n] \in Backend!ToSet(R)
  BY <1>4, <1>5, <1>7
<1> QED
  BY <1>8, <1>9 DEF L, R

\* A Packet in use is that of a task which has a place, or of a datagram in the line.
LEMMA InUse ==
  ASSUME ReadersInv
  PROVE  /\ \A b \in Backend!CheckedOut \ {0} :
              (\E r \in Readers : Own(r, b)) \/ (\E n \in 1..Len(Backend!Line) : Queued(n, b))
         /\ \A b \in Backend!CheckedOut : b \in 0..MaxBuffers
<1>1. packets \in [Readers -> Backend!Packets]
  BY ReadersFacts, ReaderTypes
<1>2. \A r \in Readers : pc[r] \notin Carrying => packets[r].buffer = 0
  BY ReadersFacts DEF Carried, Backend!None
<1>4. \A d \in Backend!ToSet(received \o handled) : \E n \in 1..Len(Backend!Line) : Backend!Line[n] = d
  BY ReadersFacts, LineAll
<1>5. ASSUME NEW b \in Backend!CheckedOut
      PROVE  \/ \E r \in Readers : b = packets[r].buffer
             \/ \E n \in 1..Len(Backend!Line) : Backend!Line[n].packet.buffer = b
  BY <1>4 DEF Backend!CheckedOut
<1>6. \A r \in Readers : packets[r].buffer \in 0..MaxBuffers
  BY <1>1 DEF Backend!Packets
<1>7. \A n \in 1..Len(Backend!Line) : Backend!Line[n].packet.buffer \in 0..MaxBuffers
  <2>1. \A n \in 1..Len(Backend!Line) : Backend!Line[n].packet.buffer \in Backend!Buffers
    BY ReadersFacts DEF Carried
  <2> QED
    BY <2>1 DEF Backend!Buffers
<1>8. ASSUME NEW b \in Backend!CheckedOut \ {0}
      PROVE  (\E r \in Readers : Own(r, b)) \/ \E n \in 1..Len(Backend!Line) : Queued(n, b)
  BY <1>2, <1>5 DEF Own, Queued
<1> QED
  BY <1>5, <1>6, <1>7, <1>8

\* The Packets in use, against the places in the channel.
LEMMA InUseBound ==
  ASSUME ReadersInv
  PROVE  /\ IsFiniteSet(Backend!CheckedOut \ {0})
         /\ Cardinality(Backend!CheckedOut \ {0}) <= Capacity + 1
<1> DEFINE C == {r \in Readers : pc[r] \in Carrying}
           A == {packets[r].buffer : r \in C}
           l == Len(Backend!Line)
           B == {Backend!Line[n].packet.buffer : n \in 1..l}
           f == [r \in C |-> packets[r].buffer]
           g == [n \in 1..l |-> Backend!Line[n].packet.buffer]
           U == Backend!CheckedOut \ {0}
<1>1. IsFiniteSet(C) /\ Cardinality(C) <= Cardinality(Hold(pc))
  <2>1. C \in SUBSET Hold(pc)
    BY StateFacts DEF Carrying, Hold
  <2> QED
    BY <2>1, HoldType, FS_Subset
<1>2. f \in Surjection(C, A)
  BY DEF Surjection
<1>3. g \in Surjection(1..l, B)
  BY DEF Surjection
<1>4. l \in Nat /\ l = Len(handled) + Len(received) /\ Len(handled) \in Nat /\ Len(received) \in Nat /\ Len(handled) <= 1
  BY ReadersFacts, LineFacts, ReaderTypes
<1>5. U \in SUBSET (A \cup B)
  BY InUse DEF Own, Queued
<1> HIDE DEF A, B, C, f, g, U, l
<1>6. IsFiniteSet(A) /\ Cardinality(A) <= Cardinality(C)
  BY <1>1, <1>2, FS_Surjection
<1>7. IsFiniteSet(1..l) /\ Cardinality(1..l) = l
  <2>1. 1 \in Int /\ l \in Int
    BY <1>4
  <2>2. IsFiniteSet(1..l) /\ Cardinality(1..l) = IF 1 > l THEN 0 ELSE l - 1 + 1
    BY <2>1, FS_Interval
  <2> QED
    BY <1>4, <2>2
<1>8. IsFiniteSet(B) /\ Cardinality(B) <= l
  <2>1. IsFiniteSet(B) /\ Cardinality(B) <= Cardinality(1..l)
    BY <1>3, <1>7, FS_Surjection
  <2> QED
    BY <1>7, <2>1
<1>9. /\ IsFiniteSet(A \cup B) /\ IsFiniteSet(A \cap B)
      /\ Cardinality(A \cup B) = Cardinality(A) + Cardinality(B) - Cardinality(A \cap B)
  <2>1. IsFiniteSet(A \cap B)
    BY <1>6, FS_Intersection
  <2> QED
    BY <1>6, <1>8, <2>1, FS_Union
<1>10. IsFiniteSet(U) /\ Cardinality(U) <= Cardinality(A \cup B)
  BY <1>5, <1>9, FS_Subset
<1>11. /\ Cardinality(U) \in Nat /\ Cardinality(A) \in Nat /\ Cardinality(B) \in Nat /\ Cardinality(C) \in Nat
       /\ Cardinality(A \cap B) \in Nat /\ Cardinality(A \cup B) \in Nat /\ Cardinality(Hold(pc)) \in Nat
  BY <1>1, <1>6, <1>8, <1>9, <1>10, HoldType, FS_CardinalityType
<1>12. permits \in Nat /\ permits + Cardinality(Hold(pc)) + Len(received) = Capacity /\ Capacity \in Nat
  BY ReadersFacts, ReaderTypes, ReaderAssumption DEF Places
<1>13. Cardinality(U) <= Capacity + 1
  <2> DEFINE u == Cardinality(U)
             a == Cardinality(A)
             b == Cardinality(B)
             c == Cardinality(C)
             ab == Cardinality(A \cap B)
             a_b == Cardinality(A \cup B)
             h == Cardinality(Hold(pc))
             v == Len(received)
             w == Len(handled)
  <2>1. /\ u \in Nat /\ a \in Nat /\ b \in Nat /\ c \in Nat /\ ab \in Nat /\ a_b \in Nat
        /\ h \in Nat /\ v \in Nat /\ w \in Nat /\ permits \in Nat /\ Capacity \in Nat
    BY <1>4, <1>11, <1>12
  <2>2. u <= a_b /\ a_b = a + b - ab /\ a <= c /\ c <= h /\ b <= l /\ l = w + v /\ w <= 1 /\ permits + h + v = Capacity
    BY <1>1, <1>4, <1>6, <1>8, <1>9, <1>10, <1>12
  <2> HIDE DEF u, a, b, c, ab, a_b, h, v, w
  <2>3. u <= Capacity + 1
    BY <1>4, <2>1, <2>2
  <2> QED
    BY <2>3 DEF u
<1> QED
  BY <1>10, <1>13 DEF U

\* PacketPool::acquire gives a buffer nobody has, and takes it out of the cache.
LEMMA AcquiredIs ==
  ASSUME ReadersInv, NEW rest, rest = IF cache = <<>> THEN cache ELSE Backend!Front(cache)
  PROVE  /\ Backend!Acquired \in Backend!Buffers
         /\ \A r : ~Own(r, Backend!Acquired)
         /\ \A n : ~Queued(n, Backend!Acquired)
         /\ rest \in Seq(Backend!Buffers) /\ Len(rest) <= MaxCached
         /\ \A n \in 1..Len(rest) : Cached(n, rest[n]) /\ rest[n] /= Backend!Acquired
<1>1. cache \in Seq(Backend!Buffers) /\ Len(cache) \in Nat /\ Len(cache) <= MaxCached
  BY ReadersFacts, ReaderTypes
<1>2. CASE cache = <<>>
  <2>1. rest = <<>> /\ Len(rest) = 0 /\ Backend!ToSet(cache) = {} /\ Backend!Acquired = Backend!Fresh
    BY <1>2 DEF Backend!ToSet, Backend!Acquired
  <2>2. \E b \in Backend!Buffers : b \notin Backend!CheckedOut \cup Backend!ToSet(cache)
    <3> SUFFICES ASSUME \A b \in Backend!Buffers : b \in Backend!CheckedOut
                 PROVE  FALSE
      BY <2>1
    <3>1. MaxBuffers \in Nat /\ Capacity \in Nat /\ MaxCached \in Nat /\ MaxBuffers > Capacity + MaxCached + 1
      BY ReaderAssumption
    <3>2. Backend!Buffers \in SUBSET (Backend!CheckedOut \ {0})
      BY <3>1 DEF Backend!Buffers
    <3>3. /\ IsFiniteSet(Backend!CheckedOut \ {0})
          /\ Cardinality(Backend!CheckedOut \ {0}) <= Capacity + 1
      BY InUseBound
    <3>4. Cardinality(Backend!Buffers) <= Cardinality(Backend!CheckedOut \ {0})
      BY <3>2, <3>3, FS_Subset
    <3>5. Cardinality(1..MaxBuffers) = IF 1 > MaxBuffers THEN 0 ELSE MaxBuffers - 1 + 1
      <4>1. 1 \in Int /\ MaxBuffers \in Int
        BY <3>1
      <4> QED
        BY <4>1, FS_Interval
    <3>6. Cardinality(Backend!Buffers) = MaxBuffers
      BY <3>1, <3>5 DEF Backend!Buffers
    <3>7. Cardinality(Backend!CheckedOut \ {0}) \in Nat
      BY <3>3, FS_CardinalityType
    <3> QED
      BY <3>1, <3>3, <3>4, <3>6, <3>7
  <2>3. Backend!Acquired \in Backend!Buffers /\ Backend!Acquired \notin Backend!CheckedOut
    BY <2>1, <2>2 DEF Backend!Fresh
  <2>4. ASSUME NEW r, Own(r, Backend!Acquired) PROVE FALSE
    BY <2>3, <2>4 DEF Own, Backend!CheckedOut
  <2>5. ASSUME NEW n, Queued(n, Backend!Acquired) PROVE FALSE
    <3>1. \E d \in Backend!ToSet(received \o handled) : d.packet.buffer = Backend!Acquired
      BY <2>5, LineAll, ReadersFacts DEF Queued
    <3> QED
      BY <2>3, <3>1 DEF Backend!CheckedOut
  <2>6. rest \in Seq(Backend!Buffers) /\ Len(rest) <= MaxCached /\ 1..Len(rest) = {}
    BY <1>1, <1>2, <2>1, ReaderAssumption
  <2> QED
    BY <2>3, <2>4, <2>5, <2>6
<1>3. CASE cache /= <<>>
  <2> DEFINE l == Len(cache)
  <2>1. l > 0 /\ l \in Nat
    BY <1>1, <1>3, EmptySeq
  <2>2. Backend!Acquired = cache[l] /\ rest = SubSeq(cache, 1, l - 1)
    BY <1>3 DEF Backend!Acquired, Backend!Last, Backend!Front
  <2>3. \A n \in 1..l : cache[n] \in Backend!Buffers
    BY <1>1, ElementOfSeq
  <2>4. rest \in Seq(Backend!Buffers) /\ Len(rest) = l - 1 /\ \A n \in 1..l - 1 : rest[n] = cache[n]
    <3>1. 1 \in 1..(l - 1) + 1 /\ l - 1 \in Int /\ \A n \in 1..l - 1 : cache[n] \in Backend!Buffers
      BY <2>1, <2>3
    <3>2. /\ rest \in Seq(Backend!Buffers) /\ Len(rest) = IF 1 <= l - 1 THEN (l - 1) - 1 + 1 ELSE 0
          /\ \A n \in 1..(l - 1) - 1 + 1 : rest[n] = cache[1 + n - 1]
      BY <2>2, <3>1, SubSeqProperties
    <3> HIDE DEF l
    <3>3. Len(rest) = l - 1 /\ (l - 1) - 1 + 1 = l - 1
      BY <2>1, <3>2
    <3>4. ASSUME NEW n \in 1..l - 1 PROVE rest[n] = cache[n]
      <4>1. 1 + n - 1 = n
        OBVIOUS
      <4> QED
        BY <3>2, <3>3, <4>1
    <3> QED
      BY <3>2, <3>3, <3>4
  <2>5. Cached(l, Backend!Acquired)
    BY <2>1, <2>2 DEF Cached
  <2>6. ASSUME NEW n \in 1..l - 1 PROVE Cached(n, rest[n]) /\ rest[n] /= Backend!Acquired
    <3>1. n \in 1..l /\ n /= l
      BY <2>1
    <3>2. Cached(n, rest[n])
      BY <2>4, <3>1 DEF Cached
    <3> QED
      BY <2>5, <3>1, <3>2, ReadersFacts DEF Distinct
  <2>7. Len(rest) <= MaxCached
    BY <1>1, <2>1, <2>4, ReaderAssumption
  <2>8. Backend!Acquired \in Backend!Buffers
    BY <2>1, <2>2, <2>3
  <2> QED
    BY <2>4, <2>5, <2>6, <2>7, <2>8, ReadersFacts DEF Distinct
<1> QED
  BY <1>2, <1>3

\* What the line says, if its buffers are not written and nothing is sent.
LEMMA WholeStays ==
  ASSUME ReadersInv, Backend!Line' = Backend!Line, seen' = seen,
         \A r \in Readers : Backend!Forwarded(r)' = Backend!Forwarded(r),
         \A n \in 1..Len(Backend!Line) : bytes'[Backend!Line[n].packet.buffer] = bytes[Backend!Line[n].packet.buffer]
  PROVE  Whole(bytes, Backend!Line)'
<1>1. Whole(bytes, Backend!Line)
  BY ReadersFacts DEF Delivered
<1>2. /\ InOrder(bytes', Backend!Line)
      /\ \A r, lo, hi : InLine(bytes, Backend!Line, r, lo, hi) => InLine(bytes', Backend!Line, r, lo, hi)
  BY <1>1, OtherBytes DEF Whole
<1> QED
  BY <1>1, <1>2 DEF Whole

\* The task takes a buffer nobody has.
LEMMA AcquireStep ==
  ASSUME ReadersInv, NEW r \in Readers, Backend!Acquire(r) PROVE ReadersInv'
<1> DEFINE a == Backend!Acquired
           p == [buffer |-> a, len |-> 0]
<1>1. /\ pc[r] = "acquire" /\ pc' = [pc EXCEPT ![r] = "recv"]
      /\ packets' = [packets EXCEPT ![r] = p]
      /\ cache' = IF cache = <<>> THEN cache ELSE Backend!Front(cache)
      /\ UNCHANGED <<permits, waiters, received, handled, bytes, seen, taken, sent, errors, ready, aborted>>
  BY DEF Backend!Acquire, Backend!At, Backend!sockets, Backend!queue
<1>2. /\ a \in Backend!Buffers /\ \A q : ~Own(q, a) /\ \A n : ~Queued(n, a)
      /\ cache' \in Seq(Backend!Buffers) /\ Len(cache') <= MaxCached
      /\ \A n \in 1..Len(cache') : Cached(n, cache'[n]) /\ cache'[n] /= a
  <2>1. \A n : ~Queued(n, a)
    BY <1>1, AcquiredIs
  <2>2. \A q : ~Own(q, a)
    BY <1>1, AcquiredIs
  <2> QED
    BY <1>1, <2>1, <2>2, AcquiredIs
<1> HIDE DEF a
<1>3. /\ pc \in [Readers -> States] /\ Waiting(pc, waiters) /\ permits \in Nat
      /\ permits + Cardinality(Hold(pc)) + Len(received) = Capacity
      /\ packets \in [Readers -> Backend!Packets]
  BY ReadersFacts, ReaderTypes DEF Places
<1>4. /\ "recv" \in States /\ "recv" \in Holding /\ "acquire" \in Holding
      /\ "acquire" \notin Carrying /\ "recv" \in Carrying
  BY StateFacts
<1>5. pc' \in [Readers -> States] /\ pc'[r] = "recv" /\ \A q \in Readers : q /= r => pc'[q] = pc[q]
  BY <1>1, <1>3, <1>4
<1>6. p \in Backend!Packets /\ p.buffer = a
  BY <1>2 DEF Backend!Packets, Backend!Buffers, Backend!BufferSize
<1>7. packets' \in [Readers -> Backend!Packets] /\ packets'[r] = p /\ \A q \in Readers : q /= r => packets'[q] = packets[q]
  BY <1>1, <1>3, <1>6
<1> HIDE DEF p
<1>8. Backend!Line' = Backend!Line
  BY <1>1 DEF Backend!Line
<1>9. Types'
  <2>1. /\ waiters \in Seq(Readers) /\ received \in Seq(Entry)
        /\ handled \in Seq(Entry) /\ Len(handled) <= 1
        /\ taken \in [Readers -> 0..MaxSent] /\ sent \in [Readers -> 0..MaxSent]
        /\ bytes \in [Backend!Buffers -> [1..2 -> Content]]
        /\ seen \in [Readers -> Seq(Seq(Content))]
        /\ ready \in [Readers -> BOOLEAN] /\ errors \subseteq Readers /\ aborted \subseteq Readers
        /\ permits \in 0..Capacity
    BY ReadersFacts, ReaderTypes DEF Types, Backend!TypeOK
  <2> QED
    BY <1>1, <1>2, <1>5, <1>7, <2>1, TypesStay
<1>10. Places'
  <2>1. \A q \in Readers : pc[q] \in Holding <=> pc'[q] \in Holding
    BY <1>1, <1>4, <1>5
  <2>2. Cardinality(Hold(pc')) = Cardinality(Hold(pc))
    BY <1>3, <1>5, <2>1, HoldSame
  <2> QED
    BY <1>1, <1>3, <2>2 DEF Places
<1>11. Waiting(pc', waiters')
  BY <1>1, <1>3, <1>5 DEF Waiting
<1>12. Carried'
  <2>1. Carried
    BY ReadersFacts
  <2> QED
    BY <1>2, <1>4, <1>5, <1>6, <1>7, <1>8, <2>1 DEF Carried
<1>13. Distinct'
  <2>1. \A q, b : Own(q, b)' => (Own(q, b) /\ q /= r) \/ (q = r /\ b = a)
    BY <1>4, <1>5, <1>6, <1>7 DEF Own
  <2>2. \A n, b : Queued(n, b)' => Queued(n, b)
    BY <1>8 DEF Queued
  <2>3. \A n, b : Cached(n, b)' => Cached(n, b) /\ b /= a
    BY <1>2 DEF Cached
  <2>4. Distinct
    BY ReadersFacts
  <2> QED
    BY <1>2, <2>1, <2>2, <2>3, <2>4 DEF Distinct
<1>14. Delivered'
  <2>1. \A q \in Readers : Backend!Forwarded(q)' = Backend!Forwarded(q)
    BY <1>1, <1>5 DEF Backend!Forwarded
  <2>2. Whole(bytes, Backend!Line)'
    BY <1>1, <1>8, <2>1, WholeStays
  <2>3. \A q \in Readers : pc'[q] = "send" => Holds(bytes, packets'[q]) = Backend!Datagram(q, taken[q])
    BY <1>5, <1>7, ReadersFacts DEF Delivered
  <2>4. \A q \in Readers : seen[q] = [k \in 1..Len(seen[q]) |-> Backend!Datagram(q, k)]
    BY ReadersFacts DEF Delivered
  <2> QED
    BY <1>1, <2>2, <2>3, <2>4 DEF Delivered
<1> QED
  BY <1>2, <1>9, <1>10, <1>11, <1>12, <1>13, <1>14 DEF ReadersInv

\* try_recv fills the first bytes of the task's own buffer.
LEMMA RecvOkStep ==
  ASSUME ReadersInv, NEW r \in Readers, Backend!RecvOk(r) PROVE ReadersInv'
<1> DEFINE k == taken[r] + 1
           d == Backend!Datagram(r, k)
           b == packets[r].buffer
           filled == [i \in 1..2 |-> IF i <= Len(d) THEN d[i] ELSE bytes[b][i]]
<1>1. /\ pc[r] = "recv" /\ pc' = [pc EXCEPT ![r] = "send"] /\ taken[r] < sent[r]
      /\ taken' = [taken EXCEPT ![r] = k]
      /\ packets' = [packets EXCEPT ![r].len = Len(d)]
      /\ UNCHANGED <<permits, waiters, received, handled, cache, seen, sent, errors, ready, aborted>>
  BY DEF Backend!RecvOk, Backend!At, Backend!queue
<1>2. /\ pc \in [Readers -> States] /\ Waiting(pc, waiters) /\ permits \in Nat
      /\ permits + Cardinality(Hold(pc)) + Len(received) = Capacity
      /\ packets \in [Readers -> Backend!Packets] /\ bytes \in [Backend!Buffers -> [1..2 -> Content]]
      /\ taken \in [Readers -> 0..MaxSent] /\ sent \in [Readers -> 0..MaxSent]
  BY ReadersFacts, ReaderTypes DEF Places
<1>3. /\ "send" \in States /\ "send" \in Holding /\ "recv" \in Holding
      /\ "send" \in Carrying /\ "recv" \in Carrying
  BY StateFacts
<1>4. pc' \in [Readers -> States] /\ pc'[r] = "send" /\ \A q \in Readers : q /= r => pc'[q] = pc[q]
  BY <1>1, <1>2, <1>3
<1>5. k \in Nat /\ k \in 0..MaxSent /\ k - 1 = taken[r]
  <2>1. taken[r] \in 0..MaxSent /\ sent[r] \in 0..MaxSent /\ MaxSent \in Nat /\ taken[r] < sent[r]
    BY <1>1, <1>2, ReaderAssumption
  <2> QED
    BY <2>1
<1>6. taken' \in [Readers -> 0..MaxSent] /\ taken'[r] = k /\ \A q \in Readers : q /= r => taken'[q] = taken[q]
  BY <1>1, <1>2, <1>5
<1>7. b \in Backend!Buffers
  BY <1>1, <1>3, ReadersFacts DEF Carried
<1>8. bytes' = [bytes EXCEPT ![b] = filled]
  BY DEF Backend!RecvOk, Backend!BufferSize
<1>9. Len(d) \in 1..2 /\ DOMAIN d = 1..Len(d) /\ d \in Seq(Content)
  BY <1>5, DatagramIs
<1>10. filled \in [1..2 -> Content]
  <2>1. bytes[b] \in [1..2 -> Content]
    BY <1>2, <1>7
  <2>2. ASSUME NEW i \in 1..2 PROVE (IF i <= Len(d) THEN d[i] ELSE bytes[b][i]) \in Content
    <3>1. CASE i <= Len(d)
      <4>1. i \in 1..Len(d)
        BY <1>9, <3>1
      <4> QED
        BY <1>9, <3>1, <4>1, ElementOfSeq
    <3>2. CASE ~(i <= Len(d))
      BY <2>1, <3>2
    <3> QED
      BY <3>1, <3>2
  <2> QED
    BY <2>2
<1>11. SubSeq(filled, 1, Len(d)) = d
  <2> DEFINE n == Len(d)
             x == SubSeq(filled, 1, n)
  <2>1. n \in 1..2
    BY <1>9
  <2>2. \A i \in 1..n : filled[i] = d[i] /\ d[i] \in Content
    BY <1>9, <2>1, ElementOfSeq
  <2> HIDE DEF filled, d, n
  <2>3. 1 \in 1..n + 1 /\ n \in Int /\ \A i \in 1..n : filled[i] \in Content
    BY <2>1, <2>2
  <2>4. /\ x \in Seq(Content) /\ Len(x) = IF 1 <= n THEN n - 1 + 1 ELSE 0
        /\ \A i \in 1..n - 1 + 1 : x[i] = filled[1 + i - 1]
    BY <2>3, SubSeqProperties
  <2> HIDE DEF x
  <2>5. Len(x) = n /\ n - 1 + 1 = n
    BY <2>1, <2>4
  <2>6. \A i \in 1..n : x[i] = d[i]
    <3> SUFFICES ASSUME NEW i \in 1..n PROVE x[i] = d[i]
      OBVIOUS
    <3>1. 1 + i - 1 = i
      OBVIOUS
    <3> QED
      BY <2>2, <2>4, <2>5, <3>1
  <2>7. x \in Seq(Content) /\ d \in Seq(Content) /\ Len(x) = Len(d) /\ \A i \in 1..Len(x) : x[i] = d[i]
    BY <1>9, <2>4, <2>5, <2>6 DEF n
  <2> QED
    BY <2>7, SeqEqual DEF x, n
<1> HIDE DEF filled
<1>12. /\ bytes' \in [Backend!Buffers -> [1..2 -> Content]] /\ bytes'[b] = filled
       /\ \A x \in Backend!Buffers : x /= b => bytes'[x] = bytes[x]
  BY <1>2, <1>7, <1>8, <1>10
<1>13. /\ packets' \in [Readers -> Backend!Packets] /\ packets'[r].buffer = b /\ packets'[r].len = Len(d)
       /\ \A q \in Readers : q /= r => packets'[q] = packets[q]
  <2>1. Len(d) \in 0..2
    BY <1>9
  <2> HIDE DEF d
  <2> QED
    BY <1>1, <1>2, <2>1 DEF Backend!Packets, Backend!BufferSize
<1> HIDE DEF d, k, b
<1>14. Backend!Line' = Backend!Line
  BY <1>1 DEF Backend!Line
<1>15. Types'
  <2>1. /\ waiters \in Seq(Readers) /\ received \in Seq(Entry)
        /\ handled \in Seq(Entry) /\ Len(handled) <= 1 /\ cache \in Seq(Backend!Buffers)
        /\ seen \in [Readers -> Seq(Seq(Content))]
        /\ ready \in [Readers -> BOOLEAN] /\ errors \subseteq Readers /\ aborted \subseteq Readers
        /\ permits \in 0..Capacity
    BY ReadersFacts, ReaderTypes DEF Types, Backend!TypeOK
  <2> QED
    BY <1>1, <1>2, <1>4, <1>6, <1>12, <1>13, <2>1, TypesStay
<1>16. Places'
  <2>1. \A q \in Readers : pc[q] \in Holding <=> pc'[q] \in Holding
    BY <1>1, <1>3, <1>4
  <2>2. Cardinality(Hold(pc')) = Cardinality(Hold(pc))
    BY <1>2, <1>4, <2>1, HoldSame
  <2> QED
    BY <1>1, <1>2, <2>2 DEF Places
<1>17. Waiting(pc', waiters')
  BY <1>1, <1>2, <1>4 DEF Waiting
<1>18. Own(r, b)
  BY <1>1, <1>3 DEF Own, b
<1>19. \A q, x : Own(q, x)' => Own(q, x)
  BY <1>1, <1>3, <1>4, <1>13, <1>18 DEF Own
<1>20. Distinct'
  <2>1. \A n, x : (Queued(n, x)' => Queued(n, x)) /\ (Cached(n, x)' => Cached(n, x))
    BY <1>1, <1>14 DEF Queued, Cached
  <2> QED
    BY <1>19, <2>1, ReadersFacts DEF Distinct
<1>21. Carried'
  <2>1. Carried
    BY ReadersFacts
  <2> QED
    BY <1>1, <1>3, <1>4, <1>7, <1>13, <1>14, <2>1 DEF Carried
<1>22. ASSUME NEW n \in 1..Len(Backend!Line)
       PROVE  bytes'[Backend!Line[n].packet.buffer] = bytes[Backend!Line[n].packet.buffer]
  <2>1. Backend!Line[n].packet.buffer \in Backend!Buffers
    BY ReadersFacts DEF Carried
  <2>2. Queued(n, Backend!Line[n].packet.buffer)
    BY DEF Queued
  <2>3. Backend!Line[n].packet.buffer /= b
    BY <1>18, <2>2, ReadersFacts DEF Distinct
  <2> QED
    BY <1>12, <2>1, <2>3
<1>23. Whole(bytes, Backend!Line)'
  <2>1. \A q \in Readers : Backend!Forwarded(q)' = Backend!Forwarded(q)
    BY <1>1, <1>4, <1>5, <1>6 DEF Backend!Forwarded
  <2> QED
    BY <1>1, <1>14, <1>22, <2>1, WholeStays
<1>24. ASSUME NEW q \in Readers, pc'[q] = "send"
       PROVE  Holds(bytes', packets'[q]) = Backend!Datagram(q, taken'[q])
  <2>1. CASE q = r
    BY <1>6, <1>11, <1>12, <1>13, <2>1 DEF Holds, d
  <2>2. CASE q /= r
    <3>1. pc[q] = "send" /\ packets'[q] = packets[q] /\ taken'[q] = taken[q]
      BY <1>4, <1>6, <1>13, <1>24, <2>2
    <3>2. Own(q, packets[q].buffer) /\ packets[q].buffer \in Backend!Buffers
      BY <1>3, <3>1, ReadersFacts DEF Own, Carried
    <3>3. packets[q].buffer /= b
      BY <1>18, <2>2, <3>2, ReadersFacts DEF Distinct
    <3>4. bytes'[packets[q].buffer] = bytes[packets[q].buffer]
      BY <1>12, <3>2, <3>3
    <3>5. Holds(bytes, packets[q]) = Backend!Datagram(q, taken[q])
      BY <3>1, ReadersFacts DEF Delivered
    <3> QED
      BY <3>1, <3>4, <3>5 DEF Holds
  <2> QED
    BY <2>1, <2>2
<1>25. Delivered'
  <2>1. \A q \in Readers : seen[q] = [j \in 1..Len(seen[q]) |-> Backend!Datagram(q, j)]
    BY ReadersFacts DEF Delivered
  <2> QED
    BY <1>1, <1>23, <1>24, <2>1 DEF Delivered
<1> QED
  BY <1>1, <1>15, <1>16, <1>17, <1>20, <1>21, <1>25, ReadersFacts DEF ReadersInv

\* permit.send: the task's datagram becomes the last of the line.
LEMMA SendStep ==
  ASSUME ReadersInv, NEW r \in Readers, Backend!Send(r) PROVE ReadersInv'
<1> DEFINE e == [conn_id |-> r, packet |-> packets[r]]
           w == Backend!Again(r)
           k == taken[r]
           l == Len(Backend!Line)
           b == packets[r].buffer
           lo == Len(seen[r])
<1>1. /\ pc[r] = "send" /\ pc' = [pc EXCEPT ![r] = w]
      /\ received' = Append(received, e)
      /\ packets' = [packets EXCEPT ![r] = Backend!None]
      /\ UNCHANGED <<permits, waiters, handled, cache, bytes, seen, taken, sent, errors, ready, aborted>>
  BY DEF Backend!Send, Backend!At, Backend!sockets, Backend!pool
<1>2. /\ pc \in [Readers -> States] /\ Waiting(pc, waiters) /\ permits \in Nat
      /\ permits + Cardinality(Hold(pc)) + Len(received) = Capacity
      /\ packets \in [Readers -> Backend!Packets]
      /\ received \in Seq(Entry) /\ Len(received) \in Nat /\ handled \in Seq(Entry) /\ Len(handled) \in Nat
      /\ taken \in [Readers -> 0..MaxSent] /\ seen \in [Readers -> Seq(Seq(Content))]
  BY ReadersFacts, ReaderTypes DEF Places
<1>3. w \in States /\ w \notin Holding /\ "send" \in Holding /\ "send" \in Carrying /\ w \notin Carrying
      /\ w /= "waiting" /\ w /= "send"
  <2>1. w \in {"readable", "ended"}
    BY AgainState
  <2> HIDE DEF w
  <2> QED
    BY <2>1, StateFacts
<1> HIDE DEF w
<1>4. pc' \in [Readers -> States] /\ pc'[r] = w /\ \A q \in Readers : q /= r => pc'[q] = pc[q]
  BY <1>1, <1>2, <1>3
<1>5. Backend!None \in Backend!Packets
  BY ReaderAssumption DEF Backend!None, Backend!Packets, Backend!BufferSize
<1>6. /\ packets' \in [Readers -> Backend!Packets] /\ packets'[r] = Backend!None
      /\ \A q \in Readers : q /= r => packets'[q] = packets[q]
  BY <1>1, <1>2, <1>5
<1>7. e \in Entry /\ e.conn_id = r /\ e.packet = packets[r]
  BY <1>2 DEF Entry
<1> HIDE DEF e
<1>8. received' \in Seq(Entry) /\ Len(received') = Len(received) + 1
  BY <1>1, <1>2, <1>7, AppendProperties
<1>9. Backend!Line' = Append(Backend!Line, e)
  <2>1. handled \o Append(received, e) = Append(handled \o received, e)
    BY <1>2, <1>7
  <2> QED
    BY <1>1, <2>1 DEF Backend!Line
<1>10. Backend!Line \in Seq(Entry) /\ l \in Nat
  BY ReadersFacts, LineFacts
<1>11. /\ Len(Backend!Line') = l + 1 /\ Backend!Line'[l + 1] = e
       /\ \A n \in 1..l : Backend!Line'[n] = Backend!Line[n]
  BY <1>7, <1>9, <1>10, AppendProperties
<1>12. Types'
  <2>1. /\ waiters \in Seq(Readers) /\ Len(handled) <= 1 /\ cache \in Seq(Backend!Buffers)
        /\ bytes \in [Backend!Buffers -> [1..2 -> Content]] /\ sent \in [Readers -> 0..MaxSent]
        /\ ready \in [Readers -> BOOLEAN] /\ errors \subseteq Readers /\ aborted \subseteq Readers
        /\ permits \in 0..Capacity
    BY ReadersFacts, ReaderTypes DEF Types, Backend!TypeOK
  <2> QED
    BY <1>1, <1>2, <1>4, <1>6, <1>8, <2>1, TypesStay
<1>13. Places'
  <2>1. pc[r] \in Holding /\ pc'[r] \notin Holding
    BY <1>1, <1>3, <1>4
  <2>2. Cardinality(Hold(pc')) = Cardinality(Hold(pc)) - 1
    BY <1>2, <1>4, <2>1, HoldLess
  <2>4. permits + Cardinality(Hold(pc')) + Len(received') = Capacity
    <3> DEFINE h == Cardinality(Hold(pc))
               i == Cardinality(Hold(pc'))
               c == Len(received)
               d == Len(received')
    <3>1. /\ h \in Nat /\ c \in Nat /\ permits \in Nat
          /\ permits + h + c = Capacity /\ d = c + 1 /\ i = h - 1
      BY <1>2, <1>8, <2>2, HoldType
    <3> HIDE DEF h, i, c, d
    <3>2. permits + i + d = Capacity
      BY <3>1
    <3> QED
      BY <3>2 DEF i, d
  <2> QED
    BY <1>1, <2>4 DEF Places
<1>14. Waiting(pc', waiters')
  BY <1>1, <1>2, <1>3, <1>4 DEF Waiting
<1>15. Own(r, b) /\ b \in Backend!Buffers
  BY <1>1, <1>3, ReadersFacts DEF Own, Carried
<1> HIDE DEF l
<1>16. \A n \in 1..l + 1 : n = l + 1 \/ n \in 1..l
  BY <1>10
<1>17. Carried'
  <2>1. Carried
    BY ReadersFacts
  <2>2. \A n \in 1..l + 1 : Backend!Line'[n].packet.buffer \in Backend!Buffers
    BY <1>7, <1>11, <1>15, <1>16, <2>1 DEF Carried, l
  <2> QED
    BY <1>3, <1>4, <1>6, <1>11, <2>1, <2>2 DEF Carried
<1>18. Distinct'
  <2>1. \A q, x : Own(q, x)' => Own(q, x) /\ q /= r
    BY <1>3, <1>4, <1>6 DEF Own
  <2>2. \A n, x : Queued(n, x)' => Queued(n, x) \/ (n = l + 1 /\ Own(r, x))
    <3> SUFFICES ASSUME NEW n, NEW x, Queued(n, x)' PROVE Queued(n, x) \/ (n = l + 1 /\ Own(r, x))
      OBVIOUS
    <3>1. n \in 1..l + 1 /\ Backend!Line'[n].packet.buffer = x
      BY <1>11 DEF Queued
    <3>2. CASE n = l + 1
      BY <1>7, <1>11, <1>15, <3>1, <3>2
    <3>3. CASE n \in 1..l
      BY <1>11, <3>1, <3>3 DEF Queued, l
    <3> QED
      BY <1>16, <3>1, <3>2, <3>3
  <2>3. \A n, x : Cached(n, x)' => Cached(n, x)
    BY <1>1 DEF Cached
  <2>4. Distinct
    BY ReadersFacts
  <2> HIDE DEF b
  <2> QED
    BY <2>1, <2>2, <2>3, <2>4 DEF Distinct
<1>19. lo \in Nat /\ k \in Nat /\ lo < k
  <2>1. lo \in Nat /\ k \in Nat
    BY <1>2, LenProperties
  <2>2. lo <= k - 1
    BY <1>1, ReadersFacts DEF Delivered, Whole, Backend!Forwarded
  <2> QED
    BY <2>1, <2>2
<1>20. /\ InOrder(bytes, Backend!Line) /\ InLine(bytes, Backend!Line, r, lo, k - 1)
       /\ Holds(bytes, packets[r]) = Backend!Datagram(r, k)
  BY <1>1, ReadersFacts DEF Delivered, Whole, Backend!Forwarded
<1> HIDE DEF lo, k
<1>21. /\ InOrder(bytes, Backend!Line') /\ InLine(bytes, Backend!Line', r, lo, k)
       /\ \A q, x, z : q /= r /\ InLine(bytes, Backend!Line, q, x, z) => InLine(bytes, Backend!Line', q, x, z)
  <2>1. Holds(bytes, e.packet) = Backend!Datagram(e.conn_id, k) /\ InLine(bytes, Backend!Line, e.conn_id, lo, k - 1)
    BY <1>7, <1>20
  <2>2. /\ InOrder(bytes, Append(Backend!Line, e)) /\ InLine(bytes, Append(Backend!Line, e), e.conn_id, lo, k)
        /\ \A q, x, z : q /= e.conn_id /\ InLine(bytes, Backend!Line, q, x, z)
                          => InLine(bytes, Append(Backend!Line, e), q, x, z)
    BY <1>7, <1>10, <1>19, <1>20, <2>1, AppendLine
  <2> QED
    BY <1>7, <1>9, <2>2
<1>22. Whole(bytes, Backend!Line)'
  <2>1. ASSUME NEW q \in Readers
        PROVE  /\ InLine(bytes, Backend!Line', q, Len(seen[q]), Backend!Forwarded(q)')
               /\ Len(seen[q]) <= Backend!Forwarded(q)'
    <3>1. CASE q = r
      <4>1. Backend!Forwarded(q)' = k /\ Len(seen[q]) = lo
        BY <1>1, <1>3, <1>4, <3>1 DEF Backend!Forwarded, k, lo
      <4>2. lo <= k
        BY <1>19
      <4> QED
        BY <1>21, <3>1, <4>1, <4>2
    <3>2. CASE q /= r
      <4>1. Backend!Forwarded(q)' = Backend!Forwarded(q)
        BY <1>1, <1>4, <3>2 DEF Backend!Forwarded
      <4>2. InLine(bytes, Backend!Line, q, Len(seen[q]), Backend!Forwarded(q)) /\ Len(seen[q]) <= Backend!Forwarded(q)
        BY ReadersFacts DEF Delivered, Whole
      <4> QED
        BY <1>21, <3>2, <4>1, <4>2
    <3> QED
      BY <3>1, <3>2
  <2> QED
    BY <1>1, <1>21, <2>1 DEF Whole
<1>23. Delivered'
  <2>1. \A q \in Readers : seen[q] = [j \in 1..Len(seen[q]) |-> Backend!Datagram(q, j)]
    BY ReadersFacts DEF Delivered
  <2>2. \A q \in Readers : pc'[q] = "send" => Holds(bytes, packets'[q]) = Backend!Datagram(q, taken[q])
    BY <1>3, <1>4, <1>6, ReadersFacts DEF Delivered
  <2> QED
    BY <1>1, <1>22, <2>1, <2>2 DEF Delivered
<1> QED
  BY <1>1, <1>12, <1>13, <1>14, <1>17, <1>18, <1>23, ReadersFacts DEF ReadersInv

\* impl Drop for Packet: the buffer is kept in the cache or wiped.
LEMMA ReleaseIs ==
  ASSUME ReadersInv, NEW b \in Backend!Buffers, Backend!Release(b)
  PROVE  /\ cache' \in Seq(Backend!Buffers) /\ Len(cache') <= MaxCached
         /\ bytes' \in [Backend!Buffers -> [1..2 -> Content]]
         /\ \A x \in Backend!Buffers : x /= b => bytes'[x] = bytes[x]
         /\ \A n, x : Cached(n, x)' => Cached(n, x) \/ (n = Len(cache) + 1 /\ x = b)
<1> DEFINE l == Len(cache)
<1>1. /\ cache \in Seq(Backend!Buffers) /\ l \in Nat /\ l <= MaxCached /\ MaxCached \in Nat
      /\ bytes \in [Backend!Buffers -> [1..2 -> Content]]
  BY ReadersFacts, ReaderTypes, ReaderAssumption
<1>2. CASE l < MaxCached
  <2>1. cache' = Append(cache, b) /\ bytes' = bytes
    BY <1>2 DEF Backend!Release
  <2>2. /\ cache' \in Seq(Backend!Buffers) /\ Len(cache') = l + 1 /\ cache'[l + 1] = b
        /\ \A n \in 1..l : cache'[n] = cache[n]
    BY <1>1, <2>1, AppendProperties
  <2>3. \A n, x : Cached(n, x)' => Cached(n, x) \/ (n = l + 1 /\ x = b)
    <3> SUFFICES ASSUME NEW n, NEW x, Cached(n, x)' PROVE Cached(n, x) \/ (n = l + 1 /\ x = b)
      OBVIOUS
    <3>1. n \in 1..l + 1 /\ cache'[n] = x
      BY <2>2 DEF Cached
    <3>2. n = l + 1 \/ n \in 1..l
      BY <1>1, <3>1
    <3> QED
      BY <2>2, <3>1, <3>2 DEF Cached
  <2>4. Len(cache') <= MaxCached
    BY <1>1, <1>2, <2>2
  <2> QED
    BY <1>1, <2>1, <2>2, <2>3, <2>4
<1>3. CASE ~(l < MaxCached)
  <2>1. bytes' = [bytes EXCEPT ![b] = Backend!Zeros] /\ cache' = cache
    BY <1>3 DEF Backend!Release
  <2>2. Backend!Zeros \in [1..2 -> Content]
    BY DEF Backend!Zeros, Backend!BufferSize, Content
  <2>3. bytes' \in [Backend!Buffers -> [1..2 -> Content]] /\ \A x \in Backend!Buffers : x /= b => bytes'[x] = bytes[x]
    BY <1>1, <2>1, <2>2
  <2> QED
    BY <1>1, <2>1, <2>3 DEF Cached
<1> QED
  BY <1>2, <1>3

\* A round without a datagram gives the buffer back.
LEMMA DropPacketStep ==
  ASSUME ReadersInv, NEW r \in Readers, Backend!DropPacket(r) PROVE ReadersInv'
<1> DEFINE b == packets[r].buffer
           w == IF pc[r] = "blocked" THEN "unwind" ELSE "unwindFailed"
<1>1. /\ pc[r] \in {"blocked", "failed"} /\ pc' = [pc EXCEPT ![r] = w]
      /\ Backend!Release(b) /\ packets' = [packets EXCEPT ![r] = Backend!None]
      /\ UNCHANGED <<permits, waiters, received, handled, seen, taken, sent, errors, ready, aborted>>
  BY DEF Backend!DropPacket, Backend!At, Backend!sockets, Backend!queue
<1>2. /\ pc \in [Readers -> States] /\ Waiting(pc, waiters) /\ permits \in Nat
      /\ permits + Cardinality(Hold(pc)) + Len(received) = Capacity
      /\ packets \in [Readers -> Backend!Packets]
  BY ReadersFacts, ReaderTypes DEF Places
<1>3. /\ w \in States /\ w \in Holding /\ pc[r] \in Holding /\ pc[r] \in Carrying /\ w \notin Carrying
      /\ w /= "waiting" /\ w /= "send" /\ pc[r] /= "send" /\ pc[r] /= "waiting"
  BY <1>1, StateFacts
<1> HIDE DEF w
<1>4. pc' \in [Readers -> States] /\ pc'[r] = w /\ \A q \in Readers : q /= r => pc'[q] = pc[q]
  BY <1>1, <1>2, <1>3
<1>5. Backend!None \in Backend!Packets
  BY ReaderAssumption DEF Backend!None, Backend!Packets, Backend!BufferSize
<1>6. /\ packets' \in [Readers -> Backend!Packets] /\ packets'[r] = Backend!None
      /\ \A q \in Readers : q /= r => packets'[q] = packets[q]
  BY <1>1, <1>2, <1>5
<1>7. Own(r, b) /\ b \in Backend!Buffers
  BY <1>3, ReadersFacts DEF Own, Carried
<1>8. /\ cache' \in Seq(Backend!Buffers) /\ Len(cache') <= MaxCached
      /\ bytes' \in [Backend!Buffers -> [1..2 -> Content]]
      /\ \A x \in Backend!Buffers : x /= b => bytes'[x] = bytes[x]
      /\ \A n, x : Cached(n, x)' => Cached(n, x) \/ (n = Len(cache) + 1 /\ x = b)
  BY <1>1, <1>7, ReleaseIs
<1> HIDE DEF b
<1>9. Backend!Line' = Backend!Line
  BY <1>1 DEF Backend!Line
<1>10. Types'
  <2>1. /\ waiters \in Seq(Readers) /\ received \in Seq(Entry)
        /\ handled \in Seq(Entry) /\ Len(handled) <= 1
        /\ taken \in [Readers -> 0..MaxSent] /\ sent \in [Readers -> 0..MaxSent]
        /\ seen \in [Readers -> Seq(Seq(Content))]
        /\ ready \in [Readers -> BOOLEAN] /\ errors \subseteq Readers /\ aborted \subseteq Readers
        /\ permits \in 0..Capacity
    BY ReadersFacts, ReaderTypes DEF Types, Backend!TypeOK
  <2> QED
    BY <1>1, <1>4, <1>6, <1>8, <2>1, TypesStay
<1>11. Places'
  <2>1. \A q \in Readers : pc[q] \in Holding <=> pc'[q] \in Holding
    BY <1>3, <1>4
  <2>2. Cardinality(Hold(pc')) = Cardinality(Hold(pc))
    BY <1>2, <1>4, <2>1, HoldSame
  <2> QED
    BY <1>1, <1>2, <2>2 DEF Places
<1>12. Waiting(pc', waiters')
  BY <1>1, <1>2, <1>3, <1>4 DEF Waiting
<1>13. Carried'
  <2>1. Carried
    BY ReadersFacts
  <2> QED
    BY <1>3, <1>4, <1>6, <1>9, <2>1 DEF Carried
<1>14. Distinct'
  <2>1. \A q, x : Own(q, x)' => Own(q, x) /\ q /= r
    BY <1>3, <1>4, <1>6 DEF Own
  <2>2. \A n, x : Queued(n, x)' => Queued(n, x)
    BY <1>9 DEF Queued
  <2>3. Distinct
    BY ReadersFacts
  <2>4. \A n, x : Cached(n, x)' => Cached(n, x) \/ (n = Len(cache) + 1 /\ Own(r, x))
    BY <1>7, <1>8
  <2> QED
    BY <2>1, <2>2, <2>3, <2>4 DEF Distinct
<1>15. ASSUME NEW n \in 1..Len(Backend!Line)
       PROVE  bytes'[Backend!Line[n].packet.buffer] = bytes[Backend!Line[n].packet.buffer]
  <2>1. Backend!Line[n].packet.buffer \in Backend!Buffers
    BY ReadersFacts DEF Carried
  <2>2. Queued(n, Backend!Line[n].packet.buffer)
    BY DEF Queued
  <2>3. Backend!Line[n].packet.buffer /= b
    BY <1>7, <2>2, ReadersFacts DEF Distinct
  <2> QED
    BY <1>8, <2>1, <2>3
<1>16. Whole(bytes, Backend!Line)'
  <2>1. \A q \in Readers : Backend!Forwarded(q)' = Backend!Forwarded(q)
    BY <1>1, <1>3, <1>4 DEF Backend!Forwarded
  <2> QED
    BY <1>1, <1>9, <1>15, <2>1, WholeStays
<1>17. ASSUME NEW q \in Readers, pc'[q] = "send"
       PROVE  Holds(bytes', packets'[q]) = Backend!Datagram(q, taken[q])
  <2>1. q /= r /\ pc[q] = "send" /\ packets'[q] = packets[q]
    BY <1>3, <1>4, <1>6, <1>17
  <2>2. Own(q, packets[q].buffer) /\ packets[q].buffer \in Backend!Buffers
    BY <2>1, StateFacts, ReadersFacts DEF Own, Carried
  <2>3. packets[q].buffer /= b
    BY <1>7, <2>1, <2>2, ReadersFacts DEF Distinct
  <2>4. bytes'[packets[q].buffer] = bytes[packets[q].buffer]
    BY <1>8, <2>2, <2>3
  <2>5. Holds(bytes, packets[q]) = Backend!Datagram(q, taken[q])
    BY <2>1, ReadersFacts DEF Delivered
  <2> QED
    BY <2>1, <2>4, <2>5 DEF Holds
<1>18. Delivered'
  <2>1. \A q \in Readers : seen[q] = [j \in 1..Len(seen[q]) |-> Backend!Datagram(q, j)]
    BY ReadersFacts DEF Delivered
  <2> QED
    BY <1>1, <1>16, <1>17, <2>1 DEF Delivered
<1> QED
  BY <1>8, <1>10, <1>11, <1>12, <1>13, <1>14, <1>18 DEF ReadersInv

\* handle_backend_datagram: the first of the line has been seen.
LEMMA HandleStep ==
  ASSUME ReadersInv, Backend!Handle PROVE ReadersInv'
<1> DEFINE L == Backend!Line
<1>1. /\ pc \in [Readers -> States] /\ Waiting(pc, waiters) /\ permits \in Nat
      /\ permits + Cardinality(Hold(pc)) + Len(received) = Capacity
      /\ packets \in [Readers -> Backend!Packets]
      /\ received \in Seq(Entry) /\ handled \in Seq(Entry) /\ Len(handled) \in Nat /\ Len(handled) <= 1
      /\ seen \in [Readers -> Seq(Seq(Content))] /\ taken \in [Readers -> 0..MaxSent]
  BY ReadersFacts, ReaderTypes DEF Places
<1>2. PICK d \in Backend!ToSet(handled) :
        /\ seen' = [seen EXCEPT ![d.conn_id] = Append(@, Backend!Deref(d.packet))]
        /\ handled' = <<>> /\ Backend!Release(d.packet.buffer)
        /\ UNCHANGED <<pc, permits, waiters, received, packets, taken, sent, errors, ready, aborted>>
  BY DEF Backend!Handle, Backend!sockets, Backend!queue
<1>3. Len(handled) = 1 /\ d = handled[1] /\ d \in Entry
  <2>1. PICK n \in 1..Len(handled) : d = handled[n]
    BY <1>1 DEF Backend!ToSet
  <2>2. n = 1 /\ Len(handled) = 1
    <3> DEFINE h == Len(handled)
    <3>1. h \in Nat /\ h <= 1 /\ n \in 1..h
      BY <1>1
    <3> HIDE DEF h
    <3>2. n = 1 /\ h = 1
      BY <3>1
    <3> QED
      BY <3>2 DEF h
  <2> QED
    BY <1>1, <2>1, <2>2, ElementOfSeq
<1>4. L = <<d>> \o received /\ L' = received
  <2>1. handled = <<d>>
    BY <1>1, <1>3
  <2>2. <<>> \o received = received
    BY <1>1
  <2> QED
    BY <1>2, <2>1, <2>2 DEF Backend!Line
<1>5. L \in Seq(Entry) /\ L /= <<>> /\ L[1] = d /\ L' = Tail(L)
  BY <1>1, <1>3, <1>4
<1> DEFINE b == d.packet.buffer
           c == d.conn_id
           l == Len(L')
           lo == Len(seen[c])
           x == Holds(bytes, d.packet)
           hi == Backend!Forwarded(c)
<1>6. l \in Nat /\ Len(L) = l + 1 /\ \A n \in 1..l : L'[n] = L[n + 1]
  BY <1>5, HeadTailProperties
<1>7. c \in Readers /\ d.packet \in Backend!Packets
  BY <1>3 DEF Entry
<1>8. lo \in Nat /\ hi \in Int /\ lo <= hi /\ hi \in Nat
  <2>1. lo \in Nat /\ taken[c] \in Nat
    BY <1>1, <1>7, LenProperties
  <2>2. lo <= hi
    BY <1>7, ReadersFacts DEF Delivered, Whole
  <2>3. hi \in Int
    BY <2>1 DEF Backend!Forwarded
  <2> HIDE DEF lo, hi
  <2> QED
    BY <2>1, <2>2, <2>3
<1> HIDE DEF l, L
<1>9. \A n \in 1..l : n + 1 \in 1..l + 1 /\ n + 1 /= 1
  BY <1>6
<1>10. Queued(1, b) /\ b \in Backend!Buffers
  <2>1. 1 \in 1..Len(L)
    BY <1>6
  <2> QED
    BY <1>5, <2>1, ReadersFacts DEF Queued, Carried, L
<1>11. /\ cache' \in Seq(Backend!Buffers) /\ Len(cache') <= MaxCached
       /\ bytes' \in [Backend!Buffers -> [1..2 -> Content]]
       /\ \A y \in Backend!Buffers : y /= b => bytes'[y] = bytes[y]
       /\ \A n, y : Cached(n, y)' => Cached(n, y) \/ (n = Len(cache) + 1 /\ y = b)
  BY <1>2, <1>10, ReleaseIs
<1>12. /\ NumberOf(bytes, d) = lo + 1 /\ lo < hi
       /\ x = Backend!Datagram(c, lo + 1)
       /\ InOrder(bytes, L') /\ InLine(bytes, L', c, lo + 1, hi)
       /\ \A q, a, z : q /= c /\ InLine(bytes, L, q, a, z) => InLine(bytes, L', q, a, z)
  <2>1. InOrder(bytes, L) /\ InLine(bytes, L, L[1].conn_id, lo, hi)
    BY <1>5, <1>7, ReadersFacts DEF Delivered, Whole, L
  <2> HIDE DEF lo, hi
  <2>2. /\ NumberOf(bytes, L[1]) = lo + 1 /\ lo < hi
        /\ Holds(bytes, L[1].packet) = Backend!Datagram(L[1].conn_id, lo + 1)
        /\ InOrder(bytes, Tail(L)) /\ InLine(bytes, Tail(L), L[1].conn_id, lo + 1, hi)
        /\ \A q, a, z : q /= L[1].conn_id /\ InLine(bytes, L, q, a, z) => InLine(bytes, Tail(L), q, a, z)
    BY <1>5, <1>8, <2>1, TailLine
  <2> QED
    BY <1>5, <2>2
<1>13. Backend!Deref(d.packet) = x
  BY DEF Backend!Deref, Holds
<1>14. x \in Seq(Content)
  BY <1>7, <1>8, <1>12, DatagramIs
<1> HIDE DEF x, hi
<1>15. /\ seen' \in [Readers -> Seq(Seq(Content))] /\ seen'[c] = Append(seen[c], x)
       /\ \A q \in Readers : q /= c => seen'[q] = seen[q]
  <2>1. Append(seen[c], x) \in Seq(Seq(Content))
    <3>1. seen[c] \in Seq(Seq(Content))
      BY <1>1, <1>7
    <3> QED
      BY <1>14, <3>1, AppendProperties
  <2>2. seen' = [seen EXCEPT ![c] = Append(seen[c], x)]
    BY <1>2, <1>13
  <2> QED
    BY <1>1, <1>7, <2>1, <2>2
<1>16. /\ Len(seen'[c]) = lo + 1 /\ seen'[c] = [j \in 1..lo + 1 |-> Backend!Datagram(c, j)]
  <2> DEFINE s == seen[c]
             t == seen'[c]
             f == [j \in 1..lo + 1 |-> Backend!Datagram(c, j)]
  <2>1. s \in Seq(Seq(Content)) /\ s = [j \in 1..lo |-> Backend!Datagram(c, j)]
    BY <1>1, <1>7, ReadersFacts DEF Delivered
  <2>2. /\ t \in Seq(Seq(Content)) /\ Len(t) = lo + 1 /\ t[lo + 1] = x
        /\ \A j \in 1..lo : t[j] = s[j]
    <3>1. t = Append(s, x)
      BY <1>15
    <3> QED
      BY <1>14, <2>1, <3>1, AppendProperties
  <2>3. \A j \in 1..lo : s[j] = Backend!Datagram(c, j)
    BY <2>1
  <2>4. DOMAIN t = 1..lo + 1
    BY <2>2, LenProperties
  <2> HIDE DEF s, lo
  <2>5. \A j \in 1..lo + 1 : t[j] = Backend!Datagram(c, j)
    <3> SUFFICES ASSUME NEW j \in 1..lo + 1 PROVE t[j] = Backend!Datagram(c, j)
      OBVIOUS
    <3>1. j = lo + 1 \/ j \in 1..lo
      BY <1>8
    <3> QED
      BY <1>12, <2>2, <2>3, <3>1
  <2>6. t = [j \in DOMAIN t |-> t[j]]
    BY <1>7, <1>15, <2>2, LenProperties
  <2>7. t = f
    BY <2>4, <2>5, <2>6
  <2> QED
    BY <2>2, <2>7
<1> HIDE DEF lo
<1>17. Types'
  <2>1. /\ waiters \in Seq(Readers) /\ sent \in [Readers -> 0..MaxSent]
        /\ ready \in [Readers -> BOOLEAN] /\ errors \subseteq Readers /\ aborted \subseteq Readers
        /\ permits \in 0..Capacity
    BY ReadersFacts, ReaderTypes DEF Types, Backend!TypeOK
  <2>2. handled' \in Seq(Entry) /\ Len(handled') <= 1
    BY <1>2
  <2> QED
    BY <1>1, <1>2, <1>11, <1>15, <2>1, <2>2, TypesStay
<1>18. Places' /\ Waiting(pc', waiters')
  BY <1>1, <1>2 DEF Places
<1>19. Carried'
  <2>1. Carried
    BY ReadersFacts
  <2>2. ASSUME NEW n \in 1..l PROVE L'[n].packet.buffer \in Backend!Buffers
    BY <1>6, <1>9, <2>1 DEF Carried, L
  <2> QED
    BY <1>2, <2>1, <2>2 DEF Carried, L, l
<1>20. \A n, y : Queued(n, y)' => n + 1 \in 1..l + 1 /\ Queued(n + 1, y) /\ n + 1 /= 1 /\ n \in Int
  <2> SUFFICES ASSUME NEW n, NEW y, Queued(n, y)'
               PROVE  n + 1 \in 1..l + 1 /\ Queued(n + 1, y) /\ n + 1 /= 1 /\ n \in Int
    OBVIOUS
  <2>1. n \in 1..l /\ L'[n].packet.buffer = y
    BY DEF Queued, L, l
  <2>2. n + 1 \in 1..l + 1 /\ n + 1 /= 1 /\ L'[n] = L[n + 1]
    BY <1>6, <1>9, <2>1
  <2>3. Queued(n + 1, y)
    BY <1>6, <2>1, <2>2 DEF Queued, L
  <2> QED
    BY <2>1, <2>2, <2>3
<1>21. Distinct'
  <2>1. \A q, y : Own(q, y)' => Own(q, y)
    BY <1>2 DEF Own
  <2>2. Distinct
    BY ReadersFacts
  <2>3. \A n, y : Cached(n, y)' => Cached(n, y) \/ (n = Len(cache) + 1 /\ Queued(1, y))
    BY <1>10, <1>11
  <2>4. ASSUME NEW y, NEW m, NEW n, Queued(m, y)', Queued(n, y)' PROVE m = n
    <3>1. m \in Int /\ n \in Int /\ Queued(m + 1, y) /\ Queued(n + 1, y)
      BY <1>20, <2>4
    <3>2. m + 1 = n + 1
      BY <2>2, <3>1 DEF Distinct
    <3> QED
      BY <3>1, <3>2
  <2>5. ASSUME NEW y, NEW m, NEW n, Queued(m, y)', Cached(n, y)' PROVE FALSE
    <3>1. Queued(m + 1, y) /\ m + 1 /= 1
      BY <1>20, <2>5
    <3> QED
      BY <2>2, <2>3, <2>5, <3>1 DEF Distinct
  <2>6. ASSUME NEW y, NEW m, NEW n, Cached(m, y)', Cached(n, y)' PROVE m = n
    BY <2>2, <2>3, <2>6 DEF Distinct
  <2>7. ASSUME NEW y, NEW q, NEW n, Own(q, y)', Queued(n, y)' PROVE FALSE
    <3>1. Queued(n + 1, y) /\ Own(q, y)
      BY <1>20, <2>1, <2>7
    <3> QED
      BY <2>2, <3>1 DEF Distinct
  <2>8. ASSUME NEW y, NEW q, NEW n, Own(q, y)', Cached(n, y)' PROVE FALSE
    BY <2>1, <2>2, <2>3, <2>8 DEF Distinct
  <2>9. ASSUME NEW y, NEW q, NEW p, Own(q, y)', Own(p, y)' PROVE p = q
    BY <2>1, <2>2, <2>9 DEF Distinct
  <2> QED
    BY <2>4, <2>5, <2>6, <2>7, <2>8, <2>9 DEF Distinct
<1>22. ASSUME NEW n \in 1..l
       PROVE  bytes'[L'[n].packet.buffer] = bytes[L'[n].packet.buffer]
  <2>1. L'[n].packet.buffer \in Backend!Buffers
    BY <1>19 DEF Carried, L, l
  <2>2. Queued(n + 1, L'[n].packet.buffer) /\ n + 1 /= 1
    BY <1>6, <1>9 DEF Queued, L
  <2>3. L'[n].packet.buffer /= b
    BY <1>10, <2>2, ReadersFacts DEF Distinct
  <2> QED
    BY <1>11, <2>1, <2>3
<1>23. /\ InOrder(bytes', L')
       /\ \A q, a, z : InLine(bytes, L', q, a, z) => InLine(bytes', L', q, a, z)
  <2>1. \A n \in 1..Len(L') : bytes'[L'[n].packet.buffer] = bytes[L'[n].packet.buffer]
    BY <1>22 DEF l
  <2> QED
    BY <1>12, <2>1, OtherBytes
<1>24. Whole(bytes, Backend!Line)'
  <2>1. ASSUME NEW q \in Readers
        PROVE  /\ InLine(bytes', L', q, Len(seen'[q]), Backend!Forwarded(q)')
               /\ Len(seen'[q]) <= Backend!Forwarded(q)'
    <3>1. Backend!Forwarded(q)' = Backend!Forwarded(q)
      BY <1>2 DEF Backend!Forwarded
    <3>2. CASE q = c
      <4>1. Backend!Forwarded(q) = hi /\ Len(seen'[q]) = lo + 1
        BY <1>16, <3>2 DEF hi
      <4>2. lo + 1 <= hi
        BY <1>8, <1>12
      <4>3. InLine(bytes', L', c, lo + 1, hi)
        BY <1>12, <1>23
      <4> QED
        BY <3>1, <3>2, <4>1, <4>2, <4>3
    <3>3. CASE q /= c
      <4>1. Len(seen'[q]) = Len(seen[q])
        BY <1>15, <3>3
      <4>2. InLine(bytes, L, q, Len(seen[q]), Backend!Forwarded(q)) /\ Len(seen[q]) <= Backend!Forwarded(q)
        BY ReadersFacts DEF Delivered, Whole, L
      <4>3. InLine(bytes', L', q, Len(seen[q]), Backend!Forwarded(q))
        BY <1>12, <1>23, <3>3, <4>2
      <4> QED
        BY <3>1, <4>1, <4>2, <4>3
    <3> QED
      BY <3>2, <3>3
  <2> QED
    BY <1>23, <2>1 DEF Whole, L
<1>25. ASSUME NEW q \in Readers, pc'[q] = "send"
       PROVE  Holds(bytes', packets'[q]) = Backend!Datagram(q, taken'[q])
  <2>1. pc[q] = "send" /\ packets'[q] = packets[q] /\ taken'[q] = taken[q]
    BY <1>2, <1>25
  <2>2. Own(q, packets[q].buffer) /\ packets[q].buffer \in Backend!Buffers
    BY <2>1, StateFacts, ReadersFacts DEF Own, Carried
  <2>3. packets[q].buffer /= b
    BY <1>10, <2>2, ReadersFacts DEF Distinct
  <2>4. bytes'[packets[q].buffer] = bytes[packets[q].buffer]
    BY <1>11, <2>2, <2>3
  <2>5. Holds(bytes, packets[q]) = Backend!Datagram(q, taken[q])
    BY <2>1, ReadersFacts DEF Delivered
  <2> QED
    BY <2>1, <2>4, <2>5 DEF Holds
<1>26. ASSUME NEW q \in Readers PROVE seen'[q] = [j \in 1..Len(seen'[q]) |-> Backend!Datagram(q, j)]
  <2>1. CASE q = c
    BY <1>16, <2>1
  <2>2. CASE q /= c
    BY <1>15, <2>2, ReadersFacts DEF Delivered
  <2> QED
    BY <2>1, <2>2
<1>27. Delivered'
  BY <1>24, <1>25, <1>26 DEF Delivered
<1> QED
  BY <1>11, <1>17, <1>18, <1>19, <1>21, <1>27 DEF ReadersInv

-----------------------------------------------------------------------------
(* BackendReaders: the theorem. *)

\* Before the first step all places are free and nobody has a buffer.
LEMMA ReadersInit ==
  ASSUME Backend!Init PROVE ReadersInv
<1>1. /\ pc = [r \in Readers |-> "readable"] /\ permits = Capacity /\ waiters = <<>> /\ received = <<>>
      /\ cache = <<>> /\ packets = [r \in Readers |-> Backend!None] /\ handled = <<>>
      /\ seen = [r \in Readers |-> <<>>] /\ taken = [r \in Readers |-> 0] /\ sent = [r \in Readers |-> 0]
      /\ bytes = [b \in Backend!Buffers |-> Backend!Zeros] /\ ready = [r \in Readers |-> FALSE]
      /\ errors = {} /\ aborted = {}
  BY DEF Backend!Init
<1>2. Capacity \in Nat /\ MaxSent \in Nat /\ MaxCached \in Nat /\ MaxBuffers \in Nat
  BY ReaderAssumption
<1>3. "readable" \in States /\ "readable" \notin Holding /\ "readable" \notin Carrying
  BY StateFacts
<1>4. Backend!Line = <<>> /\ Len(Backend!Line) = 0
  BY <1>1 DEF Backend!Line
<1>5. Types
  <2>1. Backend!Zeros \in [1..2 -> Content]
    BY DEF Backend!Zeros, Backend!BufferSize, Content
  <2>2. Backend!None \in Backend!Packets
    BY <1>2 DEF Backend!None, Backend!Packets, Backend!BufferSize
  <2>3. bytes \in [Backend!Buffers -> [1..2 -> Content]] /\ DOMAIN bytes = Backend!Buffers
    BY <1>1, <2>1
  <2>4. packets \in [Readers -> Backend!Packets]
    BY <1>1, <2>2
  <2>5. pc \in [Readers -> States] /\ ready \in [Readers -> BOOLEAN]
    BY <1>1, <1>3
  <2>6. taken \in [Readers -> 0..MaxSent] /\ sent \in [Readers -> 0..MaxSent] /\ permits \in 0..Capacity
    BY <1>1, <1>2
  <2>7. /\ seen \in [Readers -> Seq(Seq(Content))] /\ waiters \in Seq(Readers) /\ received \in Seq(Entry)
        /\ cache \in Seq(Backend!Buffers) /\ handled \in Seq(Entry) /\ Len(handled) <= 1
    BY <1>1
  <2> QED
    BY <1>1, <2>3, <2>4, <2>5, <2>6, <2>7 DEF Types, Backend!TypeOK, States, Entry
<1>6. Places
  <2>1. Hold(pc) = {} /\ Len(received) = 0
    BY <1>1, <1>3 DEF Hold
  <2>2. Cardinality(Hold(pc)) = 0
    BY <2>1, FS_EmptySet
  <2> QED
    BY <1>1, <1>2, <2>1, <2>2 DEF Places
<1>7. Waiting(pc, waiters)
  BY <1>1 DEF Waiting
<1>8. Carried /\ Distinct
  <2>1. 1..Len(Backend!Line) = {} /\ 1..Len(cache) = {}
    BY <1>1, <1>4
  <2>2. \A b, r, n : ~Own(r, b) /\ ~Queued(n, b) /\ ~Cached(n, b)
    BY <1>1, <1>3, <2>1 DEF Own, Queued, Cached
  <2>3. Distinct
    BY <2>2 DEF Distinct
  <2>4. Carried
    BY <1>1, <1>3, <2>1 DEF Carried
  <2> QED
    BY <2>3, <2>4
<1>9. Delivered
  <2>1. 1..Len(Backend!Line) = {} /\ 0 + 1 .. 0 = {}
    BY <1>4
  <2>2. \A r \in Readers : seen[r] = <<>> /\ Len(seen[r]) = 0 /\ Backend!Forwarded(r) = 0
    BY <1>1 DEF Backend!Forwarded
  <2>3. Whole(bytes, Backend!Line)
    BY <2>1, <2>2 DEF Whole, InOrder, InLine
  <2>4. \A r \in Readers : seen[r] = [k \in 1..Len(seen[r]) |-> Backend!Datagram(r, k)]
    <3> SUFFICES ASSUME NEW r \in Readers PROVE seen[r] = [k \in 1..Len(seen[r]) |-> Backend!Datagram(r, k)]
      OBVIOUS
    <3>1. seen[r] = <<>> /\ 1..Len(seen[r]) = {}
      BY <2>2
    <3> QED
      BY <3>1
  <2> QED
    BY <1>1, <2>3, <2>4 DEF Delivered
<1>10. Len(cache) <= MaxCached
  BY <1>1, <1>2
<1> QED
  BY <1>5, <1>6, <1>7, <1>8, <1>9, <1>10 DEF ReadersInv

\* Every step of the tasks, the sockets and mainloop preserves the invariant.
LEMMA ReadersStep ==
  ASSUME ReadersInv, [UdpNext]_all PROVE ReadersInv'
<1>1. CASE Backend!Next
  <2>1. ASSUME NEW r \in Readers, Backend!Reader(r) PROVE ReadersInv'
    BY <2>1, ReserveStep, ResumeStep, AcquireStep, RecvOkStep, SendStep, WouldBlockStep, DropPacketStep,
       DropPermitStep DEF Backend!Reader
  <2>2. ASSUME NEW r \in Readers, Backend!Environment(r) PROVE ReadersInv'
    BY <2>2, SocketStep, AbortStep DEF Backend!Environment
  <2> QED
    BY <1>1, <2>1, <2>2, BackendRecvStep, HandleStep DEF Backend!Next
<1>2. CASE UNCHANGED backend
  <2>1. UNCHANGED <<pc, sent, taken, ready, permits, waiters, received, errors, aborted, cache, bytes,
                    packets, handled, seen>>
    BY <1>2 DEF backend
  <2>2. Backend!Line' = Backend!Line
    BY <2>1 DEF Backend!Line
  <2>3. /\ pc \in [Readers -> States] /\ Waiting(pc, waiters) /\ permits \in Nat
        /\ permits + Cardinality(Hold(pc)) + Len(received) = Capacity
        /\ received \in Seq(Entry) /\ handled \in Seq(Entry) /\ Len(handled) <= 1
        /\ sent \in [Readers -> 0..MaxSent] /\ errors \subseteq Readers
        /\ ready \in [Readers -> BOOLEAN] /\ aborted \subseteq Readers
    BY ReadersFacts, ReaderTypes DEF Places
  <2> QED
    BY <2>1, <2>2, <2>3, ControlStep
<1> QED
  BY <1>1, <1>2 DEF UdpNext, all

\* What the invariant says of the buffers and of the datagrams.
LEMMA ReadersKeep ==
  ASSUME ReadersInv PROVE BuffersKept
<1> DEFINE L == Backend!Line
           l == Len(L)
<1>1. Backend!BuffersBounded
  <2>1. Backend!HoldsPermit = Hold(pc)
    BY DEF Backend!HoldsPermit, Hold, Holding
  <2>2. Backend!TypeOK /\ permits + Cardinality(Hold(pc)) + Len(received) = Capacity /\ Len(cache) <= MaxCached
    BY ReadersFacts DEF Types, Places
  <2>3. Cardinality(Backend!CheckedOut \ {0}) <= Capacity + 1
    BY InUseBound
  <2>4. ASSUME NEW S PROVE Backend!Cardinality(S) = Cardinality(S)
    BY DEF Backend!Cardinality, Cardinality
  <2> QED
    BY <2>1, <2>2, <2>3, <2>4 DEF Backend!BuffersBounded
<1>2. L \in Seq(Entry) /\ DOMAIN L = 1..l
  BY ReadersFacts, LineFacts, LenProperties
<1>3. \A p : Backend!Deref(p) = Holds(bytes, p)
  BY DEF Backend!Deref, Holds
<1>4. \A d : Backend!Number(d) = NumberOf(bytes, d)
  BY <1>3 DEF Backend!Number, NumberOf
<1>5. InOrder(bytes, L) /\ \A r \in Readers : InLine(bytes, L, r, Len(seen[r]), Backend!Forwarded(r))
  BY ReadersFacts DEF Delivered, Whole
<1>6. \A r \in Readers : /\ seen[r] = [k \in 1..Len(seen[r]) |-> Backend!Datagram(r, k)]
                         /\ pc[r] = "send" => Backend!Deref(packets[r]) = Backend!Datagram(r, taken[r])
  BY <1>3, ReadersFacts DEF Delivered
<1> HIDE DEF L
<1>7. \A n \in DOMAIN L : Backend!Deref(L[n].packet) = Backend!Datagram(L[n].conn_id, Backend!Number(L[n]))
  BY <1>2, <1>3, <1>4, <1>5 DEF InOrder
<1>8. \A m, n \in DOMAIN L : m < n /\ L[m].conn_id = L[n].conn_id => Backend!Number(L[m]) < Backend!Number(L[n])
  BY <1>2, <1>4, <1>5 DEF InOrder
<1>9. ASSUME NEW r \in Readers
      PROVE  {Backend!Number(L[n]) : n \in {m \in DOMAIN L : L[m].conn_id = r}}
               = Len(seen[r]) + 1 .. Backend!Forwarded(r)
  <2>1. \A k : (\E n \in DOMAIN L : L[n].conn_id = r /\ Backend!Number(L[n]) = k)
                 <=> k \in Len(seen[r]) + 1 .. Backend!Forwarded(r)
    BY <1>2, <1>4, <1>5 DEF InLine
  <2> QED
    BY <2>1
<1>10. Backend!NothingLost
  BY <1>6, <1>7, <1>8, <1>9 DEF Backend!NothingLost, L
<1> QED
  BY <1>1, <1>10 DEF BuffersKept

(* BackendReaders: however many paths, places and buffers there are, the   *)
(* buffers in use are bounded by the places in the channel, no place is    *)
(* lost, and what a reader has received reaches handle_backend_datagram    *)
(* complete, once and in order.                                            *)
THEOREM BuffersAreKept == UdpSpec => []BuffersKept
<1>1. UdpInit => ReadersInv
  BY ReadersInit DEF UdpInit
<1>2. ReadersInv /\ [UdpNext]_all => ReadersInv'
  BY ReadersStep
<1>3. ReadersInv => BuffersKept
  BY ReadersKeep
<1> QED
  BY <1>1, <1>2, <1>3, PTL DEF UdpSpec
=============================================================================
