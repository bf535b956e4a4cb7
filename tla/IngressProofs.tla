---------------------------- MODULE IngressProofs ----------------------------
(***************************************************************************)
(* Proofs about Ingress: the accept loop keeps its backoff, for every      *)
(* longest delay, and a connection passed between routers has one owner,   *)
(* for every set of connections and every limit of descriptors.            *)
(***************************************************************************)
EXTENDS Ingress, SetLemmas, SequenceTheorems, FiniteSetTheorems, TLAPS

-----------------------------------------------------------------------------
(* AcceptLoop. *)

\* The retry deadline is what is left of the delay, and the failures in a row
\* have doubled it as often; once there are as many as are counted, it is the
\* longest.
LoopInv ==
  /\ Backoff
  /\ due = 0 \/ retry_at = {due}
  /\ streak = 0 => delay = 0
  /\ streak > 0 => Doubled[streak - 1] \in Nat /\ Doubled[streak - 1] >= streak

\* Doubled is the function its definition says: a recursive function is one by
\* CHOOSE, and the smallest domain on which there were none would not be.
LEMMA DoubledExists ==
  Doubled = [n \in 0..MaxDelay |-> IF n = 0 THEN 1 ELSE 2 * Doubled[n - 1]]
<1> DEFINE Is(k, f) == f = [n \in 0..k |-> IF n = 0 THEN 1 ELSE 2 * f[n - 1]]
           Wrong == {k \in 0..MaxDelay : ~ \E f : Is(k, f)}
<1>1. Wrong = {}
  <2> SUFFICES ASSUME Wrong # {} PROVE FALSE
    OBVIOUS
  <2>1. Wrong \subseteq Nat
    BY DelayAssumption
  <2>2. PICK k \in Wrong : \A j \in Wrong : k <= j
    <3> HIDE DEF Wrong
    <3> QED
      BY <2>1, MinNat
  <2>3. k \in 0..MaxDelay /\ ~ \E f : Is(k, f)
    OBVIOUS
  <2>4. CASE k = 0
    <3>1. Is(0, [n \in 0..0 |-> 1])
      OBVIOUS
    <3> QED
      BY <2>3, <2>4, <3>1
  <2>5. CASE k # 0
    <3>1. k - 1 \in 0..MaxDelay /\ k - 1 \notin Wrong
      <4> HIDE DEF Wrong
      <4> QED
        BY <2>2, <2>3, <2>5, DelayAssumption
    <3>2. PICK g : Is(k - 1, g)
      BY <3>1
    <3> DEFINE h == [n \in 0..k |-> IF n = k THEN 2 * g[k - 1] ELSE g[n]]
    <3>3. ASSUME NEW n \in 0..k
          PROVE  h[n] = IF n = 0 THEN 1 ELSE 2 * h[n - 1]
      <4>1. CASE n = k
        <5>1. k - 1 \in 0..k /\ k - 1 # k
          BY <2>3, <2>5
        <5> QED
          BY <2>5, <4>1, <5>1
      <4>2. CASE n # k
        <5>1. n \in 0..k - 1 /\ (n # 0 => n - 1 \in 0..k /\ n - 1 # k)
          BY <2>3, <4>2
        <5>2. g[n] = IF n = 0 THEN 1 ELSE 2 * g[n - 1]
          BY <3>2, <5>1
        <5> QED
          BY <4>2, <5>1, <5>2
      <4> QED
        BY <4>1, <4>2
    <3>4. Is(k, h)
      <4>1. h = [n \in 0..k |-> h[n]]
        OBVIOUS
      <4> HIDE DEF h
      <4> QED
        BY <3>3, <4>1
    <3> QED
      BY <2>3, <3>4
  <2> QED
    BY <2>4, <2>5
<1>2. MaxDelay \in 0..MaxDelay /\ MaxDelay \notin Wrong
  <2> HIDE DEF Wrong
  <2> QED
    BY <1>1, DelayAssumption
<1>3. \E f : Is(MaxDelay, f)
  BY <1>2
<1>4. Is(MaxDelay, Doubled)
  BY <1>3 DEF Doubled
<1> QED
  BY <1>4

\* The powers of two, as far as failures are counted.
LEMMA DoubledStep ==
  /\ Doubled[0] = 1
  /\ \A n \in 1..MaxDelay : Doubled[n] = 2 * Doubled[n - 1]
<1>1. 0 \in 0..MaxDelay
  BY DelayAssumption
<1> HIDE DEF Doubled
<1>2. Doubled[0] = 1
  BY <1>1, DoubledExists
<1>3. ASSUME NEW n \in 1..MaxDelay PROVE Doubled[n] = 2 * Doubled[n - 1]
  <2>1. n \in 0..MaxDelay /\ n # 0
    BY DelayAssumption
  <2> QED
    BY <2>1, DoubledExists
<1> QED
  BY <1>2, <1>3

\* A failure doubles the delay, up to the longest, and sets the deadline.
LEMMA FailsInv ==
  ASSUME LoopInv, AcceptFails
  PROVE  LoopInv'
<1> USE DelayAssumption
<1> DEFINE D == Doubled[streak - 1]
<1>1. /\ delay \in Nat /\ delay <= MaxDelay /\ streak \in Nat /\ streak <= MaxDelay
      /\ MaxDelay \in Nat /\ MaxDelay >= 1
  BY DEF LoopInv, Backoff, BackoffKept, TypeOK
<1>2. /\ streak' = IF streak < MaxDelay THEN streak + 1 ELSE streak
      /\ delay' = NextDelay /\ retry_at' = {delay'} /\ due' = delay' /\ accepting' = "start"
  BY DEF AcceptFails
<1>3. /\ streak > 0 => D \in Nat /\ D >= streak
      /\ streak > 0 => delay = IF D < MaxDelay THEN D ELSE MaxDelay
      /\ streak = 0 => delay = 0
  BY DEF LoopInv, Backoff, BackoffGrows
<1>4. NextDelay \in Nat /\ NextDelay <= MaxDelay
  BY <1>1 DEF NextDelay
<1>5. TypeOK'
  BY <1>1, <1>2, <1>4 DEF TypeOK
<1>6. CASE streak = 0
  <2>1. streak' = 1 /\ delay' = 1 /\ Doubled[streak' - 1] = 1
    BY <1>1, <1>2, <1>3, <1>6, DoubledStep DEF NextDelay
  <2>2. BackoffGrows'
    BY <1>1, <2>1 DEF BackoffGrows
  <2> QED
    BY <1>2, <1>5, <2>1, <2>2 DEF LoopInv, Backoff, BackoffKept
<1>7. CASE streak > 0 /\ streak < MaxDelay
  <2>1. streak' = streak + 1 /\ streak' - 1 = streak /\ streak \in 1..MaxDelay
    BY <1>1, <1>2, <1>7
  <2>2. Doubled[streak' - 1] = 2 * D
    BY <2>1, DoubledStep
  <2> HIDE DEF D
  <2>3. 2 * D \in Nat /\ 2 * D >= streak + 1
    BY <1>1, <1>3, <1>7
  <2>4. delay' = IF 2 * D < MaxDelay THEN 2 * D ELSE MaxDelay
    BY <1>1, <1>2, <1>3, <1>7 DEF NextDelay
  <2>5. BackoffGrows'
    BY <2>2, <2>4 DEF BackoffGrows
  <2>6. streak' # 0
    BY <1>1, <2>1
  <2> QED
    BY <1>2, <1>5, <2>1, <2>2, <2>3, <2>5, <2>6 DEF LoopInv, Backoff, BackoffKept
<1>8. CASE streak = MaxDelay
  <2>1. streak' = streak /\ delay = MaxDelay /\ delay' = MaxDelay
    BY <1>1, <1>2, <1>3, <1>8 DEF NextDelay
  <2>2. BackoffGrows'
    BY <2>1 DEF LoopInv, Backoff, BackoffGrows
  <2> QED
    BY <1>1, <1>2, <1>3, <1>5, <1>8, <2>1, <2>2 DEF LoopInv, Backoff, BackoffKept
<1> QED
  BY <1>1, <1>6, <1>7, <1>8

\* Time runs off the deadline and the delay alike.
LEMMA TickInv ==
  ASSUME LoopInv, Tick
  PROVE  LoopInv'
<1>1. due \in 0..MaxDelay /\ due' = IF due = 0 THEN 0 ELSE due - 1
  BY DEF LoopInv, Backoff, BackoffKept, TypeOK, Tick
<1>2. retry_at' = {IF t = 0 THEN 0 ELSE t - 1 : t \in retry_at}
  BY DEF Tick
<1>3. due' \in 0..MaxDelay
  BY <1>1, DelayAssumption
<1>4. retry_at' \in {{}} \cup {{t} : t \in 0..MaxDelay}
  <2>1. CASE retry_at = {}
    BY <1>2, <2>1
  <2>2. ASSUME NEW t \in 0..MaxDelay, retry_at = {t}
        PROVE  retry_at' \in {{u} : u \in 0..MaxDelay}
    <3>1. (IF t = 0 THEN 0 ELSE t - 1) \in 0..MaxDelay
      BY DelayAssumption
    <3>2. retry_at' = {IF t = 0 THEN 0 ELSE t - 1}
      BY <1>2, <2>2
    <3> QED
      BY <3>1, <3>2
  <2> QED
    BY <2>1, <2>2 DEF LoopInv, Backoff, BackoffKept, TypeOK
<1>5. due' = 0 \/ retry_at' = {due'}
  <2>1. CASE due = 0
    BY <1>1, <2>1
  <2>2. CASE due # 0
    <3>1. retry_at = {due}
      BY <2>2 DEF LoopInv
    <3> QED
      BY <1>1, <1>2, <2>2, <3>1
  <2> QED
    BY <2>1, <2>2
<1> QED
  BY <1>1, <1>3, <1>4, <1>5
     DEF Tick, LoopInv, Backoff, BackoffKept, BackoffGrows, TypeOK

\* Every step of the accept loop preserves the invariant.
LEMMA LoopNextInv ==
  ASSUME LoopInv, [Next]_vars
  PROVE  LoopInv'
<1> USE DEF LoopInv, Backoff, BackoffKept, BackoffGrows, TypeOK
<1>1. CASE UNCHANGED vars
  BY <1>1 DEF vars
<1>2. CASE Start
  BY <1>2 DEF Start, Rearm
<1>3. CASE Wake
  <2>1. due = 0
    BY <1>3 DEF Wake
  <2> QED
    BY <1>3, <2>1 DEF Wake
<1>4. CASE AcceptOk
  <2>1. 0 \in 0..MaxDelay
    BY DelayAssumption
  <2> QED
    BY <1>4, <2>1 DEF AcceptOk
<1>5. CASE AcceptAborted
  <2>1. 0 \in 0..MaxDelay /\ due = 0
    BY <1>5, DelayAssumption DEF AcceptAborted
  <2> QED
    BY <1>5, <2>1 DEF AcceptAborted
<1>6. CASE Hangup
  BY <1>6 DEF Hangup, Cancelled
<1> QED
  BY <1>1, <1>2, <1>3, <1>4, <1>5, <1>6, FailsInv, TickInv DEF Next

\* Reloads and aborted accepts neither shorten a delay of the accept loop nor
\* end the row of growing ones.
THEOREM BackoffHolds == Spec => []Backoff
<1>1. Init => LoopInv
  <2> SUFFICES ASSUME Init PROVE LoopInv
    OBVIOUS
  <2>1. 0 \in 0..MaxDelay
    BY DelayAssumption
  <2> QED
    BY <2>1 DEF Init, LoopInv, Backoff, BackoffKept, BackoffGrows, TypeOK
<1>2. LoopInv /\ [Next]_vars => LoopInv'
  BY LoopNextInv
<1>3. LoopInv => Backoff
  BY DEF LoopInv
<1> QED
  BY <1>1, <1>2, <1>3, PTL DEF Spec

-----------------------------------------------------------------------------
(* Handoff. *)

Datagram == [fds : Seq(Conns), truncated : BOOLEAN]

\* The n-th datagram of the socket carries a descriptor of c.
Carries(n, c) == \E m \in DOMAIN queue[n].fds : queue[n].fds[m] = c

HandoffType ==
  /\ sender \in [Conns -> {"holds", "sent", "closed"}]
  /\ queue \in Seq(Datagram)
  /\ tasks \in SUBSET Conns /\ IsFiniteSet(tasks)
  /\ leaked \in SUBSET Conns /\ IsFiniteSet(leaked)
  /\ served \in [Conns -> {0, 1}]
  /\ by \in [Conns -> {"nobody", "router", "other"}]

\* A router's datagram has one descriptor; the two of another are not a router's.
Carried ==
  \A n \in DOMAIN queue :
    /\ Len(queue[n].fds) <= 2
    /\ Len(queue[n].fds) = 2 => \A m \in DOMAIN queue[n].fds : by[queue[n].fds[m]] = "other"

\* Where a connection can be: with its sender, in one datagram, or taken.
OnePlace(c) ==
  /\ \A n, m \in DOMAIN queue : Carries(n, c) /\ Carries(m, c) => n = m
  /\ \A n \in DOMAIN queue : Carries(n, c) => served[c] = 0 /\ sender[c] /= "holds"
  /\ sender[c] = "holds" => served[c] = 0 /\ c \notin leaked
  /\ c \in tasks => served[c] = 1
  /\ c \in leaked => by[c] = "other"

HandoffInv ==
  /\ HandoffType /\ Carried
  /\ \A c \in Conns : OnePlace(c)
  /\ Cardinality(leaked) <= FdLimit

\* The Cardinality of the instance is that of FiniteSets.
LEMMA SameCardinality == \A S : Uds!Cardinality(S) = Cardinality(S)
  BY DEF Uds!Cardinality, Cardinality

\* A datagram put on the socket whose descriptors were all with their sender.
LEMMA Appended ==
  ASSUME HandoffInv, NEW d \in Datagram, Len(d.fds) <= 2,
         queue' = Append(queue, d),
         \A m \in DOMAIN d.fds : sender[d.fds[m]] = "holds" /\ sender'[d.fds[m]] # "holds",
         Len(d.fds) = 2 => \A m \in DOMAIN d.fds : by'[d.fds[m]] = "other",
         sender' \in [Conns -> {"holds", "sent", "closed"}],
         by' \in [Conns -> {"nobody", "router", "other"}],
         \A c \in Conns : (\A m \in DOMAIN d.fds : d.fds[m] # c) =>
           by'[c] = by[c] /\ (sender'[c] = "holds" => sender[c] = "holds"),
         \A m \in DOMAIN d.fds : d.fds[m] \in Conns,
         UNCHANGED <<tasks, served, leaked>>
  PROVE  HandoffInv'
<1> USE DEF HandoffInv
<1> DEFINE New(c) == \E m \in DOMAIN d.fds : d.fds[m] = c
<1>0. PICK k : k = Len(queue) + 1
  OBVIOUS
<1>1. /\ queue \in Seq(Datagram) /\ queue' \in Seq(Datagram)
      /\ DOMAIN queue' = DOMAIN queue \cup {k} /\ k \notin DOMAIN queue /\ queue'[k] = d
      /\ \A n \in DOMAIN queue : queue'[n] = queue[n]
  BY <1>0 DEF HandoffType
<1>2. HandoffType'
  BY <1>1 DEF HandoffType
<1>3. ASSUME NEW n \in DOMAIN queue, NEW c
      PROVE  Carries(n, c)' <=> Carries(n, c)
  BY <1>1 DEF Carries
<1>4. ASSUME NEW c
      PROVE  Carries(k, c)' <=> New(c)
  BY <1>1 DEF Carries
<1>5. \A c \in Conns : New(c) => sender[c] = "holds" /\ sender'[c] # "holds"
  OBVIOUS
<1>6. \A c \in Conns : ~New(c) => by'[c] = by[c] /\ (sender'[c] = "holds" => sender[c] = "holds")
  OBVIOUS
<1>7. Carried'
  <2>1. ASSUME NEW n \in DOMAIN queue, NEW m \in DOMAIN queue[n].fds, Len(queue[n].fds) = 2
        PROVE  by'[queue[n].fds[m]] = "other"
    <3>0. queue[n] \in Datagram
      BY <1>1
    <3>1. queue[n].fds[m] \in Conns /\ Carries(n, queue[n].fds[m])
      BY <3>0 DEF Datagram, Carries
    <3>2. ~New(queue[n].fds[m])
      BY <1>5, <3>1 DEF OnePlace
    <3> QED
      BY <1>6, <2>1, <3>1, <3>2 DEF Carried
  <2> QED
    BY <1>1, <2>1 DEF Carried
<1> HIDE DEF New
<1>8. ASSUME NEW c \in Conns
      PROVE  OnePlace(c)'
  <2>0. OnePlace(c)
    OBVIOUS
  <2>1. CASE New(c)
    <3>1. \A n \in DOMAIN queue : ~Carries(n, c)
      BY <1>5, <2>0, <2>1 DEF OnePlace
    <3>2. \A n \in DOMAIN queue' : Carries(n, c)' => n = k
      BY <1>1, <1>3, <3>1
    <3>3. served[c] = 0 /\ c \notin leaked /\ sender'[c] # "holds"
      BY <1>5, <2>0, <2>1 DEF OnePlace
    <3> QED
      BY <2>0, <3>2, <3>3 DEF OnePlace
  <2>2. CASE ~New(c)
    <3>1. \A n \in DOMAIN queue' : Carries(n, c)' => n \in DOMAIN queue /\ Carries(n, c)
      BY <1>1, <1>3, <1>4, <2>2
    <3>2. by'[c] = by[c] /\ (sender'[c] = "holds" => sender[c] = "holds")
      BY <1>6, <2>2
    <3> QED
      BY <2>0, <3>1, <3>2 DEF OnePlace
  <2> QED
    BY <2>1, <2>2
<1> QED
  BY <1>2, <1>7, <1>8

\* The datagrams behind the one taken move up.
LEMMA Shifted ==
  ASSUME HandoffInv, queue # <<>>, queue' = Tail(queue)
  PROVE  /\ queue' \in Seq(Datagram) /\ 1 \in DOMAIN queue /\ queue[1] \in Datagram
         /\ \A n \in DOMAIN queue' :
              n + 1 \in DOMAIN queue /\ n + 1 # 1 /\ queue'[n] = queue[n + 1]
         /\ \A n \in DOMAIN queue' : \A c : Carries(n, c)' <=> Carries(n + 1, c)
<1>1. queue \in Seq(Datagram)
  BY DEF HandoffInv, HandoffType
<1>2. /\ queue' \in Seq(Datagram) /\ 1 \in DOMAIN queue /\ queue[1] \in Datagram
      /\ \A n \in DOMAIN queue' :
           n + 1 \in DOMAIN queue /\ n + 1 # 1 /\ queue'[n] = queue[n + 1]
  BY <1>1
<1> QED
  BY <1>2 DEF Carries

\* A datagram is taken from the socket: its connection is served, or nothing is,
\* and what nobody owns of it is not a router's.
LEMMA Taken ==
  ASSUME HandoffInv, queue # <<>>, queue' = Tail(queue),
         UNCHANGED <<sender, by>>,
         NEW accepted \in SUBSET Conns, \A c \in accepted : Carries(1, c),
         IsFiniteSet(accepted),
         tasks' = tasks \cup accepted,
         served' = [c \in Conns |-> IF c \in accepted THEN served[c] + 1 ELSE served[c]],
         leaked' \in SUBSET Conns, IsFiniteSet(leaked'), Cardinality(leaked') <= FdLimit,
         \A c \in leaked' : c \in leaked \/ (by[c] = "other" /\ Carries(1, c))
  PROVE  HandoffInv'
<1> USE DEF HandoffInv
<1>1. \A c \in accepted : served[c] = 0 /\ c \notin tasks
  BY Shifted DEF OnePlace, HandoffType
<1>2. HandoffType'
  <2>1. IsFiniteSet(tasks')
    BY FS_Union DEF HandoffType
  <2>2. served' \in [Conns -> {0, 1}]
    BY <1>1 DEF HandoffType
  <2> QED
    BY <2>1, <2>2, Shifted DEF HandoffType
<1>3. Carried'
  BY Shifted DEF Carried
<1>4. ASSUME NEW c \in Conns
      PROVE  OnePlace(c)'
  <2>1. OnePlace(c)
    OBVIOUS
  <2>2. ASSUME NEW n \in DOMAIN queue', NEW m \in DOMAIN queue', Carries(n, c)', Carries(m, c)'
        PROVE  n = m
    <3>1. Carries(n + 1, c) /\ Carries(m + 1, c) /\ n + 1 \in DOMAIN queue /\ m + 1 \in DOMAIN queue
      BY <2>2, Shifted
    <3>2. n + 1 = m + 1
      BY <2>1, <3>1 DEF OnePlace
    <3>3. n \in Nat /\ m \in Nat
      BY Shifted
    <3> QED
      BY <3>2, <3>3
  <2>3. ASSUME NEW n \in DOMAIN queue', Carries(n, c)'
        PROVE  served'[c] = 0 /\ sender[c] # "holds"
    <3>1. Carries(n + 1, c) /\ n + 1 \in DOMAIN queue /\ n + 1 # 1 /\ 1 \in DOMAIN queue
      BY <2>3, Shifted
    <3>2. ~Carries(1, c)
      BY <2>1, <3>1 DEF OnePlace
    <3> QED
      BY <2>1, <3>1, <3>2 DEF OnePlace
  <2>4. sender[c] = "holds" => served'[c] = 0 /\ c \notin leaked'
    BY <2>1, Shifted DEF OnePlace
  <2>5. c \in tasks' => served'[c] = 1
    BY <1>1, <2>1 DEF OnePlace
  <2>6. c \in leaked' => by[c] = "other"
    BY <2>1 DEF OnePlace
  <2> QED
    BY <2>2, <2>3, <2>4, <2>5, <2>6 DEF OnePlace
<1> QED
  BY <1>2, <1>3, <1>4

\* recvmsg installs descriptors from the first on.
LEMMA InstalledFacts ==
  ASSUME HandoffInv, NEW fds \in Seq(Conns), Len(fds) <= 2
  PROVE  /\ Uds!Installed(fds) \in Seq(Conns) /\ Len(Uds!Installed(fds)) <= Len(fds)
         /\ \A n \in DOMAIN Uds!Installed(fds) : n \in DOMAIN fds /\ Uds!Installed(fds)[n] = fds[n]
         /\ Len(Uds!Installed(fds)) < Len(fds) =>
              Len(Uds!Installed(fds)) = 0
                \/ Cardinality(leaked) + Len(Uds!Installed(fds)) <= FdLimit
<1> DEFINE room == FdLimit - Cardinality(tasks) - Cardinality(leaked)
           k == IF room < Len(fds) THEN room ELSE Len(fds)
<1>1. Cardinality(tasks) \in Nat /\ Cardinality(leaked) \in Nat /\ FdLimit \in Nat /\ Len(fds) \in Nat
  BY LimitAssumption, FS_CardinalityType DEF HandoffInv, HandoffType
<1>2. k \in Int /\ k <= Len(fds) /\ k <= room
  BY <1>1
<1>3. Uds!Installed(fds) = SubSeq(fds, 1, k)
  BY SameCardinality DEF Uds!Installed
<1> HIDE DEF k
<1>4. CASE k < 1
  <2>1. SubSeq(fds, 1, k) = <<>>
    BY <1>2, <1>4
  <2>2. <<>> \in Seq(Conns) /\ Len(<<>>) = 0 /\ DOMAIN (<<>>) = {}
    OBVIOUS
  <2>3. Uds!Installed(fds) = <<>>
    BY <1>3, <2>1
  <2> QED
    BY <1>1, <2>2, <2>3
<1>5. CASE k >= 1
  <2>1. k \in Nat /\ k \in 1..Len(fds)
    BY <1>1, <1>2, <1>5
  <2>2. /\ SubSeq(fds, 1, k) \in Seq(Conns) /\ Len(SubSeq(fds, 1, k)) = k
        /\ \A n \in 1..k : SubSeq(fds, 1, k)[n] = fds[n]
    BY <2>1
  <2>3. Cardinality(leaked) + k <= FdLimit
    BY <1>1, <1>2
  <2> QED
    BY <1>1, <1>3, <2>1, <2>2, <2>3
<1> QED
  BY <1>2, <1>4, <1>5

\* Every step of the processes preserves the invariant.
LEMMA HandoffNextInv ==
  ASSUME HandoffInv, [Uds!Next]_handoff
  PROVE  HandoffInv'
<1>1. CASE UNCHANGED handoff
  BY <1>1 DEF handoff, HandoffInv, HandoffType, Carried, OnePlace, Carries
<1>2. ASSUME NEW c \in Conns, Uds!PassFd(c)
      PROVE  HandoffInv'
  <2> DEFINE d == [fds |-> <<c>>, truncated |-> c \in Big]
  <2>1. /\ d \in Datagram /\ Len(d.fds) = 1 /\ DOMAIN d.fds = {1} /\ d.fds[1] = c
    BY DEF Datagram
  <2>2. /\ queue' = Append(queue, d) /\ sender[c] = "holds"
        /\ sender' = [sender EXCEPT ![c] = "sent"] /\ by' = [by EXCEPT ![c] = "router"]
        /\ UNCHANGED <<tasks, served, leaked>>
    BY <1>2 DEF Uds!PassFd, Uds!AfterSend
  <2>3. /\ sender' \in [Conns -> {"holds", "sent", "closed"}] /\ sender'[c] = "sent"
        /\ by' \in [Conns -> {"nobody", "router", "other"}]
        /\ \A x \in Conns : x # c => by'[x] = by[x] /\ sender'[x] = sender[x]
    BY <2>2 DEF HandoffInv, HandoffType
  <2> HIDE DEF d
  <2>4. Len(d.fds) <= 2 /\ Len(d.fds) # 2
    BY <2>1
  <2>5. \A m \in DOMAIN d.fds : /\ d.fds[m] \in Conns
                               /\ sender[d.fds[m]] = "holds" /\ sender'[d.fds[m]] # "holds"
    BY <2>1, <2>2, <2>3
  <2>6. \A x \in Conns : (\A m \in DOMAIN d.fds : d.fds[m] # x) =>
          by'[x] = by[x] /\ (sender'[x] = "holds" => sender[x] = "holds")
    BY <2>1, <2>3
  <2>7. d \in Datagram /\ queue' = Append(queue, d) /\ UNCHANGED <<tasks, served, leaked>>
    BY <2>1, <2>2
  <2> QED
    BY <2>3, <2>4, <2>5, <2>6, <2>7, Appended
<1>3. ASSUME NEW c \in Conns, Uds!DropStream(c)
      PROVE  HandoffInv'
  BY <1>3, SMTT(30) DEF Uds!DropStream, HandoffInv, HandoffType, Carried, OnePlace, Carries
<1>4. ASSUME NEW fds \in Seq(Conns), Len(fds) \in {0, 2}, Uds!SendOther(fds)
      PROVE  HandoffInv'
  <2> DEFINE d == [fds |-> fds, truncated |-> FALSE]
  <2>1. d \in Datagram /\ d.fds = fds
    BY DEF Datagram
  <2>4. Len(fds) <= 2
    BY <1>4
  <2>5. \A m \in DOMAIN fds : fds[m] \in Conns
    OBVIOUS
  <2>2. /\ queue' = Append(queue, d) /\ \A m \in DOMAIN fds : sender[fds[m]] = "holds"
        /\ sender' = [c \in Conns |-> IF \E n \in DOMAIN fds : fds[n] = c THEN "closed" ELSE sender[c]]
        /\ by' = [c \in Conns |-> IF \E n \in DOMAIN fds : fds[n] = c THEN "other" ELSE by[c]]
        /\ UNCHANGED <<tasks, served, leaked>>
    BY <1>4 DEF Uds!SendOther
  <2>3. /\ sender' \in [Conns -> {"holds", "sent", "closed"}]
        /\ by' \in [Conns -> {"nobody", "router", "other"}]
    BY <2>2 DEF HandoffInv, HandoffType
  <2> HIDE DEF d
  <2> QED
    BY <2>1, <2>2, <2>3, <2>4, <2>5, Appended
<1>5. ASSUME NEW c \in Conns, Uds!TaskEnds(c)
      PROVE  HandoffInv'
  <2>1. IsFiniteSet(tasks')
    BY <1>5, FS_RemoveElement DEF Uds!TaskEnds, HandoffInv, HandoffType
  <2> QED
    BY <1>5, <2>1 DEF Uds!TaskEnds, HandoffInv, HandoffType, Carried, OnePlace, Carries
<1>6. ASSUME queue # <<>>
      PROVE  /\ queue[1] \in Datagram /\ Len(queue[1].fds) <= 2 /\ queue[1].fds \in Seq(Conns)
             /\ Len(queue[1].fds) = 2 =>
                  \A m \in DOMAIN queue[1].fds : by[queue[1].fds[m]] = "other"
  <2>1. queue[1] \in Datagram /\ 1 \in DOMAIN queue
    BY <1>6 DEF HandoffInv, HandoffType
  <2> QED
    BY <2>1 DEF Datagram, HandoffInv, Carried
<1>7. CASE Uds!RecvOk
  <2> DEFINE c == queue[1].fds[1]
  <2>1. queue # <<>> /\ Len(queue[1].fds) = 1
    BY <1>7 DEF Uds!RecvOk, Uds!Valid
  <2>2. 1 \in DOMAIN queue[1].fds /\ c \in Conns /\ Carries(1, c)
    BY <1>6, <2>1 DEF Carries
  <2>3. /\ tasks' = tasks \cup {c} /\ queue' = Tail(queue)
        /\ served' = [served EXCEPT ![c] = @ + 1] /\ UNCHANGED <<sender, leaked, by>>
    BY <1>7 DEF Uds!RecvOk, Uds!Consumed
  <2> DEFINE accepted == {c}
  <2>4. served' = [x \in Conns |-> IF x \in accepted THEN served[x] + 1 ELSE served[x]]
    BY <2>3 DEF HandoffInv, HandoffType
  <2>5. accepted \in SUBSET Conns /\ IsFiniteSet(accepted) /\ \A x \in accepted : Carries(1, x)
    BY <2>2, FS_Singleton
  <2> HIDE DEF c, accepted
  <2> QED
    BY <2>1, <2>3, <2>4, <2>5, Taken DEF HandoffInv, HandoffType, accepted
<1>8. ASSUME queue # <<>>, queue' = Tail(queue), UNCHANGED <<sender, tasks, served, by>>,
             leaked' \in SUBSET Conns, IsFiniteSet(leaked'), Cardinality(leaked') <= FdLimit,
             \A c \in leaked' : c \in leaked \/ (by[c] = "other" /\ Carries(1, c))
      PROVE  HandoffInv'
  <2> DEFINE accepted == {}
  <2>1. /\ accepted \in SUBSET Conns /\ IsFiniteSet(accepted) /\ \A x \in accepted : Carries(1, x)
        /\ tasks' = tasks \cup accepted
        /\ served' = [x \in Conns |-> IF x \in accepted THEN served[x] + 1 ELSE served[x]]
    BY <1>8, FS_EmptySet DEF HandoffInv, HandoffType
  <2> HIDE DEF accepted
  <2> QED
    BY <1>8, <2>1, Taken
<1>9. CASE Uds!RecvInvalid \/ Uds!RecvUnregistered
  <2>1. queue # <<>> /\ Uds!Refused
    BY <1>9 DEF Uds!RecvInvalid, Uds!RecvUnregistered
  <2>2. queue' = Tail(queue) /\ UNCHANGED <<sender, tasks, served, by, leaked>>
    BY <2>1 DEF Uds!Refused, Uds!Owned, Uds!Consumed
  <2> QED
    BY <1>8, <2>1, <2>2 DEF HandoffInv, HandoffType
<1>10. CASE Uds!CmsgsFails
  <2> DEFINE fds == queue[1].fds
             got == Uds!Installed(fds)
  <2>1. /\ queue # <<>> /\ Len(got) < Len(fds) /\ queue' = Tail(queue)
        /\ leaked' = leaked \cup {got[n] : n \in DOMAIN got}
        /\ UNCHANGED <<sender, tasks, served, by>>
    BY <1>10 DEF Uds!CmsgsFails, Uds!Consumed
  <2>2. fds \in Seq(Conns) /\ Len(fds) <= 2
    BY <1>6, <2>1
  <2>3. /\ got \in Seq(Conns) /\ \A n \in DOMAIN got : n \in DOMAIN fds /\ got[n] = fds[n]
        /\ Len(got) = 0 \/ Cardinality(leaked) + Len(got) <= FdLimit
    BY <2>1, <2>2, InstalledFacts
  <2>4. CASE Len(got) = 0
    <3>1. DOMAIN got = {}
      BY <2>3, <2>4
    <3>2. leaked' = leaked
      BY <2>1, <3>1
    <3> QED
      BY <1>8, <2>1, <3>2 DEF HandoffInv, HandoffType
  <2>5. CASE Len(got) # 0
    <3> HIDE DEF got, fds
    <3>0. Len(got) \in Nat /\ Len(fds) \in Nat /\ DOMAIN got = 1..Len(got)
      BY <2>2, <2>3
    <3>9. Len(got) < Len(fds) /\ Len(fds) <= 2 /\ Len(got) # 0
      BY <2>1, <2>2, <2>5
    <3>1. Len(got) = 1 /\ Len(fds) = 2
      <4> \A a, b \in Nat : a < b /\ b <= 2 /\ a # 0 => a = 1 /\ b = 2
        OBVIOUS
      <4> QED
        BY <3>0, <3>9
    <3>8. DOMAIN got = {1}
      BY <3>0, <3>1
    <3>2. leaked' = leaked \cup {got[1]} /\ got[1] = fds[1] /\ 1 \in DOMAIN fds
      BY <2>1, <2>3, <3>8
    <3>3. by[fds[1]] = "other" /\ fds[1] \in Conns /\ Carries(1, fds[1])
      BY <1>6, <2>1, <2>2, <3>1, <3>2 DEF Carries, fds
    <3>4. IsFiniteSet(leaked) /\ Cardinality(leaked) \in Nat /\ leaked \in SUBSET Conns
      BY FS_CardinalityType DEF HandoffInv, HandoffType
    <3>5. IsFiniteSet(leaked') /\ (Cardinality(leaked') = Cardinality(leaked)
                                    \/ Cardinality(leaked') = Cardinality(leaked) + 1)
      BY <3>2, <3>4, FS_AddElement
    <3>6. Cardinality(leaked') <= FdLimit
      BY <2>3, <2>5, <3>1, <3>4, <3>5, LimitAssumption
    <3>7. leaked' \in SUBSET Conns /\ \A c \in leaked' : c \in leaked \/ (by[c] = "other" /\ Carries(1, c))
      BY <3>2, <3>3, <3>4
    <3> QED
      BY <1>8, <2>1, <3>5, <3>6, <3>7
  <2> QED
    BY <2>4, <2>5
<1>11. CASE Uds!Others
  <2>1. CASE Uds!SendOther(<<>>)
    <3>1. <<>> \in Seq(Conns) /\ Len(<<>>) = 0
      OBVIOUS
    <3> QED
      BY <1>4, <2>1, <3>1
  <2>2. ASSUME NEW c \in Conns, NEW d \in Conns, Uds!SendOther(<<c, d>>)
        PROVE  HandoffInv'
    <3>1. <<c, d>> \in Seq(Conns) /\ Len(<<c, d>>) = 2
      OBVIOUS
    <3> QED
      BY <1>4, <2>2, <3>1
  <2> QED
    BY <1>2, <1>3, <1>5, <1>11, <2>1, <2>2 DEF Uds!Others
<1> QED
  BY <1>1, <1>7, <1>9, <1>10, <1>11 DEF Uds!Next, Uds!Recv

\* The invariant says that a connection has one owner.
LEMMA InvOneOwner == HandoffInv => OneOwner
<1> SUFFICES ASSUME HandoffInv PROVE OneOwner
  OBVIOUS
<1> USE DEF HandoffInv
<1>1. Uds!TypeOK
  <2>1. ASSUME NEW n \in 1..Len(queue) PROVE queue[n] \in Datagram
    BY DEF HandoffType
  <2>2. served \in [Conns -> Nat] /\ sender \in [Conns -> {"holds", "sent", "closed", "shut"}]
    BY DEF HandoffType
  <2> QED
    BY <2>1, <2>2 DEF HandoffType, Uds!TypeOK, Datagram
<1>2. ASSUME NEW c \in Conns
      PROVE  served[c] + Cardinality(Uds!Queued(c)) <= 1
  <2>1. served[c] \in {0, 1}
    BY DEF HandoffType
  <2>2. DOMAIN queue = 1..Len(queue)
    BY DEF HandoffType
  <2>3. CASE Uds!Queued(c) = {}
    BY <2>1, <2>3, FS_EmptySet
  <2>4. CASE Uds!Queued(c) # {}
    <3>1. PICK n \in Uds!Queued(c) : TRUE
      BY <2>4
    <3>2. Carries(n, c) /\ n \in DOMAIN queue
      BY <2>2 DEF Uds!Queued, Carries
    <3>3. Uds!Queued(c) = {n} /\ served[c] = 0
      BY <2>2, <3>1, <3>2 DEF Uds!Queued, Carries, OnePlace
    <3>4. Cardinality(Uds!Queued(c)) = 1
      BY <3>3, FS_Singleton
    <3> QED
      BY <3>3, <3>4
  <2> QED
    BY <2>3, <2>4
<1>3. \A c \in Conns : c \in tasks => served[c] = 1 /\ sender[c] /= "shut"
  BY DEF OnePlace, HandoffType
<1>4. \A c \in leaked : by[c] = "other"
  BY DEF OnePlace, HandoffType
<1>5. Uds!NothingLeaks
  BY <1>4, SameCardinality DEF Uds!NothingLeaks
<1>6. Uds!ServedOnce
  BY <1>1, <1>2, <1>3, SameCardinality DEF Uds!ServedOnce
<1> QED
  BY <1>5, <1>6 DEF OneOwner

\* A connection passed between routers is served once at most, and no descriptor
\* that comes from a router is left open by a datagram that is refused.
THEOREM OneOwnerHolds == IngressSpec => []OneOwner
<1>1. IngressInit => HandoffInv
  <2> SUFFICES ASSUME Uds!Init PROVE HandoffInv
    BY DEF IngressInit
  <2>1. IsFiniteSet({}) /\ Cardinality({}) = 0
    BY FS_EmptySet
  <2>2. DOMAIN queue = {} /\ queue \in Seq(Datagram)
    BY DEF Uds!Init
  <2> QED
    BY <2>1, <2>2, LimitAssumption
       DEF Uds!Init, HandoffInv, HandoffType, Carried, OnePlace, Carries
<1>2. HandoffInv /\ [IngressNext]_<<vars, handoff>> => HandoffInv'
  <2>1. [IngressNext]_<<vars, handoff>> => [Uds!Next]_handoff
    BY DEF IngressNext, Take, TakeOk, TakeInvalid, TakeFails, NotTaken, Uds!Next, Uds!Recv
  <2> QED
    BY <2>1, HandoffNextInv
<1> QED
  BY <1>1, <1>2, InvOneOwner, PTL DEF IngressSpec
=============================================================================
