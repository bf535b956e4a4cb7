----------------------------- MODULE MCSniParse -----------------------------
(***************************************************************************)
(* ClientHellos for TLC, put together from their parts; and the same with  *)
(* one byte changed.  What they ask for follows from the parts.            *)
(***************************************************************************)
EXTENDS Naturals, Sequences

Vec8(s) == <<Len(s)>> \o s
Vec16(s) == <<Len(s) \div 256, Len(s) % 256>> \o s
\* At most two of them.
Join(seqs) == IF seqs = <<>> THEN <<>> ELSE seqs[1] \o (IF Len(seqs) = 1 THEN <<>> ELSE seqs[2])
Random == [n \in 1..34 |-> 3]

\* An extension is its type and its list of <<name type, host>>.
Ext(e) == <<0, e.type>> \o
  Vec16(IF e.type = 0 THEN Vec16(Join([n \in DOMAIN e.names |-> <<e.names[n][1]>> \o Vec16(e.names[n][2])]))
        ELSE [n \in 1..e.size |-> 0])

Encode(h) ==
  LET exts == UNION {{[n \in DOMAIN e |-> Ext(e[n])]} : e \in h.exts}
      block == IF exts = {} THEN <<>> ELSE Vec16(Join(CHOOSE e \in exts : TRUE))
      body == Random \o Vec8(h.sid) \o Vec16(h.suites) \o Vec8(<<0>>) \o block
  IN <<1, 0>> \o Vec16(body)

SniExts == [type : {0}, names : {<<>>, <<<<0, <<9>>>>>>, <<<<1, <<8>>>>, <<0, <<9, 9>>>>>>,
                                 <<<<0, <<>>>>>>, <<<<1, <<>>>>>>}]
OtherExts == [type : {5}, size : {0, 1, 4}]

Hellos ==
  [sid : {<<>>, <<7, 7>>}, suites : {<<>>, <<1, 2>>},
   exts : {{}, {<<>>}} \cup {{<<e>>} : e \in SniExts \cup OtherExts}
          \cup {{<<o, e>>} : o \in OtherExts, e \in SniExts} \cup {{<<e, o>>} : o \in OtherExts, e \in SniExts}]

\* The hellos of which every byte is changed to one of these.
Corrupted == {h \in Hellos : h.sid = <<>> /\ h.suites = <<1, 2>> /\ \A e \in h.exts : Len(e) <= 1}
Changed == {0, 1, 2, 4, 255}

\* What extract_sni is to return of a hello: the first host_name of its first
\* server_name extension.
Announced(h) ==
  LET exts == IF h.exts = {} THEN <<>> ELSE CHOOSE e \in h.exts : TRUE
      snis == SelectSeq(exts, LAMBDA e : e.type = 0)
      hosts == IF snis = <<>> THEN <<>> ELSE SelectSeq(snis[1].names, LAMBDA n : n[1] = 0)
  IN IF hosts = <<>> THEN {} ELSE {hosts[1][2]}

\* Where the elements of a vector start, and where the last one ends.
Starts(base, seqs) == {base + Len(Join(SubSeq(seqs, 1, n))) : n \in 0..Len(seqs)}

ExtStarts(h) ==
  LET base == 41 + Len(h.sid) + Len(h.suites)
  IN  UNION {Starts(base, [n \in DOMAIN e |-> Ext(e[n])]) : e \in h.exts}

\* Of the names in the first server_name extension.
NameStarts(h) ==
  LET base == 41 + Len(h.sid) + Len(h.suites)
      exts == IF h.exts = {} THEN <<>> ELSE CHOOSE e \in h.exts : TRUE
      snis == {n \in DOMAIN exts : exts[n].type = 0}
      x == CHOOSE n \in snis : \A m \in snis : n <= m
      at == base + Len(Join([n \in 1..x - 1 |-> Ext(exts[n])])) + 6
      names == exts[x].names
  IN IF snis = {} THEN {} ELSE Starts(at, [n \in DOMAIN names |-> <<names[n][1]>> \o Vec16(names[n][2])])

MCHellos ==
  {[bytes |-> Encode(h), asked |-> {Announced(h)}, exts |-> ExtStarts(h), names |-> NameStarts(h)] :
     h \in Hellos}
  \cup UNION {LET e == Encode(h) IN
              {[bytes |-> [e EXCEPT ![n] = b], asked |-> {}] : n \in 1..Len(e), b \in Changed} : h \in Corrupted}
=============================================================================
