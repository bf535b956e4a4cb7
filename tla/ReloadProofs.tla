---------------------------- MODULE ReloadProofs ----------------------------
(***************************************************************************)
(* Proofs about Reload: what the routers run on across reloads, for every  *)
(* set of configuration messages, files, names and lookups.                *)
(***************************************************************************)
EXTENDS Reload, SetLemmas, FiniteSetTheorems, FunctionTheorems, SequenceTheorems, TLAPS

-----------------------------------------------------------------------------
(* Resolver. *)

\* The shared object has the published hosts, an object that a lookup holds
\* the ones it had when the lookup began, and what has been read is not older
\* than what is published.
HostsInv ==
  /\ Hosts!TypeOK
  /\ RESOLVER = 0 <=> reload \in {"off", "exited"}
  /\ RESOLVER # 0 => hosts[RESOLVER] = published
  /\ RESOLVER = 0 => published = 0
  /\ \A l \in Lookups :
       /\ snap[l] # 0 => RESOLVER # 0 /\ hosts[snap[l]] = since[l]
       /\ snap[l] = 0 => views[l] = {}
       /\ views[l] \subseteq {since[l]}
  /\ loaded <= file /\ published <= file
  /\ reload = "read" => published <= loaded

\* The cardinality that Resolver counts its objects with.
LEMMA HostsCardinality == \A S : Hosts!Cardinality(S) = Cardinality(S)
BY DEF Hosts!Cardinality, Cardinality

\* There are two objects more than lookups.
LEMMA ObjectsAre ==
  /\ Cardinality(Lookups) \in Nat
  /\ Hosts!Objects = 1..(Cardinality(Lookups) + 2)
BY HostsAssumption, FS_CardinalityType, HostsCardinality DEF Hosts!Objects

\* There are enough objects: one that no lookup holds and that is not the
\* shared one.
LEMMA FreeObject ==
  ASSUME HostsInv, NEW o \in Hosts!Objects
  PROVE  \E copy \in Hosts!Objects : copy # o /\ Hosts!Holders(copy) = {}
<1> DEFINE Held == {snap[l] : l \in Lookups}
<1>1. IsFiniteSet(Held) /\ Cardinality(Held) <= Cardinality(Lookups) /\ Cardinality(Held) \in Nat
  <2>1. snap \in Surjection(Lookups, Held)
    BY DEF HostsInv, Hosts!TypeOK, Surjection
  <2> QED
    BY <2>1, FS_Surjection, HostsAssumption, FS_CardinalityType
<1>2. /\ IsFiniteSet(Held \cup {o})
      /\ Cardinality(Held \cup {o}) <= Cardinality(Lookups) + 1
  <2> HIDE DEF Held
  <2>1. /\ IsFiniteSet(Held \cup {o})
        /\ Cardinality(Held \cup {o}) =
             IF o \in Held THEN Cardinality(Held) ELSE Cardinality(Held) + 1
    BY <1>1, FS_AddElement, Zenon
  <2> QED
    BY <1>1, <2>1, ObjectsAre
<1>3. Cardinality(Hosts!Objects) = Cardinality(Lookups) + 2
  BY ObjectsAre, FS_Interval
<1>4. PICK copy \in Hosts!Objects : copy \notin Held \cup {o}
  <2> SUFFICES ASSUME Hosts!Objects \subseteq Held \cup {o} PROVE FALSE
    OBVIOUS
  <2> HIDE DEF Held
  <2>1. Cardinality(Hosts!Objects) <= Cardinality(Held \cup {o})
    BY <1>2, FS_Subset
  <2>2. Cardinality(Held \cup {o}) \in Nat
    BY <1>2, FS_CardinalityType
  <2> QED
    BY <1>2, <1>3, <2>1, <2>2, ObjectsAre
<1>5. Hosts!Holders(copy) = {}
  BY <1>4 DEF Hosts!Holders
<1> QED
  BY <1>4, <1>5

\* make_mut writes to an object that no lookup holds.
LEMMA MakeMutFree ==
  ASSUME HostsInv, NEW o \in Hosts!Objects
  PROVE  Hosts!MakeMut(o) \in Hosts!Objects /\ Hosts!Holders(Hosts!MakeMut(o)) = {}
<1>1. CASE Hosts!Holders(o) = {}
  BY <1>1 DEF Hosts!MakeMut
<1>2. CASE Hosts!Holders(o) # {}
  <2> DEFINE Free(copy) == copy # o /\ Hosts!Holders(copy) = {}
  <2>1. \E copy \in Hosts!Objects : Free(copy)
    BY FreeObject
  <2>2. Hosts!MakeMut(o) = CHOOSE copy \in Hosts!Objects : Free(copy)
    BY <1>2, Zenon DEF Hosts!MakeMut
  <2> HIDE DEF Free
  <2>3. Hosts!MakeMut(o) \in Hosts!Objects /\ Free(Hosts!MakeMut(o))
    BY <2>1, <2>2, Zenon
  <2> QED
    BY <2>3 DEF Free
<1> QED
  BY <1>1, <1>2

\* Before shared() there is no resolver that could be old.
LEMMA HostsInit == Hosts!Init => HostsInv
BY HostsAssumption, ObjectsAre
   DEF Hosts!Init, HostsInv, Hosts!TypeOK, Hosts!Versions, Hosts!None

\* reload_hosts leaves the objects that lookups hold alone.
LEMMA SetHostsInv ==
  ASSUME HostsInv, Hosts!SetHosts
  PROVE  HostsInv'
<1> DEFINE o == Hosts!MakeMut(RESOLVER)
<1>1. RESOLVER \in Hosts!Objects /\ RESOLVER # 0 /\ 0 \notin Hosts!Objects
  BY ObjectsAre DEF HostsInv, Hosts!TypeOK, Hosts!SetHosts, Hosts!None
<1>2. o \in Hosts!Objects /\ \A l \in Lookups : snap[l] # o
  BY <1>1, MakeMutFree DEF Hosts!Holders
<1>3. /\ RESOLVER' = o /\ hosts' = [hosts EXCEPT ![o] = loaded] /\ published' = loaded
      /\ reload = "read" /\ reload' = "waiting"
      /\ UNCHANGED <<file, readable, loaded, snap, views, since>>
  BY DEF Hosts!SetHosts, Hosts!lookup
<1> HIDE DEF o
<1>4. Hosts!TypeOK'
  BY <1>2, <1>3 DEF HostsInv, Hosts!TypeOK
<1>5. RESOLVER' # 0 /\ hosts'[RESOLVER'] = published'
  BY <1>1, <1>2, <1>3 DEF HostsInv, Hosts!TypeOK
<1>6. ASSUME NEW l \in Lookups, snap[l] # 0 PROVE hosts'[snap[l]] = since[l]
  <2>1. snap[l] \in Hosts!Objects
    BY <1>6 DEF HostsInv, Hosts!TypeOK, Hosts!None
  <2> QED
    BY <1>2, <1>3, <1>6, <2>1 DEF HostsInv, Hosts!TypeOK
<1> QED
  BY <1>3, <1>4, <1>5, <1>6 DEF HostsInv

\* Every step of the file system, the reload task and the lookups keeps HostsInv.
LEMMA HostsNext ==
  ASSUME HostsInv, Hosts!Next
  PROVE  HostsInv'
<1> USE DEF HostsInv, Hosts!TypeOK, Hosts!None, Hosts!Versions
<1>1. CASE Hosts!FileChanges
  BY <1>1, HostsAssumption DEF Hosts!FileChanges, Hosts!task, Hosts!lookup
<1>2. CASE Hosts!FileComesAndGoes
  BY <1>2 DEF Hosts!FileComesAndGoes, Hosts!task, Hosts!lookup
<1>3. CASE Hosts!Start
  <2>1. 1 \in Hosts!Objects
    BY ObjectsAre
  <2> QED
    BY <1>3, <2>1, HostsAssumption DEF Hosts!Start, Hosts!lookup
<1>4. CASE Hosts!StartFails
  BY <1>4 DEF Hosts!StartFails, Hosts!lookup
<1>5. CASE Hosts!Tick
  BY <1>5 DEF Hosts!Tick, Hosts!lookup
<1>6. CASE Hosts!ReadHosts
  BY <1>6, HostsAssumption DEF Hosts!ReadHosts, Hosts!lookup
<1>7. CASE Hosts!ReadHostsFails
  BY <1>7 DEF Hosts!ReadHostsFails, Hosts!lookup
<1>8. CASE Hosts!SetHosts
  BY <1>8, SetHostsInv
<1>9. ASSUME NEW l \in Lookups, Hosts!Snapshot(l) PROVE HostsInv'
  BY <1>9 DEF Hosts!Snapshot, Hosts!task
<1>10. ASSUME NEW l \in Lookups, Hosts!Consult(l) PROVE HostsInv'
  BY <1>10 DEF Hosts!Consult, Hosts!task
<1>11. ASSUME NEW l \in Lookups, Hosts!Finish(l) PROVE HostsInv'
  BY <1>11, HostsAssumption DEF Hosts!Finish, Hosts!task
<1> QED
  BY <1>1, <1>2, <1>3, <1>4, <1>5, <1>6, <1>7, <1>8, <1>9, <1>10, <1>11
     DEF Hosts!Next, Hosts!Reload

\* How a step of Reload moves the resolver.
LEMMA ReloadHosts ==
  ASSUME [ReloadNext]_<<part, vars, h3, labels, resolver>>
  PROVE  Hosts!Next \/ UNCHANGED resolver
BY DEF ReloadNext

\* HostsInv speaks of the resolver only.
LEMMA HostsStutters ==
  ASSUME HostsInv, UNCHANGED resolver
  PROVE  HostsInv'
BY DEF HostsInv, Hosts!TypeOK, Hosts!Objects, Hosts!Versions, Hosts!None, resolver

\* HostsInv is an invariant of Reload.
LEMMA HostsInvariant == ReloadSpec => []HostsInv
<1>1. ReloadInit => HostsInv
  BY HostsInit DEF ReloadInit, HostsFixed
<1>2. HostsInv /\ [ReloadNext]_<<part, vars, h3, labels, resolver>> => HostsInv'
  BY ReloadHosts, HostsNext, HostsStutters
<1> QED
  BY <1>1, <1>2, PTL DEF ReloadSpec

\* A lookup sees one version of the hosts, the one that was installed when it
\* began: reload_hosts writes to no object that a lookup holds, and always
\* finds one to write to.
THEOREM OneVersionHolds == ReloadSpec => []OneVersion
<1>1. HostsInv => OneVersion
  BY DEF HostsInv, OneVersion, Hosts!OneVersion
<1> QED
  BY <1>1, HostsInvariant, PTL

\* reload_hosts never goes back to older hosts, also when the file could not be
\* read in between.
THEOREM HostsAreKept == ReloadSpec => Hosts!HostsKept
<1>1. HostsInv /\ [ReloadNext]_<<part, vars, h3, labels, resolver>> =>
        [published' >= published]_Hosts!vars
  <2> SUFFICES ASSUME HostsInv, [ReloadNext]_<<part, vars, h3, labels, resolver>>
               PROVE  published' >= published
    OBVIOUS
  <2> USE DEF HostsInv, Hosts!TypeOK, Hosts!Versions
  <2>1. CASE Hosts!Next
    <3>1. CASE Hosts!Start
      <4>1. 1 \in Hosts!Objects
        BY ObjectsAre
      <4> QED
        BY <3>1, <4>1 DEF Hosts!Start
    <3>2. CASE Hosts!SetHosts
      BY <3>2 DEF Hosts!SetHosts
    <3> QED
      BY <2>1, <3>1, <3>2
         DEF Hosts!Next, Hosts!Reload, Hosts!FileChanges, Hosts!FileComesAndGoes, Hosts!StartFails,
             Hosts!Tick, Hosts!ReadHosts, Hosts!ReadHostsFails, Hosts!Snapshot, Hosts!Consult,
             Hosts!Finish
  <2>2. CASE UNCHANGED resolver
    BY <2>2 DEF resolver
  <2> QED
    BY <2>1, <2>2, ReloadHosts
<1> QED
  BY <1>1, HostsInvariant, PTL DEF ReloadSpec, Hosts!HostsKept

-----------------------------------------------------------------------------
(* TcpReload. *)

\* What is in use was loaded from the message that is remembered, with files as
\* they were at some time.
TcpInv ==
  /\ TypeOK
  /\ \E files \in Files : config \in load_config(said, files)

\* The first configuration is loaded from the files of the moment.
LEMMA TcpInit == Init => TcpInv
<1> SUFFICES ASSUME Init PROVE TcpInv
  OBVIOUS
<1>1. disk \in Disk /\ disk \in Files
  BY DEF Init, Disk, Files
<1> QED
  BY <1>1 DEF Init, TcpInv, TypeOK

\* A reload installs what load_config returned, or leaves the configuration.
LEMMA TcpNext ==
  ASSUME TcpInv, Next
  PROVE  TcpInv'
<1> DEFINE Loading == [pb : Messages, step : {"certs", "keys", "ca", "done"}, files : Files]
<1>1. disk \in Disk /\ said \in Messages /\ loading \subseteq Loading
  BY DEF TcpInv, TypeOK
<1>2. CASE ReplaceFile
  <2>1. disk' \in Disk
    BY <1>1, <1>2 DEF ReplaceFile, Disk
  <2> QED
    BY <1>2, <2>1 DEF ReplaceFile, TcpInv, TypeOK
<1>3. ASSUME UNCHANGED <<disk, config, said>>, loading' \subseteq Loading
      PROVE  TcpInv'
  BY <1>3 DEF TcpInv, TypeOK
<1>4. CASE Hangup
  BY <1>3, <1>4 DEF Hangup, Files
<1>5. CASE ReadCerts
  <2>1. PICK l \in loading :
          loading' = {[l EXCEPT !.step = "keys", !.files.cert = disk.cert]}
    BY <1>5 DEF ReadCerts
  <2>2. l \in Loading /\ l.files \in Files
    BY <1>1
  <2>3. [l.files EXCEPT !.cert = disk.cert] \in Files
    BY <1>1, <2>2 DEF Files, Disk
  <2>4. loading' \subseteq Loading
    BY <2>1, <2>2, <2>3
  <2> QED
    BY <1>3, <1>5, <2>4 DEF ReadCerts
<1>6. CASE ReadKeys
  <2>1. PICK l \in loading :
          loading' = {[l EXCEPT !.step = "ca", !.files.key = disk.key]}
    BY <1>6 DEF ReadKeys
  <2>2. l \in Loading /\ l.files \in Files
    BY <1>1
  <2>3. [l.files EXCEPT !.key = disk.key] \in Files
    BY <1>1, <2>2 DEF Files, Disk
  <2>4. loading' \subseteq Loading
    BY <2>1, <2>2, <2>3
  <2> QED
    BY <1>3, <1>6, <2>4 DEF ReadKeys
<1>7. CASE ReadCa
  <2>1. PICK l \in loading :
          loading' = {[l EXCEPT !.step = "done", !.files.ca = disk.ca]}
    BY <1>7 DEF ReadCa
  <2>2. l \in Loading /\ l.files \in Files
    BY <1>1
  <2>3. [l.files EXCEPT !.ca = disk.ca] \in Files
    BY <1>1, <2>2 DEF Files, Disk
  <2>4. loading' \subseteq Loading
    BY <2>1, <2>2, <2>3
  <2> QED
    BY <1>3, <1>7, <2>4 DEF ReadCa
<1>8. CASE Loaded
  <2>1. PICK l \in loading :
          /\ config' = InUse(load_config(l.pb, l.files))
          /\ said' = IF load_config(l.pb, l.files) = {} THEN said ELSE l.pb
    BY <1>8, Zenon DEF Loaded
  <2>2. l.pb \in Messages /\ l.files \in Files
    BY <1>1
  <2>3. loading' = {} /\ disk' = disk
    BY <1>8 DEF Loaded
  <2>4. CASE load_config(l.pb, l.files) = {}
    BY <2>1, <2>3, <2>4 DEF InUse, TcpInv, TypeOK
  <2>5. CASE load_config(l.pb, l.files) # {}
    <3>1. config' \in load_config(l.pb, l.files) /\ said' = l.pb
      BY <2>1, <2>5 DEF InUse
    <3> QED
      BY <1>1, <2>2, <2>3, <3>1 DEF TcpInv, TypeOK
  <2> QED
    BY <2>4, <2>5
<1> QED
  BY <1>2, <1>4, <1>5, <1>6, <1>7, <1>8 DEF Next

\* TcpInv is an invariant of Reload.
LEMMA TcpInvariant == ReloadSpec => []TcpInv
<1>1. ReloadInit => TcpInv
  BY TcpInit DEF ReloadInit, TcpFixed
<1>2. TcpInv /\ [ReloadNext]_<<part, vars, h3, labels, resolver>> => TcpInv'
  <2>1. TcpInv /\ UNCHANGED vars => TcpInv'
    BY DEF TcpInv, TypeOK, vars
  <2>2. [ReloadNext]_<<part, vars, h3, labels, resolver>> => Next \/ UNCHANGED vars
    BY DEF ReloadNext
  <2> QED
    BY <2>1, <2>2, TcpNext
<1> QED
  BY <1>1, <1>2, PTL DEF ReloadSpec

\* load_config: a loaded configuration has the default rule and the rules of
\* its message, in their order.
LEMMA LoadedConfig ==
  ASSUME NEW pb, NEW files, NEW c \in load_config(pb, files)
  PROVE  /\ \E rule \in pb.default : c.default \in load_rule(rule, TRUE, files)
         /\ DOMAIN c.rules = DOMAIN pb.rules
         /\ \A i \in DOMAIN pb.rules : c.rules[i] \in load_rule(pb.rules[i], FALSE, files)
<1> DEFINE results == [i \in DOMAIN pb.rules |-> load_rule(pb.rules[i], FALSE, files)]
<1> DEFINE defaults == UNION {load_rule(r, TRUE, files) : r \in pb.default}
           Whole(d, r) == [max_lifetime |-> Millis(pb.max_lifetime_ms),
                           handshake_timeout |-> Millis(pb.handshake_timeout_ms),
                           default |-> d, rules |-> r]
<1>1. c.default \in defaults /\ c.rules \in Collect(results)
  <2>1. load_config(pb, files) = {Whole(d, r) : d \in defaults, r \in Collect(results)}
    BY DEF load_config
  <2>2. PICK d \in defaults, r \in Collect(results) : c = Whole(d, r)
    <3> HIDE DEF Whole, defaults, results
    <3> QED
      BY <2>1
  <2> HIDE DEF defaults, results
  <2> QED
    BY <2>2
<1>2. \A i \in DOMAIN pb.rules : results[i] # {}
  BY <1>1 DEF Collect
<1>3. c.rules = [i \in DOMAIN pb.rules |-> CHOOSE r \in results[i] : TRUE]
  BY <1>1 DEF Collect
<1> QED
  BY <1>1, <1>2, <1>3, ZenonT(30)

\* load_rule: a loaded rule has a regex, an ACL and the backends of its message.
LEMMA LoadedRule ==
  ASSUME NEW rule, NEW is_default \in BOOLEAN, NEW files, NEW r \in load_rule(rule, is_default, files)
  PROVE  /\ ~is_default => \E re \in rule.regex : r.re \in compile_full_match(re)
         /\ rule.acl # {} => \E acl \in rule.acl : r.acl \in load_acl(acl)
         /\ \E be \in rule.backend : r.backends \in load_backend(be, files)
BY DEF load_rule

\* One loaded backend: a null backend is one in its message, TLS has a
\* certificate with its key, and the PROXY header does not meet TLS.
LEMMA LoadedOne ==
  ASSUME NEW be, NEW files, NEW b \in load_one(be, files)
  PROVE  /\ b.kind = "null" => be.backend_type = "null"
         /\ ~(b.proxy_header /\ b.backend_tls # {})
         /\ \A t \in b.tls : t.cert = t.key /\ t.cert # 0
<1>1. ASSUME NEW pb, NEW tls \in load_tls(pb, files), NEW t \in tls
      PROVE  t.cert = t.key /\ t.cert # 0
  BY DEF load_tls, with_single_cert
<1>2. CASE be.backend_type = "null"
  BY <1>2 DEF load_one
<1>3. CASE be.backend_type = "pass"
  BY <1>1, <1>3 DEF load_one
<1>4. CASE be.backend_type # "null" /\ be.backend_type # "pass"
  <2>1. ~(be.proxy_header /\ be.backend_tls # {})
    BY <1>4 DEF load_one
  <2>2. PICK t \in load_tls(be.frontend_tls, files), x \in load_backend_tls(be.backend_tls, files) :
          b = [kind |-> "proxy", tls |-> t, proxy_header |-> be.proxy_header, backend_tls |-> x]
    BY <1>4, <2>1 DEF load_one
  <2>3. be.backend_tls = {} => x = {}
    BY <2>2 DEF load_backend_tls
  <2> QED
    BY <1>1, <2>1, <2>2, <2>3
<1> QED
  BY <1>2, <1>3, <1>4

\* load_backend: a backend with at most one sorry backend, and none after null.
LEMMA LoadedBackend ==
  ASSUME NEW be, NEW files, NEW bs \in load_backend(be, files)
  PROVE  /\ Len(bs) \in {1, 2} /\ DOMAIN bs = 1..Len(bs)
         /\ bs[1].kind = "null" => Len(bs) = 1
         /\ \A i \in DOMAIN bs : \E x : bs[i] \in load_one(x, files)
<1>1. CASE be.sorry = {}
  <2>1. load_backend(be, files) = {} \/ load_backend(be, files) = {<<b>> : b \in load_one(be, files)}
    BY <1>1 DEF load_backend
  <2>2. PICK b \in load_one(be, files) : bs = <<b>>
    BY <2>1, Zenon
  <2> QED
    BY <2>2
<1>2. CASE be.sorry # {}
  <2> DEFINE sorry == UNION {load_one(s, files) : s \in be.sorry}
  <2>1. SorryAllowed(be) /\ load_backend(be, files) = load_one(be, files) \X sorry
    BY <1>2 DEF load_backend
  <2>2. PICK b \in load_one(be, files), s \in sorry : bs = <<b, s>>
    <3> HIDE DEF sorry
    <3> QED
      BY <2>1
  <2>3. b.kind # "null"
    BY <1>2, <2>1, LoadedOne DEF SorryAllowed
  <2>4. \E x : s \in load_one(x, files)
    BY <2>2
  <2> QED
    BY <2>2, <2>3, <2>4
<1> QED
  BY <1>1, <1>2

\* Every rule in use, the default rule too, has loaded backends.
LEMMA RulesLoaded ==
  ASSUME TcpInv, NEW r \in Rules
  PROVE  \E be, files : r.backends \in load_backend(be, files)
<1>1. PICK files \in Files : config \in load_config(said, files)
  BY DEF TcpInv
<1>2. \E rule : \E is_default \in BOOLEAN : r \in load_rule(rule, is_default, files)
  <2>1. CASE r = config.default
    BY <1>1, <2>1, LoadedConfig
  <2>2. ASSUME NEW i \in DOMAIN config.rules, r = config.rules[i]
        PROVE  r \in load_rule(said.rules[i], FALSE, files)
    BY <1>1, <2>2, LoadedConfig
  <2> QED
    BY <2>1, <2>2 DEF Rules
<1> QED
  BY <1>2, LoadedRule

\* No TLS configuration in use is made of a certificate and a key of different
\* generations, however their files were replaced while they were read.
THEOREM PairsAlwaysMatch == ReloadSpec => []PairsMatch
<1>1. TcpInv => PairsMatch
  BY RulesLoaded, LoadedBackend, LoadedOne DEF PairsMatch
<1> QED
  BY <1>1, TcpInvariant, PTL

\* What is in use can be used.
LEMMA UsableHolds == TcpInv => Usable
<1> SUFFICES ASSUME TcpInv, NEW r \in Rules
             PROVE  /\ Len(r.backends) \in {1, 2}
                    /\ r.backends[1].kind = "null" => Len(r.backends) = 1
                    /\ \A i \in DOMAIN r.backends :
                         ~(r.backends[i].proxy_header /\ r.backends[i].backend_tls # {})
  BY DEF Usable, TcpInv
<1>1. PICK be, files : r.backends \in load_backend(be, files)
  BY RulesLoaded
<1> QED
  BY <1>1, LoadedBackend, LoadedOne

\* compile_full_match takes a pattern only if it matches whole names.
LEMMA WholeNamesHold == TcpInv => WholeNames
<1> SUFFICES ASSUME TcpInv, NEW i \in DOMAIN config.rules, NEW name \in Names
             PROVE  is_match(config.rules[i].re, name) <=>
                      \E r \in said.rules[i].regex : Alternative(r, name)
  BY DEF WholeNames
<1>1. PICK files \in Files : config \in load_config(said, files)
  BY DEF TcpInv
<1>2. i \in DOMAIN said.rules /\ config.rules[i] \in load_rule(said.rules[i], FALSE, files)
  BY <1>1, LoadedConfig
<1>3. PICK re \in said.rules[i].regex : config.rules[i].re \in compile_full_match(re)
  BY <1>2, LoadedRule
<1>4. config.rules[i].re = re /\ re.kind \in {"plain", "comment"}
  BY <1>3 DEF compile_full_match, Compiles
<1>5. \A r \in said.rules[i].regex : r = re
  <2>1. MessageOK(said)
    BY MessagesAssumption DEF TcpInv, TypeOK
  <2>2. RuleOK(said.rules[i])
    BY <1>2, <2>1 DEF MessageOK
  <2> QED
    BY <1>3, <2>2 DEF RuleOK, Option
<1> QED
  BY <1>4, <1>5 DEF is_match

-----------------------------------------------------------------------------
(* ACLs. *)

\* The bits of a mapped address.
LEMMA MappedBits ==
  ASSUME NEW a \in Ipv4
  PROVE  /\ Len(Mapped) \in Nat
         /\ \A i \in 1..Len(Mapped) : to_ipv6_mapped(a)[i] = Mapped[i]
         /\ \A i \in 1..Bits4 : to_ipv6_mapped(a)[Len(Mapped) + i] = a[i]
<1>1. Mapped \in Seq({0, 1}) /\ a \in Seq({0, 1}) /\ Len(a) = Bits4 /\ Bits4 \in Nat
  BY AddressAssumption DEF Ipv4
<1> QED
  BY <1>1 DEF to_ipv6_mapped

\* An IPv4 network and the IPv6 network that load_acl makes of it.
LEMMA SourceCovers ==
  ASSUME NEW net, net.parses, NetworkOK(net), NEW peer \in Peers
  PROVE  contains(Source(net), peer_ip_v6(peer)) <=> Covers(net, peer)
<1> DEFINE M == Len(Mapped)
           p == net.prefix_len
           addr == network(net)
<1>0. M \in Nat /\ Bits4 \in Nat /\ Mapped \in Seq({0, 1})
  BY AddressAssumption
<1>1. CASE ~net.v4
  BY <1>1 DEF Source, contains, Covers
<1>2. CASE net.v4
  <2>1. net.addr \in Ipv4 /\ p \in 0..Bits4
    BY <1>2 DEF NetworkOK
  <2>2. Len(net.addr) = Bits4
    BY <1>0, <2>1 DEF Ipv4
  <2>3. addr \in Ipv4 /\ \A i \in 1..p : addr[i] = net.addr[i]
    BY <1>0, <2>1, <2>2 DEF Ipv4, network
  <2>4. Source(net) = [addr |-> to_ipv6_mapped(addr), prefix_len |-> M + p]
    BY <1>2 DEF Source
  <2> HIDE DEF addr
  <2>5. contains(Source(net), peer_ip_v6(peer)) <=>
          \A i \in 1..M + p : to_ipv6_mapped(addr)[i] = peer_ip_v6(peer)[i]
    BY <2>4 DEF contains
  <2>6. CASE peer.v4
    <3>1. peer.ip \in Ipv4 /\ peer_ip_v6(peer) = to_ipv6_mapped(peer.ip)
      BY <2>6 DEF Peers, peer_ip_v6
    <3>2. Covers(net, peer) <=> \A i \in 1..p : net.addr[i] = peer.ip[i]
      BY <1>2, <2>6 DEF Covers, contains
    <3>3. ASSUME \A i \in 1..p : net.addr[i] = peer.ip[i], NEW i \in 1..M + p
          PROVE  to_ipv6_mapped(addr)[i] = to_ipv6_mapped(peer.ip)[i]
      <4>1. CASE i <= M
        BY <1>0, <2>3, <3>1, <4>1, MappedBits
      <4>2. CASE i > M
        <5>1. i - M \in 1..p /\ i - M \in 1..Bits4 /\ i = M + (i - M)
          BY <1>0, <2>1, <4>2
        <5>2. /\ to_ipv6_mapped(addr)[M + (i - M)] = addr[i - M]
              /\ to_ipv6_mapped(peer.ip)[M + (i - M)] = peer.ip[i - M]
          BY <2>3, <3>1, <5>1, MappedBits
        <5> QED
          BY <2>3, <3>3, <5>1, <5>2
      <4> QED
        BY <1>0, <2>1, <4>1, <4>2
    <3>4. ASSUME \A i \in 1..M + p : to_ipv6_mapped(addr)[i] = to_ipv6_mapped(peer.ip)[i],
                 NEW i \in 1..p
          PROVE  net.addr[i] = peer.ip[i]
      <4>1. M + i \in 1..M + p /\ i \in 1..Bits4
        BY <1>0, <2>1
      <4> QED
        BY <2>3, <3>1, <3>4, <4>1, MappedBits
    <3> QED
      BY <2>5, <3>1, <3>2, <3>3, <3>4
  <2>7. CASE ~peer.v4
    <3>1. peer.ip \in Ipv6 /\ SubSeq(peer.ip, 1, M) # Mapped /\ peer_ip_v6(peer) = peer.ip
      BY <2>7 DEF Peers, peer_ip_v6
    <3>2. ~Covers(net, peer)
      BY <1>2, <2>7 DEF Covers
    <3>3. SUFFICES ASSUME \A i \in 1..M + p : to_ipv6_mapped(addr)[i] = peer.ip[i] PROVE FALSE
      BY <2>5, <3>1, <3>2
    <3>4. \A i \in 1..M : peer.ip[i] = Mapped[i]
      BY <1>0, <2>1, <2>3, <3>3, MappedBits
    <3>5. peer.ip \in Seq({0, 1}) /\ Len(peer.ip) = M + Bits4
      BY <1>0, <3>1, SMTT(30) DEF Ipv6, Bits6
    <3>6. SubSeq(peer.ip, 1, M) = Mapped
      BY <1>0, <3>4, <3>5
    <3> QED
      BY <3>1, <3>6
  <2> QED
    BY <2>6, <2>7
<1> QED
  BY <1>1, <1>2

\* load_acl: the loaded ACL decides on every peer as the message says.
LEMMA LoadedAcl ==
  ASSUME NEW acl, AclOK(acl),
         NEW loadedAcl \in load_acl(acl), NEW peer \in Peers
  PROVE  acl_action(loadedAcl, peer_ip_v6(peer)) = Said(acl, peer)
<1>1. /\ \A i \in DOMAIN acl.rules : acl.rules[i].source.parses
      /\ loadedAcl = [rules |-> [i \in DOMAIN acl.rules |->
                                  [source |-> Source(acl.rules[i].source),
                                   action |-> acl.rules[i].action]],
                      default_action |-> acl.default_action]
  BY DEF load_acl
<1>2. /\ DOMAIN loadedAcl.rules = DOMAIN acl.rules
      /\ loadedAcl.default_action = acl.default_action
      /\ \A i \in DOMAIN acl.rules : /\ loadedAcl.rules[i].source = Source(acl.rules[i].source)
                                     /\ loadedAcl.rules[i].action = acl.rules[i].action
  BY <1>1
<1> DEFINE hits == {i \in DOMAIN loadedAcl.rules : contains(loadedAcl.rules[i].source, peer_ip_v6(peer))}
           said_hits == {i \in DOMAIN acl.rules : Covers(acl.rules[i].source, peer)}
<1>3. hits = said_hits
  BY <1>1, <1>2, SourceCovers DEF AclOK
<1>4. /\ acl_action(loadedAcl, peer_ip_v6(peer)) =
            IF hits = {} THEN loadedAcl.default_action ELSE loadedAcl.rules[Min(hits)].action
      /\ Said(acl, peer) =
            IF said_hits = {} THEN acl.default_action ELSE acl.rules[Min(said_hits)].action
  BY DEF acl_action, Said
<1>5. said_hits # {} => Min(said_hits) \in DOMAIN acl.rules
  <2>1. said_hits \subseteq Nat
    BY DEF AclOK
  <2> QED
    BY <2>1, MinNat
<1> QED
  BY <1>2, <1>3, <1>4, <1>5

\* What load_rule makes of an ACL decides as its message says.
LEMMA LoadedRuleAcl ==
  ASSUME NEW rule, RuleOK(rule), NEW loadedAcl,
         rule.acl # {} => \E acl \in rule.acl : loadedAcl \in load_acl(acl)
  PROVE  AclKept(loadedAcl, rule.acl)
<1> SUFFICES ASSUME NEW acl \in rule.acl, NEW peer \in Peers
             PROVE  acl_action(loadedAcl, peer_ip_v6(peer)) = Said(acl, peer)
  BY DEF AclKept
<1>1. loadedAcl \in load_acl(acl) /\ AclOK(acl)
  BY DEF RuleOK, Option
<1> QED
  BY <1>1, LoadedAcl

\* The ACLs of all rules in use decide as the message that they come from.
LEMMA AclsKeptHold == TcpInv => AclsKept
<1> SUFFICES ASSUME TcpInv PROVE AclsKept
  OBVIOUS
<1>1. PICK files \in Files : config \in load_config(said, files)
  BY DEF TcpInv
<1>2. MessageOK(said)
  BY MessagesAssumption DEF TcpInv, TypeOK
<1>3. ASSUME NEW i \in DOMAIN config.rules
      PROVE  AclKept(config.rules[i].acl, said.rules[i].acl)
  <2>1. i \in DOMAIN said.rules /\ config.rules[i] \in load_rule(said.rules[i], FALSE, files)
    BY <1>1, LoadedConfig
  <2>2. RuleOK(said.rules[i])
    BY <1>2, <2>1 DEF MessageOK
  <2> QED
    BY <2>1, <2>2, LoadedRule, LoadedRuleAcl
<1>4. ASSUME NEW pb \in said.default
      PROVE  AclKept(config.default.acl, pb.acl)
  <2>1. config.default \in load_rule(pb, TRUE, files)
    BY <1>1, <1>2, LoadedConfig DEF MessageOK, Option
  <2>2. RuleOK(pb)
    BY <1>2 DEF MessageOK
  <2> QED
    BY <2>1, <2>2, LoadedRule, LoadedRuleAcl
<1> QED
  BY <1>3, <1>4 DEF AclsKept

\* The TCP router runs on what it can act on, and matches the names and decides
\* on the peers that the message it loaded says: anchoring the patterns and
\* mapping IPv4 networks into IPv6 change no decision.
THEOREM RunsAsSaid == ReloadSpec => []AsSaid
<1>1. TcpInv => AsSaid
  BY UsableHolds, WholeNamesHold, AclsKeptHold DEF AsSaid
<1> QED
  BY <1>1, TcpInvariant, PTL

-----------------------------------------------------------------------------
(* H3Reload. *)

\* What is in use was loaded from the message and in the environment that are
\* remembered.
H3Inv ==
  /\ h3said \in H3Messages
  /\ h3config \in H3!load_config(h3said, seen)

\* A SIGHUP installs what load_config returned, or leaves the configuration.
LEMMA H3Next ==
  ASSUME H3Inv, H3!Next
  PROVE  H3Inv'
<1>1. PICK pb \in H3Messages, e \in Envs :
        /\ h3config' = H3!InUse(H3!load_config(pb, e))
        /\ h3said' = IF H3!load_config(pb, e) = {} THEN h3said ELSE pb
        /\ seen' = IF H3!load_config(pb, e) = {} THEN seen ELSE e
  BY Zenon DEF H3!Next, H3!Hangup
<1>2. CASE H3!load_config(pb, e) = {}
  BY <1>1, <1>2 DEF H3!InUse, H3Inv
<1>3. CASE H3!load_config(pb, e) # {}
  BY <1>1, <1>3 DEF H3!InUse, H3Inv
<1> QED
  BY <1>2, <1>3

\* H3Inv is an invariant of Reload.
LEMMA H3Invariant == ReloadSpec => []H3Inv
<1>1. ReloadInit => H3Inv
  BY DEF ReloadInit, H3Fixed, H3!Init, H3Inv
<1>2. H3Inv /\ [ReloadNext]_<<part, vars, h3, labels, resolver>> => H3Inv'
  <2>1. H3Inv /\ UNCHANGED h3 => H3Inv'
    BY DEF H3Inv, h3
  <2>2. [ReloadNext]_<<part, vars, h3, labels, resolver>> => H3!Next \/ UNCHANGED h3
    BY DEF ReloadNext
  <2> QED
    BY <2>1, <2>2, H3Next
<1> QED
  BY <1>1, <1>2, PTL DEF ReloadSpec

\* A sequence of Results that are all Ok.
LEMMA H3Collected ==
  ASSUME NEW results, NEW all \in H3!Collect(results)
  PROVE  DOMAIN all = DOMAIN results /\ \A i \in DOMAIN results : all[i] \in results[i]
<1>1. \A i \in DOMAIN results : results[i] # {}
  BY DEF H3!Collect
<1>2. all = [i \in DOMAIN results |-> CHOOSE r \in results[i] : TRUE]
  BY DEF H3!Collect
<1> QED
  BY <1>1, <1>2

\* load_config of sni-router-h3, as LoadedConfig.
LEMMA H3LoadedConfig ==
  ASSUME NEW pb, NEW e, NEW c \in H3!load_config(pb, e)
  PROVE  /\ \E rule \in pb.default : c.default \in H3!load_rule(rule, TRUE, e)
         /\ DOMAIN c.rules = DOMAIN pb.rules
         /\ \A i \in DOMAIN pb.rules : c.rules[i] \in H3!load_rule(pb.rules[i], FALSE, e)
         /\ c.quic_lb \in H3!load_quic_lb(pb.quic_lb, e)
<1> DEFINE results == [i \in DOMAIN pb.rules |-> H3!load_rule(pb.rules[i], FALSE, e)]
           defaults == UNION {H3!load_rule(r, TRUE, e) : r \in pb.default}
           Whole(d, r, lb) == [max_lifetime |-> H3!Millis(pb.max_lifetime_ms),
                               handshake_timeout |-> H3!Millis(pb.handshake_timeout_ms),
                               default |-> d, rules |-> r, quic_lb |-> lb]
<1>1. /\ c.default \in defaults /\ c.rules \in H3!Collect(results)
      /\ c.quic_lb \in H3!load_quic_lb(pb.quic_lb, e)
  <2>1. H3!load_config(pb, e) =
          {Whole(d, r, lb) : d \in defaults, r \in H3!Collect(results),
                             lb \in H3!load_quic_lb(pb.quic_lb, e)}
    BY DEF H3!load_config
  <2>2. PICK d \in defaults, r \in H3!Collect(results), lb \in H3!load_quic_lb(pb.quic_lb, e) :
          c = Whole(d, r, lb)
    <3> HIDE DEF Whole, defaults, results
    <3> QED
      BY <2>1
  <2> HIDE DEF defaults, results
  <2> QED
    BY <2>2
<1>2. DOMAIN results = DOMAIN pb.rules
  OBVIOUS
<1> QED
  BY <1>1, <1>2, H3Collected

\* load_rule of sni-router-h3, as LoadedRule.
LEMMA H3LoadedRule ==
  ASSUME NEW rule, NEW is_default \in BOOLEAN, NEW e, NEW r \in H3!load_rule(rule, is_default, e)
  PROVE  /\ rule.acl # {} => \E acl \in rule.acl : r.acl \in H3!load_acl(acl)
         /\ \E be \in rule.backend : r.backend \in H3!load_backend(be, e)
BY DEF H3!load_rule

\* Both routers load and decide ACLs the same way.
LEMMA SameAcl ==
  /\ \A acl : H3!load_acl(acl) = load_acl(acl)
  /\ \A l, pb : H3!AclKept(l, pb) <=> AclKept(l, pb)
<1>1. \A net : H3!Source(net) = Source(net)
  BY DEF H3!Source, Source, H3!to_ipv6_mapped, to_ipv6_mapped, H3!network, network
<1>2. \A acl : H3!load_acl(acl) = load_acl(acl)
  BY <1>1, Zenon DEF H3!load_acl, load_acl
<1>3. \A net, a : H3!contains(net, a) = contains(net, a)
  BY DEF H3!contains, contains
<1>4. \A peer : H3!peer_ip_v6(peer) = peer_ip_v6(peer)
  BY DEF H3!peer_ip_v6, peer_ip_v6, H3!to_ipv6_mapped, to_ipv6_mapped
<1>5. \A S : H3!Min(S) = Min(S)
  BY DEF H3!Min, Min
<1>6. ASSUME NEW acl, NEW ip PROVE H3!acl_action(acl, ip) = acl_action(acl, ip)
  <2> DEFINE ours == {i \in DOMAIN acl.rules : H3!contains(acl.rules[i].source, ip)}
             theirs == {i \in DOMAIN acl.rules : contains(acl.rules[i].source, ip)}
  <2>1. ours = theirs
    BY <1>3
  <2>2. H3!Min(ours) = Min(theirs)
    BY <1>5, <2>1
  <2> QED
    BY <2>1, <2>2 DEF H3!acl_action, acl_action
<1>7. ASSUME NEW acl, NEW peer PROVE H3!Said(acl, peer) = Said(acl, peer)
  <2> DEFINE ours == {i \in DOMAIN acl.rules : H3!Covers(acl.rules[i].source, peer)}
             theirs == {i \in DOMAIN acl.rules : Covers(acl.rules[i].source, peer)}
  <2>1. \A net : H3!Covers(net, peer) <=> Covers(net, peer)
    BY <1>3, <1>4 DEF H3!Covers, Covers
  <2>2. ours = theirs
    BY <2>1
  <2>3. H3!Min(ours) = Min(theirs)
    BY <1>5, <2>2
  <2> QED
    BY <2>2, <2>3 DEF H3!Said, Said
<1>8. H3!Peers = Peers
  BY DEF H3!Peers, Peers, H3!Ipv4, Ipv4, H3!Ipv6, Ipv6, H3!Bits6, Bits6
<1>9. \A l, pb : H3!AclKept(l, pb) <=> AclKept(l, pb)
  BY <1>4, <1>6, <1>7, <1>8 DEF H3!AclKept, AclKept
<1> QED
  BY <1>2, <1>9

\* BackendKept of H3Reload, for any environment.
BackendKeptIn(b, be, e) ==
  /\ be.frontend_tls = {} /\ be.sorry = {}
  /\ \/ be.backend_type = "null" /\ b.kind = "null"
     \/ /\ be.backend_type = "proxy" /\ ~be.proxy_header
        /\ b = [kind |-> "udp", addr |-> {e.dns[be.addr][1]}]

\* What holds of a rule that is in use, the default rule too.
LEMMA H3RuleLoaded ==
  ASSUME NEW rule, RuleOK(rule), NEW is_default \in BOOLEAN, NEW e,
         NEW r \in H3!load_rule(rule, is_default, e)
  PROVE  /\ H3!AclKept(r.acl, rule.acl)
         /\ \A be \in rule.backend : BackendKeptIn(r.backend, be, e)
<1>1. H3!AclKept(r.acl, rule.acl)
  BY H3LoadedRule, SameAcl, LoadedRuleAcl
<1>2. ASSUME NEW be \in rule.backend
      PROVE  BackendKeptIn(r.backend, be, e)
  <2>1. r.backend \in H3!load_backend(be, e)
    BY H3LoadedRule DEF RuleOK, Option
  <2>2. ~H3!TcpOnly(be) /\ be.backend_type # ""
    BY <2>1 DEF H3!load_backend
  <2>3. be.backend_type \in {"", "null", "pass", "proxy"}
    BY DEF RuleOK
  <2>4. be.frontend_tls = {} /\ be.sorry = {} /\ be.backend_type \in {"null", "proxy"}
        /\ (be.backend_type = "proxy" => ~be.proxy_header)
    BY <2>2, <2>3 DEF H3!TcpOnly
  <2>5. CASE be.backend_type = "null"
    <3>1. r.backend = [kind |-> "null", addr |-> {}]
      BY <2>1, <2>2, <2>5 DEF H3!load_backend
    <3> QED
      BY <2>4, <2>5, <3>1 DEF BackendKeptIn
  <2>6. CASE be.backend_type = "proxy"
    <3>1. PICK a \in H3!resolve_one_addr(be.addr, e) : r.backend = [kind |-> "udp", addr |-> {a}]
      BY <2>1, <2>2, <2>6 DEF H3!load_backend
    <3>2. a = e.dns[be.addr][1]
      BY <3>1 DEF H3!resolve_one_addr
    <3> QED
      BY <2>4, <2>6, <3>1, <3>2 DEF BackendKeptIn
  <2> QED
    BY <2>4, <2>5, <2>6
<1> QED
  BY <1>1, <1>2

\* sni-router-h3 decides on the peers as the message it loaded says, and each of
\* its backends drops or sends to the first address that the backend's name had
\* when it was loaded; no backend of a message that it runs on has any of the
\* four options that load_backend refuses.
THEOREM H3RunsAsSaid == ReloadSpec => []H3AsSaid
<1>1. H3Inv => H3AsSaid
  <2> SUFFICES ASSUME H3Inv PROVE H3AsSaid
    OBVIOUS
  <2>1. MessageOK(h3said)
    BY MessagesAssumption DEF H3Inv
  <2>2. ASSUME NEW i \in DOMAIN h3said.rules
        PROVE  RuleOK(h3said.rules[i]) /\ h3config.rules[i] \in H3!load_rule(h3said.rules[i], FALSE, seen)
    BY <2>1, H3LoadedConfig DEF H3Inv, MessageOK
  <2>3. ASSUME NEW rule \in h3said.default
        PROVE  RuleOK(rule) /\ h3config.default \in H3!load_rule(rule, TRUE, seen)
    BY <2>1, H3LoadedConfig DEF H3Inv, MessageOK, Option
  <2>4. DOMAIN h3config.rules = DOMAIN h3said.rules
    BY H3LoadedConfig DEF H3Inv
  <2>5. H3!AclsKept
    BY <2>2, <2>3, <2>4, H3RuleLoaded DEF H3!AclsKept
  <2>6. H3!BackendsKept
    <3>1. \A b, be : BackendKeptIn(b, be, seen) <=> H3!BackendKept(b, be)
      BY DEF BackendKeptIn, H3!BackendKept
    <3>2. ASSUME NEW i \in DOMAIN h3said.rules, NEW be \in h3said.rules[i].backend
          PROVE  H3!BackendKept(h3config.rules[i].backend, be)
      BY <2>2, <3>1, H3RuleLoaded
    <3>3. ASSUME NEW rule \in h3said.default, NEW be \in rule.backend
          PROVE  H3!BackendKept(h3config.default.backend, be)
      BY <2>3, <3>1, H3RuleLoaded
    <3> QED
      BY <2>4, <3>2, <3>3 DEF H3!BackendsKept
  <2> QED
    BY <2>5, <2>6 DEF H3AsSaid
<1> QED
  BY <1>1, H3Invariant, PTL

\* Every server ID of a message has the address that its server resolved to,
\* and there is at least one.
ServersResolved(t, servers, e) ==
  /\ DOMAIN t # {}
  /\ \A id \in DOMAIN t : \E j \in DOMAIN servers : id \in servers[j].server_id
  /\ \A j \in DOMAIN servers : \A id \in servers[j].server_id :
       id \in DOMAIN t /\ t[id] = {H3!normalize_socket_addr(e.dns[servers[j].addr][1])}

\* load_servers resolves every server of the message.
LEMMA LoadedServers ==
  ASSUME NEW lb, LbOK(lb), NEW e, NEW loadedServers \in H3!load_servers(lb.servers, e)
  PROVE  ServersResolved(loadedServers, lb.servers, e)
<1> DEFINE servers == lb.servers
           results == [i \in DOMAIN servers |-> H3!resolve_one_addr(servers[i].addr, e)]
           ids == UNION {servers[i].server_id : i \in DOMAIN servers}
           Of(id) == {j \in DOMAIN servers : servers[j].server_id = {id}}
           Table(a) == [id \in ids |-> {H3!normalize_socket_addr(a[i]) : i \in Of(id)}]
<1>1. /\ servers # <<>> /\ H3!ServersDiffer(servers)
      /\ \E a \in H3!Collect(results) : loadedServers = Table(a)
  BY DEF H3!load_servers
<1>2. PICK a \in H3!Collect(results) : loadedServers = Table(a)
  BY <1>1
<1>3. \A i \in DOMAIN servers : a[i] = e.dns[servers[i].addr][1]
  <2>1. \A i \in DOMAIN servers : a[i] \in H3!resolve_one_addr(servers[i].addr, e)
    BY H3Collected
  <2> QED
    BY <2>1 DEF H3!resolve_one_addr
<1>4. DOMAIN servers # {}
  BY <1>1 DEF LbOK
<1>5. \A i \in DOMAIN servers : servers[i].server_id # {}
  BY <1>1 DEF H3!ServersDiffer
<1>6. DOMAIN loadedServers = ids /\ ids # {}
  BY <1>2, <1>4, <1>5
<1>7. ASSUME NEW j \in DOMAIN servers, NEW id \in servers[j].server_id
      PROVE  Of(id) = {j}
  <2>1. servers[j].server_id = {id}
    BY DEF LbOK, Option
  <2> QED
    BY <1>1, <2>1 DEF H3!ServersDiffer
<1>8. ASSUME NEW j \in DOMAIN servers, NEW id \in servers[j].server_id
      PROVE  id \in ids /\ loadedServers[id] = {H3!normalize_socket_addr(e.dns[servers[j].addr][1])}
  <2>1. id \in ids
    OBVIOUS
  <2>2. loadedServers[id] = {H3!normalize_socket_addr(a[i]) : i \in Of(id)}
    BY <1>2, <2>1
  <2> HIDE DEF Of
  <2> QED
    BY <1>3, <1>7, <2>1, <2>2
<1> QED
  BY <1>6, <1>8 DEF ServersResolved

\* Each QUIC-LB configuration in use has the ID, the key and the servers of its
\* message.
LEMMA LoadedLb ==
  ASSUME H3Inv
  PROVE  /\ DOMAIN h3config.quic_lb = DOMAIN h3said.quic_lb
         /\ H3!IdsDiffer(h3said.quic_lb)
         /\ \A i \in DOMAIN h3said.quic_lb :
              LET lb == h3said.quic_lb[i] IN
              /\ LbOK(lb)
              /\ h3config.quic_lb[i].codec =
                   [config_id |-> lb.config_id, key |-> seen.keys[lb.key_file]]
              /\ h3config.quic_lb[i].codec.config_id = lb.config_id
              /\ h3config.quic_lb[i].servers \in H3!load_servers(lb.servers, seen)
<1> DEFINE lbs == h3said.quic_lb
           results == [i \in DOMAIN lbs |-> H3!load_lb(lbs[i], seen)]
<1>1. h3config.quic_lb \in H3!load_quic_lb(lbs, seen)
  BY H3LoadedConfig DEF H3Inv
<1>2. H3!IdsDiffer(lbs) /\ h3config.quic_lb \in H3!Collect(results)
  BY <1>1 DEF H3!load_quic_lb
<1>3. /\ DOMAIN h3config.quic_lb = DOMAIN lbs
      /\ \A i \in DOMAIN lbs : h3config.quic_lb[i] \in H3!load_lb(lbs[i], seen)
  BY <1>2, H3Collected
<1>4. MessageOK(h3said)
  BY MessagesAssumption DEF H3Inv
<1>5. ASSUME NEW i \in DOMAIN lbs
      PROVE  /\ LbOK(lbs[i])
             /\ h3config.quic_lb[i].codec =
                  [config_id |-> lbs[i].config_id, key |-> seen.keys[lbs[i].key_file]]
             /\ h3config.quic_lb[i].codec.config_id = lbs[i].config_id
             /\ h3config.quic_lb[i].servers \in H3!load_servers(lbs[i].servers, seen)
  <2>1. PICK c \in H3!from_key_file(lbs[i].config_id, lbs[i].key_file, seen),
             t \in H3!load_servers(lbs[i].servers, seen) :
               h3config.quic_lb[i] = [codec |-> c, servers |-> t]
    BY <1>3 DEF H3!load_lb
  <2>2. c = [config_id |-> lbs[i].config_id, key |-> seen.keys[lbs[i].key_file]]
    BY <2>1, Zenon DEF H3!from_key_file
  <2>3. h3config.quic_lb[i].codec = c /\ c.config_id = lbs[i].config_id
    BY <2>1, <2>2
  <2> QED
    BY <1>4, <2>1, <2>2, <2>3 DEF MessageOK
<1> QED
  BY <1>2, <1>3, <1>5

\* The cardinality that H3Reload counts decoders and addresses with.
LEMMA H3Cardinality == \A S : H3!Cardinality(S) = Cardinality(S)
BY DEF H3!Cardinality, Cardinality

\* A connection ID is decoded under one configuration at most, and a server ID has
\* one address; what a server issued under the loaded key is decoded as its own,
\* and its address is the one that the message in use gives this server.
THEOREM LbIsKept == ReloadSpec => []LbKept
<1>1. H3Inv => LbKept
  <2> SUFFICES ASSUME H3Inv PROVE LbKept
    OBVIOUS
  <2>1. ASSUME NEW cid \in Cids
        PROVE  H3!Cardinality({i \in DOMAIN h3config.quic_lb :
                                 H3!decrypt(h3config.quic_lb[i].codec, cid) # {}}) <= 1
    <3> DEFINE hits == {i \in DOMAIN h3config.quic_lb :
                          H3!decrypt(h3config.quic_lb[i].codec, cid) # {}}
    <3>1. \A i \in hits : h3config.quic_lb[i].codec.config_id = cid.config_id
      BY DEF H3!decrypt
    <3>2. ASSUME NEW i \in hits, NEW j \in hits PROVE i = j
      <4>1. /\ i \in DOMAIN h3said.quic_lb /\ j \in DOMAIN h3said.quic_lb
            /\ H3!IdsDiffer(h3said.quic_lb)
        BY LoadedLb
      <4>2. /\ h3said.quic_lb[i].config_id = cid.config_id
            /\ h3said.quic_lb[j].config_id = cid.config_id
        <5> HIDE DEF hits
        <5>1. \A x \in DOMAIN h3said.quic_lb :
                h3config.quic_lb[x].codec.config_id = h3said.quic_lb[x].config_id
          BY LoadedLb, Zenon
        <5> QED
          BY <3>1, <4>1, <5>1
      <4> QED
        BY <4>1, <4>2, Zenon DEF H3!IdsDiffer
    <3>3. hits = {} \/ \E i \in hits : hits = {i}
      <4> HIDE DEF hits
      <4> QED
        BY <3>2
    <3>4. Cardinality(hits) <= 1
      <4> HIDE DEF hits
      <4> QED
        BY <3>3, FS_EmptySet, FS_Singleton, SMTT(30)
    <3> QED
      BY <3>4, H3Cardinality
  <2>2. ASSUME NEW i \in DOMAIN h3config.quic_lb
        PROVE  LET t == h3config.quic_lb[i].servers IN
               DOMAIN t # {} /\ \A id \in DOMAIN t : H3!Cardinality(t[id]) = 1
    <3> DEFINE t == h3config.quic_lb[i].servers
           lb == h3said.quic_lb[i]
    <3>0. LbOK(lb) /\ t \in H3!load_servers(lb.servers, seen)
      BY LoadedLb, Zenon
    <3>1. DOMAIN t # {} /\ \A id \in DOMAIN t : \E x : t[id] = {x}
      <4> HIDE DEF t, lb
      <4>1. ServersResolved(t, lb.servers, seen)
        BY <3>0, LoadedServers
      <4> QED
        BY <4>1, Zenon DEF ServersResolved
    <3> HIDE DEF t
    <3>2. \A id \in DOMAIN t : H3!Cardinality(t[id]) = 1
      BY <3>1, FS_Singleton, H3Cardinality
    <3> QED
      BY <3>1, <3>2 DEF t
  <2>3. H3!LbUnambiguous
    BY <2>1, <2>2 DEF H3!LbUnambiguous
  <2>4. H3!LbKept
    <3> SUFFICES ASSUME NEW i \in DOMAIN h3said.quic_lb, NEW j \in DOMAIN h3said.quic_lb[i].servers,
                        NEW id \in h3said.quic_lb[i].servers[j].server_id
                 PROVE  /\ i \in DOMAIN h3config.quic_lb
                        /\ \A cid \in Cids :
                             H3!Issued(cid, h3said.quic_lb[i], id) =>
                               H3!decrypt(h3config.quic_lb[i].codec, cid) = {id}
                        /\ h3config.quic_lb[i].servers[id] =
                             {H3!normalize_socket_addr(seen.dns[h3said.quic_lb[i].servers[j].addr][1])}
      BY Zenon DEF H3!LbKept
    <3>1. /\ i \in DOMAIN h3config.quic_lb /\ LbOK(h3said.quic_lb[i])
          /\ h3config.quic_lb[i].servers \in H3!load_servers(h3said.quic_lb[i].servers, seen)
      BY LoadedLb, Zenon
    <3>2. ServersResolved(h3config.quic_lb[i].servers, h3said.quic_lb[i].servers, seen)
      BY <3>1, LoadedServers
    <3>3. h3config.quic_lb[i].codec =
            [config_id |-> h3said.quic_lb[i].config_id, key |-> seen.keys[h3said.quic_lb[i].key_file]]
      BY LoadedLb, Zenon
    <3>4. ASSUME NEW cid \in Cids, H3!Issued(cid, h3said.quic_lb[i], id)
          PROVE  H3!decrypt(h3config.quic_lb[i].codec, cid) = {id}
      BY <3>3, <3>4 DEF H3!Issued, H3!decrypt
    <3> QED
      BY <3>1, <3>2, <3>4, Zenon DEF ServersResolved
  <2> QED
    BY <2>3, <2>4 DEF LbKept
<1> QED
  BY <1>1, H3Invariant, PTL

-----------------------------------------------------------------------------
(* SniLabels. *)

\* The series are the names that have a label and the fixed ones, the labels
\* keep to the limits, and the counters add up to the ClientHellos.
LabelsInv ==
  /\ Labels!TypeOK
  /\ sni_metric_labels \cap LongNames = {}
  /\ Cardinality(sni_metric_labels) <= MaxLabels
  /\ DOMAIN sni \subseteq sni_metric_labels \cup Labels!Fixed
  /\ \A l \in DOMAIN sni : sni[l] \in Nat
  /\ SumFunctionOnSet(sni, DOMAIN sni) = SumFunctionOnSet(hellos, SniNames \cup {Missing})

\* SniLabels sums and counts with the operators of the community modules.
LEMMA LabelsOperators ==
  /\ \A S : Labels!Cardinality(S) = Cardinality(S)
  /\ \A F, S : Labels!SumFunctionOnSet(F, S) = SumFunctionOnSet(F, S)
<1>1. \A S : Labels!Cardinality(S) = Cardinality(S)
  BY DEF Labels!Cardinality, Cardinality
<1>2. \A F, S : Labels!SumFunctionOnSet(F, S) = PartialSums(F, S)[S]
  BY DEF Labels!SumFunctionOnSet, Labels!FoldFunctionOnSet, Labels!MapThenFoldSet, PartialSums,
         IsPartialSums, SumOne, AnyOf
<1> QED
  BY <1>1, <1>2, SumUnfold

\* All sets that are counted or summed over are finite.
LEMMA LabelsFinite ==
  ASSUME LabelsInv
  PROVE  /\ IsFiniteSet(SniNames \cup {Missing})
         /\ IsFiniteSet(sni_metric_labels) /\ Cardinality(sni_metric_labels) \in Nat
         /\ IsFiniteSet(Labels!Fixed) /\ Cardinality(Labels!Fixed) \in Nat
         /\ IsFiniteSet(DOMAIN sni) /\ Cardinality(DOMAIN sni) \in Nat
<1>1. IsFiniteSet(SniNames)
  BY LabelsAssumption
<1>2. IsFiniteSet(SniNames \cup {Missing})
  BY <1>1, FS_AddElement
<1>3. IsFiniteSet(sni_metric_labels)
  BY <1>1, FS_Subset DEF LabelsInv, Labels!TypeOK
<1>4. IsFiniteSet(Labels!Fixed)
  <2>1. IsFiniteSet({}) /\ Labels!Fixed = (({} \cup {"<other>"}) \cup {"<unknown>"}) \cup {"<missing>"}
    BY FS_EmptySet DEF Labels!Fixed
  <2> QED
    BY <2>1, FS_AddElement
<1>5. IsFiniteSet(sni_metric_labels \cup Labels!Fixed)
  BY <1>3, <1>4, FS_Union
<1>6. IsFiniteSet(DOMAIN sni)
  BY <1>5, FS_Subset DEF LabelsInv
<1> QED
  BY <1>2, <1>3, <1>4, <1>6, FS_CardinalityType

\* One more in one place of a function is one more in the sum.
LEMMA SumOneMore ==
  ASSUME NEW F, NEW G, NEW S, IsFiniteSet(S), NEW x \in S,
         \A y \in S : F[y] \in Nat /\ G[y] = IF y = x THEN F[y] + 1 ELSE F[y]
  PROVE  SumFunctionOnSet(G, S) = SumFunctionOnSet(F, S) + 1
<1>1. \A y \in S : G[y] \in Nat
  OBVIOUS
<1>2. /\ SumFunctionOnSet(F, S) = F[x] + SumFunctionOnSet(F, S \ {x})
      /\ SumFunctionOnSet(G, S) = G[x] + SumFunctionOnSet(G, S \ {x})
  BY <1>1, SumRemove
<1>3. IsFiniteSet(S \ {x}) /\ \A y \in S \ {x} : F[y] = G[y] /\ F[y] \in Nat
  BY FS_RemoveElement
<1>4. SumFunctionOnSet(F, S \ {x}) = SumFunctionOnSet(G, S \ {x})
  BY <1>3, SumEq
<1>5. SumFunctionOnSet(F, S \ {x}) \in Nat
  BY <1>3, SumNat
<1> QED
  BY <1>2, <1>4, <1>5

\* Without ClientHellos there are no series, and both sums are zero.
LEMMA LabelsInit == Labels!Init => LabelsInv
<1> SUFFICES ASSUME Labels!Init PROVE LabelsInv
  OBVIOUS
<1>1. Labels!TypeOK /\ DOMAIN sni = {} /\ sni_metric_labels = {}
  BY LabelsAssumption DEF Labels!Init, Labels!TypeOK
<1>2. Cardinality({}) = 0
  BY FS_EmptySet
<1> DEFINE S == SniNames \cup {Missing}
<1>3. \A n \in S : hellos[n] = 0
  BY DEF Labels!Init
<1>4. IsFiniteSet(S)
  BY LabelsAssumption, FS_AddElement
<1>5. SumFunctionOnSet(hellos, S) = 0
  <2> HIDE DEF S
  <2> DEFINE Wrong == {s \in SUBSET S : SumFunctionOnSet(hellos, s) # 0}
  <2>1. Wrong = {}
    <3> SUFFICES ASSUME Wrong # {} PROVE FALSE
      OBVIOUS
    <3>1. PICK s \in Wrong : \A x \in s : s \ {x} \notin Wrong
      BY <1>4, FS_Subset, MinimalSet
    <3>2. s # {} /\ IsFiniteSet(s) /\ s \subseteq S
      BY <1>4, FS_Subset, SumEmpty
    <3>3. AnyOf(s) \in s
      BY <3>2, AnyOfSmaller
    <3>4. SumFunctionOnSet(hellos, s \ {AnyOf(s)}) = 0
      BY <3>1, <3>2, <3>3
    <3> QED
      BY <1>3, <3>1, <3>2, <3>3, <3>4, SumFirst
  <2> QED
    BY <2>1
<1> QED
  BY <1>1, <1>2, <1>5, SumEmpty, LabelsAssumption DEF LabelsInv

\* The label under which record_sni counts.
LEMMA LabelIs ==
  ASSUME LabelsInv, NEW name \in SniNames \cup {Missing}
  PROVE  \/ Labels!Labelled(name) = {} /\ Labels!Label(name) \in Labels!Fixed
         \/ /\ Labels!Labelled(name) = {name} /\ Labels!Label(name) = name
            /\ name \in SniNames /\ name \in matched /\ ~Labels!Refused(name)
<1>1. name = Missing => name \notin matched
  BY LabelsAssumption DEF LabelsInv, Labels!TypeOK
<1>2. CASE name = Missing
  BY <1>1, <1>2 DEF Labels!Label, Labels!Labelled, Labels!Fixed
<1>3. CASE name # Missing /\ name \in matched
  BY <1>3 DEF Labels!Label, Labels!Labelled, Labels!Fixed
<1>4. CASE name # Missing /\ name \notin matched
  BY <1>4 DEF Labels!Label, Labels!Labelled, Labels!Fixed
<1> QED
  BY <1>2, <1>3, <1>4

\* record_sni adds one to one series and to one name, within the limits.
LEMMA RecordInv ==
  ASSUME LabelsInv, NEW name \in SniNames \cup {Missing}, Labels!record_sni(name)
  PROVE  LabelsInv'
<1> DEFINE label == Labels!Label(name)
           S == DOMAIN sni
           asked == SniNames \cup {Missing}
<1>1. /\ hellos[name] < MaxHellos /\ UNCHANGED matched
      /\ sni_metric_labels' = sni_metric_labels \cup Labels!Labelled(name)
      /\ sni' = [l \in S \cup {label} |->
                   IF l = label THEN (IF l \in S THEN sni[l] ELSE 0) + 1
                                ELSE (IF l \in S THEN sni[l] ELSE 0)]
      /\ hellos' = [hellos EXCEPT ![name] = @ + 1]
  BY DEF Labels!record_sni
<1> HIDE DEF label
<1>2. \/ Labels!Labelled(name) = {} /\ label \in Labels!Fixed
      \/ /\ Labels!Labelled(name) = {name} /\ label = name
         /\ name \in SniNames /\ name \in matched /\ ~Labels!Refused(name)
  BY LabelIs DEF label
<1>3. /\ DOMAIN sni' = S \cup {label}
      /\ \A l \in S \cup {label} : sni'[l] \in Nat
  BY <1>1 DEF LabelsInv
<1>4. Labels!TypeOK'
  <2>1. hellos' \in [asked -> 0..MaxHellos]
    BY <1>1, LabelsAssumption DEF LabelsInv, Labels!TypeOK
  <2> QED
    BY <1>1, <1>2, <1>3, <2>1 DEF LabelsInv, Labels!TypeOK, Labels!Fixed
<1>5. sni_metric_labels' \cap LongNames = {}
  BY <1>1, <1>2 DEF LabelsInv, Labels!Refused
<1>6. Cardinality(sni_metric_labels') <= MaxLabels
  <2>1. CASE sni_metric_labels' = sni_metric_labels
    BY <2>1 DEF LabelsInv
  <2>2. CASE sni_metric_labels' # sni_metric_labels
    <3>1. name \notin sni_metric_labels /\ sni_metric_labels' = sni_metric_labels \cup {name}
      BY <1>1, <1>2, <2>2
    <3>2. ~(Cardinality(sni_metric_labels) >= MaxLabels)
      BY <1>1, <1>2, <3>1, <2>2, LabelsOperators DEF Labels!Refused
    <3>3. Cardinality(sni_metric_labels') = Cardinality(sni_metric_labels) + 1
      BY <3>1, FS_AddElement, LabelsFinite
    <3> QED
      BY <3>2, <3>3, LabelsFinite, LabelsAssumption
  <2> QED
    BY <2>1, <2>2
<1>7. DOMAIN sni' \subseteq sni_metric_labels' \cup Labels!Fixed'
  BY <1>1, <1>2, <1>3 DEF LabelsInv, Labels!Fixed
<1>8. SumFunctionOnSet(hellos', asked) = SumFunctionOnSet(hellos, asked) + 1
  <2>1. \A n \in asked : hellos[n] \in Nat /\ hellos'[n] = IF n = name THEN hellos[n] + 1 ELSE hellos[n]
    BY <1>1 DEF LabelsInv, Labels!TypeOK
  <2> HIDE DEF asked
  <2>2. IsFiniteSet(asked) /\ name \in asked
    BY LabelsFinite DEF asked
  <2> QED
    BY <2>1, <2>2, SumOneMore
<1>9. SumFunctionOnSet(sni', DOMAIN sni') = SumFunctionOnSet(sni, S) + 1
  <2>1. IsFiniteSet(S) /\ \A l \in S : sni[l] \in Nat
    BY LabelsFinite DEF LabelsInv
  <2>2. CASE label \in S
    <3>1. DOMAIN sni' = S /\ \A l \in S : sni'[l] = IF l = label THEN sni[l] + 1 ELSE sni[l]
      BY <1>1, <1>3, <2>2
    <3> HIDE DEF S
    <3> QED
      BY <2>1, <2>2, <3>1, SumOneMore
  <2>3. CASE label \notin S
    <3>1. sni'[label] = 1 /\ \A l \in S : sni'[l] = sni[l]
      BY <1>1, <2>3
    <3> HIDE DEF S
    <3>2. IsFiniteSet(S \cup {label}) /\ (S \cup {label}) \ {label} = S
      BY <2>1, <2>3, FS_AddElement
    <3>3. SumFunctionOnSet(sni', S \cup {label}) = 1 + SumFunctionOnSet(sni', S)
      BY <1>3, <3>1, <3>2, SumRemove
    <3>4. SumFunctionOnSet(sni', S) = SumFunctionOnSet(sni, S) /\ SumFunctionOnSet(sni, S) \in Nat
      BY <2>1, <3>1, SumEq, SumNat
    <3> QED
      BY <1>3, <3>3, <3>4
  <2> QED
    BY <2>2, <2>3
<1>10. \A l \in DOMAIN sni' : sni'[l] \in Nat
  BY <1>3
<1>11. SumFunctionOnSet(sni', DOMAIN sni') = SumFunctionOnSet(hellos', asked)
  BY <1>8, <1>9 DEF LabelsInv
<1> QED
  BY <1>4, <1>5, <1>6, <1>7, <1>10, <1>11 DEF LabelsInv

\* record_sni and set_config keep LabelsInv.
LEMMA LabelsNext ==
  ASSUME LabelsInv, Labels!Next
  PROVE  LabelsInv'
<1>1. ASSUME NEW new \in Matches, Labels!set_config(new)
      PROVE  LabelsInv'
  BY <1>1 DEF Labels!set_config, Labels!Kept, LabelsInv, Labels!TypeOK, Labels!Fixed
<1> QED
  BY <1>1, RecordInv DEF Labels!Next

\* How a step of Reload moves the labels.
LEMMA ReloadLabels ==
  ASSUME [ReloadNext]_<<part, vars, h3, labels, resolver>>
  PROVE  Labels!Next \/ UNCHANGED labels
BY DEF ReloadNext

\* LabelsInv is an invariant of Reload.
LEMMA LabelsInvariant == ReloadSpec => []LabelsInv
<1>1. ReloadInit => LabelsInv
  BY LabelsInit DEF ReloadInit, LabelsFixed
<1>2. LabelsInv /\ [ReloadNext]_<<part, vars, h3, labels, resolver>> => LabelsInv'
  <2>1. LabelsInv /\ UNCHANGED labels => LabelsInv'
    BY DEF LabelsInv, Labels!TypeOK, Labels!Fixed, labels
  <2> QED
    BY <2>1, ReloadLabels, LabelsNext
<1> QED
  BY <1>1, <1>2, PTL DEF ReloadSpec

\* The limits of the metric hold.
LEMMA SeriesBoundedHolds == LabelsInv => Labels!SeriesBounded
<1> SUFFICES ASSUME LabelsInv PROVE Labels!SeriesBounded
  OBVIOUS
<1>1. Cardinality(DOMAIN sni) <= MaxLabels + Cardinality(Labels!Fixed)
  <2> DEFINE all == sni_metric_labels \cup Labels!Fixed
  <2>1. /\ IsFiniteSet(all)
        /\ Cardinality(all) = Cardinality(sni_metric_labels) + Cardinality(Labels!Fixed)
                                - Cardinality(sni_metric_labels \cap Labels!Fixed)
    BY LabelsFinite, FS_Union
  <2>2. Cardinality(sni_metric_labels \cap Labels!Fixed) \in Nat
    BY LabelsFinite, FS_Intersection, FS_CardinalityType
  <2>3. DOMAIN sni \subseteq all
    BY DEF LabelsInv
  <2>4. Cardinality(DOMAIN sni) <= Cardinality(all) /\ Cardinality(all) \in Nat
    <3> HIDE DEF all
    <3> QED
      BY <2>1, <2>3, FS_Subset, FS_CardinalityType
  <2>5. Cardinality(sni_metric_labels) <= MaxLabels
    BY DEF LabelsInv
  <2> HIDE DEF all
  <2> QED
    BY <2>1, <2>2, <2>4, <2>5, LabelsFinite, LabelsAssumption
<1>2. DOMAIN sni \cap LongNames = {}
  BY LabelsAssumption DEF LabelsInv
<1> QED
  BY <1>1, <1>2, LabelsOperators DEF LabelsInv, Labels!SeriesBounded

\* However many names clients ask for and however the rules change, the metric
\* has a bounded number of series, counts every ClientHello once, and a name
\* that has a series keeps it.
THEOREM SeriesAreKept == ReloadSpec => SeriesKept
<1> DEFINE Keeps == \A n \in (DOMAIN sni \cap SniNames) \ Labels!Fixed :
                     (n \in matched /\ hellos'[n] > hellos[n]) => sni'[n] = sni[n] + 1
<1>1. LabelsInv /\ [ReloadNext]_<<part, vars, h3, labels, resolver>> => [Keeps]_Labels!vars
  <2> SUFFICES ASSUME LabelsInv, [ReloadNext]_<<part, vars, h3, labels, resolver>>,
                      NEW n \in (DOMAIN sni \cap SniNames) \ Labels!Fixed,
                      n \in matched, hellos'[n] > hellos[n]
               PROVE  sni'[n] = sni[n] + 1
    OBVIOUS
  <2>1. hellos \in [SniNames \cup {Missing} -> 0..MaxHellos]
    BY DEF LabelsInv, Labels!TypeOK
  <2>2. PICK name \in SniNames \cup {Missing} : Labels!record_sni(name)
    <3>1. hellos' # hellos
      BY <2>1
    <3> QED
      BY <3>1, ReloadLabels DEF Labels!Next, Labels!set_config, labels
  <2>3. n = name
    BY <2>1, <2>2 DEF Labels!record_sni
  <2>4. ~Labels!Refused(n)
    BY DEF LabelsInv, Labels!Refused
  <2>5. Labels!Label(n) = n
    <3>1. Labels!Labelled(n) = {n}
      BY <2>4 DEF Labels!Labelled
    <3> QED
      BY <3>1, LabelIs
  <2> QED
    BY <2>2, <2>3, <2>5 DEF Labels!record_sni
<1>2. ReloadSpec => [][Keeps]_Labels!vars
  BY <1>1, LabelsInvariant, PTL DEF ReloadSpec
<1>3. ReloadSpec => []Labels!SeriesBounded
  BY SeriesBoundedHolds, LabelsInvariant, PTL
<1> QED
  BY <1>2, <1>3, PTL DEF SeriesKept, Labels!SeriesKept

=============================================================================
