------------------------------- MODULE Reload -------------------------------
(***************************************************************************)
(* What changes while the routers run: the configuration of the TCP router *)
(* (TcpReload) and of sni-router-h3 (H3Reload), the labels of its SNI      *)
(* metric (SniLabels) and the hosts file (Resolver).  These share no       *)
(* state, so that a behaviour is one of any of them: `part' says which,    *)
(* and the others stay as they were made.                                  *)
(***************************************************************************)
EXTENDS TcpReload

CONSTANTS
  H3Messages, Envs, Cids,                             \* of H3Reload
  SniNames, LongNames, Missing, Matches,              \* of SniLabels
  MaxLabels, MaxHellos,
  Lookups, MaxVersion,                                \* of Resolver
  FixedMessage, FixedEnv   \* what a part that stays as it is has loaded

VARIABLES
  part, h3config, h3said, seen, matched, sni_metric_labels, sni, hellos, file, readable,
  hosts, RESOLVER, reload, loaded, snap, views, published, since

h3 == <<h3config, h3said, seen>>
labels == <<matched, sni_metric_labels, sni, hellos>>
resolver == <<file, readable, hosts, RESOLVER, reload, loaded, snap, views, published, since>>

H3 == INSTANCE H3Reload WITH Messages <- H3Messages, config <- h3config, said <- h3said
Labels == INSTANCE SniLabels WITH
  Names <- SniNames, Long <- LongNames, Configs <- Matches, config <- matched
Hosts == INSTANCE Resolver

-----------------------------------------------------------------------------
(* What prost makes of a message: an optional field is an Option, a oneof  *)
(* one of its variants or none, a repeated field a sequence.  A network    *)
(* that parses has the length of its kind.                                 *)

Option(S) == \A x, y \in S : x = y

NetworkOK(net) ==
  net.parses => /\ net.v4 \in BOOLEAN
                /\ net.v4 => net.addr \in Ipv4 /\ net.prefix_len \in 0..Bits4
                /\ ~net.v4 => net.addr \in Ipv6 /\ net.prefix_len \in 0..Bits6

AclOK(acl) ==
  /\ acl.rules \in Seq(Range(acl.rules))
  /\ \A i \in DOMAIN acl.rules : NetworkOK(acl.rules[i].source)

RuleOK(rule) ==
  /\ Option(rule.regex) /\ Option(rule.acl) /\ Option(rule.backend)
  /\ \A acl \in rule.acl : AclOK(acl)
  /\ \A be \in rule.backend : be.backend_type \in {"", "null", "pass", "proxy"}

LbOK(lb) ==
  /\ lb.servers \in Seq(Range(lb.servers))
  /\ \A i \in DOMAIN lb.servers : Option(lb.servers[i].server_id)

MessageOK(pb) ==
  /\ Option(pb.default) /\ \A rule \in pb.default : RuleOK(rule)
  /\ \A i \in DOMAIN pb.rules : RuleOK(pb.rules[i])
  /\ \A i \in DOMAIN pb.quic_lb : LbOK(pb.quic_lb[i])

ASSUME MessagesAssumption == \A pb \in Messages \cup H3Messages : MessageOK(pb)

\* A label of MAX_SNI_METRIC_LABEL_BYTES is longer than the fixed ones.
ASSUME LabelsAssumption ==
  /\ IsFiniteSet(SniNames) /\ Missing \notin SniNames /\ Matches \subseteq SUBSET SniNames
  /\ MaxLabels \in Nat /\ MaxHellos \in Nat
  /\ LongNames \cap Labels!Fixed = {}

ASSUME HostsAssumption == IsFiniteSet(Lookups) /\ MaxVersion \in Nat \ {0}

-----------------------------------------------------------------------------
\* How the parts are made that stay as they are.
TcpFixed == said = FixedMessage /\ disk = [cert |-> 1, key |-> 1, ca |-> TRUE] /\ Init
H3Fixed == h3said = FixedMessage /\ seen = FixedEnv /\ H3!Init
LabelsFixed == matched = SniNames /\ Labels!Init
HostsFixed == readable = TRUE /\ Hosts!Init

ReloadInit ==
  \/ part = "tcp" /\ Init /\ H3Fixed /\ LabelsFixed /\ HostsFixed
  \/ part = "h3" /\ TcpFixed /\ H3!Init /\ LabelsFixed /\ HostsFixed
  \/ part = "labels" /\ TcpFixed /\ H3Fixed /\ Labels!Init /\ HostsFixed
  \/ part = "hosts" /\ TcpFixed /\ H3Fixed /\ LabelsFixed /\ Hosts!Init

ReloadNext ==
  \/ part = "tcp" /\ Next /\ UNCHANGED <<part, h3, labels, resolver>>
  \/ part = "h3" /\ H3!Next /\ UNCHANGED <<part, vars, labels, resolver>>
  \/ part = "labels" /\ Labels!Next /\ UNCHANGED <<part, vars, h3, resolver>>
  \/ part = "hosts" /\ Hosts!Next /\ UNCHANGED <<part, vars, h3, labels>>

\* The fairness of Hosts!FairSpec.
ReloadSpec ==
  /\ ReloadInit /\ [][ReloadNext]_<<part, vars, h3, labels, resolver>>
  /\ WF_resolver(part = "hosts" /\ (Hosts!Start \/ Hosts!StartFails))
  /\ WF_resolver(part = "hosts" /\ Hosts!Reload)

-----------------------------------------------------------------------------
(* Properties. *)

\* TcpReload: what is in use can be used, and matches the names and decides on
\* the peers that its message says.
AsSaid == Usable /\ WholeNames /\ AclsKept

\* H3Reload: every loaded ACL says of every peer what its message says, and
\* every backend is the null backend or the address that its message names,
\* with none of the options that load_backend refuses.
H3AsSaid == H3!AclsKept /\ H3!BackendsKept

\* H3Reload: a QUIC-LB connection ID has one decoder and its server ID one
\* address, and is decoded with the key and leads to the server that it was
\* issued for across reloads that fail.
LbKept == H3!LbUnambiguous /\ H3!LbKept

\* SniLabels: record_sni keeps the series within the limit, counts every
\* ClientHello once, and a name keeps the series it has across reloads.
SeriesKept == []Labels!SeriesBounded /\ Labels!SeriesKept

\* Resolver: a lookup sees the one version of the hosts that was installed
\* when it began.
OneVersion == Hosts!OneVersion

\* Resolver: no reload_hosts goes back to older hosts, and what a readable hosts
\* file says reaches the resolver in the end.
HostsReach == Hosts!HostsKept /\ (part = "hosts" => Hosts!FileReaches)
=============================================================================
