----------------------------- MODULE TcpReload ------------------------------
(***************************************************************************)
(* The TCP router and its configuration: loaded at the start and again at  *)
(* every SIGHUP, while the files change under it.  load_config reads the   *)
(* message and then, one after the other, the certificates, the keys and   *)
(* the CAs that it names; who replaces these replaces one after the other  *)
(* too.  One certificate and one key stand for all that are named.         *)
(***************************************************************************)
EXTENDS ConfigLoad

CONSTANTS
  Messages,      \* what the configuration file may say
  Names,         \* server names that clients ask for
  Generations    \* of a certificate and its key; 0 is no file

VARIABLES
  disk,          \* the certificate, key and CA files as they are
  loading,       \* Option: the message being loaded, and the files read for it
  config,        \* the configuration in use
  said           \* history: the message that it was loaded from

vars == <<disk, loading, config, said>>

Disk == [cert : Generations, key : Generations, ca : BOOLEAN]
Files == [cert : Generations \cup {0}, key : Generations \cup {0}, ca : BOOLEAN]

\* A router whose first configuration does not load does not start.
Init ==
  /\ disk \in {d \in Disk : d.cert = d.key /\ d.ca}
  /\ loading = {}
  /\ said \in Messages /\ config \in load_config(said, disk)

\* The operator replaces a file.
ReplaceFile ==
  /\ \/ disk' \in {[disk EXCEPT !.cert = g] : g \in Generations}
     \/ disk' \in {[disk EXCEPT !.key = g] : g \in Generations}
     \/ disk' = [disk EXCEPT !.ca = ~@]
  /\ UNCHANGED <<loading, config, said>>

\* SIGHUP: the text is read.
Hangup ==
  /\ loading = {}
  /\ \E pb \in Messages :
       loading' = {[pb |-> pb, step |-> "certs", files |-> [cert |-> 0, key |-> 0, ca |-> FALSE]]}
  /\ UNCHANGED <<disk, config, said>>

\* load_certs
ReadCerts ==
  /\ \E l \in loading :
       /\ l.step = "certs"
       /\ loading' = {[l EXCEPT !.step = "keys", !.files.cert = disk.cert]}
  /\ UNCHANGED <<disk, config, said>>

\* load_private_key
ReadKeys ==
  /\ \E l \in loading :
       /\ l.step = "keys"
       /\ loading' = {[l EXCEPT !.step = "ca", !.files.key = disk.key]}
  /\ UNCHANGED <<disk, config, said>>

\* load_root_store
ReadCa ==
  /\ \E l \in loading :
       /\ l.step = "ca"
       /\ loading' = {[l EXCEPT !.step = "done", !.files.ca = disk.ca]}
  /\ UNCHANGED <<disk, config, said>>

\* A configuration that does not load leaves the one in use.
InUse(loaded) == IF loaded = {} THEN config ELSE CHOOSE c \in loaded : TRUE

Loaded ==
  /\ \E l \in loading :
       /\ l.step = "done"
       /\ LET loaded == load_config(l.pb, l.files) IN
          /\ config' = InUse(loaded)
          /\ said' = IF loaded = {} THEN said ELSE l.pb
  /\ loading' = {}
  /\ UNCHANGED disk

Next == ReplaceFile \/ Hangup \/ ReadCerts \/ ReadKeys \/ ReadCa \/ Loaded

Spec == Init /\ [][Next]_vars

-----------------------------------------------------------------------------
(* Properties. *)

TypeOK ==
  /\ disk \in Disk /\ said \in Messages
  /\ loading \subseteq [pb : Messages, step : {"certs", "keys", "ca", "done"}, files : Files]

Rules == {config.rules[i] : i \in DOMAIN config.rules} \cup {config.default}

\* The router runs on configurations that it can act on, the ones that
\* TcpConnection assumes: every backend is followed by at most one sorry
\* backend, a null backend by none, and the PROXY header is not sent where
\* TLS is expected.
Usable ==
  /\ TypeOK
  /\ \A r \in Rules :
       /\ Len(r.backends) \in {1, 2}
       /\ r.backends[1].kind = "null" => Len(r.backends) = 1
       /\ \A i \in DOMAIN r.backends : ~(r.backends[i].proxy_header /\ r.backends[i].backend_tls /= {})

\* No TLS configuration in use is made of a certificate and a key of
\* different generations, though they are read at different times while they
\* are being replaced: load_tls fails, and the configuration before stays.
PairsMatch ==
  \A r \in Rules : \A i \in DOMAIN r.backends :
    \A t \in r.backends[i].tls : t.cert = t.key /\ t.cert /= 0

\* The names that the operator's pattern stands for, and no others, match a
\* rule: compile_full_match puts the whole pattern between the anchors.
WholeNames ==
  \A i \in DOMAIN config.rules : \A name \in Names :
    is_match(config.rules[i].re, name) <=> \E r \in said.rules[i].regex : Alternative(r, name)

\* Turning IPv4 networks into IPv6 ones changes no decision: every loaded ACL
\* says of every peer what its message says.
AclsKept ==
  /\ \A i \in DOMAIN config.rules : AclKept(config.rules[i].acl, said.rules[i].acl)
  /\ \A pb \in said.default : AclKept(config.default.acl, pb.acl)
=============================================================================
