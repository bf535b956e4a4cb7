------------------------------ MODULE H3Reload ------------------------------
(***************************************************************************)
(* sni-router-h3 and its configuration, under SIGHUPs, with key files and  *)
(* a DNS that change between and within loads.  While it loads, it handles *)
(* no datagram: a reload is one step for all else in the router            *)
(* (H3Router's SetConfig).  An environment is what the load meets, each    *)
(* file as it is read and each name as it is looked up, at different       *)
(* times; a name that a configuration uses twice is looked up twice, and   *)
(* is taken to get the same answer.                                        *)
(***************************************************************************)
EXTENDS H3ConfigLoad

CONSTANTS
  Messages,      \* what the configuration file may say
  Envs,          \* key files and DNS as a load may find them
  Cids           \* QUIC-LB connection IDs

VARIABLES
  config,        \* the configuration in use
  said, seen     \* history: the message and the environment it was loaded from

vars == <<config, said, seen>>

Init ==
  /\ seen \in Envs
  /\ said \in Messages /\ config \in load_config(said, seen)

\* Mutant of InUse: what does not load leaves the router without QUIC-LB.
InUseWithoutLb(loaded) ==
  IF loaded = {} THEN [config EXCEPT !.quic_lb = <<>>] ELSE CHOOSE c \in loaded : TRUE

\* A configuration that does not load leaves the one in use.
InUse(loaded) == IF loaded = {} THEN config ELSE CHOOSE c \in loaded : TRUE

Hangup ==
  \E pb \in Messages, env \in Envs :
    LET loaded == load_config(pb, env) IN
    /\ config' = InUse(loaded)
    /\ said' = IF loaded = {} THEN said ELSE pb
    /\ seen' = IF loaded = {} THEN seen ELSE env

Next == Hangup

Spec == Init /\ [][Next]_vars

-----------------------------------------------------------------------------
(* Properties. *)

\* A loaded backend does what its message says: it drops, or it sends to the
\* first address that the name had when the configuration in use was loaded,
\* without a PROXY header, frontend TLS or a sorry backend.  It says nothing of
\* backend_tls, the one option of the TCP router that load_backend does not
\* refuse: whether or not the message asks for it, the backend is the same.
BackendKept(loaded, be) ==
  /\ be.frontend_tls = {} /\ be.sorry = {}
  /\ \/ be.backend_type = "null" /\ loaded.kind = "null"
     \/ /\ be.backend_type = "proxy" /\ ~be.proxy_header
        /\ loaded = [kind |-> "udp", addr |-> {seen.dns[be.addr][1]}]

\* Every rule in use has the backend that its message gives it, through failed
\* reloads and whatever has become of the addresses since.
BackendsKept ==
  /\ \A i \in DOMAIN config.rules : \A be \in said.rules[i].backend :
       BackendKept(config.rules[i].backend, be)
  /\ \A pb \in said.default : \A be \in pb.backend : BackendKept(config.default.backend, be)

\* Every loaded ACL says of every peer what its message says.
AclsKept ==
  /\ \A i \in DOMAIN config.rules : AclKept(config.rules[i].acl, said.rules[i].acl)
  /\ \A pb \in said.default : AclKept(config.default.acl, pb.acl)

\* A QUIC-LB connection ID is decoded under one configuration only, and a
\* server ID stands for one address.
LbUnambiguous ==
  /\ \A cid \in Cids :
       Cardinality({i \in DOMAIN config.quic_lb : decrypt(config.quic_lb[i].codec, cid) /= {}}) <= 1
  /\ \A i \in DOMAIN config.quic_lb : LET servers == config.quic_lb[i].servers IN
       DOMAIN servers /= {} /\ \A id \in DOMAIN servers : Cardinality(servers[id]) = 1

\* A server issues connection IDs with its ID, under the configuration lb and
\* the key that the key file had when the configuration in use was loaded.
Issued(cid, lb, id) ==
  /\ cid.len = 17 /\ cid.config_id = lb.config_id
  /\ cid.key = seen.keys[lb.key_file] /\ cid.server_id = id

\* A connection ID that was issued for a server is decoded as this server's and
\* goes to the address that the message gives the server, as it resolved when
\* the configuration in use was loaded; failed reloads in between change
\* neither the key nor the address.
LbKept ==
  \A i \in DOMAIN said.quic_lb : \A j \in DOMAIN said.quic_lb[i].servers :
    LET server == said.quic_lb[i].servers[j] IN
    \A id \in server.server_id :
      /\ i \in DOMAIN config.quic_lb
      /\ \A cid \in Cids :
           Issued(cid, said.quic_lb[i], id) => decrypt(config.quic_lb[i].codec, cid) = {id}
      /\ config.quic_lb[i].servers[id] = {normalize_socket_addr(seen.dns[server.addr][1])}
=============================================================================
