---------------------------- MODULE H3ConfigLoad ----------------------------
(***************************************************************************)
(* load_config of sni-router-h3, from the same message as the TCP router's *)
(* (see ConfigLoad).  `env` is what it takes from outside: the keys of the *)
(* QUIC-LB key files, and the addresses that each name resolves to.        *)
(***************************************************************************)
EXTENDS Integers, Sequences, AclSource

Millis(ms) == IF ms > 0 THEN {ms} ELSE {}

Collect(results) ==
  IF \E i \in DOMAIN results : results[i] = {} THEN {}
  ELSE {[i \in DOMAIN results |-> CHOOSE r \in results[i] : TRUE]}

\* An address is its host and whether it is an IPv4 address written as mapped
\* IPv6, which is turned back into IPv4.
normalize_socket_addr(addr) == [addr EXCEPT !.mapped = FALSE]

\* The first address that a name resolves to.
resolve_one_addr(name, env) == IF env.dns[name] = <<>> THEN {} ELSE {env.dns[name][1]}

compile_full_match(re) == IF re.kind \in {"plain", "comment"} THEN {re} ELSE {}

load_acl(pb) ==
  IF \A i \in DOMAIN pb.rules : pb.rules[i].source.parses /\ pb.rules[i].action /= "UNSPECIFIED"
  THEN {[rules |-> [i \in DOMAIN pb.rules |->
                      [source |-> Source(pb.rules[i].source), action |-> pb.rules[i].action]],
         default_action |-> pb.default_action]}
  ELSE {}

\* Mutant of TcpOnly: what the TCP router does after the handshake is ignored.
TcpOnlyPass(be) == be.backend_type = "pass"

\* What load_backend refuses: four options of the TCP router.  A fifth,
\* proxy.backend_tls, is accepted and ignored.
TcpOnly(be) ==
  \/ be.frontend_tls /= {}
  \/ be.sorry /= {}
  \/ be.backend_type = "pass"
  \/ be.backend_type = "proxy" /\ be.proxy_header

load_backend(be, env) ==
  IF TcpOnly(be) \/ be.backend_type = "" THEN {}
  ELSE IF be.backend_type = "null" THEN {[kind |-> "null", addr |-> {}]}
  ELSE {[kind |-> "udp", addr |-> {a}] : a \in resolve_one_addr(be.addr, env)}

AcceptAll == [rules |-> <<>>, default_action |-> "ACCEPT"]

load_rule(rule, is_default, env) ==
  LET re == IF is_default THEN (IF rule.regex = {} THEN {"any"} ELSE {})
            ELSE UNION {compile_full_match(r) : r \in rule.regex}
      acl == IF rule.acl = {} THEN {AcceptAll} ELSE UNION {load_acl(a) : a \in rule.acl}
      backend == UNION {load_backend(b, env) : b \in rule.backend}
  IN {[re |-> r, acl |-> a, timeout |-> Millis(rule.max_lifetime_ms), backend |-> b] :
        r \in re, a \in acl, b \in backend}

-----------------------------------------------------------------------------
(* QUIC-LB. *)

\* Codec::new and from_key_file: a configuration ID of three bits, of which
\* 7 is reserved, and a file with a key.
from_key_file(id, path, env) ==
  IF id < 7 /\ env.keys[path] /= "" THEN {[config_id |-> id, key |-> env.keys[path]]} ELSE {}

\* server_id is given, and no two servers have the same.
ServersDiffer(servers) ==
  \A i, j \in DOMAIN servers :
    /\ servers[i].server_id /= {}
    /\ servers[i].server_id = servers[j].server_id => i = j

load_servers(servers, env) ==
  LET addrs == Collect([i \in DOMAIN servers |-> resolve_one_addr(servers[i].addr, env)])
      ids == UNION {servers[i].server_id : i \in DOMAIN servers}
  IN IF servers = <<>> \/ ~ServersDiffer(servers) THEN {}
     ELSE {[id \in ids |->
              {normalize_socket_addr(a[i]) : i \in {j \in DOMAIN servers : servers[j].server_id = {id}}}] :
            a \in addrs}

load_lb(lb, env) ==
  {[codec |-> c, servers |-> s] :
     c \in from_key_file(lb.config_id, lb.key_file, env), s \in load_servers(lb.servers, env)}

\* Mutant of IdsDiffer: several configurations with one ID.
IdsRepeat(quic_lb) == TRUE

IdsDiffer(quic_lb) ==
  \A i, j \in DOMAIN quic_lb : quic_lb[i].config_id = quic_lb[j].config_id => i = j

load_quic_lb(quic_lb, env) ==
  IF IdsDiffer(quic_lb) THEN Collect([i \in DOMAIN quic_lb |-> load_lb(quic_lb[i], env)]) ELSE {}

load_config(pb, env) ==
  LET default == UNION {load_rule(r, TRUE, env) : r \in pb.default}
      rules == Collect([i \in DOMAIN pb.rules |-> load_rule(pb.rules[i], FALSE, env)])
  IN {[max_lifetime |-> Millis(pb.max_lifetime_ms),
       handshake_timeout |-> Millis(pb.handshake_timeout_ms),
       default |-> d, rules |-> r, quic_lb |-> lb] :
        d \in default, r \in rules, lb \in load_quic_lb(pb.quic_lb, env)}

\* Codec::decrypt: a connection ID of the right length that carries the
\* configuration ID and was encrypted under the key names a server.
decrypt(codec, cid) ==
  IF cid.len = 17 /\ cid.config_id = codec.config_id
  THEN {IF cid.key = codec.key THEN cid.server_id ELSE cid.garbage} ELSE {}
=============================================================================
