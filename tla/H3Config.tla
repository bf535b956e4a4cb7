------------------------------ MODULE H3Config ------------------------------
(***************************************************************************)
(* The decisions sni-router-h3 takes from its loaded configuration: which  *)
(* backend a ClientHello is routed to (route_for_sni with the ACLs), and   *)
(* which backend a QUIC-LB connection ID names (lb_backend).               *)
(*                                                                         *)
(* An Option of the code is a set with at most one element: {} is None and *)
(* {x} is Some(x).  A regex is the set of names it matches, a CIDR the set *)
(* of (normalized) client addresses it contains, and a QUIC-LB decoder the *)
(* function from the connection IDs it decrypts to the server IDs they     *)
(* carry.                                                                  *)
(***************************************************************************)
EXTENDS Integers, Sequences, FiniteSetsExt

CONSTANT Null            \* Backend::Null: discard the connection

AclActions == {"UNSPECIFIED", "DROP", "ACCEPT", "CONTINUE"}

\* acl_action: the first rule whose source contains the peer, or the default.
AclAction(acl, peer) ==
  LET hits == {i \in DOMAIN acl.rules : peer \in acl.rules[i].source}
  IN  IF hits = {} THEN acl.default_action ELSE acl.rules[Min(hits)].action

\* min_timeout on two Options.
MinTimeout(a, b) == IF a \cup b = {} THEN {} ELSE {Min(a \cup b)}

\* The rules that match the name and whose ACL does not pass on to the next.
Deciding(cfg, peer, sni) ==
  {i \in DOMAIN cfg.rules : /\ sni \cap cfg.rules[i].re # {}
                            /\ AclAction(cfg.rules[i].acl, peer) # "CONTINUE"}

\* route_for_sni: Some(route), or {} where the code returns an error.
RouteForSni(cfg, peer, sni) ==
  LET deciding == Deciding(cfg, peer, sni)
      rule     == IF deciding # {} THEN cfg.rules[Min(deciding)] ELSE cfg.default
      action   == AclAction(rule.acl, peer)
  IN  IF action = "UNSPECIFIED" THEN {}
      ELSE {[backend |-> IF action = "ACCEPT" THEN rule.backend ELSE Null,
             timeout |-> MinTimeout(cfg.max_lifetime, rule.timeout)]}

\* lb_backend: the first decoder that decrypts the CID to a mapped server.
LbBackend(cfg, cid) ==
  LET hits == {i \in DOMAIN cfg.quic_lb :
                 /\ cid \in DOMAIN cfg.quic_lb[i].decode
                 /\ cfg.quic_lb[i].decode[cid] \in DOMAIN cfg.quic_lb[i].servers}
  IN  IF hits = {} THEN {}
      ELSE LET lb == cfg.quic_lb[Min(hits)] IN {lb.servers[lb.decode[cid]]}

\* The backends some QUIC-LB decoder maps a server ID to.
LbServers(cfg) == UNION {Range(cfg.quic_lb[i].servers) : i \in DOMAIN cfg.quic_lb}

\* cleanup's limit on the age of a ClientHello reassembly.
PendingTimeout(cfg, idleTimeout) == Min(cfg.handshake_timeout \cup {idleTimeout})
=============================================================================
