----------------------------- MODULE MCMessages -----------------------------
(***************************************************************************)
(* Configuration messages for TLC: one that both routers take, and what is *)
(* left of it after each change that a loader looks at.                    *)
(***************************************************************************)
EXTENDS Integers, Sequences

Net4(bits, len) == [v4 |-> TRUE, parses |-> TRUE, addr |-> bits, prefix_len |-> len]
Net6(bits, len) == [v4 |-> FALSE, parses |-> TRUE, addr |-> bits, prefix_len |-> len]

\* 1x/1 is let in, all other IPv4 goes on to the next rule, IPv6 is dropped.
MCAcl == [rules |-> <<[source |-> Net4(<<1, 1>>, 1), action |-> "ACCEPT"],
                      [source |-> Net4(<<0, 0>>, 0), action |-> "CONTINUE"],
                      [source |-> Net6(<<0, 0, 0, 0>>, 0), action |-> "DROP"]>>,
          default_action |-> "DROP"]

Re(kind, alternatives) == [kind |-> kind, alternatives |-> alternatives]
AorB == Re("plain", <<<<"a">>, <<"b">>>>)

Proxy == [backend_type |-> "proxy", frontend_tls |-> {}, sorry |-> {}, proxy_header |-> FALSE,
          backend_tls |-> {}, addr |-> "one"]
Null == [Proxy EXCEPT !.backend_type = "null"]
Pass == [Proxy EXCEPT !.backend_type = "pass"]
Tls(ca) == [mtls_ca |-> ca]
BackendTls(cert, key) == [cert_file |-> cert, key_file |-> key, insecure |-> FALSE]

MCRule == [regex |-> {AorB}, acl |-> {MCAcl}, max_lifetime_ms |-> 0, backend |-> {Proxy}]
MCDefault == [regex |-> {}, acl |-> {}, max_lifetime_ms |-> 3, backend |-> {Null}]
Server(id, addr) == [server_id |-> id, addr |-> addr]
Lb(id, file, servers) == [config_id |-> id, key_file |-> file, servers |-> servers]
Lb0 == Lb(0, "k0", <<Server({7}, "one"), Server({8}, "two")>>)

Base == [default |-> {MCDefault}, rules |-> <<MCRule>>, max_lifetime_ms |-> 0,
         handshake_timeout_ms |-> 2, quic_lb |-> <<Lb0>>]

WithBackend(be) == [Base EXCEPT !.rules[1].backend = {be}]
WithRegex(re) == [Base EXCEPT !.rules[1].regex = {re}]
WithAcl(acl) == [Base EXCEPT !.rules[1].acl = {acl}]
WithLb(lb) == [Base EXCEPT !.quic_lb = lb]

\* About rules and ACLs, for both routers.
RuleMessages == {
  Base,
  [Base EXCEPT !.default = {}],
  [Base EXCEPT !.default = {[MCDefault EXCEPT !.regex = {AorB}]}],
  [Base EXCEPT !.default = {[MCDefault EXCEPT !.acl = {[MCAcl EXCEPT !.default_action = "UNSPECIFIED"]}]}],
  [Base EXCEPT !.rules = <<MCRule, [MCRule EXCEPT !.regex = {}]>>],
  [Base EXCEPT !.rules = <<MCRule, [MCRule EXCEPT !.backend = {}]>>],
  WithAcl([MCAcl EXCEPT !.rules[1].action = "UNSPECIFIED"]),
  WithAcl([MCAcl EXCEPT !.rules[1].source.parses = FALSE]),
  WithRegex(Re("comment", <<<<"a">>>>)),
  WithRegex(Re("closes_group", <<<<"a">>, <<"b">>>>)),
  WithRegex(Re("invalid", <<>>)),
  WithBackend([Proxy EXCEPT !.backend_type = ""])}

\* About what only the TCP router does.
TcpMessages == {
  WithBackend(Pass),
  WithBackend([Proxy EXCEPT !.frontend_tls = {Tls(FALSE)}]),
  WithBackend([Proxy EXCEPT !.sorry = {[Pass EXCEPT !.frontend_tls = {Tls(TRUE)}]}]),
  WithBackend([Proxy EXCEPT !.sorry = {[Proxy EXCEPT !.sorry = {Null}]}]),
  WithBackend([Proxy EXCEPT !.sorry = {[Proxy EXCEPT !.backend_type = ""]}]),
  WithBackend([Null EXCEPT !.sorry = {Proxy}]),
  WithBackend([Proxy EXCEPT !.proxy_header = TRUE]),
  WithBackend([Proxy EXCEPT !.backend_tls = {BackendTls(TRUE, TRUE)}]),
  WithBackend([Proxy EXCEPT !.backend_tls = {BackendTls(TRUE, FALSE)}]),
  WithBackend([Proxy EXCEPT !.backend_tls = {BackendTls(FALSE, FALSE)}, !.proxy_header = TRUE])}

\* About what only sni-router-h3 does.
LbMessages == {
  WithBackend([Proxy EXCEPT !.addr = "none"]),
  WithBackend([Proxy EXCEPT !.addr = "two"]),
  WithLb(<<>>),
  WithLb(<<Lb0, Lb(1, "k1", <<Server({7}, "two")>>)>>),
  WithLb(<<Lb0, Lb(0, "k1", <<Server({7}, "two")>>)>>),
  WithLb(<<Lb(7, "k0", <<Server({7}, "one")>>)>>),
  WithLb(<<Lb(1, "none", <<Server({7}, "one")>>)>>),
  WithLb(<<Lb(1, "k1", <<>>)>>),
  WithLb(<<Lb(1, "k1", <<Server({}, "one")>>)>>),
  WithLb(<<Lb(1, "k1", <<Server({7}, "one"), Server({7}, "two")>>)>>)}

\* DNS and key files as sni-router-h3 may find them, and QUIC-LB IDs.
Addr(host, mapped) == [host |-> host, mapped |-> mapped]
Dns(one) == [name \in {"one", "two", "none"} |->
               IF name = "one" THEN one ELSE IF name = "two" THEN <<Addr(2, TRUE)>> ELSE <<>>]
Keys(k1) == [path \in {"k0", "k1", "none"} |-> IF path = "k0" THEN "k0" ELSE IF path = "k1" THEN k1 ELSE ""]

MCEnvs == {[keys |-> Keys(k1), dns |-> Dns(one)] :
             k1 \in {"", "k0", "k1"},
             one \in {<<Addr(1, FALSE)>>, <<Addr(3, TRUE), Addr(1, FALSE)>>, <<>>}}

MCCids == [len : {16, 17}, config_id : {0, 1, 7}, key : {"k0", "k1"}, server_id : {7, 8}, garbage : {0}]

\* ::ffff:0:0/96, in two bits.
MCMapped == <<0, 1>>
=============================================================================
