--------------------------- MODULE MCTcpConnection ---------------------------
EXTENDS TcpConnection

CONSTANTS p1, p2, s1, s2

\* p1 is let in, p2 passed on to the next rule; the default drops p1 only.
OpenAcl == [rules |-> <<>>, default_action |-> "ACCEPT"]
P1Only == [rules |-> <<[source |-> {p1}, action |-> "ACCEPT"]>>, default_action |-> "CONTINUE"]
NotP1 == [rules |-> <<[source |-> {p1}, action |-> "DROP"]>>, default_action |-> "ACCEPT"]

B(kind, tls) == [kind |-> kind, frontend_tls |-> tls]
R(re, acl, bs, t) == [re |-> re, acl |-> acl, backends |-> bs, timeout |-> t]

\* A backend and a sorry backend that differ in kind and in frontend TLS.
MCConfigs ==
  {[max_lifetime |-> {4}, handshake_timeout |-> {3},
    rules |-> <<R({s1}, P1Only, <<B("pass", TRUE), B("proxy", FALSE)>>, {2}),
                R({s1, s2}, OpenAcl, <<B("proxy", TRUE), B("pass", FALSE)>>, {})>>,
    default |-> R({}, NotP1, <<B("pass", FALSE), B("null", FALSE)>>, {1})],
   [max_lifetime |-> {}, handshake_timeout |-> {2},
    rules |-> <<R({s2}, OpenAcl, <<B("proxy", FALSE), B("proxy", TRUE)>>, {}),
                R({s1}, OpenAcl, <<B("proxy", FALSE)>>, {1})>>,
    default |-> R({}, OpenAcl, <<B("null", FALSE)>>, {})],
   [max_lifetime |-> {3}, handshake_timeout |-> {},
    rules |-> <<>>,
    default |-> R({}, OpenAcl, <<B("proxy", TRUE)>>, {1})]}
=============================================================================
