---------------------------- MODULE MCH3Router ----------------------------
(***************************************************************************)
(* Values for the constants of H3Router: the addresses and configurations  *)
(* that all runs share, and the datagrams and limits of each run.          *)
(***************************************************************************)
EXTENDS H3Router

CONSTANTS a4, a6, b4, s1, s6, s2

\* a6 is the IPv4-mapped form of a4, and s6 of s1.
MCAddrs == {a4, a6, b4, s1, s6, s2}
MCNorm == [a \in MCAddrs |-> CASE a = a6 -> a4 [] a = s6 -> s1 [] OTHER -> a]
MCNames == {"x", "y"}

Open == [rules |-> <<>>, default_action |-> "ACCEPT"]
Rule(names, acl, backend, timeout) ==
  [re |-> names, acl |-> acl, backend |-> backend, timeout |-> timeout]

Initial(peer, dcid, scid, size, progress, sni) ==
  [peer |-> peer, form |-> "initial", dcid |-> dcid, scid |-> scid, key |-> dcid,
   size |-> size, progress |-> progress, sni |-> sni]
\* A later Initial of an established connection, under the keys of `key'.
KeyedInitial(peer, dcid, key) ==
  [Initial(peer, dcid, <<>>, 1, "more", {}) EXCEPT !.key = key]
Other(peer, form, dcid, scid) ==
  [Initial(peer, dcid, scid, 1, "more", {}) EXCEPT !.form = form]

-----------------------------------------------------------------------------
(* Routing by learned connection IDs and by peer affinity.  <<1>> is a     *)
(* prefix of <<1, 2>>, which another path may own.                         *)

RoutingCids == {<<1>>, <<1, 2>>, <<3>>, <<4>>}

RoutingConfigs ==
  {[quic_lb |-> <<>>, max_lifetime |-> {}, handshake_timeout |-> {},
    rules |-> <<Rule({"x"}, [rules |-> <<[source |-> {b4}, action |-> "CONTINUE"]>>,
                             default_action |-> "ACCEPT"], s1, {3}),
                Rule({"x"}, Open, s2, {})>>,
    default |-> Rule({}, [rules |-> <<>>, default_action |-> "DROP"], s1, {})]}

RoutingClientPackets ==
  {Initial(a4, <<1>>, <<4>>, 1, "hello", {"x"}),
   Initial(b4, <<1, 2>>, <<>>, 1, "hello", {"x"}),
   Initial(b4, <<3>>, <<1>>, 1, "hello", {"x"}),
   Initial(a4, <<3>>, <<>>, 1, "hello", {"y"}),
   Other(a6, "short", <<1, 2>>, <<>>),
   Other(b4, "short", <<4>>, <<>>),
   Other(b4, "handshake", <<4>>, <<3>>),
   KeyedInitial(a6, <<3>>, <<1>>)}

RoutingBackendPackets ==
  {[form |-> "malformed", scid |-> <<>>], [form |-> "long", scid |-> <<3>>],
   [form |-> "retry", scid |-> <<4>>]}

-----------------------------------------------------------------------------
(* QUIC-LB: <<7, 1>> and <<7, 2>> decode to servers 1 and 2, of which only *)
(* server 1 is mapped.  Reloads move it to another address, so that a path *)
(* to the first one is no longer a QUIC-LB path, and drop the decoder.     *)

LbCids == {<<1>>, <<2>>, <<7, 1>>, <<7, 2>>}

LbConfig(decoders, lifetime) ==
  [quic_lb |-> decoders, max_lifetime |-> lifetime, handshake_timeout |-> {},
   rules |-> <<Rule({"x"}, Open, s6, {2})>>, default |-> Rule({}, Open, s2, {})]
Decoder(servers) == [decode |-> (<<7, 1>> :> 1 @@ <<7, 2>> :> 2), servers |-> servers]

LbConfigs == {LbConfig(<<Decoder(1 :> s1)>>, {3}), LbConfig(<<Decoder(1 :> s2)>>, {}),
              LbConfig(<<>>, {})}

LbClientPackets ==
  {Initial(a6, <<1>>, <<7, 1>>, 1, "hello", {"x"}),
   Initial(a4, <<2>>, <<7, 2>>, 1, "hello", {"x"}),
   Other(a4, "short", <<7, 1>>, <<>>),
   Other(b4, "handshake", <<7, 1>>, <<2>>),
   Other(b4, "short", <<1>>, <<>>)}

LbBackendPackets == {[form |-> "long", scid |-> <<2>>]}

-----------------------------------------------------------------------------
(* ClientHello reassembly under its limits, and clients that never stop     *)
(* sending: reassemblies that never complete, a path that is kept busy      *)
(* until its deadline or, opened under another configuration, for ever.     *)

PendingCids == {<<1>>, <<2>>, <<3>>}

PendingConfig(handshake, action, lifetime) ==
  [quic_lb |-> <<>>, max_lifetime |-> {}, handshake_timeout |-> handshake, rules |-> <<>>,
   default |-> Rule({}, [rules |-> <<>>, default_action |-> action], s1, lifetime)]

PendingConfigs == {PendingConfig({}, "UNSPECIFIED", {}), PendingConfig({1}, "ACCEPT", {3}),
                   PendingConfig({1}, "ACCEPT", {})}

PendingClientPackets ==
  {Initial(a4, <<1>>, <<2>>, 1, "more", {}), Initial(a6, <<1>>, <<3>>, 2, "more", {}),
   Initial(a6, <<1>>, <<3>>, 1, "hello", {}), Initial(a4, <<1>>, <<>>, 1, "err", {}),
   Initial(b4, <<1>>, <<2>>, 1, "more", {}), Initial(b4, <<1>>, <<>>, 1, "hello", {"x"}),
   Initial(a4, <<2>>, <<>>, 3, "more", {}), Initial(b4, <<2>>, <<>>, 1, "bad_frames", {}),
   Other(b4, "short", <<1>>, <<>>)}

-----------------------------------------------------------------------------
(* b4 is told a new connection ID <<1, 2>>; a4's <<1>> is a prefix of it.   *)

AffinityClientPackets ==
  {Initial(a4, <<1>>, <<>>, 1, "hello", {"x"}), Initial(b4, <<3>>, <<>>, 1, "hello", {"x"}),
   Other(b4, "short", <<1, 2>>, <<>>)}
=============================================================================
