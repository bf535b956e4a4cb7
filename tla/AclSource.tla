----------------------------- MODULE AclSource ------------------------------
(***************************************************************************)
(* Client addresses and the networks of ACL rules.  An address is the      *)
(* sequence of its bits; both routers turn IPv4 into IPv4-mapped IPv6, so  *)
(* that one kind of network is matched with one kind of address.           *)
(***************************************************************************)
EXTENDS Integers, Sequences, FiniteSetsExt

CONSTANTS
  Mapped,        \* the bits of ::ffff:0:0/96
  Bits4          \* how many bits an IPv4 address has, 32

ASSUME AddressAssumption == Mapped \in Seq({0, 1}) /\ Bits4 \in Nat

Bits6 == Len(Mapped) + Bits4

Ipv4 == [1..Bits4 -> {0, 1}]
Ipv6 == [1..Bits6 -> {0, 1}]
to_ipv6_mapped(a) == Mapped \o a

\* peer_ip_v6, of a peer [v4 |-> whether it is an IPv4 address, ip |-> bits]
peer_ip_v6(peer) == IF peer.v4 THEN to_ipv6_mapped(peer.ip) ELSE peer.ip

\* IpNet::contains and network(), from how the code uses ipnet.
contains(net, a) == \A i \in 1..net.prefix_len : net.addr[i] = a[i]
network(net) == [i \in 1..Len(net.addr) |-> IF i <= net.prefix_len THEN net.addr[i] ELSE 0]

\* Mutant of Source: the prefix length of the IPv4 network is kept.
SourceUnshifted(net) ==
  IF net.v4 THEN [addr |-> to_ipv6_mapped(network(net)), prefix_len |-> net.prefix_len]
  ELSE [addr |-> net.addr, prefix_len |-> net.prefix_len]

\* load_acl: an IPv4 network becomes the IPv6 network of its mapped addresses.
Source(net) ==
  IF net.v4 THEN [addr |-> to_ipv6_mapped(network(net)), prefix_len |-> Len(Mapped) + net.prefix_len]
  ELSE [addr |-> net.addr, prefix_len |-> net.prefix_len]

acl_action(acl, ip) ==
  LET hits == {i \in DOMAIN acl.rules : contains(acl.rules[i].source, ip)}
  IN  IF hits = {} THEN acl.default_action ELSE acl.rules[Min(hits)].action

-----------------------------------------------------------------------------
(* What an ACL says of a peer, from the message itself: IPv4 networks      *)
(* contain IPv4 peers, and IPv6 networks the others, or IPv4-mapped ones.  *)

Covers(source, peer) ==
  \/ source.v4 /\ peer.v4 /\ contains(source, peer.ip)
  \/ ~source.v4 /\ contains(source, peer_ip_v6(peer))

Said(acl, peer) ==
  LET hits == {i \in DOMAIN acl.rules : Covers(acl.rules[i].source, peer)}
  IN  IF hits = {} THEN acl.default_action ELSE acl.rules[Min(hits)].action

Peers == [v4 : {TRUE}, ip : Ipv4] \cup
         [v4 : {FALSE}, ip : {a \in Ipv6 : SubSeq(a, 1, Len(Mapped)) /= Mapped}]

\* A loaded ACL against the Option of one that it was loaded from.
AclKept(loaded, pb) ==
  \A acl \in pb, peer \in Peers : acl_action(loaded, peer_ip_v6(peer)) = Said(acl, peer)
=============================================================================
