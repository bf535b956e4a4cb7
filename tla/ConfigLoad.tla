----------------------------- MODULE ConfigLoad -----------------------------
(***************************************************************************)
(* load_config of the TCP router: from the configuration message and the   *)
(* files it names to the configuration in use, or an error.                *)
(*                                                                         *)
(* An Option is a set with at most one element, and so is a Result: {} is  *)
(* None or Err.  The message has the fields of sni_router.proto.  A regex  *)
(* is [kind, alternatives], a name the sequence of its labels; `files` are *)
(* the certificates and keys as they were read, by the generation that     *)
(* they belong to, 0 where there is no such file.                          *)
(***************************************************************************)
EXTENDS Integers, Sequences, AclSource

\* Option<Duration> of a number of milliseconds
Millis(ms) == IF ms > 0 THEN {ms} ELSE {}

\* Result of a sequence of Results.
Collect(results) ==
  IF \E i \in DOMAIN results : results[i] = {} THEN {}
  ELSE {[i \in DOMAIN results |-> CHOOSE r \in results[i] : TRUE]}

-----------------------------------------------------------------------------
(* compile_full_match. *)

Infix(w, name) ==
  \E i \in 1..Len(name) : i + Len(w) - 1 <= Len(name) /\ SubSeq(name, i, i + Len(w) - 1) = w
Alternative(re, name) == \E i \in DOMAIN re.alternatives : name = re.alternatives[i]

\* Regex::new of a pattern as it stands, and inside "\A(?:" and ")\z": a
\* pattern that closes the group is a regex only there, one that ends in a
\* comment only outside.
Compiles(re) == re.kind \in {"plain", "comment"}
CompilesWrapped(re) == re.kind \in {"plain", "closes_group"}

\* Mutant of compile_full_match: the pattern is not compiled by itself first.
compile_wrapped(re) ==
  IF CompilesWrapped(re) \/ re.kind = "comment" THEN {re} ELSE {}

compile_full_match(re) ==
  IF Compiles(re) /\ (CompilesWrapped(re) \/ re.kind = "comment") THEN {re} ELSE {}

\* A compiled pattern matches whole names; one that has closed the group
\* around it matches them anywhere.
is_match(re, name) ==
  IF re.kind = "closes_group" THEN \E i \in DOMAIN re.alternatives : Infix(re.alternatives[i], name)
  ELSE Alternative(re, name)

-----------------------------------------------------------------------------
(* ACLs and TLS. *)

load_acl(pb) ==
  IF \A i \in DOMAIN pb.rules : pb.rules[i].source.parses /\ pb.rules[i].action /= "UNSPECIFIED"
  THEN {[rules |-> [i \in DOMAIN pb.rules |->
                      [source |-> Source(pb.rules[i].source), action |-> pb.rules[i].action]],
         default_action |-> pb.default_action]}
  ELSE {}

\* rustls takes a certificate and a key that belong together (external).
with_single_cert(cert, key) == cert /= 0 /\ key /= 0 /\ cert = key

\* Mutant of load_tls: whether the key is the certificate's is not looked at.
load_tls_unpaired(pb, files) ==
  IF pb /= {} /\ (files.cert = 0 \/ files.key = 0) THEN {}
  ELSE {{[cert |-> files.cert, key |-> files.key] : t \in pb}}

\* Result<Option<ServerConfig>>: the generation of certificate and key.
load_tls(pb, files) ==
  IF pb = {} THEN {{}}
  ELSE LET tls == CHOOSE t \in pb : TRUE IN
       IF with_single_cert(files.cert, files.key) /\ (tls.mtls_ca => files.ca)
       THEN {{[cert |-> files.cert, key |-> files.key]}} ELSE {}

\* Result<Option<ClientConfig>>; the credentials are optional, but go together.
load_backend_tls(pb, files) ==
  IF pb = {} THEN {{}}
  ELSE LET tls == CHOOSE t \in pb : TRUE IN
       IF tls.cert_file /= tls.key_file THEN {}
       ELSE IF ~tls.cert_file THEN {{[verify |-> ~tls.insecure]}}
       ELSE IF with_single_cert(files.cert, files.key) THEN {{[verify |-> ~tls.insecure]}}
       ELSE {}

-----------------------------------------------------------------------------
(* Backends, rules and the whole. *)

\* One backend, without its sorry backend.
load_one(be, files) ==
  IF be.backend_type = "null" THEN {[kind |-> "null", tls |-> {}, proxy_header |-> FALSE, backend_tls |-> {}]}
  ELSE IF be.backend_type = "pass"
  THEN {[kind |-> "pass", tls |-> t, proxy_header |-> FALSE, backend_tls |-> {}] :
          t \in load_tls(be.frontend_tls, files)}
  ELSE IF be.proxy_header /\ be.backend_tls /= {} THEN {}
  ELSE {[kind |-> "proxy", tls |-> t, proxy_header |-> be.proxy_header, backend_tls |-> b] :
          t \in load_tls(be.frontend_tls, files), b \in load_backend_tls(be.backend_tls, files)}

\* Mutant of SorryAllowed: any backend may have one.
SorryAnywhere(be) == TRUE

\* A sorry backend has none itself and a null backend has none.
SorryAllowed(be) ==
  \A s \in be.sorry : s.sorry = {} /\ s.backend_type /= "" /\ be.backend_type /= "null"

\* The backend followed by its sorry backend.
load_backend(be, files) ==
  IF be.backend_type = "" \/ ~SorryAllowed(be) THEN {}
  ELSE IF be.sorry = {} THEN {<<b>> : b \in load_one(be, files)}
  ELSE load_one(be, files) \X UNION {load_one(s, files) : s \in be.sorry}

AcceptAll == [rules |-> <<>>, default_action |-> "ACCEPT"]

load_rule(rule, is_default, files) ==
  LET re == IF is_default THEN (IF rule.regex = {} THEN {"any"} ELSE {})
            ELSE UNION {compile_full_match(r) : r \in rule.regex}
      acl == IF rule.acl = {} THEN {AcceptAll} ELSE UNION {load_acl(a) : a \in rule.acl}
      backends == UNION {load_backend(b, files) : b \in rule.backend}
  IN {[re |-> r, acl |-> a, timeout |-> Millis(rule.max_lifetime_ms), backends |-> b] :
        r \in re, a \in acl, b \in backends}

load_config(pb, files) ==
  LET default == UNION {load_rule(r, TRUE, files) : r \in pb.default}
      rules == Collect([i \in DOMAIN pb.rules |-> load_rule(pb.rules[i], FALSE, files)])
  IN {[max_lifetime |-> Millis(pb.max_lifetime_ms),
       handshake_timeout |-> Millis(pb.handshake_timeout_ms),
       default |-> d, rules |-> r] : d \in default, r \in rules}
=============================================================================
