---------------------------- MODULE TcpConnection ----------------------------
(***************************************************************************)
(* One connection of the TCP router (sni-router): the task that mainloop   *)
(* spawns for it, from accept over ClientHello, routing, the backend or    *)
(* its sorry backend and frontend TLS to the proxied stream or the passed  *)
(* file descriptor, under the three timeouts that the code nests around    *)
(* these futures.  The tasks of different connections share nothing but    *)
(* the configuration that each of them took at accept.                     *)
(*                                                                         *)
(* Peers and backends may do anything at any time, or nothing for ever.  A *)
(* timer that is due fires before more time passes.  A timeout is an       *)
(* Option: {} is None, {t} is Some(t).                                     *)
(***************************************************************************)
EXTENDS Integers, Sequences, FiniteSetsExt

CONSTANTS
  Peers,         \* client IP addresses
  SNIs,          \* server names
  Configs,       \* the configurations that may be loaded
  MaxAge         \* bound: ages are counted up to it

\* Option<Duration>
Timeout == {{}} \cup {{t} : t \in 1..MaxAge}

Backend == [kind : {"null", "pass", "proxy"}, frontend_tls : BOOLEAN]

\* What load_config accepts: a backend has at most one sorry backend, which
\* has none itself, and a null backend none at all.
ASSUME ConfigAssumption ==
  /\ MaxAge \in Nat
  /\ \A c \in Configs :
       /\ c.max_lifetime \in Timeout /\ c.handshake_timeout \in Timeout
       /\ DOMAIN c.rules \subseteq Nat
       /\ \A rule \in {c.rules[i] : i \in DOMAIN c.rules} \cup {c.default} :
            /\ rule.timeout \in Timeout
            /\ rule.backends \in Seq(Backend) /\ Len(rule.backends) \in {1, 2}
            /\ rule.backends[1].kind = "null" => Len(rule.backends) = 1

VARIABLES
  config,        \* mainloop's configuration
  cfg,           \* the one this connection was accepted under
  phase,         \* where the connection's task stands
  backends,      \* the routed rule's backend, followed by its sorry backend
  current,       \* the one in use
  timeout,       \* the routed rule's timeout
  age,           \* since handle_conn started
  rule_age,      \* since the rule's timeout last started
  routed_age,    \* since the rule was chosen
  frontend,      \* the client's stream: untouched, in TLS handshake, kTLS
  given,         \* what has been given away: <<backend, state of the stream>>
  up, down       \* the two directions of the proxy copy

timers == <<age, rule_age, routed_age>>
routed == <<config, cfg, backends, timeout>>
vars == <<config, cfg, phase, backends, current, timeout, age, rule_age, routed_age,
          frontend, given, up, down>>

\* The phases under the handshake deadline, under the rule's timeout, and all.
Setup == {"hello", "connect", "pass_tls", "pass_send", "proxy_tls"}
UnderRule == {"connect", "pass_tls", "pass_send", "proxy_tls", "proxying"}
Open == Setup \cup {"proxying"}

Init ==
  /\ config \in Configs /\ cfg = config
  /\ phase = "none" /\ backends = <<>> /\ current = 1 /\ timeout = {}
  /\ age = 0 /\ rule_age = 0 /\ routed_age = 0
  /\ frontend = "raw" /\ given = {} /\ up = "copy" /\ down = "copy"

-----------------------------------------------------------------------------
(* mainloop, and routing. *)

\* SIGHUP with a configuration that loads.
Hangup ==
  /\ config' \in Configs
  /\ UNCHANGED <<cfg, phase, backends, current, timeout, timers, frontend, given, up, down>>

Accept ==
  /\ phase = "none"
  /\ cfg' = config /\ phase' = "hello"
  /\ UNCHANGED <<config, backends, current, timeout, timers, frontend, given, up, down>>

\* Every error, and the end of the task.
Close ==
  /\ phase' = "closed"
  /\ UNCHANGED <<routed, current, timers, frontend, given, up, down>>

AclAction(acl, peer) ==
  LET hits == {i \in DOMAIN acl.rules : peer \in acl.rules[i].source}
  IN  IF hits = {} THEN acl.default_action ELSE acl.rules[Min(hits)].action

\* route_and_connect's choice of a rule, {} where it rejects.  sni is {} if
\* there is no ClientHello or no name in it.
RuleFor(peer, sni) ==
  LET deciding == {i \in DOMAIN cfg.rules :
                     /\ sni \cap cfg.rules[i].re /= {}
                     /\ AclAction(cfg.rules[i].acl, peer) /= "CONTINUE"}
      rule == IF deciding = {} THEN cfg.default ELSE cfg.rules[Min(deciding)]
  IN  IF AclAction(rule.acl, peer) = "ACCEPT" THEN {rule} ELSE {}

\* The ClientHello has been read, or something else that goes to the default
\* rule; the connection goes on to the backend, under the rule's timeout.
Route(peer, sni) ==
  /\ phase = "hello"
  /\ \E rule \in RuleFor(peer, sni) :
       /\ backends' = rule.backends /\ timeout' = rule.timeout
       /\ phase' = "connect" /\ rule_age' = 0 /\ routed_age' = 0
  /\ UNCHANGED <<config, cfg, current, age, frontend, given, up, down>>

\* The ClientHello cannot be read or parsed, or the rule's ACL rejects.
Reject == phase = "hello" /\ Close

-----------------------------------------------------------------------------
(* connect_or_handoff_backend. *)

NullBackend == phase = "connect" /\ backends[current].kind = "null" /\ Close

\* The backend's socket is there; frontend TLS comes before the handoff.
ConnectPass ==
  /\ phase = "connect" /\ backends[current].kind = "pass"
  /\ phase' = IF backends[current].frontend_tls THEN "pass_tls" ELSE "pass_send"
  /\ UNCHANGED <<routed, current, timers, frontend, given, up, down>>

\* connect_for_proxy succeeds: handle_conn starts the rule's timeout anew.
ConnectProxy ==
  /\ phase = "connect" /\ backends[current].kind = "proxy"
  /\ rule_age' = 0
  /\ IF backends[current].frontend_tls
     THEN phase' = "proxy_tls" /\ UNCHANGED given
     ELSE phase' = "proxying" /\ given' = given \cup {<<current, frontend>>}
  /\ UNCHANGED <<routed, current, age, routed_age, frontend, up, down>>

\* On to the sorry backend, under the timeouts that run already.
Sorry ==
  /\ current < Len(backends)
  /\ current' = current + 1
  /\ phase' = "connect"
  /\ UNCHANGED <<routed, timers, frontend, given, up, down>>

\* The backend cannot be reached, or there is no Unix socket to reach it with:
\* the latter is an error at once.
ConnectFails ==
  /\ phase = "connect" /\ backends[current].kind /= "null"
  /\ Sorry \/ ((current = Len(backends) \/ backends[current].kind = "pass") /\ Close)

\* tls_handshake has read and answered the ClientHello: from here on no other
\* backend can have the stream as the client sent it.
TlsStarts ==
  /\ phase \in {"pass_tls", "proxy_tls"} /\ frontend = "raw"
  /\ frontend' = "handshaking"
  /\ UNCHANGED <<routed, phase, current, timers, given, up, down>>

TlsDone ==
  /\ phase \in {"pass_tls", "proxy_tls"} /\ frontend = "handshaking"
  /\ frontend' = "ktls"
  /\ \/ phase = "pass_tls" /\ phase' = "pass_send" /\ UNCHANGED given
     \/ phase = "proxy_tls" /\ phase' = "proxying" /\ given' = given \cup {<<current, "ktls">>}
  /\ UNCHANGED <<routed, current, timers, up, down>>

\* Mutant of TlsFails: the sorry backend is tried.
TlsFailsSorry == phase \in {"pass_tls", "proxy_tls"} /\ (Sorry \/ Close)

\* The client fails the handshake, or the kernel refuses kTLS.
TlsFails == phase \in {"pass_tls", "proxy_tls"} /\ Close

\* pass_fd_over_uds: the file descriptor goes with the bytes read so far.
PassFd ==
  /\ phase = "pass_send"
  /\ phase' = "passed"
  /\ given' = given \cup {<<current, frontend>>}
  /\ UNCHANGED <<routed, current, timers, frontend, up, down>>

PassFails == phase = "pass_send" /\ Close

-----------------------------------------------------------------------------
(* The proxied stream: try_join of the two copies. *)

\* The client sends EOF: the backend's writer is shut down, the way back stays.
UpEof ==
  /\ phase = "proxying" /\ up = "copy"
  /\ up' = "done"
  /\ phase' = IF down = "done" THEN "closed" ELSE phase
  /\ UNCHANGED <<routed, current, timers, frontend, given, down>>

DownEof ==
  /\ phase = "proxying" /\ down = "copy"
  /\ down' = "done"
  /\ phase' = IF up = "done" THEN "closed" ELSE phase
  /\ UNCHANGED <<routed, current, timers, frontend, given, up>>

\* An error of either copy ends both.
CopyFails == phase = "proxying" /\ Close

-----------------------------------------------------------------------------
(* The timeouts. *)

Reached(limit, elapsed) == \E t \in limit : elapsed >= t

\* Mutant of LifetimeDue: a proxied connection is not limited.
LifetimeDueSetup == phase \in Setup /\ Reached(cfg.max_lifetime, age)

LifetimeDue == phase \in Open /\ Reached(cfg.max_lifetime, age)

\* Mutant of HandshakeDue: the deadline stops where the backend is connected.
HandshakeDueRouting == phase \in Setup \ {"proxy_tls"} /\ Reached(cfg.handshake_timeout, age)

HandshakeDue == phase \in Setup /\ Reached(cfg.handshake_timeout, age)

\* Mutant of RuleDue: the timeout is applied to the connect only.
RuleDueConnect == phase \in UnderRule \ {"proxy_tls", "proxying"} /\ Reached(timeout, rule_age)

RuleDue == phase \in UnderRule /\ Reached(timeout, rule_age)

TimedOut == (LifetimeDue \/ HandshakeDue \/ RuleDue) /\ Close

AtMost(n) == IF n <= MaxAge THEN n ELSE MaxAge

\* Time passes for an open connection.
Tick ==
  /\ phase \in Open
  /\ ~LifetimeDue /\ ~HandshakeDue /\ ~RuleDue
  /\ age' = AtMost(age + 1)
  /\ rule_age' = AtMost(rule_age + 1)
  /\ routed_age' = IF phase = "hello" THEN 0 ELSE AtMost(routed_age + 1)
  /\ UNCHANGED <<routed, phase, current, frontend, given, up, down>>

Next ==
  \/ Hangup \/ Accept \/ Reject
  \/ \E peer \in Peers, sni \in {{}} \cup {{s} : s \in SNIs} : Route(peer, sni)
  \/ NullBackend \/ ConnectPass \/ ConnectProxy \/ ConnectFails
  \/ TlsStarts \/ TlsDone \/ TlsFails \/ PassFd \/ PassFails
  \/ UpEof \/ DownEof \/ CopyFails
  \/ TimedOut \/ Tick

Spec == Init /\ [][Next]_vars

\* Time passes and the runtime fires its timers; nothing is asked of client
\* or backend.
FairSpec == Spec /\ WF_vars(Tick) /\ WF_vars(TimedOut)

-----------------------------------------------------------------------------
(* Properties. *)

TypeOK ==
  /\ config \in Configs /\ cfg \in Configs
  /\ phase \in Open \cup {"none", "passed", "closed"}
  /\ backends \in Seq(Backend) /\ Len(backends) <= 2
  /\ current \in 1..2 /\ timeout \in Timeout
  /\ {age, rule_age, routed_age} \subseteq 0..MaxAge
  /\ frontend \in {"raw", "handshaking", "ktls"}
  /\ given \subseteq (1..2) \X {"raw", "ktls"}
  /\ up \in {"copy", "done"} /\ down \in {"copy", "done"}

\* The client's stream is given to one backend at most, and in the form that
\* this backend is configured for: decrypted if it has frontend_tls, else as
\* the client sent it, also for a sorry backend that differs in this from
\* the backend it stands in for.
RightStream ==
  \A g \in given :
    /\ g[1] = current
    /\ g[2] = IF backends[g[1]].frontend_tls THEN "ktls" ELSE "raw"

\* What RightStream needs to be inductive: where the stream stands in each
\* phase.
StreamInPhase ==
  /\ phase \in {"none", "hello", "connect", "pass_tls", "pass_send", "proxy_tls"} => given = {}
  /\ phase \in {"none", "hello", "connect"} => frontend = "raw"
  /\ phase \in {"none", "hello"} => current = 1
  /\ phase = "none" => age = 0
  /\ phase \in UnderRule => current \in DOMAIN backends
  /\ phase \in {"pass_tls", "proxy_tls"} =>
       frontend \in {"raw", "handshaking"} /\ backends[current].frontend_tls
  /\ phase = "pass_send" =>
       frontend = IF backends[current].frontend_tls THEN "ktls" ELSE "raw"

IndInv == TypeOK /\ StreamInPhase /\ RightStream

\* "One deadline covers all these phases": whatever way the set-up takes, by
\* the sorry backend and through frontend TLS, it is over by the deadline.
SetupInTime ==
  phase \in Setup => \A t \in cfg.handshake_timeout : age <= t

\* "No connection (not handed off to Pass) will ever live longer than this",
\* and with a limit on a part of its life that part ends, if neither client
\* nor backend ever does anything.
LifetimeEnds ==
  phase \in Open /\ cfg.max_lifetime /= {} ~> phase \notin Open
SetupEnds ==
  phase \in Setup /\ cfg.handshake_timeout /= {} ~> phase \notin Setup
RuleEnds ==
  phase \in UnderRule /\ timeout /= {} ~> phase \notin UnderRule

\* All three timeouts do what they are for.
TimeoutsEnd == LifetimeEnds /\ SetupEnds /\ RuleEnds

\* "Max connection lifetime", of a rule: from when the rule is chosen the
\* connection does not live longer.
RuleLifetime ==
  phase \in UnderRule => \A t \in timeout : routed_age <= t
=============================================================================
