------------------------- MODULE TcpConnectionProofs -------------------------
(***************************************************************************)
(* Proofs about one TCP connection, for every configuration that loads and *)
(* whatever its client and its backends do.                                *)
(***************************************************************************)
EXTENDS TcpConnection, SetLemmas, TLAPS

\* The rule route_and_connect chooses is one of the configuration's, and has
\* a backend and at most one sorry backend.
LEMMA RuleForInConfig ==
  ASSUME cfg \in Configs, NEW peer, NEW sni, NEW rule \in RuleFor(peer, sni)
  PROVE  /\ rule.timeout \in Timeout
         /\ rule.backends \in Seq(Backend)
         /\ Len(rule.backends) >= 1 /\ Len(rule.backends) <= 2
<1> DEFINE deciding == {i \in DOMAIN cfg.rules :
                          /\ sni \cap cfg.rules[i].re /= {}
                          /\ AclAction(cfg.rules[i].acl, peer) /= "CONTINUE"}
<1>1. rule = IF deciding = {} THEN cfg.default ELSE cfg.rules[Min(deciding)]
  BY DEF RuleFor
<1>2. deciding \subseteq DOMAIN cfg.rules /\ DOMAIN cfg.rules \subseteq Nat
  BY ConfigAssumption
<1> HIDE DEF deciding
<1>3. rule \in {cfg.rules[i] : i \in DOMAIN cfg.rules} \cup {cfg.default}
  <2>1. CASE deciding = {}
    BY <1>1, <2>1
  <2>2. CASE deciding /= {}
    <3>1. Min(deciding) \in DOMAIN cfg.rules
      BY <1>2, <2>2, MinNat
    <3> QED BY <1>1, <2>2, <3>1
  <2> QED BY <2>1, <2>2
<1>4. rule.backends \in Seq(Backend) /\ Len(rule.backends) \in {1, 2}
  BY <1>3, ConfigAssumption
<1>5. \A n \in {1, 2} : n >= 1 /\ n <= 2
  OBVIOUS
<1>6. Len(rule.backends) >= 1 /\ Len(rule.backends) <= 2
  BY <1>4, <1>5, Zenon
<1>7. rule.timeout \in Timeout
  BY <1>3, ConfigAssumption
<1> QED BY <1>4, <1>6, <1>7, Zenon

\* The ages are counted up to the bound.
LEMMA AtMostType == \A n \in 0..MaxAge : AtMost(n + 1) \in 0..MaxAge
  BY ConfigAssumption DEF AtMost

\* A connection starts with its stream untouched and given to nobody.
LEMMA InitInv == Init => IndInv
  BY ConfigAssumption DEF Init, IndInv, TypeOK, StreamInPhase, RightStream, Open, Setup,
     UnderRule, Timeout

\* The end of the task disturbs nothing.
LEMMA CloseStep == IndInv /\ Close => IndInv'
  BY DEF IndInv, Close, TypeOK, StreamInPhase, RightStream, routed, timers, Open, Setup, UnderRule

\* Only an untouched stream goes on to the sorry backend.
LEMMA SorryStep == IndInv /\ phase = "connect" /\ Sorry => IndInv'
<1> SUFFICES ASSUME IndInv, phase = "connect", Sorry PROVE IndInv'
  OBVIOUS
<1>1. /\ current' = current + 1 /\ phase' = "connect" /\ current < Len(backends)
      /\ UNCHANGED <<config, cfg, backends, timeout, age, rule_age, routed_age, frontend,
                     given, up, down>>
  BY DEF Sorry, routed, timers
<1>2. current \in 1..2 /\ current \in DOMAIN backends /\ backends \in Seq(Backend)
      /\ Len(backends) \in Nat /\ Len(backends) <= 2
  BY DEF IndInv, TypeOK, StreamInPhase, UnderRule
<1>3. current' \in 1..2 /\ current' \in DOMAIN backends
  BY <1>1, <1>2
<1>4. given = {} /\ frontend = "raw"
  BY DEF IndInv, StreamInPhase
<1> QED BY <1>1, <1>3, <1>4 DEF IndInv, TypeOK, StreamInPhase, RightStream, Open, Setup, UnderRule

\* Every step keeps the client's stream where the phase says it is.
LEMMA StepInv == IndInv /\ [Next]_vars => IndInv'
<1> SUFFICES ASSUME IndInv, [Next]_vars PROVE IndInv'
  OBVIOUS
<1> USE DEF IndInv, routed, timers, Open, Setup, UnderRule
<1>1. CASE Hangup
  BY <1>1 DEF Hangup, TypeOK, StreamInPhase, RightStream
<1>2. CASE Accept
  BY <1>2 DEF Accept, TypeOK, StreamInPhase, RightStream
<1>3. CASE Reject
  BY <1>3, CloseStep DEF Reject
<1>4. ASSUME NEW peer \in Peers, NEW sni, Route(peer, sni) PROVE IndInv'
  <2>1. PICK rule \in RuleFor(peer, sni) :
          /\ backends' = rule.backends /\ timeout' = rule.timeout
          /\ phase' = "connect" /\ rule_age' = 0 /\ routed_age' = 0
    BY <1>4 DEF Route
  <2>2. phase = "hello" /\ UNCHANGED <<config, cfg, current, age, frontend, given, up, down>>
    BY <1>4 DEF Route
  <2>3. timeout' \in Timeout /\ backends' \in Seq(Backend)
          /\ Len(backends') >= 1 /\ Len(backends') <= 2
    BY <2>1, RuleForInConfig DEF TypeOK
  <2>4. current = 1 /\ 1 \in DOMAIN backends'
    BY <2>2, <2>3 DEF StreamInPhase
  <2>5. TypeOK'
    <3>1. MaxAge \in Nat
      BY ConfigAssumption
    <3>2. {age', rule_age', routed_age'} \subseteq 0..MaxAge
      BY <2>1, <2>2, <3>1 DEF TypeOK
    <3>3. phase' \in Open
      BY <2>1
    <3> QED BY <2>2, <2>3, <3>2, <3>3 DEF TypeOK
  <2>6. StreamInPhase' /\ RightStream'
    BY <2>1, <2>2, <2>4 DEF StreamInPhase, RightStream
  <2> QED BY <2>5, <2>6
<1>5. CASE NullBackend
  BY <1>5, CloseStep DEF NullBackend
<1>6. CASE ConnectPass
  BY <1>6 DEF ConnectPass, TypeOK, StreamInPhase, RightStream
<1>7. CASE ConnectProxy
  <2>1. /\ given = {} /\ frontend = "raw" /\ current \in DOMAIN backends /\ phase = "connect"
        /\ UNCHANGED <<config, cfg, backends, timeout, current, age, routed_age, frontend, up, down>>
        /\ rule_age' = 0
    BY <1>7 DEF ConnectProxy, StreamInPhase
  <2>2. CASE backends[current].frontend_tls
    <3>1. phase' = "proxy_tls" /\ given' = given
      BY <1>7, <2>2 DEF ConnectProxy
    <3> QED BY <2>1, <2>2, <3>1, ConfigAssumption DEF TypeOK, StreamInPhase, RightStream
  <2>3. CASE ~backends[current].frontend_tls
    <3>1. phase' = "proxying" /\ given' = {<<current, "raw">>}
      BY <1>7, <2>1, <2>3 DEF ConnectProxy
    <3>2. TypeOK'
      BY <2>1, <3>1, ConfigAssumption DEF TypeOK
    <3>3. StreamInPhase' /\ RightStream'
      BY <2>1, <2>3, <3>1 DEF StreamInPhase, RightStream
    <3> QED BY <3>2, <3>3
  <2> QED BY <2>2, <2>3
<1>8. CASE ConnectFails
  BY <1>8, CloseStep, SorryStep DEF ConnectFails
<1>9. CASE TlsStarts
  BY <1>9 DEF TlsStarts, TypeOK, StreamInPhase, RightStream
<1>10. CASE TlsDone
  <2>1. /\ given = {} /\ current \in DOMAIN backends /\ backends[current].frontend_tls
        /\ frontend' = "ktls"
        /\ UNCHANGED <<config, cfg, backends, timeout, current, age, rule_age, routed_age, up, down>>
    BY <1>10 DEF TlsDone, StreamInPhase
  <2>2. CASE phase = "pass_tls"
    <3>1. phase' = "pass_send" /\ given' = given
      BY <1>10, <2>2 DEF TlsDone
    <3> QED BY <2>1, <3>1 DEF TypeOK, StreamInPhase, RightStream
  <2>3. CASE phase = "proxy_tls"
    <3>1. phase' = "proxying" /\ given' = {<<current, "ktls">>}
      BY <1>10, <2>1, <2>3 DEF TlsDone
    <3>2. TypeOK'
      BY <2>1, <3>1 DEF TypeOK
    <3>3. StreamInPhase' /\ RightStream'
      BY <2>1, <3>1 DEF StreamInPhase, RightStream
    <3> QED BY <3>2, <3>3
  <2> QED BY <1>10, <2>2, <2>3 DEF TlsDone
<1>11. CASE TlsFails
  BY <1>11, CloseStep DEF TlsFails
<1>12. CASE PassFd
  <2>1. /\ given = {} /\ current \in DOMAIN backends
        /\ frontend = IF backends[current].frontend_tls THEN "ktls" ELSE "raw"
        /\ phase' = "passed" /\ given' = {<<current, frontend>>}
        /\ UNCHANGED <<config, cfg, backends, timeout, current, age, rule_age, routed_age,
                       frontend, up, down>>
    BY <1>12 DEF PassFd, StreamInPhase
  <2>2. TypeOK'
    BY <2>1 DEF TypeOK
  <2>3. StreamInPhase' /\ RightStream'
    BY <2>1 DEF StreamInPhase, RightStream
  <2> QED BY <2>2, <2>3
<1>13. CASE PassFails
  BY <1>13, CloseStep DEF PassFails
<1>14. CASE UpEof
  BY <1>14 DEF UpEof, TypeOK, StreamInPhase, RightStream
<1>15. CASE DownEof
  BY <1>15 DEF DownEof, TypeOK, StreamInPhase, RightStream
<1>16. CASE CopyFails
  BY <1>16, CloseStep DEF CopyFails
<1>17. CASE TimedOut
  BY <1>17, CloseStep DEF TimedOut
<1>18. CASE Tick
  <2>1. /\ UNCHANGED <<config, cfg, backends, timeout, phase, current, frontend, given, up, down>>
        /\ phase \in Open /\ age' = AtMost(age + 1) /\ rule_age' = AtMost(rule_age + 1)
        /\ routed_age' = IF phase = "hello" THEN 0 ELSE AtMost(routed_age + 1)
    BY <1>18 DEF Tick
  <2>2. {age', rule_age', routed_age'} \subseteq 0..MaxAge
    BY <2>1, AtMostType, ConfigAssumption DEF TypeOK
  <2> QED BY <2>1, <2>2 DEF TypeOK, StreamInPhase, RightStream
<1>19. CASE UNCHANGED vars
  BY <1>19 DEF vars, TypeOK, StreamInPhase, RightStream
<1> QED BY <1>1, <1>2, <1>3, <1>4, <1>5, <1>6, <1>7, <1>8, <1>9, <1>10, <1>11, <1>12, <1>13,
           <1>14, <1>15, <1>16, <1>17, <1>18, <1>19 DEF Next

\* The client's stream goes to one backend at most, decrypted exactly if that
\* backend, be it the sorry backend, has frontend TLS configured.
THEOREM StreamToRightBackend == Spec => []IndInv
<1> QED BY InitInv, StepInv, PTL DEF Spec

\* One handshake deadline covers routing, both backends and frontend TLS.
THEOREM SetupMeetsDeadline == Spec => []SetupInTime
<1>1. Init => SetupInTime
  BY DEF Init, SetupInTime, Setup
<1>2. IndInv /\ SetupInTime /\ [Next]_vars => SetupInTime'
  <2> SUFFICES ASSUME IndInv, SetupInTime, [Next]_vars, phase' \in Setup,
                      NEW t \in cfg'.handshake_timeout
               PROVE  age' <= t
    BY DEF SetupInTime
  <2>1. CASE Accept
    <3>1. age' = 0 /\ cfg' \in Configs
      BY <2>1 DEF Accept, IndInv, StreamInPhase, TypeOK, timers
    <3>2. t \in Nat
      BY <3>1, ConfigAssumption DEF Timeout
    <3> QED BY <3>1, <3>2
  <2>2. CASE Tick
    <3>1. phase \in Setup /\ cfg' = cfg /\ age' = AtMost(age + 1) /\ ~Reached(cfg.handshake_timeout, age)
      BY <2>2 DEF Tick, HandshakeDue, routed
    <3>2. age \in Nat /\ t \in Nat
      BY <3>1, ConfigAssumption DEF Timeout, IndInv, TypeOK
    <3>3. ~ (age >= t)
      BY <3>1 DEF Reached
    <3>4. age' <= age + 1
      BY <3>1, <3>2, ConfigAssumption DEF AtMost
    <3>5. age' \in Nat
      BY <3>1, <3>2, ConfigAssumption DEF AtMost
    <3> QED BY <3>2, <3>3, <3>4, <3>5
  <2>3. CASE ~Accept /\ ~Tick
    <3>1. age' = age /\ cfg' = cfg /\ phase \in Setup
      BY <2>3 DEF Next, vars, Hangup, Reject, Route, NullBackend, ConnectPass, ConnectProxy,
         ConnectFails, Sorry, TlsStarts, TlsDone, TlsFails, PassFd, PassFails, UpEof, DownEof,
         CopyFails, TimedOut, Close, routed, timers, Setup
    <3> QED BY <3>1 DEF SetupInTime
  <2> QED BY <2>1, <2>2, <2>3
<1> QED BY StreamToRightBackend, <1>1, <1>2, PTL DEF Spec
=============================================================================
