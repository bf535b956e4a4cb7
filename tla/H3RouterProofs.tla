--------------------------- MODULE H3RouterProofs ---------------------------
(***************************************************************************)
(* Proofs about H3Router, for every set of addresses, connection IDs,      *)
(* configurations and datagrams and for every value of the limits.         *)
(***************************************************************************)
EXTENDS H3Router, SetLemmas, FiniteSetTheorems, TLAPS

\* The ids of paths are finitely many, which the cardinalities below need.
LEMMA IdsFinite == IsFiniteSet(Ids)
<1>1. 0 \in Int /\ MaxConnectionId - 1 \in Int
  BY LimitAssumption
<1> QED
  BY <1>1, FS_Interval DEF Ids

-----------------------------------------------------------------------------
(* What the configuration can answer. *)

\* The earlier of two optional times is one of them and none is earlier.
LEMMA MinTimeoutType ==
  ASSUME NEW a \in Option(Nat), NEW b \in Option(Nat)
  PROVE  /\ MinTimeout(a, b) \in Option(Nat)
         /\ \A n \in a : \E m \in MinTimeout(a, b) : m <= n
<1>1. CASE a \cup b = {}
  BY <1>1 DEF MinTimeout, Option
<1>2. CASE a \cup b # {}
  <2>1. a \cup b \subseteq Nat
    BY DEF Option
  <2>2. Min(a \cup b) \in Nat /\ \A y \in a \cup b : Min(a \cup b) <= y
    BY <1>2, <2>1, MinNat
  <2>3. MinTimeout(a, b) = {Min(a \cup b)}
    BY <1>2 DEF MinTimeout
  <2> QED
    BY <2>2, <2>3 DEF Option
<1> QED
  BY <1>1, <1>2

\* route_for_sni answers with an address or Null, and an optional timeout.
LEMMA RouteType ==
  ASSUME NEW cfg \in Configs, NEW peer, NEW sni, NEW route \in RouteForSni(cfg, peer, sni)
  PROVE  route.backend \in Addrs \cup {Null} /\ route.timeout \in Option(Nat)
<1> DEFINE deciding == Deciding(cfg, peer, sni)
           rule == IF deciding # {} THEN cfg.rules[Min(deciding)] ELSE cfg.default
<1>1. rule \in {cfg.rules[i] : i \in DOMAIN cfg.rules} \cup {cfg.default}
  <2>1. CASE deciding # {}
    <3>1. deciding \subseteq DOMAIN cfg.rules /\ DOMAIN cfg.rules \subseteq Nat
      BY ConfigAssumption DEF Deciding
    <3>2. Min(deciding) \in DOMAIN cfg.rules
      BY <2>1, <3>1, MinNat
    <3> QED
      BY <2>1, <3>2
  <2> QED
    BY <2>1
<1>2. rule.backend \in Addrs \cup {Null} /\ rule.timeout \in Option(Nat \ {0})
      /\ cfg.max_lifetime \in Option(Nat \ {0})
  BY <1>1, ConfigAssumption
<1>3. rule.timeout \in Option(Nat) /\ cfg.max_lifetime \in Option(Nat)
  BY <1>2 DEF Option
<1>4. MinTimeout(cfg.max_lifetime, rule.timeout) \in Option(Nat)
  BY <1>3, MinTimeoutType
<1>5. /\ route.backend \in {rule.backend, Null}
      /\ route.timeout = MinTimeout(cfg.max_lifetime, rule.timeout)
  BY DEF RouteForSni
<1> QED
  BY <1>2, <1>4, <1>5

\* lb_backend answers with the normalized address of a mapped server.
LEMMA LbBackendType ==
  ASSUME NEW cfg \in Configs, NEW cid, NEW addr \in LbBackend(cfg, cid)
  PROVE  addr \in LbServers(cfg) /\ addr \in Addrs /\ Norm[addr] = addr
<1> DEFINE hits == {i \in DOMAIN cfg.quic_lb :
                      /\ cid \in DOMAIN cfg.quic_lb[i].decode
                      /\ cfg.quic_lb[i].decode[cid] \in DOMAIN cfg.quic_lb[i].servers}
<1>1. hits # {} /\ LbBackend(cfg, cid)
        = {cfg.quic_lb[Min(hits)].servers[cfg.quic_lb[Min(hits)].decode[cid]]}
  BY DEF LbBackend
<1>2. hits \subseteq Nat
  BY ConfigAssumption
<1>3. Min(hits) \in hits
  BY <1>1, <1>2, MinNat
<1>4. PICK i \in DOMAIN cfg.quic_lb :
        /\ cfg.quic_lb[i].decode[cid] \in DOMAIN cfg.quic_lb[i].servers
        /\ addr = cfg.quic_lb[i].servers[cfg.quic_lb[i].decode[cid]]
  BY <1>1, <1>3
<1>5. addr \in Range(cfg.quic_lb[i].servers)
  BY <1>4 DEF Range
<1>6. addr \in LbServers(cfg)
  BY <1>5 DEF LbServers
<1> QED
  BY <1>6, ConfigAssumption

-----------------------------------------------------------------------------
(* The inductive invariant by the variables it is about, and what every    *)
(* step does to the paths. *)

PathInv ==
  /\ config \in Configs
  /\ IsPartialFunction(connections, Ids, Connection)
  /\ IsPartialFunction(cid_routes, Cids, Ids)
  /\ IsPartialFunction(lb_paths, Addrs \X Addrs, Ids)
  /\ IsPartialFunction(client_routes, Addrs, SUBSET Ids)
  /\ next_connection_id \in 0..MaxConnectionId
  /\ readers \subseteq Reader
  /\ CidIndex /\ LbIndex /\ ClientIndex
  /\ \A id \in DOMAIN connections : id < next_connection_id
  /\ \A r \in readers : OwnSocket(r)
  /\ PathLimits

QueueInv ==
  /\ backend_rx \in Seq(BackendDatagram)
  /\ \A i \in DOMAIN backend_rx : OwnSocket(backend_rx[i])

PendingInv ==
  IsPartialFunction(pending, Addrs \X (Cids \cup {<<>>}), PendingConnection)

\* IndInv, split by what its parts are about: the steps disturb one part each.
LEMMA IndInvParts == IndInv <=> PathInv /\ QueueInv /\ PendingInv
  BY DEF IndInv, TypeOK, IndexesAgree, IdsFresh, PathInv, QueueInv, PendingInv

\* A path of after the step is one of before with its identity kept and not
\* revived, or has an id that was not handed out before.
PathsStable ==
  /\ next_connection_id' >= next_connection_id
  /\ \A id \in DOMAIN connections' :
       IF id \in DOMAIN connections THEN PathKept(id) /\ NotRevived(id)
                                     ELSE id >= next_connection_id

\* A reader or a queued datagram keeps pointing at its own path or at none.
LEMMA SocketStable ==
  ASSUME PathsStable, NEW t, t.conn_id \in Ids, OwnSocket(t),
         next_connection_id \in Nat, next_connection_id' \in Nat
  PROVE  OwnSocket(t)'
  BY DEF PathsStable, PathKept, OwnSocket, Ids

-----------------------------------------------------------------------------
(* One path touched: a datagram forwarded either way, a handshake joining.  *)

Touched(id, L, new) ==
  /\ Live(id) /\ new \in Connection /\ Cardinality(new.cids) <= MaxCidsPerPath
  /\ Norm[new.client_addr] = Norm[connections[id].client_addr]
  /\ new.backend = connections[id].backend
  /\ new.cids = connections[id].cids \cup L
  /\ \A n \in connections[id].deadline : \E m \in new.deadline : m <= n
  /\ \A c \in L : c \in DOMAIN cid_routes => cid_routes[c] = id
  /\ connections' = [connections EXCEPT ![id] = new]
  /\ cid_routes' = RegisterCids(L, id)
  /\ UNCHANGED <<config, lb_paths, client_routes, next_connection_id, readers>>

\* A handler that touches one path (its idle time, its deadline, the connection
\* IDs it learns) keeps the tables in agreement and every path itself.
LEMMA TouchedStep ==
  ASSUME PathInv, NEW id, NEW L, NEW new, Touched(id, L, new)
  PROVE  PathInv' /\ PathsStable
<1> USE DEF PathInv
<1>1. /\ id \in DOMAIN connections /\ id \in Ids /\ connections[id] \in Connection
      /\ DOMAIN connections' = DOMAIN connections
      /\ connections'[id] = new
      /\ \A i \in DOMAIN connections : i # id => connections'[i] = connections[i]
      /\ \A i \in DOMAIN connections : connections[i] \in Connection
  BY DEF Touched, Live, IsPartialFunction
<1>2. L \subseteq Cids
  BY DEF Touched, Connection
<1>3. /\ DOMAIN cid_routes' = DOMAIN cid_routes \cup L
      /\ \A c \in DOMAIN cid_routes : cid_routes'[c] = cid_routes[c]
      /\ \A c \in L : cid_routes'[c] = id
  BY DEF Touched, RegisterCids
<1>4. PathsStable
  <2>1. next_connection_id' >= next_connection_id
    BY DEF Touched
  <2>2. ASSUME NEW i \in DOMAIN connections PROVE PathKept(i) /\ NotRevived(i)
    <3>1. CASE i = id
      BY <1>1, <3>1 DEF PathKept, Touched, NotRevived, Live
    <3>2. CASE i # id
      <4>1. connections'[i] = connections[i] /\ connections[i].deadline \subseteq Nat
        BY <1>1, <3>2 DEF Connection, Option
      <4> QED
        BY <4>1 DEF PathKept, NotRevived
    <3> QED
      BY <3>1, <3>2
  <2> QED
    BY <1>1, <2>1, <2>2 DEF PathsStable
<1>5. IsPartialFunction(connections, Ids, Connection)'
  BY DEF Touched, IsPartialFunction
<1>6. IsPartialFunction(cid_routes, Cids, Ids)'
  BY <1>1, <1>2 DEF Touched, IsPartialFunction, RegisterCids
<1>7. CidIndex'
  BY <1>1, <1>3 DEF CidIndex, Touched
<1>8. LbIndex'
  BY <1>1 DEF LbIndex, Touched
<1>9. ClientIndex'
  BY <1>1 DEF ClientIndex, Touched
<1>10. \A r \in readers' : OwnSocket(r)'
  BY <1>4, SocketStable, LimitAssumption DEF Touched, Reader
<1>11. PathLimits'
  BY <1>1 DEF Touched, PathLimits
<1> QED
  BY <1>1, <1>4, <1>5, <1>6, <1>7, <1>8, <1>9, <1>10, <1>11 DEF Touched, IsPartialFunction

\* What a path learns is unowned or its own, and within its budget.
LEMMA LearnedFacts ==
  ASSUME PathInv, NEW id \in DOMAIN connections, NEW S, S \subseteq Cids \cup {<<>>},
         NEW L \in LearnedCids(id, S) \cup {{}}
  PROVE  /\ L \subseteq Cids /\ \A c \in L : c \in DOMAIN cid_routes => cid_routes[c] = id
         /\ Cardinality(connections[id].cids \cup L) <= MaxCidsPerPath
<1> DEFINE cids == connections[id].cids
<1>1. L \subseteq Cids /\ \A c \in L : c \in DOMAIN cid_routes => cid_routes[c] = id
  BY DEF LearnedCids, NewCids
<1>2. cids \subseteq Cids /\ Cardinality(cids) <= MaxCidsPerPath
  BY DEF PathInv, IsPartialFunction, Connection, PathLimits
<1>3. IsFiniteSet(cids) /\ IsFiniteSet(L) /\ IsFiniteSet(cids \cap L)
  BY <1>1, <1>2, PacketAssumption, FS_Subset
<1>4. /\ Cardinality(cids) \in Nat /\ Cardinality(L) \in Nat
      /\ Cardinality(cids \cap L) \in Nat
  BY <1>3, FS_CardinalityType
<1>5. Cardinality(cids \cup L) = Cardinality(cids) + Cardinality(L) - Cardinality(cids \cap L)
  BY <1>3, FS_Union
<1>6. L = {} \/ Cardinality(L) <= Room(id)
  BY <1>4, LimitAssumption DEF LearnedCids, Room
<1>7. CASE L = {}
  BY <1>1, <1>2, <1>7
<1>8. CASE Cardinality(L) <= Room(id)
  BY <1>1, <1>4, <1>5, <1>8, LimitAssumption DEF Room
<1> QED
  BY <1>1, <1>6, <1>7, <1>8

\* forward_established_client_datagram only touches the path it forwards on.
LEMMA ForwardClientTouches ==
  ASSUME PathInv, NEW id, NEW peer \in Addrs, NEW S, S \subseteq Cids \cup {<<>>},
         id \in DOMAIN connections => Norm[peer] = Norm[connections[id].client_addr],
         ForwardClient(id, peer, S)
  PROVE  \E L, new : Touched(id, L, new)
<1>1. PICK L \in LearnedCids(id, S) \cup {{}} :
        /\ connections' = [connections EXCEPT ![id].client_addr = peer, ![id].idle = 0,
                                              ![id].cids = @ \cup L]
        /\ cid_routes' = RegisterCids(L, id)
  BY DEF ForwardClient
<1> DEFINE old == connections[id]
           new == [old EXCEPT !.client_addr = peer, !.idle = 0, !.cids = @ \cup L]
<1>2. id \in DOMAIN connections /\ old \in Connection
  BY DEF ForwardClient, Live, PathInv, IsPartialFunction
<1>3. /\ L \subseteq Cids /\ \A c \in L : c \in DOMAIN cid_routes => cid_routes[c] = id
      /\ Cardinality(old.cids \cup L) <= MaxCidsPerPath
  BY <1>2, LearnedFacts
<1>4. /\ new \in Connection /\ new.client_addr = peer /\ new.backend = old.backend
      /\ new.cids = old.cids \cup L /\ new.deadline = old.deadline
  <2>1. 0 \in 0..IdleTimeout /\ old.cids \cup L \in SUBSET Cids
    BY <1>2, <1>3, LimitAssumption DEF Connection
  <2> HIDE DEF old
  <2> QED
    BY <1>2, <2>1 DEF Connection
<1>5. connections' = [connections EXCEPT ![id] = new]
  BY <1>1, <1>2, <1>4 DEF Connection, PathInv, IsPartialFunction
<1>6. \A n \in old.deadline : \E m \in new.deadline : m <= n
  BY <1>2, <1>4 DEF Connection, Option
<1>7. Touched(id, L, new)
  BY <1>1, <1>2, <1>3, <1>4, <1>5, <1>6 DEF Touched, ForwardClient
<1> QED
  BY <1>7

\* A handshake that joins a path only touches that path.
LEMMA JoinPathTouches ==
  ASSUME PathInv, NEW id, NEW S, S \subseteq Cids \cup {<<>>}, NEW timeout \in Option(Nat),
         CanJoin(id, S), JoinPath(id, S, timeout)
  PROVE  \E L, new : Touched(id, L, new)
<1> DEFINE old == connections[id]
           deadline == SharedDeadline(old.deadline, timeout)
<1>1. id \in DOMAIN connections /\ old \in Connection
  BY DEF CanJoin, Live, PathInv, IsPartialFunction
<1>2. deadline \in Option(Nat) /\ \A n \in old.deadline : \E m \in deadline : m <= n
  BY <1>1, MinTimeoutType DEF SharedDeadline, Connection
<1>3. CASE \E L \in LearnedCids(id, S) :
             /\ connections' = [connections EXCEPT ![id].deadline = deadline, ![id].idle = 0,
                                                   ![id].cids = @ \cup L]
             /\ cid_routes' = RegisterCids(L, id)
  <2>1. PICK L \in LearnedCids(id, S) :
             /\ connections' = [connections EXCEPT ![id].deadline = deadline, ![id].idle = 0,
                                                   ![id].cids = @ \cup L]
             /\ cid_routes' = RegisterCids(L, id)
    BY <1>3
  <2> DEFINE new == [old EXCEPT !.deadline = deadline, !.idle = 0, !.cids = @ \cup L]
  <2>2. /\ L \subseteq Cids /\ \A c \in L : c \in DOMAIN cid_routes => cid_routes[c] = id
        /\ Cardinality(old.cids \cup L) <= MaxCidsPerPath
    BY <1>1, LearnedFacts
  <2>3. /\ new \in Connection /\ new.client_addr = old.client_addr
        /\ new.backend = old.backend /\ new.cids = old.cids \cup L /\ new.deadline = deadline
    <3>1. 0 \in 0..IdleTimeout /\ old.cids \cup L \in SUBSET Cids
      BY <1>1, <2>2, LimitAssumption DEF Connection
    <3> HIDE DEF old, deadline
    <3> QED
      BY <1>1, <1>2, <3>1 DEF Connection
  <2>4. connections' = [connections EXCEPT ![id] = new]
    BY <1>1, <2>1, <2>3 DEF Connection, PathInv, IsPartialFunction
  <2>5. Touched(id, L, new)
    BY <1>1, <1>2, <2>1, <2>2, <2>3, <2>4 DEF Touched, JoinPath, CanJoin
  <2> QED
    BY <2>5
<1>4. CASE connections' = [connections EXCEPT ![id].deadline = deadline] /\ UNCHANGED cid_routes
  <2> DEFINE new == [old EXCEPT !.deadline = deadline]
  <2>1. /\ new \in Connection /\ new.client_addr = old.client_addr
        /\ new.backend = old.backend /\ new.cids = old.cids \cup {} /\ new.deadline = deadline
    BY <1>1, <1>2 DEF Connection
  <2>2. connections' = [connections EXCEPT ![id] = new]
    BY <1>1, <1>4, <2>1 DEF Connection, PathInv, IsPartialFunction
  <2>3. cid_routes' = RegisterCids({}, id)
    BY <1>4 DEF RegisterCids, PathInv, IsPartialFunction
  <2>4. Cardinality(new.cids) <= MaxCidsPerPath
    BY <1>1, <2>1 DEF PathInv, PathLimits
  <2>5. Touched(id, {}, new)
    BY <1>1, <1>2, <2>1, <2>2, <2>3, <2>4 DEF Touched, JoinPath, CanJoin
  <2> QED
    BY <2>5
<1> QED
  BY <1>3, <1>4 DEF JoinPath

-----------------------------------------------------------------------------
(* Paths created and removed. *)

\* A new path enters all four tables at once under an id that nothing mentions.
LEMMA CreatePathStep ==
  ASSUME PathInv, NEW peer \in Addrs, NEW addr \in Addrs, NEW lb_path \in BOOLEAN,
         NEW dcid \in Cids \cup {<<>>}, NEW S \in SUBSET Cids, NEW timeout \in Option(Nat),
         CanCreate(S), CreatePath(peer, addr, lb_path, dcid, S, timeout)
  PROVE  PathInv' /\ PathsStable
<1> DEFINE id == next_connection_id
           client == Norm[peer]
           old == UNION {client_routes[a] : a \in DOMAIN client_routes \cap {client}}
           conn == [client_addr |-> peer, backend |-> addr, cids |-> S,
                    initial_key_dcid |-> dcid, idle |-> 0, deadline |-> timeout]
<1>1. /\ next_connection_id \in Nat /\ next_connection_id' = next_connection_id + 1
      /\ id \in Ids /\ id \notin DOMAIN connections
      /\ next_connection_id' \in 0..MaxConnectionId
      /\ UNCHANGED config
  BY LimitAssumption DEF CreatePath, PathInv, Ids
<1>2. client \in Addrs /\ conn \in Connection
  BY AddrAssumption, LimitAssumption DEF Connection
<1>3. \A i \in DOMAIN connections :
        (PathKept(i) /\ NotRevived(i)) \/ connections'[i] # connections[i]
  <2>1. ASSUME NEW i \in DOMAIN connections, connections'[i] = connections[i]
        PROVE  PathKept(i) /\ NotRevived(i)
    <3>1. connections[i].deadline \subseteq Nat
      BY DEF PathInv, IsPartialFunction, Connection, Option
    <3> QED
      BY <2>1, <3>1 DEF PathKept, NotRevived
  <2> QED
    BY <2>1
<1>4. CASE UNCHANGED <<connections, cid_routes, lb_paths, client_routes, readers>>
  <2>1. PathsStable
    BY <1>1, <1>3, <1>4 DEF PathsStable
  <2>2. \A r \in readers' : OwnSocket(r)'
    BY <1>1, <1>4, <2>1, SocketStable DEF PathInv, Reader
  <2>3. \A i \in DOMAIN connections' : i < next_connection_id'
    BY <1>1, <1>4 DEF PathInv, IsPartialFunction, Ids
  <2> QED
    BY <1>1, <1>4, <2>1, <2>2, <2>3
       DEF PathInv, CidIndex, LbIndex, ClientIndex, IsPartialFunction, PathLimits
<1>5. CASE /\ connections' = [i \in DOMAIN connections \cup {id} |->
                                IF i = id THEN conn ELSE connections[i]]
           /\ cid_routes' = RegisterCids(S, id)
           /\ lb_paths' = [k \in DOMAIN lb_paths \cup {kk \in {<<client, addr>>} : lb_path} |->
                             IF lb_path /\ k = <<client, addr>> THEN id ELSE lb_paths[k]]
           /\ client_routes' = [a \in DOMAIN client_routes \cup {client} |->
                                  IF a = client THEN old \cup {id} ELSE client_routes[a]]
           /\ readers' = readers \cup {[conn_id |-> id, client |-> client,
                                        backend |-> addr, aborted |-> FALSE]}
  <2> HIDE DEF conn, id, client
  <2>1. /\ DOMAIN connections' = DOMAIN connections \cup {id}
        /\ connections'[id] = conn
        /\ \A i \in DOMAIN connections : connections'[i] = connections[i]
    BY <1>1, <1>5
  <2>2. PathsStable
    <3>1. id >= next_connection_id
      BY <1>1 DEF id
    <3> QED
      BY <1>1, <1>3, <2>1, <3>1 DEF PathsStable
  <2>3. S \cap DOMAIN cid_routes = {}
    <3>1. ASSUME NEW c \in S \cap DOMAIN cid_routes PROVE FALSE
      <4>1. cid_routes[c] = id
        BY DEF CanCreate, Uncontested, NewConnectionId, id
      <4>2. cid_routes[c] \in DOMAIN connections
        BY DEF PathInv, CidIndex
      <4> QED
        BY <1>1, <4>1, <4>2
    <3> QED
      BY <3>1
  <2>4. /\ DOMAIN cid_routes' = DOMAIN cid_routes \cup S
        /\ \A c \in DOMAIN cid_routes : cid_routes'[c] = cid_routes[c]
        /\ \A c \in S : cid_routes'[c] = id
    BY <1>5, <2>3 DEF RegisterCids
  <2>5. IsPartialFunction(connections, Ids, Connection)'
    BY <1>1, <1>2, <1>5 DEF PathInv, IsPartialFunction
  <2>6. IsPartialFunction(cid_routes, Cids, Ids)'
    BY <1>1, <1>5 DEF PathInv, IsPartialFunction, RegisterCids
  <2>7. IsPartialFunction(lb_paths, Addrs \X Addrs, Ids)'
    BY <1>1, <1>2, <1>5 DEF PathInv, IsPartialFunction
  <2>8. old \subseteq Ids
    BY DEF PathInv, IsPartialFunction
  <2>9. IsPartialFunction(client_routes, Addrs, SUBSET Ids)'
    BY <1>1, <1>2, <1>5, <2>8 DEF PathInv, IsPartialFunction
  <2>10. conn.cids = S /\ conn.client_addr = peer /\ conn.backend = addr
    BY DEF conn
  <2>11. CidIndex'
    BY <1>1, <2>1, <2>4, <2>10 DEF PathInv, CidIndex
  <2>12. LbIndex'
    BY <1>1, <1>5, <2>1, <2>10 DEF PathInv, LbIndex, client
  <2>13. ClientIndex'
    <3>1. /\ DOMAIN client_routes' = DOMAIN client_routes \cup {client}
          /\ client_routes'[client] = old \cup {id}
          /\ \A a \in DOMAIN client_routes : a # client => client_routes'[a] = client_routes[a]
          /\ client \in DOMAIN client_routes => old = client_routes[client]
          /\ client \notin DOMAIN client_routes => old = {}
      BY <1>5
    <3> HIDE DEF old
    <3>2. ASSUME NEW a \in DOMAIN client_routes'
          PROVE  /\ client_routes'[a] # {}
                 /\ \A i \in client_routes'[a] :
                      i \in DOMAIN connections' /\ Norm[connections'[i].client_addr] = a
      BY <2>1, <2>10, <3>1, SMTT(30) DEF PathInv, ClientIndex, client
    <3>3. ASSUME NEW i \in DOMAIN connections'
          PROVE  /\ Norm[connections'[i].client_addr] \in DOMAIN client_routes'
                 /\ i \in client_routes'[Norm[connections'[i].client_addr]]
      BY <2>1, <2>10, <3>1 DEF PathInv, ClientIndex, client
    <3> QED
      BY <3>2, <3>3 DEF ClientIndex
  <2>14. \A i \in DOMAIN connections' : i < next_connection_id'
    BY <1>1, <2>1 DEF PathInv, IsPartialFunction, Ids, id
  <2> DEFINE reader == [conn_id |-> id, client |-> client, backend |-> addr, aborted |-> FALSE]
  <2>15. readers' \subseteq Reader
    <3>1. reader \in Reader
      BY <1>1, <1>2 DEF Reader
    <3> QED
      BY <1>5, <3>1 DEF PathInv
  <2>16. \A r \in readers' : OwnSocket(r)'
    <3>1. ASSUME NEW r \in readers PROVE OwnSocket(r)'
      BY <1>1, <2>2, SocketStable DEF PathInv, Reader
    <3>2. ASSUME NEW r, r = reader PROVE OwnSocket(r)'
      <4>1. r.conn_id = id /\ r.client = client /\ r.backend = addr
        BY <3>2
      <4>2. id < next_connection_id' /\ connections'[id] = conn
        BY <1>1, <2>1 DEF id
      <4> QED
        BY <2>10, <4>1, <4>2 DEF OwnSocket, client
    <3> QED
      BY <1>5, <3>1, <3>2
  <2>17. PathLimits'
    <3>1. IsFiniteSet(DOMAIN connections)
      <4>1. DOMAIN connections \in SUBSET Ids /\ IsFiniteSet(Ids)
        BY IdsFinite DEF PathInv, IsPartialFunction
      <4> QED
        BY <4>1, FS_Subset
    <3>2. /\ Cardinality(DOMAIN connections) \in Nat
          /\ Cardinality(DOMAIN connections \cup {id}) = Cardinality(DOMAIN connections) + 1
      BY <1>1, <3>1, FS_AddElement, FS_CardinalityType
    <3>3. Cardinality(DOMAIN connections') <= MaxPaths
      BY <2>1, <3>2, LimitAssumption DEF CanCreate
    <3>4. Cardinality(conn.cids) <= MaxCidsPerPath
      BY <2>10 DEF CanCreate
    <3> QED
      BY <2>1, <3>3, <3>4 DEF PathInv, PathLimits
  <2> QED
    BY <1>1, <2>2, <2>5, <2>6, <2>7, <2>9, <2>11, <2>12, <2>13, <2>14, <2>15, <2>16, <2>17
       DEF PathInv
<1> QED
  BY <1>4, <1>5 DEF CreatePath, NewConnectionId

\* Steps that leave the paths and the readers alone.
LEMMA IdleStep ==
  ASSUME PathInv, UNCHANGED paths, config' \in Configs, readers' \subseteq readers
  PROVE  PathInv' /\ PathsStable
<1>1. \A i \in DOMAIN connections : connections[i].deadline \subseteq Nat
  BY DEF PathInv, IsPartialFunction, Connection, Option
<1>2. next_connection_id \in Nat
  BY LimitAssumption DEF PathInv
<1>3. PathsStable
  BY <1>1, <1>2 DEF PathsStable, PathKept, NotRevived, paths
<1>4. \A r \in readers' : OwnSocket(r)'
  BY <1>2, <1>3, SocketStable DEF PathInv, Reader, paths
<1> QED
  BY <1>3, <1>4 DEF PathInv, paths, CidIndex, LbIndex, ClientIndex, IsPartialFunction, PathLimits

\* establish_and_flush, whichever of joining, creating and refusing it does.
LEMMA EstablishToStep ==
  ASSUME PathInv, NEW addr \in Addrs, NEW peer \in Addrs, NEW dcid \in Cids \cup {<<>>},
         NEW S \in SUBSET Cids, NEW timeout \in Option(Nat),
         EstablishTo(addr, peer, dcid, S, timeout)
  PROVE  PathInv' /\ PathsStable /\ UNCHANGED backend_rx
<1> DEFINE requested == ({dcid} \cup S) \ {<<>>}
           path_key == <<Norm[peer], Norm[addr]>>
           lb_path == Norm[addr] \in LbServers(config)
           to == IF lb_path THEN Norm[addr] ELSE addr
<1>1. requested \in SUBSET Cids /\ to \in Addrs /\ lb_path \in BOOLEAN
  BY AddrAssumption
<1>2. CASE /\ CanJoin(lb_paths[path_key], requested)
           /\ JoinPath(lb_paths[path_key], requested, timeout)
  <2>1. PICK L, new : Touched(lb_paths[path_key], L, new)
    BY <1>1, <1>2, JoinPathTouches
  <2> QED
    BY <1>2, <2>1, TouchedStep DEF JoinPath
<1>3. CASE CanCreate(requested) /\ CreatePath(peer, to, lb_path, dcid, requested, timeout)
  <2>1. PathInv' /\ PathsStable
    BY <1>1, <1>3, CreatePathStep
  <2> QED
    BY <1>3, <2>1 DEF CreatePath
<1>4. CASE Refuse
  BY <1>4, IdleStep DEF Refuse, PathInv
<1> QED
  BY <1>2, <1>3, <1>4 DEF EstablishTo

\* cleanup takes an expired path out of all four tables.
LEMMA CleanupStep ==
  ASSUME PathInv, Cleanup
  PROVE  PathInv' /\ PathsStable
<1> DEFINE gone == {id \in DOMAIN connections : Expired(connections[id])}
           keep == DOMAIN connections \ gone
           owned(c) == cid_routes[c] \in gone /\ c \in connections[cid_routes[c]].cids
           left(a) == client_routes[a] \ {id \in gone : Norm[connections[id].client_addr] = a}
<1> HIDE DEF gone
<1>1. /\ connections' = [i \in keep |-> connections[i]]
      /\ cid_routes' = [c \in {d \in DOMAIN cid_routes : ~owned(d)} |-> cid_routes[c]]
      /\ client_routes' = [a \in {b \in DOMAIN client_routes : left(b) # {}} |-> left(a)]
      /\ lb_paths' = [k \in {l \in DOMAIN lb_paths : lb_paths[l] \in keep} |-> lb_paths[k]]
      /\ readers' = {[r EXCEPT !.aborted = @ \/ r.conn_id \in gone] : r \in readers}
      /\ UNCHANGED <<config, next_connection_id>>
  BY DEF Cleanup, Restrict, RetainedLbPaths, AbortReaders, gone
<1>2. /\ DOMAIN connections' = keep
      /\ \A i \in keep : connections'[i] = connections[i]
      /\ DOMAIN cid_routes' = {c \in DOMAIN cid_routes : ~owned(c)}
      /\ \A c \in DOMAIN cid_routes' : cid_routes'[c] = cid_routes[c]
      /\ DOMAIN client_routes' = {b \in DOMAIN client_routes : left(b) # {}}
      /\ \A a \in DOMAIN client_routes' : client_routes'[a] = left(a)
      /\ DOMAIN lb_paths' = {l \in DOMAIN lb_paths : lb_paths[l] \in keep}
      /\ \A k \in DOMAIN lb_paths' : lb_paths'[k] = lb_paths[k]
  BY <1>1
<1>3. next_connection_id \in Nat /\ \A i \in keep : connections[i].deadline \subseteq Nat
  BY LimitAssumption DEF PathInv, IsPartialFunction, Connection, Option
<1>4. PathsStable
  BY <1>1, <1>2, <1>3 DEF PathsStable, PathKept, NotRevived
<1>5. CidIndex'
  BY <1>2 DEF PathInv, CidIndex
<1>6. LbIndex'
  BY <1>2 DEF PathInv, LbIndex
<1>7. ClientIndex'
  <2>1. ASSUME NEW a \in DOMAIN client_routes', NEW i \in client_routes'[a]
        PROVE  i \in DOMAIN connections' /\ Norm[connections'[i].client_addr] = a
    BY <1>2 DEF PathInv, ClientIndex
  <2>2. ASSUME NEW i \in DOMAIN connections'
        PROVE  /\ Norm[connections'[i].client_addr] \in DOMAIN client_routes'
               /\ i \in client_routes'[Norm[connections'[i].client_addr]]
    <3> DEFINE a == Norm[connections[i].client_addr]
    <3>1. a \in DOMAIN client_routes /\ i \in client_routes[a] /\ i \notin gone
      BY <1>2 DEF PathInv, ClientIndex
    <3>2. i \in left(a)
      BY <3>1
    <3> QED
      BY <1>2, <3>1, <3>2
  <2> QED
    BY <1>2, <2>1, <2>2 DEF ClientIndex
<1>8. /\ IsPartialFunction(connections, Ids, Connection)'
      /\ IsPartialFunction(cid_routes, Cids, Ids)'
      /\ IsPartialFunction(lb_paths, Addrs \X Addrs, Ids)'
  BY <1>1 DEF PathInv, IsPartialFunction
<1>9. IsPartialFunction(client_routes, Addrs, SUBSET Ids)'
  BY <1>1 DEF PathInv, IsPartialFunction
<1>10. \A i \in DOMAIN connections' : i < next_connection_id'
  BY <1>1, <1>2 DEF PathInv
<1>11. readers' \subseteq Reader /\ \A r \in readers' : OwnSocket(r)'
  <2>1. ASSUME NEW r \in readers'
        PROVE  r \in Reader /\ OwnSocket(r)'
    <3>1. PICK q \in readers : r = [q EXCEPT !.aborted = @ \/ q.conn_id \in gone]
      BY <1>1
    <3>2. q \in Reader /\ OwnSocket(q)
      BY DEF PathInv
    <3>3. /\ r \in Reader /\ r.conn_id = q.conn_id /\ r.client = q.client
          /\ r.backend = q.backend
      BY <3>1, <3>2 DEF Reader
    <3>4. OwnSocket(q)'
      BY <1>1, <1>3, <1>4, <3>2, SocketStable DEF Reader
    <3> QED
      BY <3>3, <3>4 DEF OwnSocket
  <2> QED
    BY <2>1
<1>12. PathLimits'
  <2>1. keep \in SUBSET Ids /\ DOMAIN connections \in SUBSET Ids /\ IsFiniteSet(Ids)
    BY IdsFinite DEF PathInv, IsPartialFunction
  <2>2. IsFiniteSet(DOMAIN connections) /\ keep \in SUBSET DOMAIN connections
    BY <2>1, FS_Subset
  <2>3. Cardinality(keep) <= Cardinality(DOMAIN connections)
    BY <2>2, FS_Subset
  <2>4. Cardinality(keep) \in Nat /\ Cardinality(DOMAIN connections) \in Nat
    BY <2>1, FS_Subset, FS_CardinalityType
  <2>5. Cardinality(DOMAIN connections') <= MaxPaths
    BY <1>2, <2>3, <2>4, LimitAssumption DEF PathInv, PathLimits
  <2> QED
    BY <1>2, <2>5 DEF PathInv, PathLimits
<1> QED
  BY <1>1, <1>4, <1>5, <1>6, <1>7, <1>8, <1>9, <1>10, <1>11, <1>12 DEF PathInv

-----------------------------------------------------------------------------
(* The remaining handlers and time. *)

\* Time only ages paths.
LEMMA TickStep ==
  ASSUME PathInv, Tick
  PROVE  PathInv' /\ PathsStable
<1> DEFINE older(c) == [c EXCEPT !.idle = AtMost(@ + 1, IdleTimeout),
                                 !.deadline = {IF n = 0 THEN 0 ELSE n - 1 : n \in @}]
<1>1. /\ connections' = [id \in DOMAIN connections |-> older(connections[id])]
      /\ UNCHANGED <<config, cid_routes, lb_paths, client_routes, next_connection_id, readers>>
  BY DEF Tick
<1>2. ASSUME NEW c \in Connection
      PROVE  /\ older(c) \in Connection
             /\ older(c).client_addr = c.client_addr /\ older(c).backend = c.backend
             /\ older(c).cids = c.cids
             /\ \A n \in c.deadline : \E m \in older(c).deadline : m <= n
             /\ Expired(c) => Expired(older(c))
  <2> DEFINE idle == AtMost(c.idle + 1, IdleTimeout)
             deadline == {IF n = 0 THEN 0 ELSE n - 1 : n \in c.deadline}
  <2>1. idle \in 0..IdleTimeout
    BY LimitAssumption DEF AtMost, Connection
  <2>2. c.deadline \subseteq Nat /\ \A x, y \in c.deadline : x = y
    BY DEF Connection, Option
  <2>3. deadline \subseteq Nat /\ \A x, y \in deadline : x = y
    BY <2>2
  <2>4. ASSUME NEW n \in c.deadline PROVE \E m \in deadline : m <= n
    <3>1. (IF n = 0 THEN 0 ELSE n - 1) \in deadline
      OBVIOUS
    <3> QED
      BY <2>2, <3>1
  <2>5. deadline \in Option(Nat)
    BY <2>3 DEF Option
  <2>6. older(c) = [c EXCEPT !.idle = idle, !.deadline = deadline]
    OBVIOUS
  <2>7. c.idle >= IdleTimeout => idle >= IdleTimeout
    BY LimitAssumption DEF AtMost, Connection
  <2>8. 0 \in c.deadline => 0 \in deadline
    OBVIOUS
  <2> HIDE DEF idle, deadline, older
  <2> QED
    BY <2>1, <2>4, <2>5, <2>6, <2>7, <2>8 DEF Connection, Expired
<1> HIDE DEF older
<1>3. \A id \in DOMAIN connections : connections[id] \in Connection
  BY DEF PathInv, IsPartialFunction
<1>4. next_connection_id \in Nat
  BY LimitAssumption DEF PathInv
<1>5. PathsStable
  BY <1>1, <1>2, <1>3, <1>4 DEF PathsStable, PathKept, NotRevived
<1>6. CidIndex' /\ LbIndex' /\ ClientIndex' /\ PathLimits'
  <2>1. DOMAIN connections' = DOMAIN connections
    BY <1>1
  <2>2. ASSUME NEW id \in DOMAIN connections
        PROVE  /\ connections'[id].client_addr = connections[id].client_addr
               /\ connections'[id].backend = connections[id].backend
               /\ connections'[id].cids = connections[id].cids
    BY <1>1, <1>2, <1>3
  <2>3. CidIndex'
    BY <1>1, <2>1, <2>2 DEF PathInv, CidIndex
  <2>4. LbIndex'
    BY <1>1, <2>1, <2>2 DEF PathInv, LbIndex
  <2>5. ClientIndex'
    BY <1>1, <2>1, <2>2 DEF PathInv, ClientIndex
  <2>6. PathLimits'
    BY <2>1, <2>2 DEF PathInv, PathLimits
  <2> QED
    BY <2>3, <2>4, <2>5, <2>6
<1>7. IsPartialFunction(connections, Ids, Connection)'
  BY <1>1, <1>2, <1>3 DEF PathInv, IsPartialFunction
<1>8. \A r \in readers' : OwnSocket(r)'
  BY <1>1, <1>4, <1>5, SocketStable DEF PathInv, Reader
<1> QED
  BY <1>1, <1>5, <1>6, <1>7, <1>8 DEF PathInv, IsPartialFunction

\* A queue that loses its head or gains a datagram of some reader's.
LEMMA QueueStep ==
  ASSUME PathInv, QueueInv, PathsStable, next_connection_id' \in Nat,
         \/ UNCHANGED backend_rx
         \/ backend_rx # <<>> /\ backend_rx' = Tail(backend_rx)
  PROVE  QueueInv'
<1>1. next_connection_id \in Nat
  BY LimitAssumption DEF PathInv
<1>2. ASSUME NEW t, NEW i \in DOMAIN backend_rx, t = backend_rx[i]
      PROVE  OwnSocket(t)'
  <2>1. t \in BackendDatagram /\ OwnSocket(t)
    BY <1>2 DEF QueueInv
  <2> QED
    BY <1>1, <2>1, SocketStable DEF BackendDatagram
<1>3. CASE UNCHANGED backend_rx
  <2>1. ASSUME NEW i \in DOMAIN backend_rx' PROVE OwnSocket(backend_rx[i])'
    BY <1>2, <1>3
  <2> QED
    BY <1>3, <2>1 DEF QueueInv
<1>4. CASE backend_rx # <<>> /\ backend_rx' = Tail(backend_rx)
  <2>1. backend_rx' \in Seq(BackendDatagram)
    BY <1>4 DEF QueueInv
  <2>2. \A i \in DOMAIN backend_rx' : /\ i + 1 \in DOMAIN backend_rx
                                      /\ backend_rx'[i] = backend_rx[i + 1]
    BY <1>4 DEF QueueInv
  <2>3. ASSUME NEW i \in DOMAIN backend_rx' PROVE OwnSocket(backend_rx[i])'
    BY <1>2, <2>2
  <2> QED
    BY <2>1, <2>3 DEF QueueInv
<1> QED
  BY <1>3, <1>4

\* A backend datagram only touches the path of its connection id.
LEMMA BackendDatagramStep ==
  ASSUME PathInv, QueueInv, HandleBackendDatagram
  PROVE  PathInv' /\ PathsStable
<1> DEFINE m == Head(backend_rx)
           id == m.conn_id
           scids == IF m.form = "short" THEN {} ELSE {m.scid}
           key == IF m.form = "retry" /\ m.scid # <<>> THEN m.scid
                  ELSE connections[id].initial_key_dcid
<1>1. m \in BackendDatagram
  <2>1. backend_rx # <<>> /\ backend_rx \in Seq(BackendDatagram)
    BY DEF QueueInv, HandleBackendDatagram
  <2> QED
    BY <2>1
<1>2. m.scid \in Cids \cup {<<>>} /\ scids \subseteq Cids \cup {<<>>}
  BY <1>1 DEF BackendDatagram
<1> HIDE DEF m
<1>3. CASE /\ Live(id)
           /\ \E L \in LearnedCids(id, scids) :
                /\ connections' = [connections EXCEPT ![id].idle = 0, ![id].cids = @ \cup L,
                     ![id].initial_key_dcid = IF m.form = "retry" /\ m.scid # <<>>
                                              THEN m.scid ELSE @]
                /\ cid_routes' = RegisterCids(L, id)
  <2>1. PICK L \in LearnedCids(id, scids) :
                /\ connections' = [connections EXCEPT ![id].idle = 0, ![id].cids = @ \cup L,
                     ![id].initial_key_dcid = IF m.form = "retry" /\ m.scid # <<>>
                                              THEN m.scid ELSE @]
                /\ cid_routes' = RegisterCids(L, id)
    BY <1>3
  <2> DEFINE old == connections[id]
             new == [old EXCEPT !.idle = 0, !.cids = @ \cup L, !.initial_key_dcid = key]
  <2>2. id \in DOMAIN connections /\ old \in Connection
    BY <1>3 DEF Live, PathInv, IsPartialFunction
  <2>3. /\ L \subseteq Cids /\ \A c \in L : c \in DOMAIN cid_routes => cid_routes[c] = id
        /\ Cardinality(old.cids \cup L) <= MaxCidsPerPath
    BY <1>2, <2>2, LearnedFacts
  <2>4. /\ new \in Connection /\ new.client_addr = old.client_addr
        /\ new.backend = old.backend /\ new.cids = old.cids \cup L
        /\ new.deadline = old.deadline
    <3>1. 0 \in 0..IdleTimeout /\ old.cids \cup L \in SUBSET Cids /\ key \in Cids \cup {<<>>}
      BY <1>2, <2>2, <2>3, LimitAssumption DEF Connection
    <3> HIDE DEF old, key
    <3> QED
      BY <2>2, <3>1 DEF Connection
  <2>5. connections' = [connections EXCEPT ![id] = new]
    BY <2>1, <2>2, <2>4 DEF Connection, PathInv, IsPartialFunction
  <2>6. \A n \in old.deadline : \E k \in new.deadline : k <= n
    BY <2>2, <2>4 DEF Connection, Option
  <2>7. Touched(id, L, new)
    BY <1>3, <2>1, <2>2, <2>3, <2>4, <2>5, <2>6 DEF Touched, HandleBackendDatagram
  <2> QED
    BY <2>7, TouchedStep
<1>4. CASE UNCHANGED <<connections, cid_routes>>
  BY <1>4, IdleStep DEF HandleBackendDatagram, paths, PathInv
<1> QED
  BY <1>3, <1>4 DEF HandleBackendDatagram, m

-----------------------------------------------------------------------------
(* Client datagrams. *)

\* A QUIC-LB datagram forwards on its path or establishes one.
LEMMA LbDatagramStep ==
  ASSUME PathInv, NEW p \in ClientPackets, LbDatagram(p)
  PROVE  PathInv' /\ PathsStable /\ UNCHANGED <<backend_rx, pending>>
<1>1. p.peer \in Addrs /\ Norm[p.peer] \in Addrs
  BY PacketAssumption, AddrAssumption DEF ClientPacket
<1>2. PICK addr \in LbTarget(p) :
        IF <<Norm[p.peer], addr>> \in DOMAIN lb_paths
        THEN ForwardClient(lb_paths[<<Norm[p.peer], addr>>], p.peer, {})
        ELSE EstablishTo(addr, p.peer, <<>>, {}, config.max_lifetime)
  BY DEF LbDatagram
<1>3. UNCHANGED pending
  BY DEF LbDatagram, handshakes
<1>4. addr \in Addrs
  BY LbBackendType DEF LbTarget, PathInv
<1>5. CASE <<Norm[p.peer], addr>> \in DOMAIN lb_paths
  <2> DEFINE key == <<Norm[p.peer], addr>>
             id == lb_paths[key]
  <2>1. ForwardClient(id, p.peer, {})
    BY <1>2, <1>5
  <2>2. Norm[p.peer] = Norm[connections[id].client_addr]
    <3>1. key[1] = Norm[connections[id].client_addr]
      BY <1>5 DEF PathInv, LbIndex
    <3> QED
      BY <3>1
  <2>3. PICK L, new : Touched(id, L, new)
    <3> DEFINE none == {}
               peer == p.peer
    <3>1. /\ none \subseteq Cids \cup {<<>>} /\ ForwardClient(id, peer, none)
          /\ peer \in Addrs /\ Norm[peer] = Norm[connections[id].client_addr]
      BY <1>1, <2>1, <2>2
    <3> HIDE DEF id, none, peer
    <3> QED
      BY <3>1, ForwardClientTouches
  <2> QED
    BY <1>3, <2>1, <2>3, TouchedStep DEF ForwardClient
<1>6. CASE <<Norm[p.peer], addr>> \notin DOMAIN lb_paths
  <2>1. config.max_lifetime \in Option(Nat)
    BY ConfigAssumption DEF PathInv, Option
  <2>2. EstablishTo(addr, p.peer, <<>>, {}, config.max_lifetime)
    BY <1>2, <1>6
  <2> QED
    BY <1>1, <1>3, <1>4, <2>1, <2>2, EstablishToStep
<1> QED
  BY <1>5, <1>6

\* A path found by connection ID or by affinity belongs to the sender.
LEMMA ForwardStep ==
  ASSUME PathInv, NEW p \in ClientPackets, NEW id,
         id \in DOMAIN connections => Norm[p.peer] = Norm[connections[id].client_addr],
         ForwardClient(id, p.peer, Scids(p))
  PROVE  PathInv' /\ PathsStable /\ UNCHANGED backend_rx
<1>1. p.peer \in Addrs /\ Scids(p) \subseteq Cids \cup {<<>>}
  BY PacketAssumption DEF ClientPacket, Scids
<1>2. PICK L, new : Touched(id, L, new)
  BY <1>1, ForwardClientTouches
<1> QED
  BY <1>2, TouchedStep DEF ForwardClient

\* A registered connection ID only touches its owner, which the sender's
\* address has been compared with.
LEMMA KnownCidStep ==
  ASSUME PathInv, NEW p \in ClientPackets, KnownCidDatagram(p)
  PROVE  PathInv' /\ PathsStable /\ UNCHANGED <<backend_rx, pending>>
<1>1. PICK id \in PacketConnectionId(p) :
        FromClient(p, id) /\ ForwardClient(id, p.peer, Scids(p))
  BY DEF KnownCidDatagram
<1> QED
  BY <1>1, ForwardStep DEF FromClient, KnownCidDatagram, handshakes

\* Affinity only touches the sender's own path: client_routes says so.
LEMMA AffinityStep ==
  ASSUME PathInv, NEW p \in ClientPackets, AffinityDatagram(p)
  PROVE  PathInv' /\ PathsStable /\ UNCHANGED <<backend_rx, pending>>
<1>1. PICK id \in PeerConnectionId(p.peer) : ForwardClient(id, p.peer, Scids(p))
  BY DEF AffinityDatagram
<1>2. /\ Norm[p.peer] \in DOMAIN client_routes
      /\ id \in client_routes[Norm[p.peer]]
  BY DEF PeerConnectionId
<1>3. Norm[p.peer] = Norm[connections[id].client_addr]
  BY <1>2 DEF PathInv, ClientIndex
<1> QED
  BY <1>1, <1>3, ForwardStep DEF AffinityDatagram, handshakes

\* A reassembly with one more datagram is a reassembly.
LEMMA BufferedType ==
  ASSUME PendingInv, NEW p \in ClientPackets
  PROVE  /\ Buffered(p) \in PendingConnection
         /\ PendingKey(p) \in Addrs \X (Cids \cup {<<>>})
<1>1. /\ p.peer \in Addrs /\ p.dcid \in Cids \cup {<<>>} /\ p.scid \in Cids \cup {<<>>}
      /\ p.size \in Nat
  BY PacketAssumption DEF ClientPacket
<1>2. PendingKey(p) \in Addrs \X (Cids \cup {<<>>})
  BY <1>1, AddrAssumption DEF PendingKey
<1>3. PendingOf(p) \in PendingConnection
  BY <1>1 DEF PendingOf, PendingInv, IsPartialFunction, PendingConnection
<1>4. /\ PendingOf(p).datagrams + 1 \in Nat
      /\ PendingOf(p).buffered_bytes + p.size \in Nat
      /\ PendingOf(p).client_cids \cup ({p.scid} \ {<<>>}) \in SUBSET Cids
  BY <1>1, <1>3 DEF PendingConnection
<1>5. Buffered(p) \in PendingConnection
  BY <1>3, <1>4 DEF Buffered, PendingConnection
<1> QED
  BY <1>2, <1>5

\* A complete ClientHello establishes its path.
LEMMA InitialEstablishesStep ==
  ASSUME PathInv, PendingInv, NEW p \in ClientPackets, InitialEstablishes(p)
  PROVE  PathInv' /\ PathsStable /\ UNCHANGED backend_rx
<1> DEFINE b == Buffered(p)
           routes == RouteForSni(config, Norm[p.peer], p.sni)
<1>1. b.client_addr \in Addrs /\ b.client_cids \in SUBSET Cids
  BY BufferedType DEF PendingConnection
<1>2. p.dcid \in Cids \cup {<<>>}
  BY PacketAssumption DEF ClientPacket
<1>3. CASE Refuse
  BY <1>3, IdleStep DEF Refuse, PathInv
<1>4. CASE \E route \in routes : Establish(b.client_addr, p.dcid, b.client_cids, route)
  <2>1. PICK route \in routes : Establish(b.client_addr, p.dcid, b.client_cids, route)
    BY <1>4
  <2>2. route.backend \in Addrs \cup {Null} /\ route.timeout \in Option(Nat)
    BY RouteType DEF PathInv
  <2>3. CASE route.backend = Null
    BY <1>3, <2>1, <2>3 DEF Establish
  <2>4. CASE route.backend # Null
    <3>1. EstablishTo(route.backend, b.client_addr, p.dcid, b.client_cids, route.timeout)
      BY <2>1, <2>4 DEF Establish
    <3> HIDE DEF b
    <3> QED
      BY <1>1, <1>2, <2>2, <2>4, <3>1, EstablishToStep
  <2> QED
    BY <2>3, <2>4
<1> QED
  BY <1>3, <1>4 DEF InitialEstablishes

\* Every step keeps the table of reassemblies well formed.
LEMMA PendingStep ==
  ASSUME PendingInv, [Next]_vars
  PROVE  PendingInv'
<1>1. CASE UNCHANGED pending
  BY <1>1 DEF PendingInv, IsPartialFunction
<1>2. ASSUME NEW S, S \subseteq DOMAIN pending, pending' = [k \in S |-> pending[k]]
      PROVE  PendingInv'
  BY <1>2 DEF PendingInv, IsPartialFunction
<1>3. ASSUME NEW p \in ClientPackets, InitialBuffered(p)
      PROVE  PendingInv'
  <2>1. pending' = [k \in DOMAIN pending \cup {PendingKey(p)} |->
                      IF k = PendingKey(p) THEN Buffered(p) ELSE pending[k]]
    BY <1>3 DEF InitialBuffered
  <2> QED
    BY <2>1, BufferedType DEF PendingInv, IsPartialFunction
<1>4. ASSUME NEW p \in ClientPackets, RemovePending(p)
      PROVE  PendingInv'
  BY <1>2, <1>4 DEF RemovePending, Restrict
<1>5. CASE Cleanup
  BY <1>2, <1>5 DEF Cleanup, Restrict, Kept
<1>6. CASE Tick
  <2> DEFINE older(e) == [e EXCEPT !.age = AtMost(@ + 1, IdleTimeout),
                                   !.idle = AtMost(@ + 1, IdleTimeout)]
  <2>1. pending' = [k \in DOMAIN pending |-> older(pending[k])]
    BY <1>6 DEF Tick
  <2>2. ASSUME NEW e \in PendingConnection PROVE older(e) \in PendingConnection
    <3>1. AtMost(e.age + 1, IdleTimeout) \in Nat /\ AtMost(e.idle + 1, IdleTimeout) \in Nat
      BY LimitAssumption DEF AtMost, PendingConnection
    <3> QED
      BY <3>1 DEF PendingConnection
  <2> HIDE DEF older
  <2> QED
    BY <2>1, <2>2 DEF PendingInv, IsPartialFunction
<1>7. CASE UNCHANGED vars
  BY <1>1, <1>7 DEF vars
<1>8. CASE Next
  <2>1. CASE HandleBackendDatagram \/ Hangup
    BY <1>1, <2>1 DEF HandleBackendDatagram, Hangup, handshakes
  <2>2. CASE \E p \in ClientPackets : LbDatagram(p) \/ KnownCidDatagram(p) \/ AffinityDatagram(p)
    BY <1>1, <2>2 DEF LbDatagram, KnownCidDatagram, AffinityDatagram, handshakes
  <2>3. CASE \E p \in ClientPackets : InitialDiscarded(p) \/ InitialEstablishes(p)
    BY <1>4, <2>3 DEF InitialDiscarded, InitialEstablishes
  <2>4. CASE \E r \in readers : \/ \E d \in BackendPackets : ReaderReceives(r, d)
                                \/ ReaderFails(r) \/ ReaderStops(r)
    BY <1>1, <2>4 DEF ReaderReceives, ReaderFails, ReaderStops, handshakes
  <2> QED
    BY <1>3, <1>5, <1>6, <1>8, <2>1, <2>2, <2>3, <2>4 DEF Next
<1> QED
  BY <1>7, <1>8

\* A reader queues datagrams under its own path's id.
LEMMA ReaderReceivesStep ==
  ASSUME PathInv, QueueInv, NEW r \in readers, NEW d \in BackendPackets, ReaderReceives(r, d)
  PROVE  QueueInv' /\ PathInv' /\ PathsStable
<1> DEFINE m == [conn_id |-> r.conn_id, client |-> r.client, backend |-> r.backend,
                 form |-> d.form, scid |-> d.scid]
<1>1. backend_rx' = Append(backend_rx, m) /\ UNCHANGED <<config, paths, readers>>
  BY DEF ReaderReceives
<1>2. r \in Reader /\ OwnSocket(r) /\ d \in BackendPacket
  BY PacketAssumption DEF PathInv
<1>3. m \in BackendDatagram
  BY <1>2 DEF Reader, BackendPacket, BackendDatagram
<1>4. PathInv' /\ PathsStable
  BY <1>1, IdleStep DEF PathInv
<1>5. UNCHANGED <<next_connection_id, connections>>
  BY <1>1 DEF paths
<1>6. ASSUME NEW t, t = m \/ \E i \in DOMAIN backend_rx : t = backend_rx[i]
      PROVE  OwnSocket(t)'
  BY <1>2, <1>5, <1>6 DEF QueueInv, OwnSocket
<1> HIDE DEF m
<1>7. backend_rx' \in Seq(BackendDatagram)
  BY <1>1, <1>3 DEF QueueInv
<1>8. ASSUME NEW i \in DOMAIN backend_rx'
      PROVE  backend_rx'[i] = m \/ \E j \in DOMAIN backend_rx : backend_rx'[i] = backend_rx[j]
  BY <1>1 DEF QueueInv
<1>9. ASSUME NEW i \in DOMAIN backend_rx' PROVE OwnSocket(backend_rx[i])'
  BY <1>6, <1>8
<1> QED
  BY <1>4, <1>7, <1>9 DEF QueueInv

-----------------------------------------------------------------------------
(* The invariant. *)

\* The router starts with empty tables.
LEMMA InitInv == Init => IndInv
<1> SUFFICES ASSUME Init PROVE IndInv
  OBVIOUS
<1>1. \A f, S, T : f = <<>> => IsPartialFunction(f, S, T)
  BY DEF IsPartialFunction
<1>2. next_connection_id \in 0..MaxConnectionId
  BY LimitAssumption DEF Init
<1>3. backend_rx \in Seq(BackendDatagram) /\ DOMAIN backend_rx = {}
  BY DEF Init
<1>4. CidIndex /\ LbIndex /\ ClientIndex
  BY DEF Init, CidIndex, LbIndex, ClientIndex
<1>8. PathLimits
  BY FS_EmptySet, LimitAssumption DEF Init, PathLimits
<1>5. PathInv
  BY <1>1, <1>2, <1>4, <1>8 DEF Init, PathInv
<1>6. QueueInv
  BY <1>3 DEF QueueInv
<1>7. PendingInv
  BY <1>1 DEF Init, PendingInv
<1> QED
  BY <1>5, <1>6, <1>7, IndInvParts

\* Every step preserves the invariant and the identity of the paths.
LEMMA NextInv ==
  ASSUME IndInv, [Next]_vars
  PROVE  IndInv' /\ PathsStable
<1>1. PathInv /\ QueueInv /\ PendingInv
  BY IndInvParts
<1>2. PendingInv'
  BY <1>1, PendingStep
<1> DEFINE Parts == PathInv /\ QueueInv /\ PendingInv
<1>a. Parts' => IndInv'
  BY DEF IndInv, TypeOK, IndexesAgree, IdsFresh, PathInv, QueueInv, PendingInv
<1>3. ASSUME PathInv' /\ PathsStable,
             UNCHANGED backend_rx \/ (backend_rx # <<>> /\ backend_rx' = Tail(backend_rx))
      PROVE  IndInv' /\ PathsStable
  <2>1. next_connection_id' \in Nat
    BY <1>3, LimitAssumption DEF PathInv
  <2>2. QueueInv'
    BY <1>1, <1>3, <2>1, QueueStep
  <2> QED
    BY <1>a, <1>2, <1>3, <2>2
<1>4. CASE UNCHANGED vars
  <2>1. PathInv' /\ PathsStable
    BY <1>1, <1>4, IdleStep DEF vars, paths, PathInv
  <2> QED
    BY <1>3, <1>4, <2>1 DEF vars
<1>5. ASSUME NEW p \in ClientPackets,
             LbDatagram(p) \/ KnownCidDatagram(p) \/ AffinityDatagram(p)
      PROVE  IndInv' /\ PathsStable
  BY <1>1, <1>3, <1>5, LbDatagramStep, KnownCidStep, AffinityStep
<1>6. ASSUME NEW p \in ClientPackets, InitialBuffered(p) \/ InitialDiscarded(p)
      PROVE  IndInv' /\ PathsStable
  <2>1. UNCHANGED <<config, paths, backend_rx, readers>>
    BY <1>6 DEF InitialBuffered, InitialDiscarded
  <2> QED
    BY <1>1, <1>3, <2>1, IdleStep DEF PathInv
<1>7. ASSUME NEW p \in ClientPackets, InitialEstablishes(p)
      PROVE  IndInv' /\ PathsStable
  BY <1>1, <1>3, <1>7, InitialEstablishesStep
<1>8. CASE HandleBackendDatagram
  BY <1>1, <1>3, <1>8, BackendDatagramStep DEF HandleBackendDatagram
<1>9. CASE Hangup
  BY <1>1, <1>3, <1>9, IdleStep DEF Hangup
<1>10. CASE Cleanup
  BY <1>1, <1>3, <1>10, CleanupStep DEF Cleanup
<1>11. CASE Tick
  BY <1>1, <1>3, <1>11, TickStep DEF Tick
<1>12. ASSUME NEW r \in readers, NEW d \in BackendPackets, ReaderReceives(r, d)
       PROVE  IndInv' /\ PathsStable
  BY <1>a, <1>1, <1>2, <1>12, ReaderReceivesStep
<1>13. ASSUME NEW r \in readers, ReaderFails(r) \/ ReaderStops(r)
       PROVE  IndInv' /\ PathsStable
  <2>1. UNCHANGED <<config, paths, backend_rx>> /\ readers' \subseteq readers
    BY <1>13 DEF ReaderFails, ReaderStops
  <2> QED
    BY <1>1, <1>3, <2>1, IdleStep DEF PathInv
<1> QED
  BY <1>4, <1>5, <1>6, <1>7, <1>8, <1>9, <1>10, <1>11, <1>12, <1>13 DEF Next

\* Under any load, reload and cleanup, the tables of the router are well
\* typed, its four path indexes agree, and no connection id is in use for
\* two paths.
THEOREM Invariance == Spec => []IndInv
<1>1. Init => IndInv
  BY InitInv
<1>2. IndInv /\ [Next]_vars => IndInv'
  BY NextInv
<1> QED
  BY <1>1, <1>2, PTL DEF Spec

\* --max-paths and --max-cids-per-path are never exceeded.
THEOREM PathLimitsHold == Spec => []PathLimits
<1>1. IndInv => PathLimits
  BY DEF IndInv
<1> QED
  BY <1>1, Invariance, PTL

\* A backend datagram still queued when its path is gone, or its reader
\* aborted, is never delivered to another path's client.
THEOREM RepliesIsolated == Spec => []ReplyIsolation
<1>1. IndInv => ReplyIsolation
  BY DEF IndInv, IdsFresh, OwnSocket, ReplyIsolation
<1> QED
  BY <1>1, Invariance, PTL

\* No step moves a retained path to another client or backend, makes it
\* forget a connection ID or puts its deadline off.
THEOREM PathsKeepIdentity == Spec => PathIdentity
<1>1. IndInv /\ [Next]_vars
        => [\A id \in DOMAIN connections \cap DOMAIN connections' : PathKept(id)]_vars
  BY NextInv DEF PathsStable
<1> QED
  BY <1>1, Invariance, PTL DEF Spec, PathIdentity

\* Between its expiry and the cleanup that removes it, nothing revives a path.
THEOREM ExpiredPathsStayExpired == Spec => ExpiredStaysExpired
<1>1. IndInv /\ [Next]_vars => [\A id \in DOMAIN connections : NotRevived(id)]_vars
  BY NextInv DEF PathsStable, NotRevived
<1> QED
  BY <1>1, Invariance, PTL DEF Spec, ExpiredStaysExpired

\* The four tables of paths agree after every handler.
THEOREM IndexesAlwaysAgree == Spec => []IndexesAgree
<1>1. IndInv => IndexesAgree
  BY DEF IndInv
<1> QED
  BY <1>1, Invariance, PTL

\* A retained path stays what it is, and an expired one stays expired, whoever
\* joins it or sends on it.
THEOREM PathsAreKept == Spec => PathsKept
BY PathsKeepIdentity, ExpiredPathsStayExpired, PTL DEF PathsKept

-----------------------------------------------------------------------------
(* The reader tasks. *)

\* establish_and_flush removes no path, and starts a reader only with its path.
LEMMA EstablishReaders ==
  ASSUME NoReaderLeak, NEW addr, NEW peer, NEW dcid, NEW scids, NEW timeout,
         EstablishTo(addr, peer, dcid, scids, timeout)
  PROVE  NoReaderLeak'
<1> DEFINE requested == ({dcid} \cup scids) \ {<<>>}
           key == <<Norm[peer], Norm[addr]>>
           lb_path == Norm[addr] \in LbServers(config)
<1>1. CASE JoinPath(lb_paths[key], requested, timeout)
  <2>1. DOMAIN connections' = DOMAIN connections /\ UNCHANGED readers
    BY <1>1 DEF JoinPath
  <2> QED
    BY <2>1 DEF NoReaderLeak
<1>2. CASE CreatePath(peer, IF lb_path THEN Norm[addr] ELSE addr, lb_path, dcid, requested, timeout)
  <2>1. CASE UNCHANGED <<connections, readers>>
    BY <2>1 DEF NoReaderLeak
  <2>2. CASE /\ DOMAIN connections' = DOMAIN connections \cup {NewConnectionId}
             /\ \E r : r.conn_id = NewConnectionId /\ readers' = readers \cup {r}
    BY <2>2 DEF NoReaderLeak
  <2> QED
    BY <1>2, <2>1, <2>2 DEF CreatePath
<1>3. CASE Refuse
  BY <1>3 DEF Refuse, paths, NoReaderLeak
<1> QED
  BY <1>1, <1>2, <1>3 DEF EstablishTo

\* cleanup aborts the reader of every path it removes.
LEMMA CleanupReaders ==
  ASSUME NoReaderLeak, readers \subseteq Reader, Cleanup
  PROVE  NoReaderLeak'
<1> DEFINE gone == {id \in DOMAIN connections : Expired(connections[id])}
<1>1. DOMAIN connections' = DOMAIN connections \ gone /\ readers' = AbortReaders(gone)
  BY DEF Cleanup, Restrict
<1> HIDE DEF gone
<1>2. ASSUME NEW r \in readers', ~r.aborted
      PROVE  r.conn_id \in DOMAIN connections'
  <2>1. PICK q \in readers : r = [q EXCEPT !.aborted = @ \/ q.conn_id \in gone]
    BY <1>1 DEF AbortReaders
  <2>2. q \in Reader
    OBVIOUS
  <2>3. r.conn_id = q.conn_id /\ r.aborted = (q.aborted \/ q.conn_id \in gone)
    BY <2>1, <2>2 DEF Reader
  <2>4. q.conn_id \in DOMAIN connections
    BY <1>2, <2>3 DEF NoReaderLeak
  <2> QED
    BY <1>1, <1>2, <2>3, <2>4
<1> QED
  BY <1>2 DEF NoReaderLeak

\* No step leaves a running reader without its path.
LEMMA ReadersStep ==
  ASSUME NoReaderLeak, readers \subseteq Reader, [Next]_vars
  PROVE  NoReaderLeak'
<1>1. ASSUME DOMAIN connections' = DOMAIN connections, readers' \subseteq readers
      PROVE  NoReaderLeak'
  BY <1>1 DEF NoReaderLeak
<1>2. ASSUME NEW id, NEW peer, NEW scids, ForwardClient(id, peer, scids)
      PROVE  NoReaderLeak'
  <2>1. DOMAIN connections' = DOMAIN connections /\ UNCHANGED readers
    BY <1>2 DEF ForwardClient
  <2> QED
    BY <1>1, <2>1
<1>3. CASE Refuse
  BY <1>1, <1>3 DEF Refuse, paths
<1>4. CASE UNCHANGED vars
  BY <1>1, <1>4 DEF vars
<1>5. ASSUME NEW p \in ClientPackets, LbDatagram(p)
      PROVE  NoReaderLeak'
  BY <1>2, <1>5, EstablishReaders DEF LbDatagram
<1>6. ASSUME NEW p \in ClientPackets, KnownCidDatagram(p) \/ AffinityDatagram(p)
      PROVE  NoReaderLeak'
  BY <1>2, <1>6 DEF KnownCidDatagram, AffinityDatagram
<1>7. ASSUME NEW p \in ClientPackets, InitialBuffered(p) \/ InitialDiscarded(p)
      PROVE  NoReaderLeak'
  BY <1>1, <1>7 DEF InitialBuffered, InitialDiscarded, paths
<1>8. ASSUME NEW p \in ClientPackets, InitialEstablishes(p)
      PROVE  NoReaderLeak'
  BY <1>3, <1>8, EstablishReaders DEF InitialEstablishes, Establish
<1>9. CASE HandleBackendDatagram
  <2>1. DOMAIN connections' = DOMAIN connections /\ UNCHANGED readers
    BY <1>9 DEF HandleBackendDatagram
  <2> QED
    BY <1>1, <2>1
<1>10. CASE Hangup
  BY <1>1, <1>10 DEF Hangup, paths
<1>11. CASE Cleanup
  BY <1>11, CleanupReaders
<1>12. CASE Tick
  BY <1>1, <1>12 DEF Tick
<1>13. ASSUME NEW r \in readers,
              \/ \E d \in BackendPackets : ReaderReceives(r, d)
              \/ ReaderFails(r) \/ ReaderStops(r)
       PROVE  NoReaderLeak'
  BY <1>1, <1>13 DEF ReaderReceives, ReaderFails, ReaderStops, paths
<1> QED
  BY <1>4, <1>5, <1>6, <1>7, <1>8, <1>9, <1>10, <1>11, <1>12, <1>13 DEF Next

\* Only aborted reader tasks outlive their path: what --max-paths bounds are
\* the sockets and tasks too.
THEOREM NoReaderLeaks == Spec => []NoReaderLeak
<1>1. Init => NoReaderLeak
  BY DEF Init, NoReaderLeak
<1>2. IndInv /\ NoReaderLeak /\ [Next]_vars => NoReaderLeak'
  BY ReadersStep DEF IndInv, TypeOK
<1> QED
  BY <1>1, <1>2, Invariance, PTL DEF Spec

-----------------------------------------------------------------------------
(* The bytes of pending handshakes. *)

\* What every step preserves: the table of reassemblies is finite, which its
\* count and its sum are about, and both are right and within the limits.
PendingSound ==
  PendingInv /\ IsFiniteSet(DOMAIN pending) /\ PendingLimits /\ PendingBytesExact

\* The entries' bytes are naturals.
LEMMA BytesType ==
  ASSUME PendingInv
  PROVE  /\ \A k \in DOMAIN pending : BufferedBytes[k] = pending[k].buffered_bytes
         /\ \A k \in DOMAIN pending : BufferedBytes[k] \in Nat
  BY DEF PendingInv, IsPartialFunction, PendingConnection, BufferedBytes

\* Reassemblies removed together with their bytes: a handshake that completes
\* or fails, or those that have timed out.
LEMMA PendingRemoved ==
  ASSUME PendingSound, PendingInv', NEW S \in SUBSET DOMAIN pending,
         pending' = [k \in S |-> pending[k]],
         pending_bytes' = pending_bytes - SumFunctionOnSet(BufferedBytes, DOMAIN pending \ S)
  PROVE  PendingSound'
<1> DEFINE F == BufferedBytes
           D == DOMAIN pending
<1>1. IsFiniteSet(D) /\ IsFiniteSet(S) /\ IsFiniteSet(D \ S) /\ Cardinality(S) <= Cardinality(D)
  BY FS_Subset DEF PendingSound
<1>2. \A k \in D : F[k] = pending[k].buffered_bytes /\ F[k] \in Nat
  BY BytesType DEF PendingSound
<1>3. SumFunctionOnSet(F, D) = SumFunctionOnSet(F, S) + SumFunctionOnSet(F, D \ S)
  <2> HIDE DEF F, D
  <2> QED
    BY <1>1, <1>2, SumSplit DEF D
<1>4. SumFunctionOnSet(F, S) \in Nat /\ SumFunctionOnSet(F, D \ S) \in Nat
  <2> HIDE DEF F
  <2> QED
    BY <1>1, <1>2, SumNat
<1>5. DOMAIN pending' = S /\ \A k \in S : BufferedBytes'[k] = F[k]
  BY <1>2 DEF BufferedBytes
<1>6. SumFunctionOnSet(BufferedBytes', S) = SumFunctionOnSet(F, S)
  <2> DEFINE G == BufferedBytes'
  <2>1. \A k \in S : G[k] = F[k]
    BY <1>5
  <2> HIDE DEF F, G
  <2>2. SumFunctionOnSet(G, S) = SumFunctionOnSet(F, S)
    BY <1>1, <2>1, SumEq
  <2> QED
    BY <2>2 DEF G
<1>7. pending_bytes = SumFunctionOnSet(F, D)
  BY DEF PendingSound, PendingBytesExact
<1> HIDE DEF F
<1>8. pending_bytes' = SumFunctionOnSet(F, S) /\ pending_bytes' <= pending_bytes
  BY <1>3, <1>4, <1>7 DEF F
<1>9. PendingBytesExact'
  BY <1>5, <1>6, <1>8 DEF PendingBytesExact
<1>10. PendingLimits'
  <2>1. Cardinality(S) \in Nat /\ Cardinality(D) \in Nat
    BY <1>1, FS_CardinalityType
  <2>2. Cardinality(S) <= MaxPendingHandshakes
    BY <1>1, <2>1, LimitAssumption DEF PendingSound, PendingLimits
  <2>3. pending_bytes' <= MaxPendingBytes
    BY <1>3, <1>4, <1>7, <1>8, LimitAssumption DEF PendingSound, PendingLimits
  <2> QED
    BY <1>5, <2>2, <2>3 DEF PendingSound, PendingLimits
<1> QED
  BY <1>1, <1>5, <1>9, <1>10 DEF PendingSound

\* One datagram buffered: the bytes of its reassembly and pending_bytes grow by
\* its size.
LEMMA PendingBuffered ==
  ASSUME PendingSound, PendingInv', NEW p \in ClientPackets, InitialBuffered(p)
  PROVE  PendingSound'
<1> DEFINE F == BufferedBytes
           G == BufferedBytes'
           D == DOMAIN pending
           key == PendingKey(p)
           E == D \cup {key}
<1>1. /\ pending' = [k \in E |-> IF k = key THEN Buffered(p) ELSE pending[k]]
      /\ pending_bytes' = pending_bytes + p.size
      /\ Fits(p) /\ BytesFit(p)
      /\ key \in D \/ Cardinality(D) < MaxPendingHandshakes
  BY DEF InitialBuffered, FreshInitial
<1>2. /\ IsFiniteSet(D) /\ IsFiniteSet(E) /\ IsFiniteSet(D \ {key}) /\ E \ {key} = D \ {key}
      /\ key \in E
  BY FS_AddElement, FS_RemoveElement DEF PendingSound
<1>3. p.size \in Nat
  BY PacketAssumption DEF ClientPacket
<1>4. \A k \in D : F[k] = pending[k].buffered_bytes /\ F[k] \in Nat
  BY BytesType DEF PendingSound
<1>5. PendingOf(p) \in PendingConnection
  <2>1. p.peer \in Addrs
    BY PacketAssumption DEF ClientPacket
  <2> QED
    BY <2>1 DEF PendingOf, PendingSound, PendingInv, IsPartialFunction, PendingConnection
<1> DEFINE held == PendingOf(p).buffered_bytes
<1>6. held \in Nat /\ Buffered(p).buffered_bytes = held + p.size
      /\ Buffered(p).datagrams = PendingOf(p).datagrams + 1
  BY <1>5 DEF Buffered, PendingConnection
<1>7. /\ DOMAIN pending' = E
      /\ \A k \in D \ {key} : G[k] = F[k]
      /\ G[key] = held + p.size
      /\ \A k \in E : G[k] \in Nat
  BY <1>1, <1>3, <1>4, <1>6 DEF BufferedBytes
<1> DEFINE rest == SumFunctionOnSet(F, D \ {key})
<1>8. SumFunctionOnSet(F, D) = held + rest
  <2>1. CASE key \in D
    <3>1. F[key] = held
      BY <1>4, <2>1 DEF PendingOf
    <3>2. SumFunctionOnSet(F, D) = F[key] + SumFunctionOnSet(F, D \ {key})
      <4> HIDE DEF F, D, key
      <4> QED
        BY <1>2, <1>4, <2>1, SumRemove
    <3> QED
      BY <3>1, <3>2
  <2>2. CASE key \notin D
    <3>1. held = 0 /\ D \ {key} = D
      BY <2>2 DEF PendingOf
    <3>2. SumFunctionOnSet(F, D) \in Nat
      <4> HIDE DEF F, D
      <4> QED
        BY <1>2, <1>4, SumNat
    <3> HIDE DEF F, D, key, held
    <3> QED
      BY <3>1, <3>2
  <2> QED
    BY <2>1, <2>2
<1>9. SumFunctionOnSet(G, E) = (held + p.size) + rest
  <2> HIDE DEF F, G, E, D, key, held
  <2>1. SumFunctionOnSet(G, E) = G[key] + SumFunctionOnSet(G, E \ {key})
    BY <1>2, <1>7, SumRemove
  <2>2. SumFunctionOnSet(G, D \ {key}) = SumFunctionOnSet(F, D \ {key})
    BY <1>2, <1>7, SumEq
  <2> QED
    BY <1>2, <1>7, <2>1, <2>2
<1>10. rest \in Nat
  <2> HIDE DEF F, D, key
  <2> QED
    BY <1>2, <1>4, SumNat
<1>11. pending_bytes = SumFunctionOnSet(F, D)
  BY DEF PendingSound, PendingBytesExact
<1>12. pending_bytes' = SumFunctionOnSet(G, E)
  <2> HIDE DEF F, G, E, D, key, held, rest
  <2> QED
    BY <1>1, <1>3, <1>6, <1>8, <1>9, <1>10, <1>11
<1>13. PendingBytesExact'
  BY <1>7, <1>12 DEF PendingBytesExact
<1>14. PendingLimits'
  <2>1. Cardinality(E) <= MaxPendingHandshakes
    <3>1. CASE key \in D
      BY <3>1 DEF PendingSound, PendingLimits
    <3>2. CASE key \notin D
      <4>1. Cardinality(D) \in Nat /\ Cardinality(E) = Cardinality(D) + 1
        BY <1>2, <3>2, FS_AddElement, FS_CardinalityType
      <4> QED
        BY <1>1, <3>2, <4>1, LimitAssumption
    <3> QED
      BY <3>1, <3>2
  <2>2. pending_bytes' <= MaxPendingBytes
    BY <1>1 DEF BytesFit
  <2>3. ASSUME NEW k \in E
        PROVE  /\ pending'[k].datagrams <= MAX_PENDING_DATAGRAMS
               /\ pending'[k].buffered_bytes <= MAX_HANDSHAKE_BYTES
    <3>1. CASE k = key
      <4>1. PendingOf(p).datagrams \in Nat
        BY <1>5 DEF PendingConnection
      <4> QED
        BY <1>1, <1>6, <3>1, <4>1, LimitAssumption DEF Fits
    <3>2. CASE k # key
      BY <1>1, <3>2 DEF PendingSound, PendingLimits
    <3> QED
      BY <3>1, <3>2
  <2> QED
    BY <1>7, <2>1, <2>2, <2>3 DEF PendingLimits
<1> QED
  BY <1>2, <1>7, <1>13, <1>14 DEF PendingSound

\* Every step keeps the accounts of pending handshakes.
LEMMA PendingSoundStep ==
  ASSUME PendingSound, [Next]_vars
  PROVE  PendingSound'
<1>1. PendingInv'
  BY PendingStep DEF PendingSound
<1>2. ASSUME UNCHANGED <<pending, pending_bytes>>
      PROVE  PendingSound'
  BY <1>1, <1>2 DEF PendingSound, PendingLimits, PendingBytesExact, BufferedBytes
<1>3. ASSUME NEW p \in ClientPackets, RemovePending(p)
      PROVE  PendingSound'
  <2> DEFINE S == DOMAIN pending \ {PendingKey(p)}
             gone == DOMAIN pending \ S
  <2>1. pending' = [k \in S |-> pending[k]]
    BY <1>3 DEF RemovePending, Restrict
  <2>2. PendingOf(p).buffered_bytes = SumFunctionOnSet(BufferedBytes, gone)
    <3>1. CASE PendingKey(p) \in DOMAIN pending
      <4> DEFINE F == BufferedBytes
                 key == PendingKey(p)
      <4>1. /\ gone = {key} /\ gone \ {key} = {} /\ key \in gone /\ IsFiniteSet(gone)
        BY <3>1, FS_Singleton
      <4>2. F[key] = PendingOf(p).buffered_bytes /\ F[key] \in Nat
        BY <3>1, BytesType DEF PendingSound, PendingOf
      <4> HIDE DEF F, key, gone
      <4>3. \A k \in gone : F[k] \in Nat
        BY <4>1, <4>2
      <4>4. SumFunctionOnSet(F, gone) = F[key] + SumFunctionOnSet(F, gone \ {key})
        BY <4>1, <4>3, SumRemove
      <4>5. SumFunctionOnSet(F, gone \ {key}) = 0
        BY <4>1, SumEmpty
      <4>6. SumFunctionOnSet(F, gone) = F[key]
        BY <4>2, <4>4, <4>5
      <4> QED
        BY <4>2, <4>6 DEF F
    <3>2. CASE PendingKey(p) \notin DOMAIN pending
      <4>1. gone = {} /\ PendingOf(p).buffered_bytes = 0
        BY <3>2 DEF PendingOf
      <4> HIDE DEF gone
      <4> QED
        BY <4>1, SumEmpty
    <3> QED
      BY <3>1, <3>2
  <2>3. pending_bytes' = pending_bytes - SumFunctionOnSet(BufferedBytes, gone)
    BY <1>3, <2>2 DEF RemovePending
  <2> QED
    BY <1>1, <2>1, <2>3, PendingRemoved
<1>4. CASE Cleanup
  <2>1. Kept \in SUBSET DOMAIN pending
    BY DEF Kept
  <2>2. pending' = [k \in Kept |-> pending[k]]
    BY <1>4 DEF Cleanup, Restrict
  <2>3. pending_bytes' = pending_bytes - SumFunctionOnSet(BufferedBytes, DOMAIN pending \ Kept)
    BY <1>4 DEF Cleanup
  <2> QED
    BY <1>1, <2>1, <2>2, <2>3, PendingRemoved
<1>5. CASE Tick
  <2>1. /\ DOMAIN pending' = DOMAIN pending /\ UNCHANGED pending_bytes
        /\ \A k \in DOMAIN pending : /\ pending'[k].buffered_bytes = pending[k].buffered_bytes
                                     /\ pending'[k].datagrams = pending[k].datagrams
    BY <1>5 DEF Tick, PendingSound, PendingInv, IsPartialFunction, PendingConnection
  <2>2. BufferedBytes' = BufferedBytes
    BY <2>1 DEF BufferedBytes
  <2>3. PendingBytesExact'
    BY <2>1, <2>2 DEF PendingSound, PendingBytesExact
  <2> QED
    BY <1>1, <2>1, <2>3 DEF PendingSound, PendingLimits
<1>6. CASE UNCHANGED vars
  BY <1>2, <1>6 DEF vars
<1>7. CASE HandleBackendDatagram \/ Hangup
  BY <1>2, <1>7 DEF HandleBackendDatagram, Hangup, handshakes
<1>8. CASE \E p \in ClientPackets : LbDatagram(p) \/ KnownCidDatagram(p) \/ AffinityDatagram(p)
  BY <1>2, <1>8 DEF LbDatagram, KnownCidDatagram, AffinityDatagram, handshakes
<1>9. CASE \E p \in ClientPackets : InitialDiscarded(p) \/ InitialEstablishes(p)
  BY <1>3, <1>9 DEF InitialDiscarded, InitialEstablishes
<1>10. CASE \E r \in readers : \/ \E d \in BackendPackets : ReaderReceives(r, d)
                               \/ ReaderFails(r) \/ ReaderStops(r)
  BY <1>2, <1>10 DEF ReaderReceives, ReaderFails, ReaderStops, handshakes
<1>11. ASSUME NEW p \in ClientPackets, InitialBuffered(p)
       PROVE  PendingSound'
  BY <1>1, <1>11, PendingBuffered
<1> QED
  BY <1>4, <1>5, <1>6, <1>7, <1>8, <1>9, <1>10, <1>11 DEF Next

\* pending_bytes is the bytes the reassemblies hold, whatever completes, fails
\* or times out, and neither it nor their number exceeds its limit.
THEOREM PendingIsAccounted == Spec => []PendingAccounted
<1>1. Init => PendingSound
  <2> SUFFICES ASSUME Init PROVE PendingSound
    OBVIOUS
  <2>1. PendingInv /\ DOMAIN pending = {} /\ pending_bytes = 0
    BY DEF Init, PendingInv, IsPartialFunction
  <2>2. SumFunctionOnSet(BufferedBytes, {}) = 0
    BY SumEmpty
  <2>3. IsFiniteSet({}) /\ Cardinality({}) = 0
    BY FS_EmptySet
  <2> QED
    BY <2>1, <2>2, <2>3, LimitAssumption DEF PendingSound, PendingLimits, PendingBytesExact
<1>2. PendingSound /\ [Next]_vars => PendingSound'
  BY PendingSoundStep
<1>3. PendingSound => PendingAccounted
  BY DEF PendingSound, PendingAccounted
<1> QED
  BY <1>1, <1>2, <1>3, PTL DEF Spec
=============================================================================
