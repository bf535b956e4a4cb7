------------------------------ MODULE H3Router ------------------------------
(***************************************************************************)
(* The Router of sni-router-h3 with its backend reader tasks: one task     *)
(* (mainloop) owns every table and handles client datagrams, queued        *)
(* backend datagrams, reloads and the cleanup timer one at a time, while   *)
(* one reader task per path pushes what its socket receives on a bounded   *)
(* channel.                                                                *)
(*                                                                         *)
(* A connection ID is a sequence of bytes, the empty one is <<>>.  Of an   *)
(* unparsed datagram only what the router looks at is kept: see            *)
(* ClientPacket.  A datagram the code drops with nothing but a counter     *)
(* incremented is a stuttering step and has no action.  Times are ages in  *)
(* ticks: Connection.last_seen is `idle', the ticks since then, and a      *)
(* deadline is the Option of the ticks that remain.                        *)
(***************************************************************************)
EXTENDS H3Config, Functions, SequencesExt

CONSTANTS
  Addrs,                \* socket addresses, of clients and of backends
  Norm,                 \* normalize_socket_addr as a function on Addrs
  Cids,                 \* the non-empty connection IDs
  LbCidLen,             \* quic_lb::CID_LEN
  SNIs,                 \* server names
  Configs,              \* the configurations that may be loaded
  IdleTimeout,          \* idle_timeout, in ticks
  MaxPaths, MaxPendingHandshakes, MaxPendingBytes, MaxCidsPerPath, \* Limits
  MAX_PENDING_DATAGRAMS,      \* per handshake
  MAX_HANDSHAKE_BYTES,        \* per handshake: MAX_PENDING_BYTES of the code
  ChanCap,              \* capacity of the backend_events channel
  ClientPackets,        \* the client datagrams that may arrive
  BackendPackets,       \* the backend datagrams that may arrive
  MaxConnectionId       \* bound: connection IDs handed out

Option(S) == {o \in SUBSET S : \A x, y \in o : x = y}

\* A client datagram.  For a short header `dcid' is every byte after the
\* first: the router does not know where the connection ID ends.  `key' is
\* the connection ID whose Initial keys the packet verifies with, `progress'
\* what ClientHello reassembly makes of it and `sni' the name found.
ClientPacket ==
  [peer : Addrs, form : {"short", "initial", "handshake", "other"},
   dcid : Cids \cup {<<>>}, scid : Cids \cup {<<>>}, key : Cids \cup {<<>>},
   size : Nat \ {0}, progress : {"bad_frames", "more", "err", "hello"},
   sni : Option(SNIs)]

BackendPacket ==
  [form : {"malformed", "short", "long", "retry"}, scid : Cids \cup {<<>>}]

ASSUME AddrAssumption ==
  /\ Norm \in [Addrs -> Addrs]
  /\ \A a \in Addrs : Norm[Norm[a]] = Norm[a]

ASSUME LimitAssumption ==
  /\ IdleTimeout \in Nat /\ MaxConnectionId \in Nat
  /\ MaxPaths \in Nat \ {0} /\ MaxCidsPerPath \in Nat \ {0}
  /\ MaxPendingHandshakes \in Nat \ {0} /\ MaxPendingBytes \in Nat \ {0}
  /\ MAX_PENDING_DATAGRAMS \in Nat \ {0} /\ MAX_HANDSHAKE_BYTES \in Nat \ {0}
  /\ ChanCap \in Nat \ {0} /\ LbCidLen \in Nat \ {0}

ASSUME PacketAssumption ==
  /\ IsFiniteSet(Cids) /\ <<>> \notin Cids
  /\ ClientPackets \subseteq ClientPacket
  /\ \A p \in ClientPackets : p.size <= MAX_HANDSHAKE_BYTES
  /\ BackendPackets \subseteq BackendPacket

\* What load_config accepts: backends are addresses, timeouts are positive,
\* and QUIC-LB servers are normalized.
ASSUME ConfigAssumption ==
  \A cfg \in Configs :
    /\ Null \notin Addrs
    /\ cfg.max_lifetime \in Option(Nat \ {0})
    /\ cfg.handshake_timeout \in Option(Nat \ {0})
    /\ DOMAIN cfg.rules \subseteq Nat /\ DOMAIN cfg.quic_lb \subseteq Nat
    /\ \A rule \in {cfg.rules[i] : i \in DOMAIN cfg.rules} \cup {cfg.default} :
         /\ rule.backend \in Addrs \cup {Null}
         /\ rule.timeout \in Option(Nat \ {0})
    /\ \A b \in LbServers(cfg) : b \in Addrs /\ Norm[b] = b

VARIABLES
  config,               \* the loaded configuration
  connections,          \* connection id -> Connection
  cid_routes,           \* connection ID -> connection id
  lb_paths,             \* <<client, backend>> (normalized) -> connection id
  client_routes,        \* normalized client -> set of connection ids
  pending,              \* <<normalized client, dcid>> -> PendingConnection
  pending_bytes,
  next_connection_id,
  backend_rx,           \* the channel from the readers to the router
  readers               \* the reader tasks, each with its socket

paths == <<connections, cid_routes, lb_paths, client_routes, next_connection_id>>
handshakes == <<pending, pending_bytes>>
vars == <<config, connections, cid_routes, lb_paths, client_routes, pending,
          pending_bytes, next_connection_id, backend_rx, readers>>

Ids == 0..(MaxConnectionId - 1)

Connection ==
  [client_addr : Addrs, backend : Addrs, cids : SUBSET Cids,
   initial_key_dcid : Cids \cup {<<>>}, idle : 0..IdleTimeout,
   deadline : Option(Nat)]

PendingConnection ==
  [client_addr : Addrs, client_cids : SUBSET Cids, datagrams : Nat,
   buffered_bytes : Nat, age : Nat, idle : Nat]

\* The socket a reader holds is known by the client it was opened for and
\* the backend it is connected to; every datagram it delivers carries them
\* too, which the code's BackendDatagram does not.
Reader == [conn_id : Ids, client : Addrs, backend : Addrs, aborted : BOOLEAN]
BackendDatagram ==
  [conn_id : Ids, client : Addrs, backend : Addrs,
   form : {"malformed", "short", "long", "retry"}, scid : Cids \cup {<<>>}]

Init ==
  /\ config \in Configs
  /\ connections = <<>> /\ cid_routes = <<>> /\ lb_paths = <<>>
  /\ client_routes = <<>> /\ pending = <<>>
  /\ pending_bytes = 0 /\ next_connection_id = 0
  /\ backend_rx = <<>> /\ readers = {}

-----------------------------------------------------------------------------
(* Lookups. *)

\* Mutant of Expired: the deadline is not looked at.
ExpiredByIdleOnly(conn) == conn.idle >= IdleTimeout

\* Connection::expired
Expired(conn) == conn.idle >= IdleTimeout \/ 0 \in conn.deadline

\* Mutant of Live: retained is taken for live.
LiveIfRetained(id) == id \in DOMAIN connections

\* The path exists and has not expired, which every handler asks before it
\* touches one.
Live(id) == id \in DOMAIN connections /\ ~Expired(connections[id])

\* CidRoutes::match_prefix: the owner of the longest registered prefix.
MatchPrefix(bytes) ==
  LET hits == {c \in DOMAIN cid_routes : IsPrefix(c, bytes)}
  IN  {cid_routes[c] : c \in {d \in hits : \A e \in hits : Len(e) <= Len(d)}}

\* packet_connection_id and match_short_header_route
PacketConnectionId(p) ==
  IF p.form = "short" THEN MatchPrefix(p.dcid)
  ELSE {cid_routes[c] : c \in DOMAIN cid_routes \cap {p.dcid}}

\* The backend handle_datagram decodes from the packet's connection ID.
LbTarget(p) ==
  IF p.form # "short" THEN LbBackend(config, p.dcid)
  ELSE IF Len(p.dcid) < LbCidLen THEN {}
  ELSE LbBackend(config, SubSeq(p.dcid, 1, LbCidLen))

\* peer_connection_id: the only live path of the client's address.
PeerConnectionId(peer) ==
  LET live == {id \in UNION {client_routes[a] : a \in DOMAIN client_routes \cap {Norm[peer]}} :
                 Live(id)}
  IN  IF Cardinality(live) = 1 THEN live ELSE {}

-----------------------------------------------------------------------------
(* Steps that several handlers share. *)

\* The connection IDs of S that add_cid_route may give to path id, and the
\* number it has room for.
NewCids(id, S) ==
  {c \in S \ ({<<>>} \cup connections[id].cids) :
     /\ LbBackend(config, c) = {}
     /\ c \in DOMAIN cid_routes => cid_routes[c] = id}

Room(id) == MaxCidsPerPath - Cardinality(connections[id].cids)

\* Mutant of LearnedCids: a path's connection IDs are not counted.
LearnedUncounted(id, S) == {NewCids(id, S)}

\* What add_cid_route makes path id learn of the connection IDs S, tried in
\* any order until the path has no room for more.
LearnedCids(id, S) ==
  {L \in SUBSET NewCids(id, S) :
     \/ L = NewCids(id, S) /\ Cardinality(L) <= Room(id)
     \/ Cardinality(L) = Room(id) /\ Cardinality(NewCids(id, S)) > Room(id)}

\* CidRoutes::insert for each of S: a connection ID keeps its owner.
RegisterCids(S, id) ==
  [c \in DOMAIN cid_routes \cup S |-> IF c \in DOMAIN cid_routes THEN cid_routes[c] ELSE id]

\* forward_established_client_datagram.  When the send fails the handler
\* returns with the path touched but no connection ID learned.
ForwardClient(id, peer, scids) ==
  /\ Live(id)
  /\ \E L \in LearnedCids(id, scids) \cup {{}} :
       /\ connections' = [connections EXCEPT ![id].client_addr = peer, ![id].idle = 0,
                                             ![id].cids = @ \cup L]
       /\ cid_routes' = RegisterCids(L, id)
  /\ UNCHANGED <<config, lb_paths, client_routes, next_connection_id, backend_rx, readers>>

\* Mutant of Uncontested: the owners are not looked up.
UncontestedUnchecked(id, requested) == TRUE

\* establish_and_flush's checks before it changes anything: the connection
\* IDs of another path, the budgets of connection IDs and of paths, expiry.
Uncontested(id, requested) ==
  \A c \in requested \cap DOMAIN cid_routes : cid_routes[c] = id

\* Mutant of CanJoin: an expired path is joined.
CanJoinExpired(id, requested) ==
  /\ Uncontested(id, requested)
  /\ Cardinality(connections[id].cids \cup requested) <= MaxCidsPerPath

CanJoin(id, requested) ==
  /\ Uncontested(id, requested)
  /\ Cardinality(connections[id].cids \cup requested) <= MaxCidsPerPath
  /\ Live(id)

\* Mutant of NewConnectionId: ids of removed paths are given out again.
LowestFreeId == Min(Ids \ DOMAIN connections)

\* The connection id that establish_and_flush gives a new path.
NewConnectionId == next_connection_id

CanCreate(requested) ==
  /\ Uncontested(NewConnectionId, requested)
  /\ Cardinality(requested) <= MaxCidsPerPath
  /\ Cardinality(DOMAIN connections) < MaxPaths

\* Mutant of SharedDeadline: the last handshake decides.
LastDeadline(old, timeout) == IF timeout = {} THEN old ELSE timeout

\* The deadline of a shared path: the earliest of its handshakes.
SharedDeadline(old, timeout) == MinTimeout(old, timeout)

\* The handshake joins the path that its client has to the backend already.
\* A failing send leaves the deadline tightened and everything else as it was.
JoinPath(id, requested, timeout) ==
  /\ LET deadline == SharedDeadline(connections[id].deadline, timeout) IN
     \/ \E L \in LearnedCids(id, requested) :
          /\ connections' = [connections EXCEPT ![id].deadline = deadline, ![id].idle = 0,
                                                ![id].cids = @ \cup L]
          /\ cid_routes' = RegisterCids(L, id)
     \/ /\ connections' = [connections EXCEPT ![id].deadline = deadline]
        /\ UNCHANGED cid_routes
  /\ UNCHANGED <<config, lb_paths, client_routes, next_connection_id, backend_rx, readers>>

\* A new path with its socket and its reader; or only the connection id is
\* spent, where the socket cannot be bound or connected.
CreatePath(peer, addr, lb_path, dcid, requested, timeout) ==
  LET id     == NewConnectionId
      client == Norm[peer]
      old    == UNION {client_routes[a] : a \in DOMAIN client_routes \cap {client}}
      conn   == [client_addr |-> peer, backend |-> addr, cids |-> requested,
                 initial_key_dcid |-> dcid, idle |-> 0, deadline |-> timeout]
  IN  /\ next_connection_id < MaxConnectionId
      /\ next_connection_id' = next_connection_id + 1
      /\ \/ /\ connections' = [i \in DOMAIN connections \cup {id} |->
                                 IF i = id THEN conn ELSE connections[i]]
            /\ cid_routes' = RegisterCids(requested, id)
            /\ lb_paths' = [k \in DOMAIN lb_paths \cup {kk \in {<<client, addr>>} : lb_path} |->
                              IF lb_path /\ k = <<client, addr>> THEN id ELSE lb_paths[k]]
            /\ client_routes' = [a \in DOMAIN client_routes \cup {client} |->
                                   IF a = client THEN old \cup {id} ELSE client_routes[a]]
            /\ readers' = readers \cup {[conn_id |-> id, client |-> client,
                                         backend |-> addr, aborted |-> FALSE]}
         \/ UNCHANGED <<connections, cid_routes, lb_paths, client_routes, readers>>
      /\ UNCHANGED <<config, backend_rx>>

Refuse == UNCHANGED <<config, paths, backend_rx, readers>>

\* establish_and_flush for the backend addr.
EstablishTo(addr, peer, dcid, scids, timeout) ==
  LET requested == ({dcid} \cup scids) \ {<<>>}
      path_key  == <<Norm[peer], Norm[addr]>>
      lb_path   == Norm[addr] \in LbServers(config)
      joins     == lb_path /\ path_key \in DOMAIN lb_paths
      accepted  == IF joins THEN CanJoin(lb_paths[path_key], requested) ELSE CanCreate(requested)
  IN  \/ joins /\ accepted /\ JoinPath(lb_paths[path_key], requested, timeout)
      \/ ~joins /\ accepted /\ CreatePath(peer, IF lb_path THEN Norm[addr] ELSE addr, lb_path,
                                          dcid, requested, timeout)
      \/ ~accepted /\ Refuse

Establish(peer, dcid, scids, route) ==
  IF route.backend = Null THEN Refuse
  ELSE EstablishTo(route.backend, peer, dcid, scids, route.timeout)

-----------------------------------------------------------------------------
(* handle_datagram, by the way the datagram takes. *)

\* A QUIC-LB connection ID that names a backend.
LbDatagram(p) ==
  \E addr \in LbTarget(p) :
    /\ LET path_key == <<Norm[p.peer], addr>> IN
       IF path_key \in DOMAIN lb_paths
       THEN ForwardClient(lb_paths[path_key], p.peer, {})
       ELSE EstablishTo(addr, p.peer, <<>>, {}, config.max_lifetime)
    /\ UNCHANGED handshakes

\* The connection IDs a client datagram may teach: the source of a long header.
Scids(p) == IF p.form = "short" THEN {} ELSE {p.scid}

\* Mutant of FromClient: any address may use the path.
FromAnyone(p, id) == TRUE

\* socket_addrs_equal of the sender and the path's client
FromClient(p, id) == Norm[p.peer] = Norm[connections[id].client_addr]

\* A registered connection ID, from the path's own client.
KnownCidDatagram(p) ==
  /\ LbTarget(p) = {}
  /\ \E id \in PacketConnectionId(p) :
       /\ id \in DOMAIN connections /\ FromClient(p, id)
       /\ ForwardClient(id, p.peer, Scids(p))
  /\ UNCHANGED handshakes

Unrouted(p) == LbTarget(p) = {} /\ PacketConnectionId(p) = {}

\* forward_by_peer_affinity, from handle_unrouted_client_datagram.
AffinityDatagram(p) ==
  /\ Unrouted(p)
  /\ \/ p.form \in {"short", "handshake"}
     \/ p.form = "initial" /\ p.key # p.dcid
  /\ \E id \in PeerConnectionId(p.peer) :
       /\ p.form = "initial" => p.key = connections[id].initial_key_dcid
       /\ ForwardClient(id, p.peer, Scids(p))
  /\ UNCHANGED handshakes

PendingKey(p) == <<Norm[p.peer], p.dcid>>

\* The reassembly the Initial belongs to, a new one if there is none.
PendingOf(p) ==
  IF PendingKey(p) \in DOMAIN pending THEN pending[PendingKey(p)]
  ELSE [client_addr |-> p.peer, client_cids |-> {}, datagrams |-> 0,
        buffered_bytes |-> 0, age |-> 0, idle |-> 0]

\* PendingConnection::push_datagram accepts the datagram.
Fits(p) == /\ PendingOf(p).datagrams < MAX_PENDING_DATAGRAMS
           /\ PendingOf(p).buffered_bytes + p.size <= MAX_HANDSHAKE_BYTES

\* The reassembly with the datagram buffered.
Buffered(p) == [PendingOf(p) EXCEPT !.datagrams = @ + 1, !.buffered_bytes = @ + p.size,
                                    !.idle = 0, !.client_cids = @ \cup ({p.scid} \ {<<>>})]

\* Mutant of BytesFit: the limit on all handshakes is not applied.
BytesUnlimited(p) == TRUE

\* The bytes of all reassemblies stay within the limit with this datagram.
BytesFit(p) == pending_bytes + p.size <= MaxPendingBytes

\* An Initial of a new handshake that the limits on all handshakes let in.
FreshInitial(p) ==
  /\ Unrouted(p) /\ p.form = "initial" /\ p.key = p.dcid /\ p.progress # "bad_frames"
  /\ \/ PendingKey(p) \in DOMAIN pending
     \/ Cardinality(DOMAIN pending) < MaxPendingHandshakes
  /\ BytesFit(p)

\* Mutant of RemovePending: the bytes stay charged.
RemoveStillCharged(p) ==
  /\ pending' = Restrict(pending, DOMAIN pending \ {PendingKey(p)})
  /\ UNCHANGED pending_bytes

\* remove_pending, with buffered_bytes as it was before this datagram: a
\* datagram pushed just now is charged and released in the same step.
RemovePending(p) ==
  /\ pending' = Restrict(pending, DOMAIN pending \ {PendingKey(p)})
  /\ pending_bytes' = pending_bytes - PendingOf(p).buffered_bytes

\* handle_unrouted_client_datagram, by what becomes of the reassembly.
InitialBuffered(p) ==
  /\ FreshInitial(p) /\ Fits(p) /\ p.progress = "more"
  /\ pending' = [k \in DOMAIN pending \cup {PendingKey(p)} |->
                   IF k = PendingKey(p) THEN Buffered(p) ELSE pending[k]]
  /\ pending_bytes' = pending_bytes + p.size
  /\ UNCHANGED <<config, paths, backend_rx, readers>>

InitialDiscarded(p) ==
  /\ FreshInitial(p) /\ (~Fits(p) \/ p.progress = "err")
  /\ RemovePending(p)
  /\ UNCHANGED <<config, paths, backend_rx, readers>>

InitialEstablishes(p) ==
  /\ FreshInitial(p) /\ Fits(p) /\ p.progress = "hello"
  /\ RemovePending(p)
  /\ LET routes == RouteForSni(config, Norm[p.peer], p.sni) IN
     \/ \E route \in routes :
          Establish(Buffered(p).client_addr, p.dcid, Buffered(p).client_cids, route)
     \/ routes = {} /\ Refuse

-----------------------------------------------------------------------------
(* The other branches of mainloop, the reader tasks and time. *)

\* handle_backend_datagram and forward_established_backend_datagram
HandleBackendDatagram ==
  /\ backend_rx # <<>>
  /\ backend_rx' = Tail(backend_rx)
  /\ LET m == Head(backend_rx)
         id == m.conn_id
         retried == m.form = "retry" /\ m.scid # <<>>
         scids == IF m.form = "short" THEN {} ELSE {m.scid} IN
     \/ /\ m.form # "malformed" /\ Live(id)
        /\ \E L \in LearnedCids(id, scids) :
             /\ connections' = [connections EXCEPT ![id].idle = 0, ![id].cids = @ \cup L,
                       ![id].initial_key_dcid = IF retried THEN m.scid ELSE @]
             /\ cid_routes' = RegisterCids(L, id)
     \/ /\ m.form = "malformed" \/ ~Live(id)
        /\ UNCHANGED <<connections, cid_routes>>
  /\ UNCHANGED <<config, lb_paths, client_routes, next_connection_id, handshakes, readers>>

\* SIGHUP: set_config after a load that succeeds.
Hangup ==
  /\ config' \in Configs
  /\ UNCHANGED <<paths, handshakes, backend_rx, readers>>

\* The bytes each reassembly holds.
BufferedBytes == [k \in DOMAIN pending |-> pending[k].buffered_bytes]

\* Mutant of Kept: what has been silent for long is kept.
KeptWhenSilent ==
  LET timeout == PendingTimeout(config, IdleTimeout)
  IN  {k \in DOMAIN pending : pending[k].idle >= timeout \/ pending[k].age < timeout}

\* The pending handshakes that cleanup keeps.
Kept ==
  LET timeout == PendingTimeout(config, IdleTimeout)
  IN  {k \in DOMAIN pending : pending[k].idle < timeout /\ pending[k].age < timeout}

\* Mutant of RetainedLbPaths: cleanup forgets the QUIC-LB index.
AllLbPaths(gone) == lb_paths

\* lb_paths.retain
RetainedLbPaths(gone) ==
  Restrict(lb_paths, {k \in DOMAIN lb_paths : lb_paths[k] \in DOMAIN connections \ gone})

\* Mutant of AbortReaders: the tasks of removed paths are left running.
AbortNone(gone) == readers

\* backend_task.abort() for each removed path
AbortReaders(gone) == {[r EXCEPT !.aborted = @ \/ r.conn_id \in gone] : r \in readers}

\* Router::cleanup
Cleanup ==
  LET gone == {id \in DOMAIN connections : Expired(connections[id])}
      owned(c) == cid_routes[c] \in gone /\ c \in connections[cid_routes[c]].cids
      left(a) == client_routes[a] \ {id \in gone : Norm[connections[id].client_addr] = a}
  IN  /\ connections' = Restrict(connections, DOMAIN connections \ gone)
      /\ cid_routes' = Restrict(cid_routes, {c \in DOMAIN cid_routes : ~owned(c)})
      /\ client_routes' = [a \in {b \in DOMAIN client_routes : left(b) # {}} |-> left(a)]
      /\ lb_paths' = RetainedLbPaths(gone)
      /\ readers' = AbortReaders(gone)
      /\ pending' = Restrict(pending, Kept)
      /\ pending_bytes' = pending_bytes -
           SumFunctionOnSet(BufferedBytes, DOMAIN pending \ Kept)
      /\ UNCHANGED <<config, next_connection_id, backend_rx>>

\* spawn_backend_reader: one datagram received and sent on the channel.  An
\* aborted task runs on to its next await.
ReaderReceives(r, d) ==
  /\ Len(backend_rx) < ChanCap
  /\ backend_rx' = Append(backend_rx, [conn_id |-> r.conn_id, client |-> r.client,
                          backend |-> r.backend, form |-> d.form, scid |-> d.scid])
  /\ UNCHANGED <<config, paths, handshakes, readers>>

\* The task ends: a receive error breaks its loop, or it had been aborted.
ReaderFails(r) ==
  /\ ~r.aborted
  /\ readers' = readers \ {r}
  /\ UNCHANGED <<config, paths, handshakes, backend_rx>>

ReaderStops(r) ==
  /\ r.aborted
  /\ readers' = readers \ {r}
  /\ UNCHANGED <<config, paths, handshakes, backend_rx>>

AtMost(n, bound) == IF n <= bound THEN n ELSE bound

\* One tick passes; an age that has reached its limit stands still.
Tick ==
  /\ connections' = [id \in DOMAIN connections |->
       [connections[id] EXCEPT !.idle = AtMost(@ + 1, IdleTimeout),
                               !.deadline = {IF n = 0 THEN 0 ELSE n - 1 : n \in @}]]
  /\ pending' = [k \in DOMAIN pending |->
       [pending[k] EXCEPT !.age = AtMost(@ + 1, IdleTimeout),
                          !.idle = AtMost(@ + 1, IdleTimeout)]]
  /\ UNCHANGED <<config, cid_routes, lb_paths, client_routes, pending_bytes,
                 next_connection_id, backend_rx, readers>>

Next ==
  \/ \E p \in ClientPackets :
       \/ LbDatagram(p) \/ KnownCidDatagram(p) \/ AffinityDatagram(p)
       \/ InitialBuffered(p) \/ InitialDiscarded(p) \/ InitialEstablishes(p)
  \/ HandleBackendDatagram \/ Hangup \/ Cleanup
  \/ \E r \in readers : \/ \E d \in BackendPackets : ReaderReceives(r, d)
                        \/ ReaderFails(r) \/ ReaderStops(r)
  \/ Tick

Spec == Init /\ [][Next]_vars

\* Time passes, and the select! of mainloop, which polls its branches in
\* random order, does not starve the cleanup interval.
FairSpec == Spec /\ WF_vars(Tick) /\ WF_vars(Cleanup)

-----------------------------------------------------------------------------
(* Properties. *)

IsPartialFunction(f, S, T) == DOMAIN f \subseteq S /\ f \in [DOMAIN f -> T]

\* Every table holds what its type in struct Router says; what pending_bytes
\* holds is PendingBytesExact.
TypeOK ==
  /\ config \in Configs
  /\ IsPartialFunction(connections, Ids, Connection)
  /\ IsPartialFunction(cid_routes, Cids, Ids)
  /\ IsPartialFunction(lb_paths, Addrs \X Addrs, Ids)
  /\ IsPartialFunction(client_routes, Addrs, SUBSET Ids)
  /\ IsPartialFunction(pending, Addrs \X (Cids \cup {<<>>}), PendingConnection)
  /\ next_connection_id \in 0..MaxConnectionId
  /\ backend_rx \in Seq(BackendDatagram)
  /\ readers \subseteq Reader

\* cid_routes and the `cids' of the paths say the same: the path a
\* connection ID leads to exists and holds that connection ID, and a
\* connection ID a path holds leads to that path and no other.
CidIndex ==
  /\ \A c \in DOMAIN cid_routes :
       /\ cid_routes[c] \in DOMAIN connections
       /\ c \in connections[cid_routes[c]].cids
  /\ \A id \in DOMAIN connections : \A c \in connections[id].cids :
       c \in DOMAIN cid_routes /\ cid_routes[c] = id

\* An entry of lb_paths leads to a retained path of just that client and
\* backend, so that neither the indexing of `connections' in handle_datagram
\* nor the expect in establish_and_flush panics.
LbIndex ==
  \A k \in DOMAIN lb_paths :
    /\ lb_paths[k] \in DOMAIN connections
    /\ k[1] = Norm[connections[lb_paths[k]].client_addr]
    /\ k[2] = connections[lb_paths[k]].backend

\* client_routes has exactly the retained paths under their client's
\* normalized address, whichever form of it the last datagram came from,
\* and no empty entry.
ClientIndex ==
  /\ \A a \in DOMAIN client_routes :
       /\ client_routes[a] # {}
       /\ \A id \in client_routes[a] :
            id \in DOMAIN connections /\ Norm[connections[id].client_addr] = a
  /\ \A id \in DOMAIN connections :
       LET a == Norm[connections[id].client_addr]
       IN  a \in DOMAIN client_routes /\ id \in client_routes[a]

\* The four tables of paths agree after every handler, whatever the
\* interleaving of datagrams, reloads and cleanups.
IndexesAgree == CidIndex /\ LbIndex /\ ClientIndex

\* --max-paths and --max-cids-per-path hold, the latter for initial and
\* learned connection IDs together, after every handshake, join and alias.
PathLimits ==
  /\ Cardinality(DOMAIN connections) <= MaxPaths
  /\ \A id \in DOMAIN connections : Cardinality(connections[id].cids) <= MaxCidsPerPath

\* --max-pending-handshakes and --max-pending-bytes hold, and the bounds on
\* each reassembly.
PendingLimits ==
  /\ Cardinality(DOMAIN pending) <= MaxPendingHandshakes
  /\ pending_bytes <= MaxPendingBytes
  /\ \A k \in DOMAIN pending : /\ pending[k].datagrams <= MAX_PENDING_DATAGRAMS
                              /\ pending[k].buffered_bytes <= MAX_HANDSHAKE_BYTES

\* pending_bytes, charged and released in four places, is at every moment
\* the bytes the reassemblies hold: it never drifts and never wraps below 0.
PendingBytesExact ==
  pending_bytes = SumFunctionOnSet(BufferedBytes, DOMAIN pending)

\* Both, whatever completes, fails or times out.
PendingAccounted == PendingLimits /\ PendingBytesExact

\* A queued backend datagram is only ever delivered for the path whose
\* socket received it: if its conn_id still names a path, that path is the
\* client's and the backend's of the socket, however long it was queued.
ReplyIsolation ==
  \A i \in DOMAIN backend_rx :
    LET m == backend_rx[i]
    IN  m.conn_id \in DOMAIN connections =>
          /\ Norm[connections[m.conn_id].client_addr] = m.client
          /\ connections[m.conn_id].backend = m.backend

\* Connection ids are never handed out twice, and whatever carries one, a
\* reader or a queued datagram, belongs to the path of that id or to none.
OwnSocket(t) ==
  /\ t.conn_id < next_connection_id
  /\ t.conn_id \in DOMAIN connections =>
       /\ Norm[connections[t.conn_id].client_addr] = t.client
       /\ connections[t.conn_id].backend = t.backend

IdsFresh ==
  /\ \A id \in DOMAIN connections : id < next_connection_id
  /\ \A r \in readers : OwnSocket(r)
  /\ \A i \in DOMAIN backend_rx : OwnSocket(backend_rx[i])

\* What every step preserves: the indexes stay in agreement only while a new
\* path's id is one that no table, reader or queued datagram mentions.
IndInv == TypeOK /\ IndexesAgree /\ IdsFresh /\ PathLimits

\* A reader task outlives its path only as an aborted one: cleanup leaves
\* none behind, so that --max-paths bounds the tasks too.
NoReaderLeak ==
  \A r \in readers : ~r.aborted => r.conn_id \in DOMAIN connections

\* A retained path keeps its client, its backend socket and its connection
\* IDs over every datagram, reload and cleanup, and its deadline never moves
\* away: sharing a path can only bring it closer.
PathKept(id) ==
  LET old == connections[id]
      new == connections'[id]
  IN  /\ Norm[new.client_addr] = Norm[old.client_addr]
      /\ new.backend = old.backend
      /\ old.cids \subseteq new.cids
      /\ \A n \in old.deadline : \E m \in new.deadline : m <= n

PathIdentity == [][\A id \in DOMAIN connections \cap DOMAIN connections' : PathKept(id)]_vars

\* An expired path is dead although cleanup has yet to run: no datagram of
\* client or backend, no joining handshake and no reload revives it.
NotRevived(id) ==
  Expired(connections[id]) => id \notin DOMAIN connections' \/ Expired(connections'[id])

ExpiredStaysExpired == [][\A id \in DOMAIN connections : NotRevived(id)]_vars

\* Both, where paths are shared: what a retained path is, and that it is dead
\* once it has expired, does not depend on who joins it.
PathsKept == PathIdentity /\ ExpiredStaysExpired

\* A path with a deadline is removed in the end however busy it is kept, and
\* with it the slot it takes of --max-paths.
DeadlineEndsPath ==
  \A id \in Ids :
    (id \in DOMAIN connections /\ connections[id].deadline # {}) ~> id \notin DOMAIN connections

\* A path that expires is removed in the end, though its client goes on.
ExpiryEndsPath ==
  \A id \in Ids :
    (id \in DOMAIN connections /\ Expired(connections[id])) ~> id \notin DOMAIN connections

\* Both: cleanup gives back what --max-paths counts.
PathsEnd == DeadlineEndsPath /\ ExpiryEndsPath

\* A reassembly does not stay for ever, even if its client keeps sending
\* Initials that never complete the ClientHello.
PendingEnds ==
  \A k \in {PendingKey(p) : p \in ClientPackets} :
    k \in DOMAIN pending ~> k \notin DOMAIN pending

\* "Retained backend paths, each with a UDP socket and reader task": the
\* reader of a retained path is there to bring its replies.
ReaderPerPath ==
  \A id \in DOMAIN connections : \E r \in readers : r.conn_id = id /\ ~r.aborted

\* "CID changes advertised in encrypted NEW_CONNECTION_ID frames work through
\* peer affinity while the client IP address and port remain stable": a short
\* header with a connection ID the router has not seen goes to the only live
\* path of its sender.
NewCidWorksByAffinity ==
  \A p \in ClientPackets :
    (/\ p.form = "short" /\ LbTarget(p) = {} /\ p.dcid \notin DOMAIN cid_routes
     /\ PeerConnectionId(p.peer) # {})
    => PacketConnectionId(p) \subseteq PeerConnectionId(p.peer)
=============================================================================
