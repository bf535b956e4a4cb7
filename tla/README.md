# A verification project for sni-router

sni-router is two programs that read the server name of a TLS ClientHello and
hand the connection to a backend without necessarily decrypting it:

* `sni-router` (`src/main.rs`) does so for TCP: it proxies the stream, passes
  the file descriptor on over a Unix socket, or terminates TLS and gives the
  keys to the kernel;
* `sni-router-h3` (`src/bin/sni-router-h3.rs`) does so for QUIC: it decrypts
  client Initials, puts the ClientHello together and forwards UDP datagrams,
  by connection ID, by the client's address or by QUIC-LB.

The modules here are TLA+ models of their stateful parts, checked by TLC on
small instances; for the parts that matter most, TLAPS proofs hold for every
instance. `PROJECT.json` lists the runs, the mutants that show that each
property can fail, the source lines of every definition, hazards, findings and
theorems. To repeat a run: `tlc -config h3_routing.cfg MCH3Router`; to repeat
the proofs: `tlapm H3RouterProofs.tla`.

## Inventory

| Part | State | Operations | Interacts with | Module |
| --- | --- | --- | --- | --- |
| H3 router tables | `connections`, `cid_routes`, `lb_paths`, `client_routes`, `next_connection_id` | client datagram, backend datagram, establish, learn a connection ID, cleanup | readers, send queues, configuration | `H3Router` |
| Pending handshakes | `pending`, `pending_bytes` | push, remove, time out | router, CRYPTO reassembly | `H3Router` |
| Frames of an Initial | a walk over a payload | `read_crypto_frames`, `read_varint` | CRYPTO reassembly | `InitialFrames` |
| CRYPTO reassembly | `bytes`, `fragments` | `insert`, `clienthello` | pending handshakes | `CryptoReassembly` |
| Connection ID table | a map per length | insert, get, remove, match prefix | router | `CidRoutes` |
| Backend readers | a task and a socket per path | wait, reserve, receive, fail, abort | bounded channel to the router, packet pool | `H3Router`, `BackendReaders` |
| Packet pool | cached buffers | acquire, drop | readers | `BackendReaders` |
| Send queue | channel, atomic `pending_bytes`, writer task | `send_or_queue`, `enqueue`, writer loop, `Drop` | kernel socket | `SendQueue` |
| Configuration | rules, ACLs, timeouts, QUIC-LB decoders | load, reload on SIGHUP | both main loops, files, resolver | `ConfigLoad`, `H3ConfigLoad`, `TcpReload`, `H3Reload` |
| SNI metric | `sni_metric_labels`, a counter per label | `record_sni` | configuration | `SniLabels` |
| Resolver | shared snapshot of the hosts | lookup, reload of hosts | connects, loads | `Resolver` |
| TCP connection | a task: stream, bytes read, backend, deadlines | route, connect, sorry, TLS, pass, proxy | configuration as of accept | `TcpConnection` |
| TLS record reading, kTLS | bytes read ahead | pre-read, handshake, key handover | kernel | `TlsRecords` |
| SNI parser | a walk over a ClientHello | `extract_sni` | routing, both routers | `SniParse` |
| Accept loop | `AcceptBackoff` | accept, fail, reload | connection tasks | `AcceptLoop`, `Ingress` |
| Descriptor handoff | descriptors, socket queue | pass, receive, refuse | accept loop, other processes | `Handoff`, `Ingress` |
| Privileges, version, metrics push | none that steers the above | | | |

What is hard about it:

* **Concurrency.** The H3 router is one task, but readers fill a channel behind
  its back: a datagram may be taken out long after its path is gone. The send
  queue shares a counter between two tasks. The TCP main loop cancels a future
  that it may have half run.
* **Several tables for one thing.** A path is in four tables; handshakes,
  aliases, QUIC-LB datagrams, changes between the two forms of an address,
  reloads and cleanups all write some of them.
* **Time.** Expiry is only noticed by a cleanup every 30 seconds. The TCP
  router nests three timeouts around parts of one future.
* **Limits.** Paths, connection IDs, handshakes, bytes, fragments, queues: each
  is checked where it is charged and has to be released wherever it ends.
* **Bytes chosen by others.** Lengths nested in lengths, counts of up to
  2^62, records of any split: each read must stay inside of what encloses it.
* **Files that change while they are read.** Certificate and key are two files;
  a message may load half; the hosts file may be missing for a moment.
* **Partial failure.** A socket that cannot be made, a send that fails in the
  middle of a handler, a reader or writer that meets an error, a backend that
  is down when TLS has or has not begun.

What makes the parts correct: the tables agree; a reply goes to the client
whose socket received it; a path keeps its client, backend and deadline;
limits and counters are exact; what should end does end; the ClientHello is
found exactly when it is complete; datagrams keep their order; the stream goes
to one backend in the right form; backoff survives reloads; what is in use is
a whole configuration that says what its message said; a descriptor is held
by somebody and served once; rustls and the kernel agree on where in the
stream they are.

## Modules

Modules that take an `Option` model it as a set with at most one element.

**`H3Config`** has the decisions taken from a loaded configuration
(`route_for_sni`, `acl_action`, `min_timeout`, `lb_backend`), as operators. A
regex is the set of names it matches, a CIDR a set of addresses and a QUIC-LB
decoder a function.

**`H3Router`** is the `Router` with its readers. The variables have the names
of the fields of `struct Router`; `readers` and `backend_rx` are the tasks and
the channel. Each handler is atomic, as it is in the code: `mainloop` awaits
it to the end before it polls anything else. `handle_datagram` is split by the
way a datagram takes: `LbDatagram`, `KnownCidDatagram`, `AffinityDatagram` and
the three outcomes of an Initial. A handler that only counts a drop is a
stutter. Failing sends and sockets are alternatives of the actions they occur
in. A client datagram is a record of what the parser and the decryption yield
(`ClientPacket`); a connection ID is a sequence, since prefixes matter. Times
are ages in ticks that stop at their limit. The reader and the queued datagram
carry, as history, the client and the backend of the socket, which the code's
`BackendDatagram` does not: `ReplyIsolation` compares them.

**`CryptoReassembly`** is the reassembly of one CRYPTO stream. The byte at
position i is i, so that the contents show where bytes ended up. The loop of
`insert` is one step per iteration. `received` is history. Data that differ
between two frames for the same position, which no correct client sends, are
not told apart. The stream starts with a ClientHello: the error that
`clienthello` returns for another first byte discards the handshake
(`InitialDiscarded` of `H3Router`).

**`LossyFifo`** is what a datagram socket behind a bounded queue promises:
datagrams may be lost, but leave in order and once. **`SendQueue`** is
`send_or_queue`, `enqueue` and the writer task, in steps as small as the
accesses to the channel and to the atomic counter; the orderings used in the
code (a release of what an acquire reads) make interleaving semantics the
right one for them. It implements `LossyFifo` with
`held` being what is in the call, in the channel or with the writer.

**`TcpConnection`** is the task of one TCP connection. `phase` says which
future it stands in; `backends` is the chosen rule's backend followed by its
sorry backend; `frontend` whether the client's stream is untouched, in a
handshake or decrypted by the kernel; `given` (history) what a backend has
been given. The tasks of two connections share only the immutable
configuration they were accepted under, so one is enough. Of the bytes of the
stream nothing is modelled. A timer that is due fires before time goes on.

**`AcceptLoop`** is the `select!` of the TCP `mainloop` around
`AcceptBackoff::accept`: a `Hangup` drops the future wherever it is. Time is
in units of the first delay; `MaxDelay` is the last one.

**`Handoff`** follows the descriptors of connections from `pass_fd_over_uds`
through the queue of a Unix datagram socket to `recv_fd_over_uds`, at the
limit of descriptors and with other processes that send anything. The kernel is
external. **`Ingress`** composes it with `AcceptLoop`, as `IngressListener` and
`mainloop` do: each way of taking a datagram from the socket is one way for the
accept to end, and so decides on the backoff.

**`TlsRecords`** has of a stream which bytes are where: still in the socket,
read ahead by `read_tls_clienthello` or `tls_handshake`, handed on with a
descriptor, consumed by rustls or left to the kernel. rustls and kTLS are
external. Behind the handshake a client may send control records (KeyUpdate,
alerts) between its data: one that is buffered with the handshake is handled by
rustls (`DrainRecord`), and a later one makes the plain read of the kernel TLS
socket fail and ends the connection (`KernelControl`), as `TCP_REVIEW.md`
describes. The reader of that socket is the copy loop of this router or the
process that the descriptor was passed to. **`SniParse`** is `extract_sni`, one action per vector it enters;
`NoPanic` says of each action that what it indexes is there. The two routers
have a copy of it each, with the same control. **`InitialFrames`** is
`read_crypto_frames`, one action per field; the fields of the frame at hand are
in `todo`.

**`FlatRoutes`** is what the connection ID table promises, one map with
longest-prefix matching; **`CidRoutes`** is the index by length, shown to
implement it. `H3Router` uses its `cid_routes` as the flat table.

**`BackendReaders`** takes a reader task apart into its awaits and its accesses
to the channel and to the pool. The semaphore and the readiness of a socket are
tokio's, described in the head of the module. In `H3Router` a reader receives
and queues in one step, which is what this module's steps amount to for the
router: it learns of a datagram when the datagram is in the channel.

**`AclSource`** has addresses as bits, networks and the mapping of IPv4 into
IPv6. **`ConfigLoad`** and **`H3ConfigLoad`** are the two `load_config` with all
that they call, as operators from messages to an Option of a configuration;
**`TcpReload`** and **`H3Reload`** are the routers as far as they load and
reload. The TCP router's files are read one by one while somebody replaces them.
Of the HTTP/3 router each load meets an environment, which has for each key file
and each name what the load finds when it comes to it; so files and DNS may
change between loads and within one. What is left out is that a name which one
configuration uses twice gets two answers.

**`SniLabels`** is `record_sni`, and **`Resolver`** the shared resolver as
reference-counted objects, with `Arc::make_mut` as it is: it writes in place or
copies. The branch of `shared()` for two tasks that initialise at once is left
out: both programs call `start_hosts_reload` before anything looks a name up.

Four modules put components side by side: **`Initials`** (`CidRoutes`,
`InitialFrames`, `CryptoReassembly`), **`Udp`** (`SendQueue`, `BackendReaders`),
**`Hello`** (`TlsRecords`, `SniParse`) and **`Reload`** (`TcpReload`, `H3Reload`,
`SniLabels`, `Resolver`). The components of one such module share no variable, so
a behaviour of it is a behaviour of one of them, which `part` (or `end`) names,
while the others stay as they were made; a property of a component that holds of
its initial states and of its steps is neither weakened nor strengthened by that.
These modules also have the assumptions on the inputs that the proofs rest on:
the bytes of a message, what a well-formed one is, the shape of a configuration
message from `sni_router.proto`.

`MCH3Router`, `MCTcpConnection`, `MCTlsRecords`, `MCSniParse`, `MCInitialFrames`,
`MCMessages`, `MCInitials`, `MCUdp`, `MCHello` and `MCReload` give the constants
of the runs values.

The proofs are in seven modules: `H3RouterProofs`, `InitialsProofs`, `UdpProofs`,
`TcpConnectionProofs`, `HelloProofs`, `IngressProofs` and `ReloadProofs`.
`SetLemmas` is what several of them use: the least element of a set, and sums.

## Runs

| Run | States | Shows |
| --- | --- | --- |
| `h3_routing` | 220,784 | `IndInv`, `ReplyIsolation`, `NoReaderLeak`, `PathIdentity`, `ExpiredStaysExpired` without QUIC-LB |
| `h3_quic_lb` | 227,451 | `IndexesAgree`, `PathsKept` (`PathIdentity`, `ExpiredStaysExpired`) with shared paths and reloads |
| `h3_pending` | 69,090 | `PendingAccounted` (`PendingLimits`, `PendingBytesExact`), `PathsEnd` (`DeadlineEndsPath`, `ExpiryEndsPath`), `PendingEnds` |
| `initials` | 136,039 | connection ID table: `TableKept` (`LengthsInUse`; `AnswersAsFlat`, the refinement of `FlatRoutes`); frames: `FramesFound` (`FramesInside`, `RoundTrip`), `Ends`; reassembly: `IndInv`, `HelloWhenComplete` |
| `udp` | 145,259 | send queue: `Accounted` (`PendingExact`, `Bounded`), `Ordered` (refinement of `LossyFifo`), `CallReturns`, `QueuedLeaves`; readers: `BuffersKept` (`BuffersBounded`, `NothingLost`), `EveryDatagramHandled` |
| `tcp_connection` | 4,281 | `IndInv`, `SetupInTime`, `TimeoutsEnd` (`LifetimeEnds`, `SetupEnds`, `RuleEnds`) |
| `tls_hello` | 189,973 | records: `HelloRead` (`PrereadExact`, `PrereadBounded`, `HandoffAgrees`), `KernelTakesOver` (`KernelInStep`, `InOrder`), `TlsProgress` (`HandshakeEnds`, `DataArrives`); parser: `Nested`, `RoundTrip`, `ParseReturns` |
| `ingress` | 103,380 | `Backoff` (`BackoffKept`, `BackoffGrows`), `OneOwner` (`ServedOnce`, `NothingLeaks`), `QueueMoves` (`RetryHappens`, `LeavesQueue`) |
| `reload` | 163,050 | TCP: `AsSaid` (`Usable`, `WholeNames`, `AclsKept`), `PairsMatch`; H3: `H3AsSaid` (`AclsKept`, `BackendsKept`), `LbKept` (`LbUnambiguous`, `LbKept`); labels: `SeriesKept` (`SeriesBounded`, `SeriesKept`); hosts: `OneVersion`, `HostsReach` (`HostsKept`, `FileReaches`) |
| `h3_reader_per_path` | violated | a path whose reader has died is retained |
| `h3_affinity` | violated | a new connection ID that extends another path's is not forwarded by affinity |
| `tcp_rule_lifetime` | violated | a rule's lifetime limit is started twice |

A property with others in brackets is their conjunction; `PROJECT.json` has a
mutant for each of these parts. The last three runs state what the
documentation says; the findings in `PROJECT.json` quote it.

`PrereadBounded` is a bound relative to the length that the ClientHello
announces: `read_tls_clienthello` has no limit of its own on what it buffers.
And `DataArrives` is about the data up to a control record that the kernel
meets: the code does not handle it, which its documentation says too.

Three smaller observations that no run states as a violation.
sni-router-h3's `load_backend` (`src/bin/sni-router-h3.rs:243`) accepts a proxy
backend with `backend_tls` and never looks at the field: the router runs without
the TLS that the message asks for, although `README.md:255` says that "TCP-only
options such as `proxy_header`, `pass`, `frontend_tls`, and `sorry` are rejected".
So `BackendsKept` and `H3RunsAsSaid` speak of these four and not of `backend_tls`.
`load_acl` refuses UNSPECIFIED as the action of a rule and takes it as the
default action, so that the error shows when a connection is routed. And of a
handoff datagram with two descriptors, which no router sends, the first stays
open if the limit of descriptors is reached between them and `cmsgs()` fails
(`CmsgsFails`).

### Bounds, and why they are enough

* *H3 routing*: two clients, one of them under both forms of its address,
  three backends' addresses, two paths at a time. `MaxConnectionId` bounds the
  ids handed out at three, so that an id is handed out after another's path
  has been removed while a datagram for it waits in the channel: the case
  `ReplyIsolation` is about. Connection IDs include one that is a prefix of
  another and ones that two clients claim; the limit per path is two, below
  what a handshake and its aliases ask for. The idle timeout is two ticks and
  the deadline three, so that either may come first.
* *QUIC-LB*: three configurations that map the server, map it elsewhere and
  have no decoder. Two paths are enough for a shared one and a foreign one.
* *Pending*: sizes and limits are such that each of the four limits is met
  exactly, exceeded by one, and met first in some behaviour.
* *Connection ID table*: six IDs over two bytes, one a prefix of another, two
  of one length, and the empty one; three paths.
* *Initials*: payloads with every kind of frame before, between and after CRYPTO
  frames, varints of each size, cut at each place, with wrong lengths and counts.
* *Reassembly*: every frame of up to three bytes at offsets up to five, a
  hello of six bytes and three fragments: all kinds of overlap, and the limit.
* *Send queue*: two datagrams or six bytes with lengths zero, one and three, so
  that either limit is met first; four or five calls, so that the queue fills,
  drains and is bypassed again.
* *Readers*: two tasks, one place in the channel and one cached buffer: each
  waits for the other, for a place and for a buffer. Two datagrams for each
  socket, so that a burst, its end and a readiness that is out of date occur.
  `MaxBuffers` is above the bound that `BuffersBounded` states.
* *TCP*: three configurations that set each timeout or not, in each order of
  expiry, with backends and sorry backends that differ in kind and in frontend
  TLS. `MaxAge` is above every timeout.
* *TLS records*: streams of a few records with every split of the ClientHello
  over them, the end of the handshake in the first or a later record and
  application data right behind it, with a control record before, between or
  behind the data, so that rustls meets it in some behaviours and the kernel in
  others; `MaxRecord` is 8 bytes, `MaxHops` one router behind another.
* *ClientHellos*: extensions in every order, with and without a name, and one
  byte at a time replaced by values around the right one.
* *Ingress*: a delay that grows three times before its limit, three connections,
  one with more bytes than a datagram takes, a queue of two and two descriptors.
* *Configurations*: messages that differ from a good one in one field that
  loading looks at; IPv4 addresses of two bits behind a short mapped prefix,
  every prefix length, all peers; two generations of certificate and key. A
  QUIC-LB key file that is missing, has its own key or that of the other.
* *Labels*: two labels for four names, one of them too long and one that reads
  like the fixed label `<other>`, which a client is free to ask for. *Hosts*: three versions, two lookups.

Deadlock is checked except where a run has an end of its own: a failed
handshake, a closed connection, a function that has returned, the bound on
calls.

### Fairness

* Time passes (`Tick`).
* `Cleanup` is weakly fair: it is a branch of a `select!` that polls its
  branches in random order, on an interval that is always due again.
  Nothing is asked of clients, backends or readers.
* In `TcpConnection` only time and the timers are fair: peers may be silent for
  ever, which is what the timeouts are for.
* In `SendQueue`, `CallReturns` assumes only that the calling task runs, not
  the writer; `QueuedLeaves` assumes in addition, in the property itself
  (`WriterRuns`), that the writer is polled and the kernel's buffer drains.
* In `BackendReaders` every task that can run does, and `mainloop` takes from
  the channel. Sockets, errors and aborts are free.
* In `AcceptLoop` the wake-up is strongly fair: reloads may keep cancelling the
  future, so that its sleep is not continuously due, but the order of polling
  is random and a due sleep is not passed over for ever. In `Ingress` so is
  taking a datagram: `recvmsg` may fail or be interrupted any number of times,
  but not each time for ever.
* In `TlsRecords` what the client has sent arrives, and the task and the kernel
  run; a client that stays silent is ended by the timeouts of `TcpConnection`.
* `SniParse` and `InitialFrames` are functions: they run on.
* In `Resolver` the interval of the reload is due again and again; lookups need
  not end.

## Proofs

| Theorem | Says | Of |
| --- | --- | --- |
| `Invariance` | `Spec => []IndInv` | `H3Router` |
| `PathLimitsHold` | `Spec => []PathLimits` | |
| `RepliesIsolated` | `Spec => []ReplyIsolation` | |
| `PathsKeepIdentity` | `Spec => PathIdentity` | |
| `ExpiredPathsStayExpired` | `Spec => ExpiredStaysExpired` | |
| `IndexesAlwaysAgree` | `Spec => []IndexesAgree` | |
| `PathsAreKept` | `Spec => PathsKept` | |
| `NoReaderLeaks` | `Spec => []NoReaderLeak` | |
| `PendingIsAccounted` | `Spec => []PendingAccounted` | |
| `Reassembled` | `InitialsSpec => []IndInv` | `Initials`, for `CryptoReassembly` |
| `HelloFound` | `InitialsSpec => []HelloWhenComplete` | |
| `TableIsKept` | `InitialsSpec => TableKept`, the refinement of `FlatRoutes` in it | `Initials`, for `CidRoutes` |
| `FramesAreFound` | `InitialsSpec => []FramesFound` | `Initials`, for `InitialFrames` |
| `QueueAccounted` | `UdpSpec => []Accounted` | `Udp`, for `SendQueue` |
| `QueueIsFifo` | `UdpSpec => Ordered`, the refinement of `LossyFifo` | |
| `BuffersAreKept` | `UdpSpec => []BuffersKept` | `Udp`, for `BackendReaders` |
| `StreamToRightBackend` | `Spec => []IndInv` | `TcpConnection` |
| `SetupMeetsDeadline` | `Spec => []SetupInTime` | |
| `ParsesInside` | `HelloSpec => []Nested` | `Hello`, for `SniParse` |
| `NameIsFound` | `HelloSpec => []RoundTrip` | |
| `HelloIsRead` | `HelloSpec => []HelloRead` | `Hello`, for `TlsRecords` |
| `KernelAlwaysTakesOver` | `HelloSpec => []KernelTakesOver` | |
| `BackoffHolds` | `Spec => []Backoff` | `AcceptLoop` |
| `OneOwnerHolds` | `IngressSpec => []OneOwner` | `Ingress` |
| `RunsAsSaid` | `ReloadSpec => []AsSaid` | `Reload`, for `TcpReload` |
| `PairsAlwaysMatch` | `ReloadSpec => []PairsMatch` | |
| `H3RunsAsSaid` | `ReloadSpec => []H3AsSaid` | `Reload`, for `H3Reload` |
| `LbIsKept` | `ReloadSpec => []LbKept` | |
| `SeriesAreKept` | `ReloadSpec => SeriesKept` | `Reload`, for `SniLabels` |
| `OneVersionHolds` | `ReloadSpec => []OneVersion` | `Reload`, for `Resolver` |
| `HostsAreKept` | `ReloadSpec => Hosts!HostsKept` | |

They hold for all values of the constants that meet the named assumptions, which
TLC evaluates in the runs:

* `AddrAssumption` (normalizing is idempotent), `LimitAssumption` (limits are
  positive, as the command line demands), `PacketAssumption` and
  `ConfigAssumption` (what `load_config` lets through) for the router;
* `FrameAssumption` for the reassembly, `ConfigAssumption` of `TcpConnection`,
  `QueueAssumption` (lengths and limits are numbers, the channel has a place),
  `ReaderAssumption` (finitely many paths, a channel with a place, and a bound
  `MaxBuffers` above what `BuffersBounded` allows, so that memory never runs out),
  `DelayAssumption` and `LimitAssumption` of the ingress (a longest delay, a
  limit of descriptors);
* `AddressAssumption` (bits), `MessagesAssumption` (what prost makes of a
  message: an optional field is an Option, a oneof one of its variants, a parsed
  network has the length of its kind; nothing is assumed of what the operator
  writes into the fields), `LabelsAssumption` (names are finitely many, no fixed
  label is too long) and `HostsAssumption` (finitely many lookups) for `Reload`.

* `TableAssumption` (connection IDs and headers are bytes, there is a path),
  `PayloadAssumption` and `InputAssumption` (a payload or a message is any
  sequence of bytes; one that comes with what was meant by it is what the grammar
  of frames, or of a ClientHello, makes of that) and `StreamAssumption` (the
  shape of a client's records) for the parsers and the record layer.

*Sums and recursive functions.* The counters are sums over a table or a queue,
by `SumFunctionOnSet`, and the backoff is a power of two, by a recursive function.
Both are a CHOOSE to the provers, and the induction theorems of the library are
out of their reach. `SetLemmas` argues by a minimal counterexample instead: the
sets (or numbers) for which the fact fails would have a minimal element, for
which it then holds. So it follows that the function exists, that a sum does not
depend on the order of the summands (`SumRemove`), splits (`SumSplit`) and
follows a queue that moves up by one (`SumShift`).

*The router.* That the tables agree is not inductive alone. A new path
overwrites nothing only if its id is in no table, which takes `IdsFresh`: every
id in a table, a reader or a queued datagram is below `next_connection_id`.
With it a new path makes no old datagram its own, and `ReplyIsolation` follows
from `OwnSocket`. The limits are part of the invariant since the count of a
path's connection IDs after a step is bounded by what `LearnedCids` and
`CanJoin` check against the sets before it. There is a lemma for each way a
step changes the tables (`ForwardClient`, `JoinPath`, `CreatePath`, cleanup)
and the actions are cases that cite them. The two action properties use the
same invariant: `PathIdentity` needs that `lb_paths` leads to a path of the
sender's address and backend, or else forwarding would change `client_addr`.
`NoReaderLeak` follows from the tables: the step that removes a path aborts its
reader, and no step makes a reader without its path. `PendingAccounted` has an
inductive invariant of its own, `PendingSound`: every entry is within the limits
of one handshake and `pending_bytes` is the sum of the entries, which each step
changes at one key (`SumRemove`) or, in cleanup, splits (`SumSplit`).

*The reassembly.* `HelloWhenComplete` needs that no byte is lost (`Conserved`)
and that outside `insert` no fragment touches the prefix (`Gap`): if all bytes
of the hello have arrived and the prefix were shorter, its next byte would be
in a fragment, which would start within the prefix.

*The connection ID table.* `TableInv` says that no length has an empty table, that
each ID is in the table of its length and that the empty ID is in none.
Forgetting the lengths maps it to the flat table, on which each operation is the
operation of `FlatRoutes`; that `match_prefix` returns the longest prefix is an
argument about the greatest length that has a match.

*The frames.* `FramesInside` is inductive with where the walk stands: each frame
found lies before it and after the one found earlier. That every CRYPTO frame of a
well-formed payload is found (`WalkFinds`) needs the payload as a sequence of
numbers, each with the field of a frame it is for (`ReadsPayload`): the walk
always stands before one of them and in the field it is for, with as many ACK
ranges left as the frame has, and has found the CRYPTO frames before that frame.
`read_varint` returns what the encoding has, whichever of the four sizes it is.

*The send queue.* `QueueInv` has four parts: the types, the phases (what the
caller and the writer hold where, and that the caller has a place in the channel
from `charge` to `push`), the order (ids grow from the datagram in flight over
the channel to the call) and the accounts. The refinement needs that
the direct send is tried only when nothing older is held: `pending_bytes = 0`
says so because every datagram is charged at least one byte, the one that
`enqueue` adds to its length. Each step then is a `Submit`, a `Depart` of the
oldest, a `Lose`, or a stutter.

*The readers.* `ReadersInv` is about four things. Places: one that is not free has
been given to a task or is taken by a datagram in the channel, and the line of
waiters has every task that waits once, so that a place given to the first waiter
is not lost on an abort. Buffers: a task has one from `Acquire` to `Send` or
`DropPacket`, and no buffer is in two of the hands of tasks, datagrams and cache
(`Distinct`); so that what is written by one task is not what another has
received. The line, `handled` followed by the channel: its datagrams are whole,
and the numbers of those of one path grow and are exactly those after the last
one handled up to the last one sent (`InLine`). And what was handled. `Send`
appends the next number to the line and `Handle` takes the least from its
front. The bound on buffers is a count: those of the tasks are no more than the
tasks with a place, those in the line no more than its length, and the places
are `Capacity`. The same count shows that a fresh buffer exists.

*The TCP connection.* `RightStream` is inductive with `StreamInPhase`, which
says in which phases the stream is untouched and nothing has been given:
falling back to the sorry backend is only possible in such a phase.

*The record layer.* `RecordsInv` ties the positions in the stream to its records:
what has been read ends at the end of a record, no earlier record had the whole
ClientHello already, and a router that is passed the connection starts where it
would have started itself. `TlsInv` says that what rustls has been given and what
is left to the kernel is all that has arrived, apart at the record that both
count to. Since control records leave gaps in what the backend is given, a count
of its records does not say which they are; `Given(m)` does: they are, in order
and once, the data records behind Finished up to record m. `TlsInv` has for each
phase the m that it holds for, and `GivenStep` is that one more record, of either
kind, takes it from m - 1 to m.

*The parser.* `Nested` says of each vector that has been entered that it ends
within the one around it. `NoPanic`, that every index of the next action is
inside of the message, follows from the other parts, so the proof carries
`Core`, which is `Nested` without it, through the actions; a lemma on the bytes
read gives the type of each length. `RoundTrip` is carried by `Found`: over a
well-formed ClientHello the parser is at the start of an extension, or of a name
in the first server_name extension, and none before it is the one looked for.

*The ingress.* `LoopInv` adds to `Backoff` that the deadline under way is what is
left of the delay, and that after `n` failures in a row the delay has doubled
`n - 1` times, which is at least `n`: so the longest delay is reached, and from
there on the number of failures no longer matters. `HandoffInv` follows each
descriptor: who has sent it, which datagrams of the queue carry it and who has
received it, of which at most one is the case at a time.

*Reloads.* What is in use is a result of `load_config`, for the message that is
remembered and for files or a DNS as they were at some time (`TcpInv`, `H3Inv`):
a reload that fails changes neither. So the backends of sni-router-h3 have the
addresses (`H3RuleLoaded`) and its QUIC-LB decoders the keys (`LoadedLb`) of the
environment of the last load that succeeded. All else is about `load_config`, one lemma
for each function it calls. That ACLs decide as said rests on `SourceCovers`: a
peer is in the IPv6 network that `load_acl` makes of an IPv4 network exactly if
it is an IPv4 peer in that network, bit by bit. `HostsInv` says that the object a
lookup holds has the hosts of its snapshot; that `reload_hosts` keeps it so
rests on `FreeObject`, a count of the objects that lookups can hold. `LabelsInv`
says that the series are the names with a label and the fixed ones.

### Only model-checked

Every safety property of a passing run, invariant or action property, is a
theorem. What remains with TLC is liveness under fairness, which the prover does
not handle: `PathsEnd`, `PendingEnds`, `TimeoutsEnd`, `Ends`, `CallReturns`,
`QueuedLeaves`, `EveryDatagramHandled`, `QueueMoves`, `ParseReturns`,
`TlsProgress` and the half `FileReaches` of `HostsReach` (the other half,
`HostsKept`, is `HostsAreKept`).

## Not modelled

* QUIC packet headers, header protection, AEAD and the AES of QUIC-LB are
  cryptography or layout without state: what they yield is an input, any of
  their outcomes at any time.
* rustls, kTLS, tokio, hickory and the kernel are external and modelled from how
  the code uses them. A backend's TLS stream (`into_raw` in `connect_for_proxy`)
  is a raw kernel TLS stream as well; control records that a backend sends on it
  are not modelled, and end the connection as those of a client do
  (`CopyFails` of `TcpConnection`).
* Privileges (`privs.rs`) are a fixed sequence of system calls before the first
  connection, and the metrics push is a thread around one request: no state of
  the routers depends on them. The other metrics are increments.
* Frames and datagrams lost or repeated by the network need no action: any
  datagram may arrive at any time, any number of times. Neither program keeps
  anything on disk, so there is no crash recovery: a restart is `Init`.

## History and what is left

In this order: the core of the H3 router and its proofs; the CRYPTO reassembly;
the send queue with its abstract specification; the TCP connection and the accept
loop; TLS records and the kTLS handover; the connection ID table with its
abstract specification; readers and packet pool; loading and reloading in both
routers; the parsers of ClientHello and Initial; SNI labels; resolver; the
handoff, composed with the accept loop; the proofs of the router's sums and
readers, of the send queue and its refinement, of the ingress and of all reloads;
the proofs of both parsers, of the record layer, of the connection ID table and
of the reader tasks.

Left: liveness by proof, for a prover that handles it.
