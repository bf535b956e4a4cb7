----------------------------- MODULE TlsRecords -----------------------------
(***************************************************************************)
(* What the TCP router reads from a client's stream before the stream goes *)
(* on to somebody else: read_tls_clienthello reads the ClientHello to      *)
(* route by, a second router that is passed the socket reads the same      *)
(* bytes again from the handoff datagram, and tls_handshake terminates TLS *)
(* from the bytes already read, record by record, until it hands the       *)
(* socket and the keys to the kernel.                                      *)
(*                                                                         *)
(* A stream is a sequence of TLS records at byte offsets; all that is kept *)
(* of bytes is how many of them are where.  rustls and the kernel are      *)
(* external: rustls takes whole records, is done with the client's record  *)
(* number `finished`, and owes an answer after some of them; the kernel    *)
(* decrypts the records that start where its first read starts.  Behind    *)
(* Finished there may be control records (KeyUpdate, alerts), which rustls *)
(* handles and the kernel does not: a plain read that meets one fails.     *)
(***************************************************************************)
EXTENDS Naturals, Sequences, FiniteSetsExt

CONSTANTS
  Clients,       \* what clients send: records, first message, last handshake record
  MaxRecord,     \* the longest record, 65535
  MaxHops        \* bound: how often a connection is passed on to another router

REC_HDR_LEN == 5
HandshakeHeader == 4

\* Record i of a client: its content type, its length, where it starts, after
\* how many answers of the server the client sends it, whether the server
\* answers it, and whether it is a control record, if it is behind Finished.
Record == [handshake : BOOLEAN, len : 0..MaxRecord, at : Nat, after : Nat, answered : BOOLEAN,
           control : BOOLEAN]

\* Records follow each other without a gap.  A client has at least one.
ClientAssumption ==
  /\ MaxHops \in Nat /\ MaxRecord \in Nat
  /\ \A c \in Clients :
       /\ c.recs \in Seq(Record) /\ c.recs /= <<>>
       /\ c.client_hello \in BOOLEAN /\ c.body_len \in Nat
       /\ c.finished \in 0..Len(c.recs)
       /\ c.recs[1].at = 0
       /\ \A i \in 1..Len(c.recs) - 1 :
            c.recs[i + 1].at = c.recs[i].at + REC_HDR_LEN + c.recs[i].len

VARIABLES
  client,        \* which client this is
  delivered,     \* bytes that the client's kernel has delivered to the socket
  eof,           \* the client has closed
  initial,       \* bytes that came with the handoff datagram
  got,           \* bytes taken out of the socket or the datagram
  pos,           \* how far they have been parsed
  next,          \* the record at pos
  hello,         \* hello.len()
  needed,        \* Option: {} or {4 + body_len}
  phase,
  unsent,        \* answers that rustls has ready
  answers,       \* answers that the client has received
  plain,         \* the client's data as the backend gets it: record numbers
  hops,          \* handoffs so far
  first          \* history: what the first router made of the ClientHello

stream == <<client, eof>>
preread == <<hello, needed>>
tls == <<unsent, answers, plain>>
vars == <<client, delivered, eof, initial, got, pos, next, hello, needed, phase,
          unsent, answers, plain, hops, first>>

recs == client.recs
End(i) == recs[i].at + REC_HDR_LEN + recs[i].len
Total == End(Len(recs))

\* What the client has sent, or can send with the answers it has.
Sendable ==
  LET waiting == {i \in 1..Len(recs) : recs[i].after > answers}
  IN  IF waiting = {} THEN Total ELSE recs[Min(waiting)].at

Init ==
  /\ client \in Clients
  /\ eof = FALSE /\ answers = 0
  /\ initial \in 0..Sendable
  /\ delivered = initial /\ got = initial
  /\ pos = 0 /\ next = 1 /\ hello = 0 /\ needed = {}
  /\ phase = "header" /\ unsent = 0 /\ plain = <<>>
  /\ hops = 0 /\ first = {}

Arrive ==
  /\ ~eof
  /\ delivered' \in (delivered + 1)..Sendable
  /\ UNCHANGED <<stream, initial, got, pos, next, preread, phase, tls, hops, first>>

Close ==
  /\ ~eof /\ eof' = TRUE
  /\ UNCHANGED <<client, delivered, initial, got, pos, next, preread, phase, tls, hops, first>>

-----------------------------------------------------------------------------
(* read_tls_clienthello. *)

\* Mutant of ensure_bytes_available: reads whatever the socket holds.
read_available(len) ==
  /\ delivered >= len
  /\ got' = delivered

\* Waits for the first len bytes, and reads no more than these.
ensure_bytes_available(len) ==
  /\ got >= len \/ delivered >= len
  /\ got' = IF got >= len THEN got ELSE len

\* What is being waited for.
Wanted ==
  IF phase \in {"header", "tls_header"} THEN pos + REC_HDR_LEN
  ELSE IF phase = "payload" THEN pos + recs[next].len
  ELSE pos + REC_HDR_LEN + recs[next].len

Reading == {"header", "payload", "tls_header", "tls_payload"}

\* read_exact meets the end of the stream: the connection ends.
ReadFails ==
  /\ phase \in Reading
  /\ eof /\ got < Wanted /\ delivered < Wanted
  /\ phase' = "failed"
  /\ UNCHANGED <<stream, delivered, initial, got, pos, next, preread, tls, hops, first>>

\* Mutant of HandshakeRecord: empty records are skipped.
AnyHandshakeRecord(r) == r.handshake

HandshakeRecord(r) == r.handshake /\ r.len > 0

\* A record that is no handshake record, or is empty: not TLS, which goes to
\* the default rule.
RecordHeader ==
  /\ phase = "header"
  /\ ensure_bytes_available(pos + REC_HDR_LEN)
  /\ pos' = pos + REC_HDR_LEN
  /\ phase' = IF HandshakeRecord(recs[next]) THEN "payload" ELSE "no_hello"
  /\ UNCHANGED <<stream, delivered, initial, next, preread, tls, hops, first>>

\* The loop's condition.
Complete(len, want) == \E n \in want : len >= n

RecordPayload ==
  /\ phase = "payload"
  /\ ensure_bytes_available(pos + recs[next].len)
  /\ pos' = pos + recs[next].len /\ next' = next + 1
  /\ hello' = hello + recs[next].len
  /\ needed' = IF hello' >= HandshakeHeader /\ client.client_hello
               THEN {HandshakeHeader + client.body_len} ELSE needed
  /\ phase' = IF hello' >= HandshakeHeader /\ ~client.client_hello THEN "no_hello"
              ELSE IF Complete(hello', needed') THEN "hello"
              ELSE "header"
  /\ UNCHANGED <<stream, delivered, initial, tls, hops, first>>

\* What the connection is routed by.
Verdict == <<phase, needed>>

\* Mutant of PassedBytes: the handshake message is passed on without the
\* headers of its records.
PassedHello == hello

\* pass_fd_over_uds sends all the bytes that were read.
PassedBytes == got

\* The socket and these bytes go to another router, which starts over.
PassOn ==
  /\ phase \in {"hello", "no_hello"} /\ hops < MaxHops
  /\ hops' = hops + 1 /\ first' = IF hops = 0 THEN {Verdict} ELSE first
  /\ initial' = PassedBytes /\ got' = initial'
  /\ pos' = 0 /\ next' = 1 /\ hello' = 0 /\ needed' = {}
  /\ phase' = "header"
  /\ UNCHANGED <<stream, delivered, tls>>

-----------------------------------------------------------------------------
(* tls_handshake. *)

TlsStart ==
  /\ phase \in {"hello", "no_hello"}
  /\ pos' = 0 /\ next' = 1
  /\ phase' = "tls_header"
  /\ UNCHANGED <<stream, delivered, initial, got, preread, tls, hops, first>>

TlsHeader ==
  /\ phase = "tls_header"
  /\ ensure_bytes_available(pos + REC_HDR_LEN)
  /\ phase' = "tls_payload"
  /\ UNCHANGED <<stream, delivered, initial, pos, next, preread, tls, hops, first>>

is_handshaking == next <= client.finished \/ client.finished = 0

\* process_tls_record: rustls is fed this record, whole.
FeedRecord ==
  /\ pos' = End(next) /\ next' = next + 1
  /\ unsent' = unsent + (IF recs[next].answered THEN 1 ELSE 0)

\* Mutant of AfterRecord: what is buffered behind Finished is not processed.
AfterRecordUndrained == "tls_write"

AfterRecord == IF next = client.finished THEN "drain" ELSE "tls_write"

TlsRecord ==
  /\ phase = "tls_payload"
  /\ ensure_bytes_available(pos + REC_HDR_LEN + recs[next].len)
  /\ FeedRecord
  /\ phase' = AfterRecord
  /\ UNCHANGED <<stream, delivered, initial, preread, answers, plain, hops, first>>

\* rustls refuses a record, the socket cannot be written, or the kernel does
\* not take the keys.
TlsFails ==
  /\ \/ phase = "tls_payload" /\ (got >= Wanted \/ delivered >= Wanted)
     \/ phase \in {"drain", "tls_write", "keys"}
  /\ phase' = "failed"
  /\ UNCHANGED <<stream, delivered, initial, got, pos, next, preread, tls, hops, first>>

\* plaintext_bytes_to_read() is zero for a control record, which rustls has
\* handled: the keys that are extracted later are those after a KeyUpdate.
PlainWith(i) == IF recs[i].control THEN plain ELSE Append(plain, i)

\* process_buffered_tls_records: one more complete record, whose plaintext
\* goes to the backend ahead of the stream.
DrainRecord ==
  /\ phase = "drain" /\ pos + REC_HDR_LEN <= got /\ End(next) <= got
  /\ FeedRecord
  /\ plain' = PlainWith(next)
  /\ UNCHANGED <<stream, delivered, initial, got, preread, phase, answers, hops, first>>

\* Part of a record is buffered: its rest would reach the kernel.
DrainPartial ==
  /\ phase = "drain" /\ pos < got /\ (got < pos + REC_HDR_LEN \/ got < End(next))
  /\ phase' = "failed"
  /\ UNCHANGED <<stream, delivered, initial, got, pos, next, preread, tls, hops, first>>

DrainDone ==
  /\ phase = "drain" /\ pos = got
  /\ phase' = "tls_write"
  /\ UNCHANGED <<stream, delivered, initial, got, pos, next, preread, tls, hops, first>>

\* Mutant of Flush: what rustls has to say is sent once it is done.
FlushAtEnd == ~is_handshaking

\* Mutant of Flush: what rustls has to say is sent while it is handshaking.
FlushHandshaking == is_handshaking

\* while tls.wants_write()
Flush == TRUE

TlsWrite ==
  /\ phase = "tls_write"
  /\ IF Flush THEN answers' = answers + unsent /\ unsent' = 0 ELSE UNCHANGED <<answers, unsent>>
  /\ phase' = IF is_handshaking THEN "tls_header" ELSE "keys"
  /\ UNCHANGED <<stream, delivered, initial, got, pos, next, preread, plain, hops, first>>

\* TCP_ULP, TLS_RX and TLS_TX are set.
SetKeys ==
  /\ phase = "keys"
  /\ phase' = "ktls"
  /\ UNCHANGED <<stream, delivered, initial, got, pos, next, preread, tls, hops, first>>

\* The kernel's first record starts at got, where the socket was read to.
KernelRecord ==
  /\ phase = "ktls"
  /\ \E i \in 1..Len(recs) :
       /\ recs[i].at = got /\ End(i) <= delivered /\ ~recs[i].control
       /\ got' = End(i) /\ plain' = Append(plain, i)
  /\ UNCHANGED <<stream, delivered, initial, pos, next, preread, phase, unsent, answers, hops, first>>

\* The kernel has a control record for a reader that asks for none: the read
\* fails with EIO, and with it the copy loop, so that the connection ends.
KernelControl ==
  /\ phase = "ktls"
  /\ \E i \in 1..Len(recs) : recs[i].at = got /\ End(i) <= delivered /\ recs[i].control
  /\ phase' = "eio"
  /\ UNCHANGED <<stream, delivered, initial, got, pos, next, preread, tls, hops, first>>

KernelRead == KernelRecord \/ KernelControl

Preread == RecordHeader \/ RecordPayload \/ PassOn
Handshake ==
  \/ TlsStart \/ TlsHeader \/ TlsRecord \/ DrainRecord \/ DrainPartial \/ DrainDone
  \/ TlsWrite \/ SetKeys \/ TlsFails

Next == Arrive \/ Close \/ ReadFails \/ Preread \/ Handshake \/ KernelRead

Spec == Init /\ [][Next]_vars

\* The runtime polls the connection's task, and the client sends what it has
\* to send until it closes: the deadlines that end the others are
\* TcpConnection's.
Task ==
  \/ RecordHeader \/ RecordPayload \/ TlsStart \/ TlsHeader \/ TlsRecord \/ DrainRecord
  \/ DrainPartial \/ DrainDone \/ TlsWrite \/ SetKeys

FairSpec ==
  Spec /\ WF_vars(Arrive) /\ WF_vars(KernelRead) /\ WF_vars(ReadFails) /\ WF_vars(Task)

-----------------------------------------------------------------------------
(* Properties. *)

TypeOK ==
  /\ client \in Clients /\ eof \in BOOLEAN
  /\ delivered \in Nat /\ initial \in Nat /\ got \in Nat /\ pos \in Nat
  /\ hello \in Nat /\ needed \in {{}, {HandshakeHeader + client.body_len}}
  /\ next \in 1..Len(recs) + 1
  /\ phase \in Reading \cup {"hello", "no_hello", "drain", "tls_write", "keys", "ktls", "eio", "failed"}
  /\ unsent \in Nat /\ answers \in Nat /\ plain \in Seq(1..Len(recs)) /\ hops \in 0..MaxHops

Larger(m, n) == IF m >= n THEN m ELSE n

\* The record that decides what the first message is, by its position: the
\* payload of records 1 to i is what their bytes are without the headers.
Payload(i) == End(i) - i * REC_HDR_LEN
Decides(i) ==
  \/ ~recs[i].handshake \/ recs[i].len = 0
  \/ Payload(i) >= HandshakeHeader /\ ~client.client_hello
  \/ Payload(i) >= HandshakeHeader + client.body_len /\ client.client_hello
DecidedAt(i) ==
  IF ~recs[i].handshake \/ recs[i].len = 0 THEN recs[i].at + REC_HDR_LEN ELSE End(i)

Prereading == {"header", "payload", "hello", "no_hello"}

\* read_tls_clienthello reads up to the end of the record that completes the
\* ClientHello, or of a stream that is not TLS the header that shows it, and
\* takes nothing behind that from the socket: what is left belongs to the
\* backend's stream or to the TLS handshake.
PrereadExact ==
  phase \in Prereading =>
    /\ \A i \in 1..Len(recs) : Decides(i) => got <= Larger(initial, DecidedAt(i))
    /\ phase \in {"hello", "no_hello"} => \E i \in 1..Len(recs) : Decides(i) /\ pos = DecidedAt(i)

\* read_tls_clienthello has no limit of its own: however a client cuts its
\* ClientHello into records, what is buffered of it before the connection is
\* routed is less than six times the length that the ClientHello announces (a
\* byte in each record, with its header), and one record.
PrereadBounded ==
  phase \in Prereading =>
    got <= Larger(initial, 6 * (HandshakeHeader + client.body_len - 1) + REC_HDR_LEN + MaxRecord)

\* A router that is passed the connection reads nothing more of the socket
\* and comes to the same verdict as the one that passed it.
HandoffAgrees ==
  /\ hops > 0 /\ phase \in Prereading => got = initial
  /\ hops > 0 /\ phase \in {"hello", "no_hello"} => first = {Verdict}

\* When the kernel takes over, all that was taken out of the socket has been
\* given to rustls as whole records, up to the end of one of them, and all
\* that rustls had to send has been sent: the keys and sequence numbers that
\* are handed over fit the next byte in either direction.
KernelInStep ==
  phase = "keys" =>
    /\ pos = got /\ unsent = 0
    /\ \E i \in client.finished..Len(recs) : got = End(i)

\* The backend has been given the data of the records behind Finished up to
\* record m: these in order, none missing, none twice, no control record.
Given(m) ==
  /\ \A k \in 1..Len(plain) : plain[k] \in client.finished + 1..m /\ ~recs[plain[k]].control
  /\ \A j, k \in 1..Len(plain) : j < k => plain[j] < plain[k]
  /\ \A i \in client.finished + 1..m : ~recs[i].control => \E k \in 1..Len(plain) : plain[k] = i

\* Whether userspace or the kernel decrypted them, the backend gets the
\* client's data in order and once, and once the kernel has taken over it has
\* all the data up to where the socket has been read, also when the read has
\* failed at a control record.
InOrder ==
  /\ TypeOK
  /\ \E m \in client.finished..Len(recs) :
       Given(m) /\ (phase \in {"ktls", "eio"} => got = End(m))

\* TLS termination never waits for a client that waits for the server: the
\* handshake of a client that sends all its records comes to its end.
HandshakeEnds ==
  phase \in {"tls_header", "tls_payload"} /\ client.finished > 0 ~> phase \in {"ktls", "failed"}

\* All the data of a client that sends it reaches the backend, up to the first
\* control record that is left to the kernel: there the connection ends, with
\* the data in front of it delivered.
DataArrives ==
  phase = "ktls" /\ ~eof ~>
    \/ eof \/ Given(Len(recs))
    \/ phase = "eio" /\ \E m \in 1..Len(recs) : recs[m].control /\ recs[m].at = got /\ Given(m - 1)
=============================================================================
