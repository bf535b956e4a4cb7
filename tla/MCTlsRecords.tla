---------------------------- MODULE MCTlsRecords ----------------------------
(***************************************************************************)
(* Clients for TLC: ClientHellos in one record, cut into records of every  *)
(* size, followed by another message in the same record; a retried hello;  *)
(* a client that sends data right behind Finished; clients that update     *)
(* their keys or send an alert; and streams that are not TLS.              *)
(***************************************************************************)
EXTENDS Naturals, Sequences

\* The offsets follow from the lengths; each record has a header of 5 bytes.
Offset(lens) == [i \in 0..Len(lens) |->
  LET at[k \in 0..i] == IF k = 0 THEN 0 ELSE at[k - 1] + 5 + lens[k] IN at[i]]

\* A client by the lengths, types, waits and answers of its records.
MkClient(lens, types, afters, answered, is_hello, body, finished) ==
  [recs |-> [i \in 1..Len(lens) |->
               [handshake |-> types[i], len |-> lens[i], at |-> Offset(lens)[i - 1],
                after |-> afters[i], answered |-> answered[i], control |-> FALSE]],
   client_hello |-> is_hello, body_len |-> body, finished |-> finished]

\* The client c with these records as control records.
WithControl(c, numbers) ==
  [c EXCEPT !.recs = [i \in DOMAIN c.recs |-> [c.recs[i] EXCEPT !.control = i \in numbers]]]

T == TRUE
F == FALSE

MCClients == {
  \* one record, then Finished, then data
  MkClient(<<6, 2, 1, 1>>, <<T, F, F, F>>, <<0, 1, 1, 1>>, <<T, T, F, F>>, T, 2, 2),
  \* data, a KeyUpdate and data under the new keys
  WithControl(MkClient(<<6, 2, 1, 1, 1>>, <<T, F, F, F, F>>, <<0, 1, 1, 1, 1>>,
                       <<T, T, F, F, F>>, T, 2, 2), {4}),
  \* a KeyUpdate that asks for another, data and an alert, all of which a
  \* handoff may bring with Finished
  WithControl(MkClient(<<8, 1, 1, 1, 1>>, <<T, F, F, F, F>>, <<0, 0, 0, 0, 0>>,
                       <<T, F, T, F, F>>, T, 2, 2), {3, 5}),
  \* cut in three, the last with another message behind it; it waits for no
  \* answer, so that a handoff may bring data with its Finished, which
  \* process_buffered_tls_records is there for
  MkClient(<<1, 3, 4, 1, 1, 1>>, <<T, T, T, F, F, F>>, <<0, 0, 0, 0, 0, 0>>, <<F, F, T, F, F, F>>, T, 2, 4),
  \* cut into single bytes
  MkClient(<<1, 1, 1, 1, 1, 1>>, <<T, T, T, T, T, F>>, <<0, 0, 0, 0, 0, 1>>, <<F, F, F, F, T, F>>, T, 1, 6),
  \* a hello that is retried
  MkClient(<<5, 5, 1, 2>>, <<T, T, F, F>>, <<0, 1, 2, 2>>, <<T, T, F, F>>, T, 1, 3),
  \* empty records in the middle, another protocol, another message first
  MkClient(<<1, 0, 0, 0, 0, 0, 3>>, <<T, T, T, T, T, T, T>>, <<0, 0, 0, 0, 0, 0, 0>>,
           <<F, F, F, F, F, F, F>>, T, 0, 0),
  MkClient(<<2, 1>>, <<F, F>>, <<0, 0>>, <<F, F>>, T, 1, 0),
  MkClient(<<2, 3>>, <<T, T>>, <<0, 0>>, <<F, F>>, F, 1, 0)}
=============================================================================
