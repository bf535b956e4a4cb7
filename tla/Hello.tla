------------------------------- MODULE Hello --------------------------------
(***************************************************************************)
(* The client's first bytes at the TCP router: TlsRecords reads the        *)
(* ClientHello and terminates TLS, SniParse finds the name in the          *)
(* ClientHello.  All that the one leaves to the other is the message, of   *)
(* which TlsRecords keeps only how long it is, so that a behaviour is one  *)
(* of either: `part' says which, and the other one stays as it was made.   *)
(***************************************************************************)
EXTENDS SniParse

CONSTANTS Clients, MaxRecord, MaxHops

VARIABLES
  part, client, delivered, eof, initial, got, pos, next, hello, needed, phase, unsent, answers,
  plain, hops, first

records == <<client, delivered, eof, initial, got, pos, next, hello, needed, phase, unsent,
             answers, plain, hops, first>>

Records == INSTANCE TlsRecords

ASSUME StreamAssumption == Records!ClientAssumption
ASSUME InputAssumption == InputsAreBytes /\ InputsAreHellos

HelloInit ==
  \/ part = "records" /\ Records!Init /\ Call([bytes |-> <<>>, asked |-> {}])
  \/ /\ part = "parse" /\ Init
     /\ client = (CHOOSE c \in Clients : TRUE) /\ initial = 0 /\ Records!Init

HelloNext ==
  \/ part = "records" /\ Records!Next /\ UNCHANGED <<part, vars>>
  \/ part = "parse" /\ Next /\ UNCHANGED <<part, records>>

\* The fairness of Records!FairSpec, and of FairSpec.
HelloSpec ==
  /\ HelloInit /\ [][HelloNext]_<<part, vars, records>>
  /\ WF_records(part = "records" /\ Records!Arrive)
  /\ WF_records(part = "records" /\ Records!KernelRead)
  /\ WF_records(part = "records" /\ Records!ReadFails)
  /\ WF_records(part = "records" /\ Records!Task)
  /\ WF_vars(part = "parse" /\ Next)

\* extract_sni returns, whatever it is given.
ParseReturns == part = "parse" => Returns

\* TlsRecords: read_tls_clienthello takes exactly the records that it needs, in
\* proportion to the length that the ClientHello announces, and a router that is
\* passed the connection comes to the same ClientHello.
HelloRead == Records!PrereadExact /\ Records!PrereadBounded /\ Records!HandoffAgrees

\* TlsRecords: tls_handshake leaves the stream to the kernel at the record that
\* rustls has come to, and the backend gets the client's data in order.
KernelTakesOver == Records!KernelInStep /\ Records!InOrder

\* TlsRecords: client and router do not wait for each other in tls_handshake,
\* and the data that the client sends arrive, up to a control record that the
\* kernel meets, at which the connection ends.
TlsProgress == part = "records" => Records!HandshakeEnds /\ Records!DataArrives
=============================================================================
