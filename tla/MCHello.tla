------------------------------- MODULE MCHello ------------------------------
(***************************************************************************)
(* Hello for TLC, with the ClientHellos of MCSniParse and the streams of   *)
(* MCTlsRecords.                                                           *)
(***************************************************************************)
EXTENDS Hello, MCSniParse, MCTlsRecords
=============================================================================
