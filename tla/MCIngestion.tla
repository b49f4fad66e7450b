----------------------------- MODULE MCIngestion -----------------------------
(* Ingestion alone: the stream, which reconnects once.                     *)
EXTENDS Ingestion, TLC
CONSTANTS r1
LedgerOfEvent == <<1, 2, 2>>
KindOfEvent == <<"escrow", "other", "escrow">>
=============================================================================
