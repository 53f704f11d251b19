------------------------------ MODULE MCIngest ------------------------------
(* A small instance of Ingest: two sessions, one campaign. *)
EXTENDS Ingest

CONSTANT c1

OneCampaign == <<c1>>

=============================================================================
