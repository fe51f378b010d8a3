---------------------------- MODULE MCIngestRace ----------------------------
(* IngestRace on the instance of MCAnveshaIngest. *)
EXTENDS MCAnveshaIngest, IngestRace
=============================================================================
