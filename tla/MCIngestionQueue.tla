--------------------------- MODULE MCIngestionQueue ---------------------------
(* Small instances of IngestionQueue for TLC. *)
EXTENDS IngestionQueue
=============================================================================
