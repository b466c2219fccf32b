----------------------------- MODULE MCIngestion -----------------------------
(* Small instances of Ingestion for TLC. *)
EXTENDS Ingestion, TLC

\* Documents are interchangeable, and so are executions of the worker.
Symmetry == Permutations(Docs) \cup Permutations(Workers)
=============================================================================
