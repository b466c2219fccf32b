--------------------------- MODULE MCDocumentList ---------------------------
(* A small instance of DocumentList for TLC. *)
EXTENDS DocumentList
=============================================================================
