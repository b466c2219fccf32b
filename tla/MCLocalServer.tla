---------------------------- MODULE MCLocalServer ----------------------------
(* Small instances of LocalServer for TLC. *)
EXTENDS LocalServer
=============================================================================
