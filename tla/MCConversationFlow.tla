-------------------------- MODULE MCConversationFlow --------------------------
(* Small instances of ConversationFlow for TLC. *)
EXTENDS ConversationFlow
=============================================================================
