----------------------- MODULE MCConversationRuntime -----------------------
(* Small instances of ConversationRuntime for TLC. *)
EXTENDS ConversationRuntime
=============================================================================
