----------------------- MODULE MCOrdinaryConversation -----------------------
(* Small instances of OrdinaryConversation for TLC. *)
EXTENDS OrdinaryConversation

=============================================================================
