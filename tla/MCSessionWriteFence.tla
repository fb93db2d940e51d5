------------------------ MODULE MCSessionWriteFence ------------------------
(* Finite instances of SessionWriteFence for TLC. *)
EXTENDS SessionWriteFence

=============================================================================
