------------------------- MODULE MCProcessRegistry -------------------------
(* Small instances of ProcessRegistry for TLC. *)
EXTENDS ProcessRegistry

=============================================================================
