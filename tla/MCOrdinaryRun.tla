--------------------------- MODULE MCOrdinaryRun ---------------------------
(* Values of the constants for the runs of OrdinaryRun. *)
EXTENDS OrdinaryRun, TLC

Symmetry == Permutations(Gated)

=============================================================================
