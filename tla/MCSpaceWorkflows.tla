-------------------------- MODULE MCSpaceWorkflows --------------------------
(* Small instances of SpaceWorkflows for TLC. *)
EXTENDS SpaceWorkflows

=============================================================================
