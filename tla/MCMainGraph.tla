---------------------------- MODULE MCMainGraph ----------------------------
(* Small instances of MainGraph for TLC. *)
EXTENDS GraphInvariant

=============================================================================
