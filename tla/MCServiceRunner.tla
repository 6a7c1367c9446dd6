-------------------------- MODULE MCServiceRunner --------------------------
(* Small instances of ServiceRunner for TLC. *)
EXTENDS ServiceRunner, TLC

Symmetry == Permutations(Jobs) \cup Permutations(Stops)
=============================================================================
