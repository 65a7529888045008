---------------------------- MODULE MCJobRunner ----------------------------
(* Small instances of JobRunner for TLC. *)
EXTENDS JobRunner, TLC

Symmetry == Permutations(Futures) \cup Permutations(Workers) \cup Permutations(Runs)
=============================================================================
