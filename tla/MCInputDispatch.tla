-------------------------- MODULE MCInputDispatch --------------------------
(* The workers of the pool are alike, and so are the maps; the runs for safety
   use that. *)
EXTENDS InputDispatch

Symmetry == Permutations(Workers) \cup Permutations(Maps)

=============================================================================
