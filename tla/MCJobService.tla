---------------------------- MODULE MCJobService -----------------------------
(* Model-checking instances of JobService. *)
EXTENDS JobService, TLC

Symmetry ==
    Permutations(Jobs) \cup Permutations(Workers) \cup Permutations(Cancelers)

=============================================================================
