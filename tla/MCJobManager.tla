---------------------------- MODULE MCJobManager -----------------------------
(* Model-checking instances of JobManager. *)
EXTENDS JobManager

=============================================================================
