--------------------------- MODULE MCHealthChecker ---------------------------
(* Model-checking instances of HealthChecker. *)
EXTENDS HealthChecker

=============================================================================
