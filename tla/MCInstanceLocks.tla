--------------------------- MODULE MCInstanceLocks ---------------------------
(* Model-checking instances of InstanceLocks. *)
EXTENDS InstanceLocks

=============================================================================
