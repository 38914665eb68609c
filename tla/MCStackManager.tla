--------------------------- MODULE MCStackManager ----------------------------
(* Model-checking instances of StackManager. *)
EXTENDS StackManager, TLC

CONSTANTS db, web

\* web depends on db.
TwoInsts == <<db, web>>
OneInst == <<db>>

Symmetry == Permutations(Callers)

=============================================================================
