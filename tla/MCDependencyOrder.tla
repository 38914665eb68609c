-------------------------- MODULE MCDependencyOrder --------------------------
(* Model-checking instance of DependencyOrder: every manifest within the    *)
(* bounds is an initial state.                                              *)
EXTENDS DependencyOrder

=============================================================================
