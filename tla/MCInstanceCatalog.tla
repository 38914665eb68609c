-------------------------- MODULE MCInstanceCatalog --------------------------
EXTENDS InstanceCatalog, TLC

CONSTANTS a, b

Symmetry == Permutations(Names)
=============================================================================
