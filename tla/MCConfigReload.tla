---------------------------- MODULE MCConfigReload ----------------------------
(* Model checking of ConfigReload.                                         *)
EXTENDS ConfigReload, TLC

Symmetry == Permutations(Request) \union Permutations(Feature)

=============================================================================
