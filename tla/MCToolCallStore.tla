--------------------------- MODULE MCToolCallStore ---------------------------
(* Model checking of ToolCallStore.                                        *)
EXTENDS ToolCallStore, TLC

Symmetry == Permutations(ID)

=============================================================================
