------------------------------ MODULE MCLogStore ------------------------------
(* Model checking of LogStore.                                             *)
EXTENDS LogStore, TLC

Sizes == {2, 3}

=============================================================================
