--------------------------- MODULE MCAdminSessions ---------------------------
(* Model checking of AdminSessions.  Passwords are alike, too: one may be   *)
(* in the environment and one in the table, or neither.                     *)
EXTENDS AdminSessions, TLC

Symmetry == Permutations(Request) \union Permutations(Password)

=============================================================================
