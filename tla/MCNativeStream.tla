---------------------------- MODULE MCNativeStream ----------------------------
(* Model checking of NativeStream. *)
EXTENDS NativeStream

=============================================================================
