------------------------------- MODULE MCWatch -------------------------------
(* Model checking of Watch: the constants are given in the .cfg files. *)
EXTENDS Watch

=============================================================================
