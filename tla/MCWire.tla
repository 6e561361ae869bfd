------------------------------- MODULE MCWire -------------------------------
(* Every capture of a few packets of a short stream. *)
EXTENDS Wire

=============================================================================
