----------------------------- MODULE MCRunQueue -----------------------------
(***************************************************************************)
(* The ledger on small designs, under every order of commands.             *)
(***************************************************************************)
EXTENDS RunQueue
=============================================================================
