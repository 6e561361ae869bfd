----------------------------- MODULE MCCampaign -----------------------------
(***************************************************************************)
(* The campaign over a small queue, for TLC: two setups once each, three   *)
(* attempts, so that all of the ledger can fail; the guard's two rules     *)
(* scaled down so that each can stop a campaign the other lets go on.      *)
(***************************************************************************)
EXTENDS Campaign

\* An earlier queue of the same name that got no further than its first attempts.
FirstAttempts == {k \in Keys : k[3] = 1}

=============================================================================
