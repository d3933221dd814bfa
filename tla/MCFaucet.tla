------------------------------- MODULE MCFaucet -------------------------------
(***************************************************************************)
(* Two requests for one address, alike: two that compete for the balance   *)
(* and, one after the other or overlapping, for the cooldown.              *)
(***************************************************************************)
EXTENDS Faucet, TLC

Symmetry == Permutations(Requests)

=============================================================================
