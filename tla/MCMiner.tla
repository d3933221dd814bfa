------------------------------- MODULE MCMiner -------------------------------
(***************************************************************************)
(* Two nodes, tried in a fixed order, and one transaction, with room for a  *)
(* fork of two blocks to displace one of one; such a fork is also held by   *)
(* a peer the miner does not work for.                                      *)
(***************************************************************************)
EXTENDS Miner

CONSTANTS u, v
MCNodeUrls == <<u, v>>
MCElsewhere == {<<[by |-> "other", txs |-> {}], [by |-> "other", txs |-> {}]>>}

=============================================================================
