------------------------------ MODULE MCNetwork ------------------------------
(***************************************************************************)
(* The tree Network is checked on: two blocks found on genesis at about    *)
(* the same time, one of which a third block extends.  a1 outweighs c1 by  *)
(* its hash only, so a sync may take two different chains for equal.       *)
(*                                                                         *)
(*   g - a1                                                                *)
(*    \                                                                    *)
(*      c1 - c2                                                            *)
(***************************************************************************)
EXTENDS Network, TLC

CONSTANTS g, a1, c1, c2, A, B, C

MCBlocks == {g, a1, c1, c2}
MCParent == (a1 :> g) @@ (c1 :> g) @@ (c2 :> c1)
MCWork == (g :> 1) @@ (a1 :> 2) @@ (c1 :> 1) @@ (c2 :> 2)
MCTargetWork == [b \in MCBlocks |-> 1]

\* Each node knows the next: A subscribes and pushes to B, B to C.
Line == (A :> {B}) @@ (B :> {C}) @@ (C :> {})

=============================================================================
