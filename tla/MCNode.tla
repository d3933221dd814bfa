------------------------------- MODULE MCNode -------------------------------
(***************************************************************************)
(* The block tree Node is checked on:                                      *)
(*                                                                         *)
(*   g - a1 - a2 - a3 - a4 - a5                                            *)
(*     \    \                                                              *)
(*      \     b2 - b3 - b4                                                 *)
(*        c1                                                               *)
(*                                                                         *)
(* b2 outweighs a2 and a3, and a4 outweighs b2, so a fork can win with     *)
(* fewer blocks and lose again.  c1 outweighs all the others of the upper  *)
(* branch: from a4 or a5 it wins from below the window and leaves rows     *)
(* above itself.  b3 is the heaviest of all but has invalid content: for   *)
(* it a node falls back to b2, on less work, and from a5 with rows left    *)
(* above, from which it can return to a4 below the row of a5.              *)
(***************************************************************************)
EXTENDS NodeRefinement

CONSTANTS g, a1, a2, a3, a4, a5, b2, b3, b4, c1

MCBlocks == {g, a1, a2, a3, a4, a5, b2, b3, b4, c1}
MCParent == (a1 :> g) @@ (a2 :> a1) @@ (a3 :> a2) @@ (a4 :> a3) @@ (a5 :> a4)
            @@ (b2 :> a1) @@ (b3 :> b2) @@ (b4 :> b3) @@ (c1 :> g)
HeavyFork == [b \in MCBlocks |-> CASE b \in {b2, a4} -> 4 [] b = b3 -> 6 [] b = c1 -> 9 [] OTHER -> 1]
MCHashRank == (c1 :> 0) @@ (b3 :> 1) @@ (b2 :> 2) @@ (a4 :> 3) @@ (g :> 4) @@ (a1 :> 5)
              @@ (a2 :> 6) @@ (a3 :> 7) @@ (a5 :> 8) @@ (b4 :> 9)
MCTicketed == {a1, a2, b2, a3, c1}

=============================================================================
