------------------------------ MODULE MCQueries ------------------------------
(***************************************************************************)
(* The node with crashes between its writes, and a client that reads its   *)
(* tables meanwhile, on the block tree                                     *)
(*                                                                         *)
(*   g - a1 - a2 - a3                                                      *)
(*     \    \                                                              *)
(*      \     b2 - b3                                                      *)
(*        c1     \                                                         *)
(*                 x3                                                      *)
(*                                                                         *)
(* in which b2 and b3 outweigh a2, a2 and a3 outweigh them, and x3, with   *)
(* invalid content, makes a node leave a3 for b2, on less work.  c1 wins   *)
(* from below the window and leaves rows above itself.  A page holds two   *)
(* blocks, from the last height but one; a history is read three records   *)
(* at a time.                                                              *)
(***************************************************************************)
EXTENDS Queries

CONSTANTS g, a1, a2, a3, b2, b3, x3, c1

MCBlocks == {g, a1, a2, a3, b2, b3, x3, c1}
MCParent == (a1 :> g) @@ (a2 :> a1) @@ (a3 :> a2) @@ (b2 :> a1) @@ (b3 :> b2) @@ (x3 :> b2)
            @@ (c1 :> g)
MCWork == [b \in MCBlocks |-> CASE b = a3 -> 2 [] b = x3 -> 4 [] b = c1 -> 5 [] OTHER -> 1]
MCHashRank == (c1 :> 0) @@ (x3 :> 1) @@ (a3 :> 2) @@ (g :> 3) @@ (b2 :> 4) @@ (a1 :> 5)
              @@ (a2 :> 6) @@ (b3 :> 7)
MCTicketed == {a1, a2, b2}

=============================================================================
