------------------------------ MODULE MCMempool ------------------------------
(***************************************************************************)
(* Three transfers from A to B, of which A can pay any two, and all three   *)
(* once B's transfer to A is confirmed; until a reorg displaces it.  With   *)
(* room for two of a sender and three in all, the balance or either cap may *)
(* be what refuses a transaction.  In a busy pool the transfers that pay 2  *)
(* wait for one block; like the code's constants (a fee of 2 waits for 59   *)
(* blocks of the 100 before expiry), these let it become eligible in time.  *)
(***************************************************************************)
EXTENDS Mempool, TLC

CONSTANTS A, B

Tx(id, s, r, a, f) == [id |-> id, sender |-> s, receiver |-> r, amount |-> a, fee |-> f]

MCTxs == {Tx(1, A, B, 3, 2), Tx(2, A, B, 1, 4), Tx(3, A, B, 2, 2), Tx(4, B, A, 4, 3)}
MCGenesis == (A :> 10) @@ (B :> 7)

=============================================================================
