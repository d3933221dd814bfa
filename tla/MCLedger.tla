------------------------------ MODULE MCLedger ------------------------------
(***************************************************************************)
(* A small economy for Ledger: a funded user u1, a user u2 who starts with *)
(* little, a miner m, and a string that is no address.  Amounts have 5     *)
(* bits.                                                                   *)
(***************************************************************************)
EXTENDS Ledger

CONSTANTS u1, u2, m, garbage, nobody

MCAddresses == {u1, u2, m, garbage}
MCDecodable == {u1, u2, m}
MCGenesisBalance == (u1 :> 7) @@ (u2 :> 0) @@ (m :> 0) @@ (garbage :> 0)
MCDivisor == [none |-> 0, small |-> 3, jackpot |-> 1]

Tx(s, r, a, f) == [sender |-> s, receiver |-> r, amount |-> a, fee |-> f]

MCForged == {Tx(m, u2, 1, 2)}
\* User transactions that fit, overdraw together, spend what the same block
\* brings, overflow, pay no fee, or pay a string that is no address; coinbases
\* within and outside the rules.
MCTransactions ==
    {Tx(u1, u2, 3, 1), Tx(u1, u2, 2, 1), Tx(u1, m, 1, 2), Tx(u2, u1, 0, 2), Tx(u2, u2, 1, 1), Tx(u2, u1, 1, 31),
     Tx(u1, u2, 1, 0), Tx(u1, garbage, 0, 1),
     Tx(nobody, m, 1, 0), Tx(nobody, m, 2, 0), Tx(nobody, garbage, 1, 0)} \cup MCForged

=============================================================================
