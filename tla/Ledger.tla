------------------------------- MODULE Ledger -------------------------------
(***************************************************************************)
(* The money of the chain (lootcoin-node/src/blockchain.rs, update_state   *)
(* and what it calls): which block bodies are accepted, and what applying  *)
(* one does to balances, the lottery pot, the confirmed signatures and the *)
(* pending tickets.                                                        *)
(*                                                                         *)
(* Headers (linkage, timestamps, proof of work) are not modelled here: a   *)
(* block is offered when it links to the tip.  A signature identifies its  *)
(* transaction, so the transaction record stands for both.  Amounts are    *)
(* unsigned integers of a small width.  The lottery digest is a hash, so   *)
(* which tier a ticket draws is left open.                                 *)
(***************************************************************************)
EXTENDS Integers, Sequences, FiniteSets, SequencesExt

CONSTANTS
    Addresses,      \* strings that occur as sender or receiver
    Decodable,      \* the addresses decode_address accepts
    NoSender,       \* the empty sender of a coinbase
    Transactions,   \* the transactions blocks are built from, coinbases included
    Forged,         \* the transactions whose Ed25519 check fails
    GenesisBalance, \* balances of the genesis block
    GenesisPot,     \* the amount seed_pot puts in the pot
    Divisor,        \* tier -> the divisor of its payout; 0 for a losing draw
    U64Max,         \* largest amount a u64 of the model holds
    MinTxFee,       \* MIN_TX_FEE
    MaxBlockTxs,    \* MAX_BLOCK_TXS
    RevealBlocks,   \* REVEAL_BLOCKS
    MaxOffered,     \* bound of the model: transactions in an offered block
    MaxHeight       \* bound of the model: blocks in the chain

VARIABLES
    chain,                \* bodies of the applied blocks; chain[h] has height h
    balances,             \* address -> coins
    confirmed_signatures, \* the transactions applied so far
    pot,                  \* the lottery pot
    pending_tickets,      \* tickets not yet settled, oldest first
    payouts,              \* settled_payouts_by_block, never drained here
    aborted               \* update_state has called std::process::abort

vars == <<chain, balances, confirmed_signatures, pot, pending_tickets, payouts, aborted>>

Height == Len(chain) + 1

AddSat(a, b) == IF a + b > U64Max THEN U64Max ELSE a + b
SubSat(a, b) == IF a > b THEN a - b ELSE 0
AddWrap(a, b) == (a + b) % (U64Max + 1)

IsCoinbase(tx) == tx.sender = NoSender
Users(body) == {i \in DOMAIN body : ~IsCoinbase(body[i])}
Credit(bal, a, amount) == [bal EXCEPT ![a] = AddWrap(@, amount)]
Debit(bal, a, amount) == [bal EXCEPT ![a] = @ - amount]

SumOver(S, f(_)) == FoldFunction(+, 0, [x \in S |-> f(x)])
TotalSupply(bal, p) == FoldFunction(+, p, bal)

ASSUME LedgerAssumption ==
    /\ IsFiniteSet(Addresses)
    /\ Decodable \subseteq Addresses
    /\ NoSender \notin Addresses
    /\ {GenesisPot, U64Max, MinTxFee, MaxBlockTxs, MaxOffered, MaxHeight} \subseteq Nat
    /\ \A tier \in DOMAIN Divisor : Divisor[tier] \in Nat
    /\ RevealBlocks \in Nat \ {0}
    /\ GenesisBalance \in [Addresses -> Nat]
    /\ \A t \in Transactions :
        /\ t.sender \in Addresses \cup {NoSender}
        /\ t.receiver \in Addresses
        /\ t.amount \in 0 .. U64Max /\ t.fee \in 0 .. U64Max
    \* 100 million genesis coins and one per block stay far below 2^64
    /\ TotalSupply(GenesisBalance, GenesisPot) + MaxHeight <= U64Max

-----------------------------------------------------------------------------
\* Mutant: the amount of the coinbase is not checked.
MutValidShape(body) ==
    /\ Cardinality(Users(body)) <= MaxBlockTxs
    /\ \A i \in DOMAIN body : i > 1 => ~IsCoinbase(body[i])
    /\ (body # <<>> /\ IsCoinbase(body[1])) =>
          body[1].fee = 0 /\ body[1].receiver \in Decodable

\* Count cap and coinbase rules: at most one coinbase, in first place, worth
\* 0 or 1 coin, without a fee, paid to a decodable address.
ValidShape(body) ==
    /\ Cardinality(Users(body)) <= MaxBlockTxs
    /\ \A i \in DOMAIN body : i > 1 => ~IsCoinbase(body[i])
    /\ (body # <<>> /\ IsCoinbase(body[1])) =>
          /\ body[1].amount <= 1
          /\ body[1].fee = 0
          /\ body[1].receiver \in Decodable

\* Mutants of PreValid: what earlier transactions of the block spend is not
\* deducted; a repetition within the block is not noticed.
MutNotDebited(body, i) ==
    LET tx == body[i]
    IN  /\ tx \notin Forged
        /\ tx.fee >= MinTxFee
        /\ tx.receiver \in Decodable
        /\ tx \notin confirmed_signatures
        /\ \A j \in {k \in Users(body) : k < i} : body[j] # tx
        /\ tx.amount + tx.fee <= U64Max
        /\ balances[tx.sender] >= tx.amount + tx.fee
MutRepeated(body, i) ==
    LET tx == body[i]
        debited == SumOver({j \in Users(body) : j < i /\ body[j].sender = tx.sender},
                           LAMBDA j : body[j].amount + body[j].fee)
    IN  /\ tx \notin Forged
        /\ tx.fee >= MinTxFee
        /\ tx.receiver \in Decodable
        /\ tx \notin confirmed_signatures
        /\ tx.amount + tx.fee <= U64Max
        /\ SubSat(balances[tx.sender], debited) >= tx.amount + tx.fee

\* Pre-validation of the i-th transaction against the state before the block:
\* what the sender's earlier transactions in this block spend is deducted,
\* what anyone receives in this block is not yet there.
PreValid(body, i) ==
    LET tx == body[i]
        earlier == {j \in Users(body) : j < i}
        debited == SumOver({j \in earlier : body[j].sender = tx.sender},
                           LAMBDA j : body[j].amount + body[j].fee)
    IN  /\ tx \notin Forged
        /\ tx.fee >= MinTxFee
        /\ tx.receiver \in Decodable
        /\ tx \notin confirmed_signatures
        /\ \A j \in earlier : body[j] # tx
        /\ tx.amount + tx.fee <= U64Max
        /\ SubSat(balances[tx.sender], debited) >= tx.amount + tx.fee

ValidBody(body) ==
    /\ ValidShape(body)
    /\ \A i \in Users(body) : PreValid(body, i)

-----------------------------------------------------------------------------
\* The money part of the state, as the steps of update_state hand it on.
State == [bal |-> balances, pot |-> pot, sigs |-> confirmed_signatures, paid |-> <<>>]

\* The pending tickets, those that mature with this block put apart.
Matures(t) == t.created_height + RevealBlocks = Height
PutApart(acc, t) ==
    IF Matures(t) THEN [acc EXCEPT !.due = Append(@, t)] ELSE [acc EXCEPT !.rest = Append(@, t)]
Apart == FoldLeft(PutApart, [due |-> <<>>, rest |-> <<>>], pending_tickets)
ToSettle == Apart.due
StillPending == Apart.rest

\* compute_ticket_reward: a flat fraction of the pot, nothing for a losing draw.
Reward(p, tier) == IF Divisor[tier] = 0 THEN 0 ELSE p \div Divisor[tier]

\* Settle one ticket: the payout leaves the pot for the ticket's miner.
Settle(s, ticket, tier) ==
    LET reward == Reward(s.pot, tier)
        payout == IF reward < s.pot THEN reward ELSE s.pot
    IN  IF payout = 0 THEN s
        ELSE [s EXCEPT !.bal = Credit(@, ticket.miner, payout),
                       !.pot = @ - payout,
                       !.paid = Append(@, [receiver |-> ticket.miner, amount |-> payout])]

\* Settle every maturing ticket, in order, the i-th one drawing tiers[i].
SettleAll(s, tickets, tiers) ==
    FoldLeft(LAMBDA acc, i : Settle(acc, tickets[i], tiers[i]), s,
             [i \in DOMAIN tickets |-> i])

\* apply_transaction: a user transaction its sender cannot pay for is
\* silently skipped and its signature is not recorded.
ApplyTransaction(s, tx) ==
    LET total == tx.amount + tx.fee
    IN  IF IsCoinbase(tx) THEN [s EXCEPT !.bal = Credit(@, tx.receiver, tx.amount)]
        ELSE IF total > U64Max \/ s.bal[tx.sender] < total THEN s
        ELSE [s EXCEPT !.bal = Credit(Debit(@, tx.sender, total), tx.receiver, tx.amount),
                       !.pot = AddSat(@, tx.fee),
                       !.sigs = @ \cup {tx}]

\* The miner of a block is the receiver of its coinbase, if it has one.
HasMiner(body) == body # <<>> /\ IsCoinbase(body[1])
Minted(body) == IF HasMiner(body) THEN body[1].amount ELSE 0
Fees(body) == SumOver(Users(body), LAMBDA i : body[i].fee)

\* Mutant: the miner's half is rounded up.
MutSplitFees(s, body) ==
    LET share == (Fees(body) + 1) \div 2
    IN  IF share > 0 /\ HasMiner(body)
        THEN [s EXCEPT !.bal = Credit(@, body[1].receiver, share),
                       !.pot = SubSat(@, share)]
        ELSE s

\* Half of the block's fees, rounded down, goes from the pot to the miner.
SplitFees(s, body) ==
    LET share == Fees(body) \div 2
    IN  IF share > 0 /\ HasMiner(body)
        THEN [s EXCEPT !.bal = Credit(@, body[1].receiver, share),
                       !.pot = SubSat(@, share)]
        ELSE s

\* The two post-conditions update_state aborts on: every user transaction was
\* applied, and the supply moved by exactly what the coinbase mints.
AllApplied(s, body) == \A i \in Users(body) : body[i] \in s.sigs
Conserved(s, body) == TotalSupply(s.bal, s.pot) = TotalSupply(balances, pot) + Minted(body)

\* Mutants: a coinbase alone earns a ticket; the ticket is the first sender's.
MutTicketAlways(body) ==
    IF HasMiner(body)
    THEN <<[miner |-> body[1].receiver, created_height |-> Height]>>
    ELSE <<>>
NewTicket(body) ==
    IF Users(body) # {} /\ HasMiner(body)
    THEN <<[miner |-> body[1].receiver, created_height |-> Height]>>
    ELSE <<>>

\* update_state on a block that links to the tip; a body that is not valid
\* leaves the state alone and is not a step.
UpdateState(body) ==
    /\ ~aborted
    /\ Len(chain) < MaxHeight
    /\ ValidBody(body)
    /\ \E tiers \in [DOMAIN ToSettle -> DOMAIN Divisor] :
        LET settled == SettleAll(State, ToSettle, tiers)
            applied == FoldLeft(ApplyTransaction, settled, body)
            final == SplitFees(applied, body)
        IN  IF AllApplied(applied, body) /\ Conserved(final, body)
            THEN /\ chain' = Append(chain, body)
                 /\ balances' = final.bal
                 /\ pot' = final.pot
                 /\ confirmed_signatures' = final.sigs
                 /\ pending_tickets' = StillPending \o NewTicket(body)
                 /\ payouts' = Append(payouts, settled.paid)
                 /\ UNCHANGED aborted
            ELSE /\ aborted' = TRUE
                 /\ UNCHANGED <<chain, balances, confirmed_signatures, pot,
                                pending_tickets, payouts>>

Init ==
    /\ chain = <<>>
    /\ balances = GenesisBalance
    /\ confirmed_signatures = {}
    /\ pot = GenesisPot
    /\ pending_tickets = <<>>
    /\ payouts = <<>>
    /\ aborted = FALSE

Bodies == UNION {[1 .. n -> Transactions] : n \in 0 .. MaxOffered}

Next == \E body \in Bodies : UpdateState(body)

Spec == Init /\ [][Next]_vars

-----------------------------------------------------------------------------
\* Pre-validation against the state before the block is strong enough: the
\* abort post-conditions of update_state (blockchain.rs:682-695, 708-731)
\* never fire, whatever is settled and credited inside the block.
NeverAborts == ~aborted

\* New coins come only from coinbases, at most one coin per block
\* (blockchain.rs:555-558): fees, the fee split and payouts move coins.
EmissionBounded ==
    TotalSupply(balances, pot) <= TotalSupply(GenesisBalance, GenesisPot) + Len(chain)

\* A signature is confirmed at most once in the whole chain, within a block
\* or across blocks (blockchain.rs:597-602).
Positions == {p \in (1 .. Len(chain)) \X (1 .. MaxOffered) : p[2] \in Users(chain[p[1]])}
NoReplay ==
    \A p, q \in Positions : chain[p[1]][p[2]] = chain[q[1]][q[2]] => p = q

\* The books follow the trail: every balance is what the genesis block, the
\* transactions, the fee shares and the recorded payouts add up to.
Received(a) == SumOver(DOMAIN chain,
    LAMBDA h : SumOver({i \in DOMAIN chain[h] : chain[h][i].receiver = a},
                       LAMBDA i : chain[h][i].amount))
Sent(a) == SumOver(DOMAIN chain,
    LAMBDA h : SumOver({i \in DOMAIN chain[h] : chain[h][i].sender = a},
                       LAMBDA i : chain[h][i].amount + chain[h][i].fee))
Shares(a) == SumOver({h \in DOMAIN chain : HasMiner(chain[h]) /\ chain[h][1].receiver = a},
                     LAMBDA h : Fees(chain[h]) \div 2)
Won(a) == SumOver(DOMAIN payouts,
    LAMBDA h : SumOver({i \in DOMAIN payouts[h] : payouts[h][i].receiver = a},
                       LAMBDA i : payouts[h][i].amount))
BooksMatchTrail ==
    \A a \in Addresses :
        balances[a] = GenesisBalance[a] + Received(a) - Sent(a) + Shares(a) + Won(a)

\* The pending tickets are exactly those of the miners of the last
\* RevealBlocks blocks that carry a user transaction, oldest first.
EarnedAt(h) ==
    IF HasMiner(chain[h]) /\ Users(chain[h]) # {}
    THEN <<[miner |-> chain[h][1].receiver, created_height |-> h]>>
    ELSE <<>>
TicketsFollowChain ==
    pending_tickets =
        FlattenSeq([h \in DOMAIN chain |->
                      IF h + RevealBlocks >= Height THEN EarnedAt(h) ELSE <<>>])

=============================================================================
