-------------------------------- MODULE Mempool --------------------------------
(***************************************************************************)
(* The pending transactions of one node: mempool.rs with its MEMPOOL       *)
(* table, the ways in of api.rs (relay_tx_inner for transactions, which    *)
(* submit_transaction_handler repeats, apply_incoming_block for blocks),   *)
(* the way past them of sync_from_peers, the restore of main.rs, and a     *)
(* miner that builds blocks from the pool.                                 *)
(*                                                                         *)
(* The chain is what the pool sees of it: the confirmed transactions, from *)
(* which balances follow (a miner's income and the lottery are left out),  *)
(* and the body of the last block, which a reorg can displace.  The pool   *)
(* keeps for each transaction the height it was added at; the model keeps  *)
(* its age, the height minus that, which stops counting once expired.      *)
(*                                                                         *)
(* apply_incoming_block holds the chain's write lock from apply_block to   *)
(* the end of the pool's maintenance, so no other intake runs in between;  *)
(* each call of the maintenance commits write transactions of its own, and *)
(* the process may die between them.  `handler` holds the handler's locals:*)
(* the displaced transactions, those of them still to be re-added, and the *)
(* new blocks still to be removed from the pool.                           *)
(***************************************************************************)
EXTENDS Integers, Sequences, FiniteSets, Functions

CONSTANTS
    Txs,            \* user transactions: [id, sender, receiver, amount, fee]
    Accounts,
    GenesisBalance,
    MaxMempoolSize, \* MAX_MEMPOOL_SIZE
    MaxPerSender,   \* MAX_PENDING_PER_SENDER
    TxExpiryBlocks, \* TX_EXPIRY_BLOCKS
    MaxBlockTxs,    \* MAX_BLOCK_TXS
    GuaranteeAfter  \* GUARANTEE_AFTER

VARIABLES
    confirmed, \* confirmed_signatures of the canonical chain
    tip,       \* user transactions of its last block
    pool,      \* Mempool.entries: pending transaction -> age
    table,     \* the MEMPOOL table: stored transaction -> age
    handler,   \* apply_incoming_block: what it has still to do, and its blocks
    up,        \* the process runs
    hurt,      \* history: senders whose balance may have fallen past the pool, or
               \* with rows that a restart left in the table
    bypassed   \* history: pending transactions that sync has confirmed

vars == <<confirmed, tip, pool, table, handler, up, hurt, bypassed>>

Cost(t) == t.amount + t.fee

ASSUME MempoolAssumption ==
    /\ IsFiniteSet(Txs)
    /\ GenesisBalance \in [Accounts -> Nat]
    /\ \A t \in Txs :
        /\ t.sender \in Accounts /\ t.receiver \in Accounts /\ t.sender # t.receiver
        /\ t.amount \in Nat /\ t.fee \in Nat \ {0}
    /\ {MaxMempoolSize, MaxPerSender, TxExpiryBlocks, MaxBlockTxs, GuaranteeAfter} \subseteq Nat \ {0}

-----------------------------------------------------------------------------
SumOver(S, f(_)) == FoldFunction(+, 0, [x \in S |-> f(x)])
MinOf(a, b) == IF a <= b THEN a ELSE b

\* get_balance on a chain that confirmed `done`
Balance(done, a) ==
    GenesisBalance[a] + SumOver({t \in done : t.receiver = a}, LAMBDA t : t.amount)
                      - SumOver({t \in done : t.sender = a}, Cost)

\* update_state accepts this body on top of `done`
ValidBody(done, body) ==
    /\ Cardinality(body) <= MaxBlockTxs
    /\ body \cap done = {}
    /\ \A a \in Accounts : SumOver({t \in body : t.sender = a}, Cost) <= Balance(done, a)

Pending == DOMAIN pool
PendingOf(p, a) == {t \in DOMAIN p : t.sender = a}
PendingDebit(p, a) == SumOver(PendingOf(p, a), Cost)

NoEntries == [t \in {} |-> 0]
Without(p, S) == Restrict(p, DOMAIN p \ S)
Insert(p, t) == [u \in DOMAIN p \cup {t} |-> IF u = t THEN 0 ELSE p[u]]
Expired(age) == age > TxExpiryBlocks
Aged(p) == [t \in DOMAIN p |-> MinOf(p[t] + 1, TxExpiryBlocks + 1)]

WithinCaps(p) ==
    /\ Cardinality(DOMAIN p) <= MaxMempoolSize
    /\ \A a \in Accounts : Cardinality(PendingOf(p, a)) <= MaxPerSender

\* Mutant: one entry too many for a sender.
MutHasRoom(p, t) ==
    /\ t \notin DOMAIN p
    /\ Cardinality(PendingOf(p, t.sender)) <= MaxPerSender
    /\ Cardinality(DOMAIN p) < MaxMempoolSize

\* Room under both caps for a transaction that is not pending.
HasRoom(p, t) ==
    /\ t \notin DOMAIN p
    /\ Cardinality(PendingOf(p, t.sender)) < MaxPerSender
    /\ Cardinality(DOMAIN p) < MaxMempoolSize

\* Mutant: what the sender has pending is not deducted.
MutAffordable(p, t) == Balance(confirmed, t.sender) >= Cost(t)

\* The sender can pay for t on top of everything it has pending in p.
Affordable(p, t) == Balance(confirmed, t.sender) - PendingDebit(p, t.sender) >= Cost(t)

Idle == [busy |-> FALSE, old |-> {}, left |-> {}, new |-> <<>>]
Handling(old, new) == [busy |-> TRUE, old |-> old, left |-> old, new |-> new]
Ready == up /\ handler = Idle

-----------------------------------------------------------------------------
\* validate_transaction_state: no replay, and covered by the balance alone.
ValidState(t) == t \notin confirmed /\ Balance(confirmed, t.sender) >= Cost(t)

\* Both ways in check the same in the same order, and hold the chain's read
\* lock through the insert.
Admit(t) ==
    /\ Ready
    /\ ValidState(t)
    /\ Affordable(pool, t)
    /\ HasRoom(pool, t)
    /\ pool' = Insert(pool, t)
    /\ table' = Insert(table, t)
    /\ UNCHANGED <<confirmed, tip, handler, up, hurt, bypassed>>

\* relay_tx_inner, for peers and the faucet; submit_transaction_handler, for
\* wallets.
Relay(t) == Admit(t)
Submit(t) == Admit(t)

\* Mutant: the displaced block stays in sight.
MutChainMoves(done, body) ==
    /\ confirmed' = done
    /\ tip' = tip \cup body
    /\ pool' = Aged(pool)
    /\ table' = Aged(table)

\* The chain moves on by one block; added_height stays, so everything ages.
ChainMoves(done, body) ==
    /\ confirmed' = done
    /\ tip' = body
    /\ pool' = Aged(pool)
    /\ table' = Aged(table)

Senders(S) == {t.sender : t \in S}

\* apply_incoming_block, Applied
ReceiveBlock(body) ==
    /\ Ready
    /\ ValidBody(confirmed, body)
    /\ ChainMoves(confirmed \cup body, body)
    /\ handler' = Handling({}, <<body>>)
    /\ hurt' = hurt \cup Senders(body \ Pending)
    /\ UNCHANGED <<up, bypassed>>

\* Two fork blocks displace the last block.
ForkFits(first, second) ==
    /\ ValidBody(confirmed \ tip, first)
    /\ ValidBody((confirmed \ tip) \cup first, second)

\* apply_incoming_block, Reorged
ReceiveReorg(first, second) ==
    LET new == first \cup second
    IN  /\ Ready
        /\ ForkFits(first, second)
        /\ ChainMoves((confirmed \ tip) \cup new, second)
        /\ handler' = Handling(tip, <<first, second>>)
        /\ hurt' = hurt \cup Senders(new \ (tip \cup Pending))
                        \cup {t.receiver : t \in tip \ new}
        /\ UNCHANGED <<up, bypassed>>

\* readd_displaced: one transaction, and one write, at a time.
ReaddOne(p, t) == IF HasRoom(p, t) /\ Affordable(p, t) THEN Insert(p, t) ELSE p
\* Mutant: what is re-added is not stored.
MutReadd(t) ==
    /\ pool' = ReaddOne(pool, t)
    /\ handler' = [handler EXCEPT !.left = @ \ {t}]
    /\ UNCHANGED <<confirmed, tip, table, up, hurt, bypassed>>

Readd(t) ==
    /\ pool' = ReaddOne(pool, t)
    /\ table' = IF pool' = pool THEN table ELSE Insert(table, t)
    /\ handler' = [handler EXCEPT !.left = @ \ {t}]
    /\ UNCHANGED <<confirmed, tip, up, hurt, bypassed>>

\* Mutant: only the transactions of the block that triggered the reorg go.
MutRemoveIncluded ==
    /\ handler.left = {} /\ handler.new # <<>>
    /\ LET S == Pending \cap tip
       IN  /\ pool' = Without(pool, S)
           /\ table' = Without(table, S)
    /\ handler' = [handler EXCEPT !.new = Tail(@)]
    /\ UNCHANGED <<confirmed, tip, up, hurt, bypassed>>

\* remove_included, block by block: the rows that go are those of entries in
\* memory.
RemoveIncluded ==
    /\ handler.left = {} /\ handler.new # <<>>
    /\ LET S == Pending \cap Head(handler.new)
       IN  /\ pool' = Without(pool, S)
           /\ table' = Without(table, S)
    /\ handler' = [handler EXCEPT !.new = Tail(@)]
    /\ UNCHANGED <<confirmed, tip, up, hurt, bypassed>>

\* evict_expired
Integrated == handler.busy /\ handler.left = {} /\ handler.new = <<>>
EvictExpired ==
    /\ Integrated
    /\ LET S == {t \in Pending : Expired(pool[t])}
       IN  /\ pool' = Without(pool, S)
           /\ table' = Without(table, S)
           /\ bypassed' = bypassed \ S
    /\ handler' = Idle
    /\ UNCHANGED <<confirmed, tip, up, hurt>>

\* sync_from_peers: apply_block, and nothing for the pool.
SyncMoves(done, body, new) ==
    /\ Ready
    /\ ChainMoves(done, body)
    /\ bypassed' = bypassed \cup (new \cap Pending)
    /\ UNCHANGED <<handler, up>>
SyncBlock(body) ==
    /\ ValidBody(confirmed, body)
    /\ SyncMoves(confirmed \cup body, body, body)
    /\ hurt' = hurt \cup Senders(body)

\* The process dies.
Crash ==
    /\ up
    /\ up' = FALSE
    /\ pool' = NoEntries
    /\ handler' = Idle
    /\ bypassed' = {}
    /\ UNCHANGED <<confirmed, tip, table, hurt>>

\* main.rs: rows already confirmed or expired are not restored, and are not
\* removed either.  Of the others, taken one by one while there is room, any
\* set may be restored that leaves no room for the rest.
Restorable == {t \in DOMAIN table : t \notin confirmed /\ ~Expired(table[t])}
Restored(p) ==
    /\ WithinCaps(p)
    /\ \A t \in Restorable \ DOMAIN p : ~HasRoom(p, t)
Restart ==
    /\ ~up
    /\ up' = TRUE
    /\ \E S \in SUBSET Restorable : pool' = Restrict(table, S)
    /\ Restored(pool')
    /\ hurt' = hurt \cup Senders(DOMAIN table \ DOMAIN pool')
    /\ UNCHANGED <<confirmed, tip, table, handler, bypassed>>

-----------------------------------------------------------------------------
\* The miner: everything when it fits in a block, otherwise the eligible
\* transactions with the highest fees.
EligibleAfter(t) ==
    LET q == GuaranteeAfter \div t.fee IN IF q = 0 THEN 0 ELSE q - 1
Eligible == {t \in Pending : pool[t] >= EligibleAfter(t)}
Busy == Cardinality(Pending) > MaxBlockTxs

\* Mutant: a busy pool is not cut down to a block.
MutTemplates == IF ~Busy THEN {Pending} ELSE {Eligible}

Templates ==
    IF ~Busy THEN {Pending}
    ELSE {S \in SUBSET Eligible :
            /\ Cardinality(S) = MinOf(MaxBlockTxs, Cardinality(Eligible))
            /\ \A t \in S, u \in Eligible \ S : t.fee >= u.fee}

\* A busy pool in which nothing is eligible yet: the miner waits.
Waiting == Busy /\ Eligible = {}

Mine == ~Waiting /\ \E body \in Templates : ReceiveBlock(body)

Bodies == {S \in SUBSET Txs : Cardinality(S) <= MaxBlockTxs}

Init ==
    /\ confirmed = {} /\ tip = {}
    /\ pool = NoEntries /\ table = NoEntries
    /\ handler = Idle
    /\ up = TRUE
    /\ hurt = {} /\ bypassed = {}

Maintain == (\E t \in handler.left : Readd(t)) \/ RemoveIncluded \/ EvictExpired

Next ==
    \/ \E t \in Txs : Relay(t) \/ Submit(t)
    \/ \E body \in Bodies : ReceiveBlock(body) \/ SyncBlock(body)
    \/ \E first, second \in Bodies : ReceiveReorg(first, second)
    \/ Maintain
    \/ Mine
    \/ Crash
    \/ Restart

\* The maintenance of a block runs to its end, and the miner, as long as its
\* template is acceptable, finds a block at some point.
Fairness == WF_vars(Maintain) /\ WF_vars(Mine)

Spec == Init /\ [][Next]_vars /\ Fairness

-----------------------------------------------------------------------------
Ages == 0 .. (TxExpiryBlocks + 1)
Entries == UNION {[S -> Ages] : S \in SUBSET Txs}

TypeOK ==
    /\ confirmed \subseteq Txs /\ tip \subseteq confirmed
    /\ pool \in Entries /\ table \in Entries
    /\ handler \in [busy : BOOLEAN, old : SUBSET Txs, left : SUBSET Txs,
                    new : Seq(SUBSET Txs)]
    /\ up \in BOOLEAN
    /\ hurt \subseteq Accounts /\ bypassed \subseteq Txs

\* Neither cap is passed by any way in: relay, reorg or restore
\* (mempool.rs:6-10).
CapsHold == WithinCaps(pool)

\* With the maintenance done, nothing pending is confirmed on the chain, in
\* whichever of the blocks of a reorg it was (api.rs:336-339), unless sync
\* confirmed it behind the pool's back.
NoConfirmedPending == Ready => Pending \cap confirmed \subseteq bypassed

\* A crash loses nothing that is pending: every entry has its row, with the
\* same height (mempool.rs write-through).
Persisted == IsRestriction(pool, table)

\* The node can pay for its whole pool, sender by sender, except for senders
\* whose balance a block lowered without passing through the pool: then the
\* pool keeps what can never be included together (api.rs:388-391).
AffordableUnlessHurt ==
    Ready => \A a \in Accounts \ hurt : PendingDebit(pool, a) <= Balance(confirmed, a)

Sound == hurt = {} /\ bypassed = {}
Cheapest == CHOOSE t \in Txs : \A u \in Txs : t.fee <= u.fee

\* As long as every confirmed transaction passed through the pool, not even one
\* that pays least stays pending for ever: it is mined or expires, or the miner
\* waits for ever (miner main.rs:376-431).
DrainsUnlessWaiting ==
    []Sound => (Cheapest \in Pending ~> Cheapest \notin Pending \/ Waiting)

=============================================================================
