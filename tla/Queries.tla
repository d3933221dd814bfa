------------------------------- MODULE Queries -------------------------------
(***************************************************************************)
(* The HTTP queries that read the tables of Node while it writes them: the *)
(* pages of blocks with their payouts and the paged history of an address  *)
(* (api.rs, db.rs), with the explorer's list of an address as its client.  *)
(*                                                                         *)
(* A query takes no lock of the chain.  Each of its read transactions sees *)
(* the tables as one write transaction left them; get_blocks_handler runs  *)
(* two, and a history takes a request per page.  Every block of the tree   *)
(* pays its coinbase to the address, so its records are the indexed        *)
(* blocks.                                                                 *)
(***************************************************************************)
EXTENDS Node

CONSTANTS
    PageStarts, \* the `from` of the block pages that are asked for
    PageSize,   \* their `limit`
    TxBatch     \* TX_BATCH, the explorer's `limit`

ASSUME QueriesAssumption == PageStarts \subseteq Nat /\ {PageSize, TxBatch} \subseteq Nat \ {0}

VARIABLE
    client \* the query under way and what it has read so far

queryVars == <<vars, client>>

MinOf(i, j) == IF i <= j THEN i ELSE j
Closed == [at |-> "closed"]
Asking(kind) == up /\ client.at = kind
Ask(answer) == client' = answer /\ UNCHANGED vars

-----------------------------------------------------------------------------
\* get_lottery_payouts_range: the payout records of [from, from + limit).
PayoutsRange(from, limit) == {p \in db.LOTTERY_PAYOUTS : p.at \in from .. from + limit - 1}

\* get_blocks_handler: the first of its read transactions ...
ReadBlocks(from) ==
    /\ Asking("closed")
    /\ Ask([at |-> "blocks", from |-> from, untouched |-> ~InDeepReorg,
            blocks |-> Elements(Rows(db.BLOCKS, from, MinOf(from + PageSize - 1, MaxIndex)))])

\* ... and the second, with the view made of both: each block with the
\* payouts recorded at its index.
ReadPayouts ==
    /\ Asking("blocks")
    /\ LET payouts == PayoutsRange(client.from, PageSize)
       IN  Ask([at |-> "page", untouched |-> client.untouched,
                views |-> {[block |-> b, payouts |-> PayoutsAt(payouts, Index[b])] :
                              b \in client.blocks}])

-----------------------------------------------------------------------------
\* The keys of TX_INDEX for the address: one at each indexed height.
Keys(d) == {Index[b] : b \in d.TX_INDEX}
\* The keys read before i, newest first.
Newer(keys, i) == {j \in keys : j > i}

\* Mutant: a page starts one record late.
MutTransactions(offset, limit) ==
    {i \in Keys(db) : Cardinality(Newer(Keys(db), i)) \in offset + 1 .. offset + limit}

\* get_transactions_for_address: newest first, `limit` records after `offset`.
Transactions(offset, limit) ==
    {i \in Keys(db) : Cardinality(Newer(Keys(db), i)) \in offset .. offset + limit - 1}

OpenAddress ==
    /\ Asking("closed")
    /\ Ask([at |-> "history", offset |-> 0, shown |-> {}, all |-> FALSE,
            kept |-> Keys(db), removed |-> FALSE])

\* loadMoreTxs
LoadMore ==
    /\ Asking("history") /\ ~client.all
    /\ LET txs == Transactions(client.offset, TxBatch)
       IN  Ask([client EXCEPT !.offset = @ + Cardinality(txs),
                              !.shown = @ \cup txs,
                              !.all = Cardinality(txs) < TxBatch])

CloseQuery == client.at # "closed" /\ Ask(Closed)

-----------------------------------------------------------------------------
\* What a step of the node means for the query under way: the records it has
\* to show, and whether a reorg was being written between its two reads.
Rewrites == todo # <<>> /\ Head(todo).op \in {"reorg", "save", "rebuild"}
Overtaken ==
    CASE client.at = "history" ->
            [client EXCEPT !.kept = @ \cap Keys(db)',
                           !.removed = @ \/ ~(Keys(db) \subseteq Keys(db)')]
      [] client.at = "blocks" -> [client EXCEPT !.untouched = @ /\ ~Rewrites]
      [] OTHER -> client

Query ==
    \/ \E from \in PageStarts : ReadBlocks(from)
    \/ ReadPayouts \/ OpenAddress \/ LoadMore \/ CloseQuery

\* A request does not outlive the process; the explorer's list does.
NextServing ==
    \/ Running /\ client' = Overtaken
    \/ (Crash \/ Restart) /\ client' = IF client.at = "blocks" THEN Closed ELSE Overtaken
    \/ Query

SpecServing == Init /\ client = Closed /\ [][NextServing]_queryVars

-----------------------------------------------------------------------------
\* A page shows each block with the draws that block settled, and not with
\* those of a block that had its place on another fork, although blocks and
\* payouts are read apart and the chain moves in between (api.rs:670-682).
\* The exceptions are a reorg written between the two, a torn one, tickets drawn
\* after a restart from a checkpoint, and blocks that a reorg left above its tip,
\* which a page shows as well (666-714: it is not cut at the tip).
PageAgrees ==
    client.at = "page" /\ client.untouched /\ restored = {} /\ ~torn /\ ~Tangled(stray) =>
        \A v \in client.views :
            v.block \in stray \/ v.payouts = PayoutsAt(DrawsOf(PathTo[v.block]), Index[v.block])

\* Blocks that arrive while the pages of a history are read shift the later
\* pages, but nothing that was there all along is skipped, across restarts of
\* the node too, unless a reorg took records out (db.rs:246-283).
HistoryHasNoGap ==
    client.at = "history" /\ client.all /\ ~client.removed => client.kept \subseteq client.shown

=============================================================================
