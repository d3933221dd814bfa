-------------------------------- MODULE Node --------------------------------
(***************************************************************************)
(* One node's chain in memory and on disk: the sliding window, the orphan  *)
(* pool, fork choice and reorg of lootcoin-node/src/blockchain.rs, the     *)
(* write transactions of db.rs, and the startup of main.rs.                *)
(*                                                                         *)
(* The blocks that can ever arrive form a fixed tree.  A block stands for  *)
(* its hash and its content; whether update_state accepts the content is   *)
(* a property of the block, since its hash fixes the whole chain below it. *)
(* Balances, signatures and the pot are a fold over the applied blocks and *)
(* the lottery draws, so `ledger` keeps those two and stands for them.     *)
(*                                                                         *)
(* apply_block holds the chain's write lock while it updates memory and    *)
(* then runs its write transactions one after the other.  Each transaction *)
(* is atomic, the sequence is not: `todo` holds what is still to be        *)
(* written, and the process may die between any two of them.               *)
(***************************************************************************)
EXTENDS Integers, Sequences, FiniteSets, SequencesExt

CONSTANTS
    Blocks,              \* every block that can arrive, and the genesis block
    Genesis,
    NoBlock,
    Parent,              \* block -> the block its previous_hash names
    Work,                \* block -> block_work: 2 to the leading zero bits of its hash
    HashRank,            \* block -> rank of its hash; more work is a smaller hash
    Ticketed,            \* blocks with a user transaction and a coinbase
    Invalid,             \* blocks whose content update_state rejects
    RevealBlocks,        \* REVEAL_BLOCKS
    ReorgWindow,         \* REORG_WINDOW
    CheckpointInterval,  \* CHECKPOINT_INTERVAL
    MaxOrphanDepth,      \* MAX_ORPHAN_DEPTH
    MaxOrphansPerHeight, \* MAX_ORPHANS_PER_HEIGHT
    MaxOrphanPool        \* MAX_ORPHAN_POOL_SIZE

Mined == Blocks \ {Genesis}

ASSUME NodeAssumption ==
    /\ Genesis \in Blocks /\ NoBlock \notin Blocks
    /\ IsFiniteSet(Blocks)
    /\ Parent \in [Mined -> Blocks]
    /\ \A S \in SUBSET Mined : S # {} => \E b \in S : Parent[b] \notin S
    /\ Work \in [Blocks -> Nat \ {0}]
    /\ HashRank \in [Blocks -> Nat]
    /\ \A a, b \in Blocks : Work[a] > Work[b] => HashRank[a] < HashRank[b]
    /\ Ticketed \subseteq Mined /\ Invalid \subseteq Mined
    /\ RevealBlocks \in Nat \ {0}
    /\ ReorgWindow \in Nat /\ ReorgWindow >= RevealBlocks
    /\ CheckpointInterval \in Nat \ {0}
    /\ {MaxOrphanDepth, MaxOrphansPerHeight, MaxOrphanPool} \subseteq Nat \ {0}

VARIABLES
    chain,   \* the Blockchain value in memory
    db,      \* the tables BLOCKS, TX_INDEX, TICKETS, LOTTERY_PAYOUTS, CHECKPOINTS
    todo,    \* write transactions apply_block has yet to run
    up,      \* the process runs
    restored, \* history: checkpoint heights this node was restored from
    torn,     \* history: the process died inside the writes of a deep reorg
    stray     \* history: blocks a reorg left in the tables without being on their path

vars == <<chain, db, todo, up, restored, torn, stray>>

-----------------------------------------------------------------------------
\* The tree.
Index[b \in Blocks] == IF b = Genesis THEN 0 ELSE Index[Parent[b]] + 1
Heights == {Index[b] : b \in Blocks}
PathTo[b \in Blocks] == IF b = Genesis THEN <<b>> ELSE Append(PathTo[Parent[b]], b)

\* The block at height i of the path to b, and a path of accepted blocks.
At(b, i) == PathTo[b][i + 1]
Valid(b) == \A i \in 1 .. Index[b] : At(b, i) \notin Invalid

TotalWork(S) == FoldFunction(+, 0, [b \in S |-> Work[b]])
Elements(seq) == {seq[i] : i \in DOMAIN seq}

-----------------------------------------------------------------------------
\* The chain in memory.
GenesisChain ==
    [blocks |-> <<Genesis>>, blocks_offset |-> 0, block_hashes |-> {Genesis},
     orphan_pool |-> {}, pending_tickets |-> {}, settled |-> {},
     ledger |-> [applied |-> <<Genesis>>, drawn |-> {}]]

Height(c) == c.blocks_offset + Len(c.blocks)
Tip(c) == Last(c.blocks)

LinksToTip(c, b) == Index[b] = Height(c) /\ Parent[b] = Tip(c)
Accepts(c, b) == LinksToTip(c, b) /\ b \notin Invalid

\* Mutant: the reveal window starts one block late.
MutDraw(c, t) ==
    [ticket |-> t,
     at |-> Index[t] + RevealBlocks,
     entropy |-> SubSeq(c.blocks, Index[t] - c.blocks_offset + 2,
                        Index[t] - c.blocks_offset + RevealBlocks)]

\* compute_ticket_reward for the ticket of block t: the blocks of the reveal
\* window that are in memory; the others are skipped.
Draw(c, t) ==
    LET from == Index[t] - c.blocks_offset + 1
    IN  [ticket |-> t,
         at |-> Index[t] + RevealBlocks,
         entropy |-> SubSeq(c.blocks, IF from < 1 THEN 1 ELSE from, from + RevealBlocks - 1)]

\* Mutant: settlement fires one block late.
MutMature(c) == {t \in c.pending_tickets : Index[t] + RevealBlocks + 1 = Height(c)}
Mature(c) == {t \in c.pending_tickets : Index[t] + RevealBlocks = Height(c)}

\* update_state on a block it accepts.
UpdateState(c, b) ==
    LET draws == {Draw(c, t) : t \in Mature(c)}
    IN  [c EXCEPT !.blocks = Append(@, b),
                  !.block_hashes = @ \cup {b},
                  !.pending_tickets = (@ \ Mature(c)) \cup ({b} \cap Ticketed),
                  !.settled = @ \cup draws,
                  !.ledger = [applied |-> Append(@.applied, b), drawn |-> @.drawn \cup draws]]

\* Replay stops at the first block that is not accepted: the ones after it
\* no longer link.
ReplayBlock(c, b) == IF Accepts(c, b) THEN UpdateState(c, b) ELSE c
Replay(c, blocks) == FoldLeft(ReplayBlock, c, blocks)

\* prune_to_window
PruneToWindow(c) ==
    LET drop == Len(c.blocks) - ReorgWindow
        offset == c.blocks_offset + drop
    IN  IF drop <= 0 THEN c
        ELSE [c EXCEPT !.blocks = SubSeq(@, drop + 1, Len(@)),
                       !.block_hashes = @ \ Elements(SubSeq(c.blocks, 1, drop)),
                       !.blocks_offset = offset,
                       !.settled = {d \in @ : d.at >= offset}]

-----------------------------------------------------------------------------
\* Orphans.  The pool evicts its lowest block when full, then the smallest
\* hash at the new block's height when that height is full.
PoolsWithRoom(pool) ==
    IF Cardinality(pool) < MaxOrphanPool THEN {pool}
    ELSE {pool \ {e} : e \in {o \in pool : \A p \in pool : Index[o] <= Index[p]}}

\* Mutant: the height is full one orphan too late.
MutEvictAtHeight(pool, b) ==
    LET peers == {o \in pool : Index[o] = Index[b]}
    IN  IF Cardinality(peers) <= MaxOrphansPerHeight THEN pool
        ELSE pool \ {CHOOSE o \in peers : \A p \in peers : HashRank[o] <= HashRank[p]}

EvictAtHeight(pool, b) ==
    LET peers == {o \in pool : Index[o] = Index[b]}
    IN  IF Cardinality(peers) < MaxOrphansPerHeight THEN pool
        ELSE pool \ {CHOOSE o \in peers : \A p \in peers : HashRank[o] <= HashRank[p]}

\* validate_block_standalone; hash, proof of work and transaction count hold
\* for every block of the tree, the genesis block has no hash.
Standalone(c, b) == Index[b] <= Height(c) + MaxOrphanDepth

\* trace_fork_chain
ForkChain(pool, tip) ==
    LET trace[b \in pool] == IF Parent[b] \in pool THEN Append(trace[Parent[b]], b) ELSE <<b>>
    IN  trace[tip]

\* The rows of BLOCKS with an index in [from, to], in index order.
RowAt(table, i) == IF table[i] = NoBlock THEN <<>> ELSE <<table[i]>>
Rows(table, from, to) ==
    IF to < from THEN <<>>
    ELSE FlattenSeq([i \in 1 .. (to - from + 1) |-> RowAt(table, from + i - 1)])

\* Where a fork leaves the main chain: in the window, or in a row below it.
HasAncestor(c, fork, table) ==
    \/ Parent[fork[1]] \in c.block_hashes
    \/ /\ Index[fork[1]] - 1 < c.blocks_offset
       /\ table[Index[fork[1]] - 1] = Parent[fork[1]]
Ancestor(fork) == Index[fork[1]] - 1

\* The blocks of the window up to the ancestor, none when it is below the
\* window, and the ones above it.
Kept(c, fork) == SubSeq(c.blocks, 1, Ancestor(fork) - c.blocks_offset + 1)
Displaced(c, fork) ==
    IF Ancestor(fork) < c.blocks_offset THEN <<>>
    ELSE SubSeq(c.blocks, Ancestor(fork) - c.blocks_offset + 2, Len(c.blocks))

\* Work of the main chain above height a, its lower part read from disk.
MainWorkAbove(c, a, table) ==
    TotalWork({b \in Elements(c.blocks) : Index[b] > a}
              \cup Elements(Rows(table, a + 1, c.blocks_offset - 1)))

\* Mutant: forks are compared by length instead of work.
MutHeavierForks(c, table) ==
    LET tips == {o \in c.orphan_pool : \A p \in c.orphan_pool : Parent[p] # o}
    IN  {f \in {ForkChain(c.orphan_pool, t) : t \in tips} :
            HasAncestor(c, f, table) /\ Ancestor(f) + Len(f) >= Height(c)}

\* find_longest_fork: the forks with more work than the main chain above
\* their ancestor, and of those any with the most work.
HeavierForks(c, table) ==
    LET tips == {o \in c.orphan_pool : \A p \in c.orphan_pool : Parent[p] # o}
    IN  {f \in {ForkChain(c.orphan_pool, t) : t \in tips} :
            /\ HasAncestor(c, f, table)
            /\ TotalWork(Elements(f)) > MainWorkAbove(c, Ancestor(f), table)}
BestForks(c, table) ==
    {f \in HeavierForks(c, table) :
        \A g \in HeavierForks(c, table) : TotalWork(Elements(g)) <= TotalWork(Elements(f))}

\* Mutant: the replay starts from the old ledger.
MutReorgKeepsLedger(c, fork, table) ==
    LET canonical == Kept(c, fork) \o fork
        prefix == Rows(table, 0, Index[canonical[1]] - 1)
    IN  Replay([GenesisChain EXCEPT !.ledger = c.ledger], Tail(prefix \o canonical))

\* reorg_to: everything is reset and replayed from genesis; what lies below
\* the window comes from BLOCKS.
ReorgTo(c, fork, table) ==
    LET canonical == Kept(c, fork) \o fork
        prefix == Rows(table, 0, Index[canonical[1]] - 1)
    IN  Replay(GenesisChain, Tail(prefix \o canonical))

\* apply_in_memory: the possible outcomes of offering b to chain c.
ApplyInMemory(c, b, table) ==
    LET pooled == {[c EXCEPT !.orphan_pool = EvictAtHeight(room, b) \cup {b}] :
                      room \in PoolsWithRoom(c.orphan_pool)}
    IN  IF Accepts(c, b)
        THEN {[kind |-> "Applied", chain |-> UpdateState(c, b), old |-> <<>>, new |-> <<b>>]}
        ELSE IF LinksToTip(c, b) \/ ~Standalone(c, b)
        THEN {[kind |-> "Rejected", chain |-> c, old |-> <<>>, new |-> <<>>]}
        ELSE {[kind |-> "Orphaned", chain |-> p, old |-> <<>>, new |-> <<>>] :
                 p \in {q \in pooled : BestForks(q, table) = {}}}
             \cup UNION {{[kind |-> "Reorged", chain |-> ReorgTo(p, f, table),
                           old |-> Displaced(p, f), new |-> f] : f \in BestForks(p, table)} :
                         p \in pooled}

-----------------------------------------------------------------------------
\* The write transactions of db.rs.  A table row that holds nothing is
\* NoBlock, {} or absent.
PayoutsAt(draws, i) == {d \in draws : d.at = i}

\* Inserting payout records replaces the row of each block index they name.
Overwrite(table, draws) == {p \in table : PayoutsAt(draws, p.at) = {}} \cup draws

\* Mutant: the tickets are left to a later write.
MutSaveAppliedBlock(d, w) ==
    [d EXCEPT !.BLOCKS[Index[w.block]] = w.block,
              !.TX_INDEX = @ \cup {w.block},
              !.LOTTERY_PAYOUTS = Overwrite(@, w.payouts)]

SaveAppliedBlock(d, w) ==
    [d EXCEPT !.BLOCKS[Index[w.block]] = w.block,
              !.TX_INDEX = @ \cup {w.block},
              !.TICKETS = w.tickets,
              !.LOTTERY_PAYOUTS = Overwrite(@, w.payouts)]

SaveCheckpoint(d, w) ==
    [d EXCEPT !.CHECKPOINTS = {c \in @ : c.height # w.state.height} \cup {w.state}]

DeleteCheckpointsFrom(d, w) ==
    [d EXCEPT !.CHECKPOINTS = {c \in @ : c.height < w.from}]

\* Mutant: rows are overwritten but not removed.
MutApplyReorgIncremental(d, w) ==
    LET new == [i \in Heights |-> {b \in Elements(w.new) : Index[b] = i}]
    IN  [d EXCEPT !.BLOCKS = [i \in Heights |->
                                 IF new[i] # {} THEN CHOOSE b \in new[i] : TRUE ELSE @[i]],
                  !.TX_INDEX = (@ \ Elements(w.old)) \cup Elements(w.new),
                  !.TICKETS = w.tickets,
                  !.LOTTERY_PAYOUTS = Overwrite(@, w.payouts)]

ApplyReorgIncremental(d, w) ==
    LET new == [i \in Heights |-> {b \in Elements(w.new) : Index[b] = i}]
        gone == {Index[b] : b \in Elements(w.old)}
    IN  [d EXCEPT !.BLOCKS = [i \in Heights |->
                                 IF new[i] # {} THEN CHOOSE b \in new[i] : TRUE
                                 ELSE IF i \in gone THEN NoBlock ELSE @[i]],
                  !.TX_INDEX = (@ \ Elements(w.old)) \cup Elements(w.new),
                  !.TICKETS = w.tickets,
                  !.LOTTERY_PAYOUTS = Overwrite({p \in @ : p.at \notin gone}, w.payouts)]

SaveBlockIndexed(d, w) == [d EXCEPT !.BLOCKS[Index[w.block]] = w.block]

RebuildIndicesWithTickets(d, w) ==
    [d EXCEPT !.TX_INDEX = {d.BLOCKS[i] : i \in Heights} \ {NoBlock},
              !.TICKETS = w.tickets,
              !.LOTTERY_PAYOUTS = w.payouts]

Commit(d, w) ==
    CASE w.op = "applied" -> SaveAppliedBlock(d, w)
      [] w.op = "checkpoint" -> SaveCheckpoint(d, w)
      [] w.op = "delete" -> DeleteCheckpointsFrom(d, w)
      [] w.op = "reorg" -> ApplyReorgIncremental(d, w)
      [] w.op = "save" -> SaveBlockIndexed(d, w)
      [] w.op = "rebuild" -> RebuildIndicesWithTickets(d, w)

\* snapshot
Snapshot(c) ==
    [height |-> Height(c) - 1, block_hash |-> Tip(c),
     tickets |-> c.pending_tickets, ledger |-> c.ledger]

\* The transactions apply_block runs for an outcome, in order.
WritesApplied(c) ==
    LET applied == [op |-> "applied", block |-> Tip(c), tickets |-> c.pending_tickets,
                    payouts |-> PayoutsAt(c.settled, Index[Tip(c)])]
        checkpoint == [op |-> "checkpoint", state |-> Snapshot(c)]
    IN  IF Index[Tip(c)] % CheckpointInterval = 0 THEN <<applied, checkpoint>> ELSE <<applied>>

\* Mutants: checkpoints are deleted last; old rows go in a write of their own;
\* the payouts are those at the heights of the old blocks.
MutDeletesLast(c, old, new) ==
    << [op |-> "reorg", old |-> old, new |-> new, tickets |-> c.pending_tickets,
        payouts |-> {d \in c.settled : \E b \in Elements(new) : d.at = Index[b]}],
       [op |-> "delete", from |-> Index[old[1]]] >>
MutTwoWrites(c, old, new) ==
    << [op |-> "delete", from |-> Index[old[1]]],
       [op |-> "reorg", old |-> old, new |-> <<>>, tickets |-> c.pending_tickets, payouts |-> {}],
       [op |-> "reorg", old |-> <<>>, new |-> new, tickets |-> c.pending_tickets,
        payouts |-> {d \in c.settled : \E b \in Elements(new) : d.at = Index[b]}] >>

MutOldPayouts(c, old, new) ==
    << [op |-> "delete", from |-> Index[old[1]]],
       [op |-> "reorg", old |-> old, new |-> new, tickets |-> c.pending_tickets,
        payouts |-> {d \in c.settled : \E b \in Elements(old) : d.at = Index[b]}] >>

WritesShallow(c, old, new) ==
    << [op |-> "delete", from |-> Index[old[1]]],
       [op |-> "reorg", old |-> old, new |-> new, tickets |-> c.pending_tickets,
        payouts |-> {d \in c.settled : \E b \in Elements(new) : d.at = Index[b]}] >>

WritesDeep(c, new) ==
    << [op |-> "delete", from |-> 0] >>
    \o [i \in DOMAIN new |-> [op |-> "save", block |-> new[i]]]
    \o << [op |-> "rebuild", tickets |-> c.pending_tickets, payouts |-> c.settled] >>

Writes(r) ==
    CASE r.kind = "Applied" -> WritesApplied(r.chain)
      [] r.kind = "Reorged" /\ r.old # <<>> -> WritesShallow(r.chain, r.old, r.new)
      [] r.kind = "Reorged" /\ r.old = <<>> -> WritesDeep(r.chain, r.new)
      [] OTHER -> <<>>

\* The payout records apply_block drains from memory to write them.
Drained(r) ==
    CASE r.kind = "Reorged" /\ r.old = <<>> -> r.chain.settled
      [] OTHER -> {d \in r.chain.settled : \E b \in Elements(r.new) : d.at = Index[b]}

\* The blocks whose rows a reorg leaves above its tip: those of the fork from
\* the first one the replay did not accept, since the outcome names the whole
\* fork, and, when the reorg reaches below the window and so displaces nothing
\* by name, those of the old chain above the fork.
LeftBehind(r) ==
    IF r.kind # "Reorged" THEN {}
    ELSE (Elements(r.new) \ Elements(r.chain.ledger.applied))
         \cup {b \in Elements(chain.ledger.applied) : r.old = <<>> /\ Index[b] > Index[Last(r.new)]}

-----------------------------------------------------------------------------
\* Startup.
NoRows == [i \in Heights |-> NoBlock]
MaxIndex == CHOOSE i \in Heights : \A j \in Heights : j <= i

\* Stored blocks go through apply_in_memory without a database.
ApplyStored(c, b) == (CHOOSE r \in ApplyInMemory(c, b, NoRows) : TRUE).chain
ReplayStored(c, blocks) == FoldLeft(ApplyStored, c, blocks)

\* restore_from_checkpoint
RestoreFromCheckpoint(cp) ==
    [blocks |-> <<cp.block_hash>>, blocks_offset |-> cp.height, block_hashes |-> {},
     orphan_pool |-> {}, pending_tickets |-> cp.tickets, settled |-> {}, ledger |-> cp.ledger]

LatestCheckpoint(d) == CHOOSE c \in d.CHECKPOINTS : \A e \in d.CHECKPOINTS : e.height <= c.height
UsesCheckpoint(d) ==
    /\ d.CHECKPOINTS # {}
    /\ d.BLOCKS[LatestCheckpoint(d).height] = LatestCheckpoint(d).block_hash

\* Startup expects the row of the latest checkpoint's block and dies without.
CanStart(d) == d.CHECKPOINTS # {} => d.BLOCKS[LatestCheckpoint(d).height] # NoBlock

\* The chain main.rs builds from the tables, before step 3.
Loaded(d) ==
    IF UsesCheckpoint(d)
    THEN LET cp == LatestCheckpoint(d)
         IN  ReplayStored(RestoreFromCheckpoint(cp), Rows(d.BLOCKS, cp.height + 1, MaxIndex))
    ELSE ReplayStored(GenesisChain, Tail(Rows(d.BLOCKS, 0, MaxIndex)))

\* load_tickets: what the last write to TICKETS left, whatever the chain is.
LoadTickets(d) == d.TICKETS

\* Steps 3 to 5: rebuild the indices unless a checkpoint was used, prune,
\* take the tickets from the TICKETS table.
ChainAtStartup(d) ==
    [PruneToWindow(Loaded(d)) EXCEPT !.settled = {}, !.pending_tickets = LoadTickets(d)]
TablesAfterStartup(d) ==
    IF UsesCheckpoint(d) THEN d
    ELSE [d EXCEPT !.CHECKPOINTS = {},
                   !.TX_INDEX = Elements(Loaded(d).blocks),
                   !.LOTTERY_PAYOUTS = Loaded(d).settled]

-----------------------------------------------------------------------------
Init ==
    /\ chain = GenesisChain
    /\ db = [BLOCKS |-> [i \in Heights |-> IF i = 0 THEN Genesis ELSE NoBlock],
             TX_INDEX |-> {Genesis}, TICKETS |-> {}, LOTTERY_PAYOUTS |-> {},
             CHECKPOINTS |-> {}]
    /\ todo = <<>>
    /\ up = TRUE
    /\ restored = {}
    /\ torn = FALSE
    /\ stray = {}

\* apply_block on a block from a peer or a miner, up to its first write.
Receive(b) ==
    /\ up /\ todo = <<>>
    /\ \E r \in ApplyInMemory(chain, b, db.BLOCKS) :
        /\ chain' = IF r.kind \in {"Applied", "Reorged"}
                    THEN PruneToWindow([r.chain EXCEPT !.settled = @ \ Drained(r)])
                    ELSE r.chain
        /\ todo' = Writes(r)
        /\ stray' = stray \cup LeftBehind(r)
    /\ UNCHANGED <<db, up, restored, torn>>

\* One of its write transactions commits.
Write ==
    /\ up /\ todo # <<>>
    /\ db' = Commit(db, Head(todo))
    /\ todo' = Tail(todo)
    /\ UNCHANGED <<chain, up, restored, torn, stray>>

\* The block-by-block writes of a deep reorg have begun.
InDeepReorg == todo # <<>> /\ Head(todo).op \in {"save", "rebuild"}

\* The process dies; what was not committed is lost with the memory.
Crash ==
    /\ up
    /\ up' = FALSE
    /\ chain' = GenesisChain
    /\ todo' = <<>>
    /\ torn' = (torn \/ InDeepReorg)
    /\ UNCHANGED <<db, restored, stray>>

\* main.rs: the chain is rebuilt from the tables, and then served.
StartUp ==
    /\ CanStart(db)
    /\ up' = TRUE
    /\ chain' = ChainAtStartup(db)
    /\ db' = TablesAfterStartup(db)
    /\ restored' = IF UsesCheckpoint(db) THEN restored \cup {LatestCheckpoint(db).height}
                   ELSE restored
    /\ UNCHANGED <<todo, torn, stray>>

Restart == ~up /\ StartUp

Running == (\E b \in Mined : Receive(b)) \/ Write

Next == Running \/ Crash \/ Restart

Spec == Init /\ [][Next]_vars

-----------------------------------------------------------------------------
Draws == [ticket : Mined, at : Nat, entropy : Seq(Blocks)]
Ledgers == [applied : Seq(Blocks), drawn : SUBSET Draws]
Chains == [blocks : Seq(Blocks), blocks_offset : Nat, block_hashes : SUBSET Blocks,
           orphan_pool : SUBSET Mined, pending_tickets : SUBSET Mined,
           settled : SUBSET Draws, ledger : Ledgers]
CheckpointStates == [height : Heights, block_hash : Blocks, tickets : SUBSET Mined, ledger : Ledgers]

\* The orphan pool keeps its two caps (blockchain.rs:71-81).
OrphanPoolBounded ==
    /\ Cardinality(chain.orphan_pool) <= MaxOrphanPool
    /\ \A b \in chain.orphan_pool :
          Cardinality({o \in chain.orphan_pool : Index[o] = Index[b]}) <= MaxOrphansPerHeight

\* The types of memory and tables, and the sizes of the window and the pool
\* (blockchain.rs:341-353, 1106-1137).
TypeOK ==
    /\ chain \in Chains
    /\ Len(chain.blocks) \in 1 .. ReorgWindow
    /\ OrphanPoolBounded
    /\ db.BLOCKS \in [Heights -> Blocks \cup {NoBlock}]
    /\ db.TX_INDEX \subseteq Blocks
    /\ db.TICKETS \subseteq Mined
    /\ db.LOTTERY_PAYOUTS \subseteq Draws
    /\ db.CHECKPOINTS \subseteq CheckpointStates
    /\ up \in BOOLEAN /\ torn \in BOOLEAN
    /\ restored \subseteq Nat /\ stray \subseteq Blocks

Path == PathTo[Tip(chain)]
Idle == up /\ todo = <<>>

\* The state a chain should have, told from the chain alone: a ticket is
\* pending until the block RevealBlocks above it, and its draw used every
\* block of its reveal window.
TicketsOf(path) == {b \in Ticketed : b \in Elements(path) /\ Index[b] + RevealBlocks >= Len(path)}
DrawsOf(path) ==
    {[ticket |-> b, at |-> Index[b] + RevealBlocks,
      entropy |-> SubSeq(path, Index[b] + 1, Index[b] + RevealBlocks)] :
        b \in {t \in Ticketed : t \in Elements(path) /\ Index[t] + RevealBlocks < Len(path)}}

\* What a node holds is a function of the chain it is on, whatever order the
\* blocks arrived in and whichever reorgs led there: the applied blocks, and
\* the window as their suffix.
LedgerIsReplay ==
    up => /\ chain.ledger.applied = Path
          /\ chain.blocks = SubSeq(Path, chain.blocks_offset + 1, Len(Path))

\* A reorg or restart neither loses nor revives a ticket (WHITEPAPER.md:159).
TicketsFollowChain == up => chain.pending_tickets = TicketsOf(Path)

\* Every draw used the whole reveal window, on every node that is on this
\* chain (blockchain.rs:9-12, 3097-3099).
DrawsComplete == up => chain.ledger.drawn = DrawsOf(Path)

\* With no write outstanding, BLOCKS holds the chain, and above its tip no row
\* of a displaced block that a restart could reload (db.rs:366-368), but for
\* what a reorg is known to leave there: blocks it never took, because one of
\* them had invalid content (blockchain.rs:1064-1075), and blocks above a
\* shorter fork from below the window (1255).
RowsAreChain ==
    Idle => \A i \in Heights :
                IF i < Len(Path) THEN db.BLOCKS[i] = Path[i + 1]
                ELSE db.BLOCKS[i] \in {NoBlock} \cup stray

\* ... and the other tables describe that chain: the transaction index, but for
\* those blocks, the tickets, the payouts, and checkpoints of its own blocks.
TablesMatchChain ==
    Idle => /\ Elements(Path) \subseteq db.TX_INDEX /\ db.TX_INDEX \subseteq Elements(Path) \cup stray
            /\ db.TICKETS = TicketsOf(Path)
            /\ db.LOTTERY_PAYOUTS = DrawsOf(Path)
            /\ \A c \in db.CHECKPOINTS : c.ledger.applied = SubSeq(Path, 1, c.height + 1)

\* Both kinds of block were left behind.  One kind alone is never reloaded: a
\* shorter fork weighs more than what it leaves above it, and a block that was
\* never taken has invalid content below it.  With both, a reorg that stops
\* half-way can fall back to where rows left above it link again, and the next
\* start climbs them with the tickets of the block below.
Tangled(S) == (\E b \in S : Valid(b)) /\ (\E b \in S : ~Valid(b))

\* Draws and tables hold whatever happened, until a restart from a checkpoint
\* has drawn tickets from the hashes it had, and forgotten where blocks are, or
\* both kinds of stray row are there; the rows hold even then.
DrawsUnlessRestored == restored = {} /\ ~Tangled(stray) => DrawsComplete
TablesUnlessRestored ==
    /\ RowsAreChain
    /\ restored = {} /\ ~Tangled(stray) => TablesMatchChain

\* Wherever the process died, except inside the writes of a deep reorg, it
\* comes back with the rows of the chain it comes back on; with its tickets
\* too, and with the other tables unless it came back from a checkpoint, unless
\* both kinds of stray row are there.
SoundUnlessTorn ==
    ~torn => /\ RowsAreChain
             /\ ~Tangled(stray) => TicketsFollowChain /\ (restored = {} => TablesMatchChain)

\* Between any two write transactions, the row a checkpoint points at exists:
\* startup would die without it (main.rs:567-572).
NoStrandedCheckpoint == \A c \in db.CHECKPOINTS : db.BLOCKS[c.height] # NoBlock

\* The blocks whose rows a transaction writes.
Written(w) ==
    IF w.op \in {"applied", "save"} THEN {w.block}
    ELSE IF w.op = "reorg" THEN Elements(w.new) ELSE {}

\* A reorg stopped half-way: it is to write a block that has invalid content.
HalfDone(queue) == \E w \in Elements(queue) : Written(w) \cap Invalid # {}

\* The block a half-done reorg stopped at: the next one of the fork.
StoppedAt(b) == b \in Invalid /\ Parent[b] = Tip(chain) /\ \E w \in Elements(todo) : b \in Written(w)

\* While it runs, a node leaves its chain only for one with more work.  The
\* exception is a fork, weighed before its content is known, whose replay stops
\* at a block with invalid content; the node stays on the part below that block
\* (blockchain.rs:1064-1075), whatever that weighs.
PathWork == TotalWork(Elements(chain.ledger.applied))
MoreWorkOnly ==
    [][up /\ up' /\ chain'.ledger.applied # chain.ledger.applied
       => PathWork' > PathWork \/ (\E b \in Mined : StoppedAt(b))']_vars

\* No write transaction makes the chain that a restart would recover lighter: a
\* crash costs at most the block being applied.  The exceptions are the writes
\* of a deep reorg, a reorg that stopped half-way, whose fork the tables get
\* whole although a restart can only replay its lower part (blockchain.rs:1217),
\* and tables with both kinds of stray row.
RecoverableWork(d) == TotalWork(Elements(Loaded(d).ledger.applied))
RecoveryNeverRegresses ==
    todo # <<>> /\ ~InDeepReorg /\ ~torn /\ ~HalfDone(todo) /\ ~Tangled(stray)
        => RecoverableWork(Commit(db, Head(todo))) >= RecoverableWork(db)

=============================================================================
