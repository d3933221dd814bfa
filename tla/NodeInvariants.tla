--------------------------- MODULE NodeInvariants ---------------------------
(***************************************************************************)
(* What is always true of a node, stated for proof: the inductive          *)
(* invariants of Node and the vocabulary they are written in.  NodeProofs  *)
(* proves them.                                                            *)
(*                                                                         *)
(*   NodeInv    types, and a queue in which every write finds what the     *)
(*              writes before it leave                                     *)
(*   PathInv    the rows hold the path to the chain's tip, or the queue    *)
(*              will complete it                                           *)
(*   LightInv   a row above the chain was left there by a reorg, and none  *)
(*              that a restart could climb is heavier                      *)
(*   TicketInv  tickets in memory, tables and queue are those of the path  *)
(*   DrawInv    so are the draws, until a checkpoint was used              *)
(*   Fresh      a checkpoint in the queue is above those in the tables     *)
(***************************************************************************)
EXTENDS NodeRefinement, Queries

-----------------------------------------------------------------------------
\* A chain in memory, and the orphans it may have.
AtHeight(pool, i) == {o \in pool : Index[o] = i}
PoolBounded(pool) ==
    /\ Cardinality(pool) <= MaxOrphanPool
    /\ \A b \in pool : Cardinality(AtHeight(pool, Index[b])) <= MaxOrphansPerHeight

\* c is on the path to b: its ledger applied the path, its window is the end of it.
OnPath(c, b) ==
    /\ c.ledger.applied = PathTo[b]
    /\ c.blocks_offset \in 0 .. Index[b]
    /\ c.blocks = SubSeq(PathTo[b], c.blocks_offset + 1, Index[b] + 1)

\* A chain that is on some path, with no more orphans than it may have.
WellFormed(c) ==
    /\ c \in Chains
    /\ PoolBounded(c.orphan_pool)
    /\ c.block_hashes \subseteq Elements(c.blocks)
    /\ \E b \in Blocks : OnPath(c, b)

\* The window of a chain on the path to b.
Aligned(c, b) ==
    /\ Index[b] \in Nat /\ c.blocks_offset \in Nat /\ c.blocks_offset <= Index[b]
    /\ c.blocks \in Seq(Blocks) /\ Len(c.blocks) = Index[b] - c.blocks_offset + 1
    /\ Tip(c) = b /\ Height(c) = Index[b] + 1
    /\ \A i \in 1 .. Len(c.blocks) : /\ c.blocks[i] = PathTo[b][c.blocks_offset + i]
                                     /\ Index[c.blocks[i]] = c.blocks_offset + i - 1

\* Below any of its blocks a path is the path to that block.
OwnPath(y) ==
    /\ At(y, 0) = Genesis /\ At(y, Index[y]) = y
    /\ \A i \in 0 .. Index[y] :
          /\ At(y, i) \in Blocks /\ Index[At(y, i)] = i
          /\ i >= 1 => At(y, i) \in Mined /\ Parent[At(y, i)] = At(y, i - 1)
          /\ \A j \in 0 .. i : At(At(y, i), j) = At(y, j)

\* The blocks of a path, those above a height and those up to it.
PathSet(x) == {At(x, i) : i \in 0 .. Index[x]}
PathAbove(x, a) == {At(x, i) : i \in a + 1 .. Index[x]}
PathUpTo(x, a) == {At(x, i) : i \in 0 .. a}

\* The work of a path.
PathWeight(x) == TotalWork(PathSet(x))

-----------------------------------------------------------------------------
\* A row holds a block of its own height, and row 0 the genesis block.
RowsPlaced(table) ==
    /\ table \in [Heights -> Blocks \cup {NoBlock}]
    /\ table[0] = Genesis
    /\ \A i \in Heights : table[i] # NoBlock => Index[table[i]] = i

\* Displaced blocks lie above genesis, the lowest one first.
Displaces(old) ==
    /\ old \in Seq(Blocks)
    /\ \A i \in 1 .. Len(old) : Index[old[i]] >= 1 /\ Index[old[i]] >= Index[old[1]]

\* The tables, and what is written to them.
Tables == [BLOCKS : [Heights -> Blocks \cup {NoBlock}], TX_INDEX : SUBSET Blocks,
           TICKETS : SUBSET Mined, LOTTERY_PAYOUTS : SUBSET Draws,
           CHECKPOINTS : SUBSET CheckpointStates]

\* A checkpoint is the state of a chain on the path to its block.
Consistent(cp) ==
    /\ cp \in CheckpointStates /\ cp.height = Index[cp.block_hash]
    /\ cp.ledger.applied = PathTo[cp.block_hash]

\* The tables: typed, rows in place, no checkpoint without its row.
Stored(d) ==
    /\ d \in Tables
    /\ RowsPlaced(d.BLOCKS)
    /\ \A cp \in d.CHECKPOINTS : Consistent(cp) /\ d.BLOCKS[cp.height] # NoBlock

\* The write transactions apply_block can queue.
WriteTransactions ==
    [op : {"applied"}, block : Mined, tickets : SUBSET Mined, payouts : SUBSET Draws]
    \cup [op : {"checkpoint"}, state : {cp \in CheckpointStates : Consistent(cp)}]
    \cup [op : {"delete"}, from : Nat]
    \cup [op : {"reorg"}, old : {s \in Seq(Blocks) : Displaces(s)}, new : Seq(Mined),
          tickets : SUBSET Mined, payouts : SUBSET Draws]
    \cup [op : {"save"}, block : Mined]
    \cup [op : {"rebuild"}, tickets : SUBSET Mined, payouts : SUBSET Draws]

\* Committing w now strands no checkpoint: the row of the one it adds is
\* there, and the rows it removes are above all that are stored.
Safe(d, w) ==
    /\ w.op = "checkpoint" => d.BLOCKS[w.state.height] # NoBlock
    /\ w.op = "reorg" => \A cp \in d.CHECKPOINTS : \A i \in 1 .. Len(w.old) : cp.height < Index[w.old[i]]

\* What makes w safe once v has been committed.
Follows(v, w) ==
    /\ w.op = "checkpoint" => v.op = "applied" /\ w.state.height = Index[v.block]
    /\ w.op = "reorg" => v.op = "delete" /\ \A i \in 1 .. Len(w.old) : v.from <= Index[w.old[i]]

\* A queue in which every write finds what it needs.
Scheduled(d, queue) ==
    /\ queue \in Seq(WriteTransactions)
    /\ queue # <<>> => Safe(d, queue[1])
    /\ \A i \in 1 .. Len(queue) - 1 : Follows(queue[i], queue[i + 1])

\* Types, bounds and a queue that is safe to write.
NodeInv ==
    /\ WellFormed(chain) /\ Len(chain.blocks) \in 1 .. ReorgWindow
    /\ Stored(db)
    /\ Scheduled(db, todo)
    /\ up \in BOOLEAN /\ torn \in BOOLEAN /\ restored \subseteq Nat /\ stray \subseteq Blocks
    /\ ~up => todo = <<>>

-----------------------------------------------------------------------------
\* The rows of the path to b.
HoldsPath(table, b) == \A i \in 0 .. Index[b] : table[i] = At(b, i)

\* A table that holds the path to every checkpoint's block.
CheckpointRows(d) ==
    \A cp \in d.CHECKPOINTS : HoldsPath(d.BLOCKS, cp.block_hash) /\ Valid(cp.block_hash)

\* The blocks whose rows a transaction clears.
Cleared(w) == IF w.op = "reorg" THEN Elements(w.old) ELSE {}

\* What is outstanding agrees with the path to b.
Agrees(w, b) ==
    /\ \A x \in Written(w) : Index[x] <= Index[b] => x = At(b, Index[x])
    /\ \A x \in Cleared(w) : Index[x] <= Index[b] => \E y \in Written(w) : Index[y] = Index[x]

\* A row that does not hold its block of the path yet is about to be written.
RowsComing(table, q, b) ==
    \A i \in 0 .. Index[b] :
        table[i] = At(b, i) \/ \E k \in 1 .. Len(q) : \E x \in Written(q[k]) : Index[x] = i

\* The rows w touches are above every checkpoint.
Spares(d, w) ==
    /\ \A cp \in d.CHECKPOINTS : \A x \in Written(w) \cup Cleared(w) : cp.height < Index[x]
    /\ w.op = "save" => d.CHECKPOINTS = {}

\* What makes w spare the checkpoints once v has been committed.
Succeeds(v, w) ==
    /\ w.op \notin {"applied", "delete"}
    /\ w.op = "reorg" => v.op = "delete" /\ \A x \in Written(w) \cup Cleared(w) : v.from <= Index[x]
    /\ w.op = "save" => v.op = "save" \/ (v.op = "delete" /\ v.from = 0)
    /\ w.op = "rebuild" => v.op = "save"

\* The tables hold, or are about to hold, the path to b.
Placed(d, q, b) ==
    /\ CheckpointRows(d)
    /\ \A k \in 1 .. Len(q) : Agrees(q[k], b)
    /\ RowsComing(d.BLOCKS, q, b)
    /\ q # <<>> => Spares(d, q[1])
    /\ \A k \in 1 .. Len(q) - 1 : Succeeds(q[k], q[k + 1])
    /\ \A k \in 1 .. Len(q) : q[k].op = "checkpoint" => k = Len(q) /\ q[k].state.block_hash = b

\* A checkpoint above b is about to be deleted.
Topped(d, q, b) ==
    \A cp \in d.CHECKPOINTS :
        cp.height <= Index[b] \/ \E k \in 1 .. Len(q) : q[k].op = "delete" /\ q[k].from <= cp.height

\* The rows are those of the chain, or the outstanding writes will make them so.
PathInv ==
    /\ Valid(Tip(chain)) /\ Placed(db, todo, Tip(chain))
    /\ up => Topped(db, todo, Tip(chain))

\* The tables at rest, all of them describing the path to x.
AtRest(d, x) ==
    /\ Valid(x) /\ HoldsPath(d.BLOCKS, x) /\ CheckpointRows(d)
    /\ \A cp \in d.CHECKPOINTS : cp.height <= Index[x]

\* What is queued for d will bring it to rest on the path to b.
Headed(d, q, b) == Valid(b) /\ Placed(d, q, b) /\ Topped(d, q, b)

-----------------------------------------------------------------------------
\* Block u is above the path to t only as a stray one, and, while the stray
\* blocks are of one kind, no restart could climb from t to more work through u.
Light(u, t, S) ==
    /\ Index[u] <= Index[t] \/ u \in S
    /\ Valid(u) /\ ~Tangled(S) => PathWeight(u) <= PathWeight(t)

\* The rows are light, or about to be written or cleared, and so are the ones
\* to be written.
Coming(q, i) == \E k \in 1 .. Len(q) : \E v \in Written(q[k]) \cup Cleared(q[k]) : Index[v] = i
RowsLight(table, q, t, S) ==
    \A i \in Heights : table[i] = NoBlock \/ Light(table[i], t, S) \/ Coming(q, i)
WritesLight(q, t, S) == \A k \in 1 .. Len(q) : \A u \in Written(q[k]) : Light(u, t, S)

\* The rows are light by the chain, and by the one a restart would recover,
\* which is no heavier, unless a reorg stopped half-way is still to be written.
LightInv ==
    /\ up => WritesLight(todo, Tip(chain), stray)
    /\ up /\ ~torn => RowsLight(db.BLOCKS, todo, Tip(chain), stray)
    /\ ~torn /\ ~InDeepReorg => RowsLight(db.BLOCKS, <<>>, Tip(Loaded(db)), stray)
    /\ up /\ ~torn /\ ~InDeepReorg /\ ~HalfDone(todo) /\ ~Tangled(stray)
       => PathWeight(Tip(Loaded(db))) <= PathWeight(Tip(chain))

-----------------------------------------------------------------------------
\* The tickets and the draws a path has.
MatureOn(x) == {t \in TicketsOf(PathTo[x]) : Index[t] + RevealBlocks = Index[x] + 1}
DrawOn(x, t) ==
    [ticket |-> t, at |-> Index[t] + RevealBlocks,
     entropy |-> SubSeq(PathTo[x], Index[t] + 1, Index[t] + RevealBlocks)]

\* The draws of a chain whose hashes are known from height o on, and that took
\* over the draws in D with them.
Later(i, o) == IF i < o THEN o ELSE i
CutDraw(x, t, o) ==
    [ticket |-> t, at |-> Index[t] + RevealBlocks,
     entropy |-> SubSeq(PathTo[x], Later(Index[t], o) + 1, Index[t] + RevealBlocks)]
DrawnSince(x, o) ==
    {t \in Ticketed : t \in PathSet(x) /\ o < Index[t] + RevealBlocks /\ Index[t] + RevealBlocks < Index[x] + 1}
CutDraws(x, o, D) == D \cup {CutDraw(x, t, o) : t \in DrawnSince(x, o)}

\* Chains whose tickets, and whose draws, are told by their path.
Windowed(c) == c.blocks_offset = 0 \/ Len(c.blocks) >= ReorgWindow
TicketChains == {c \in Chains : c.pending_tickets = TicketsOf(PathTo[Tip(c)])}
CutChains(o, D) ==
    {c \in TicketChains : c.blocks_offset = o /\ c.ledger.drawn = CutDraws(Tip(c), o, D)}
DrawChains == {c \in TicketChains : Windowed(c) /\ c.ledger.drawn = DrawsOf(PathTo[Tip(c)])}

\* What is queued carries the tickets of the path to b, and ends with a write
\* of tickets.
CheckpointTells(cp) == cp.tickets = TicketsOf(PathTo[cp.block_hash])
WriteTells(w, b) ==
    /\ w.op \in {"applied", "reorg", "rebuild"} => w.tickets = TicketsOf(PathTo[b])
    /\ w.op = "checkpoint" => CheckpointTells(w.state)
Tells(q, b) ==
    /\ \A k \in 1 .. Len(q) : WriteTells(q[k], b)
    /\ \A k \in 1 .. Len(q) : q[k].op = "save" => k # Len(q)

\* The tickets in memory, in the tables and in the queue are those of the path,
\* unless the process died inside the writes of a deep reorg or the stray rows
\* are of both kinds.
Sound == ~torn /\ ~Tangled(stray)
TicketInv ==
    Sound => /\ chain \in TicketChains
             /\ Tells(todo, Tip(chain))
             /\ \A cp \in db.CHECKPOINTS : CheckpointTells(cp)
             /\ ~InDeepReorg => db.TICKETS = TicketsOf(PathTo[Tip(Loaded(db))])

\* Until a checkpoint was used, the draws are those of the path.
DrawInv == Sound /\ restored = {} => chain \in DrawChains

-----------------------------------------------------------------------------
\* The node's answer to a block.  b extends the path to y.
Extends(b, y) == Parent[b] = y /\ b \notin Invalid

\* What holds of a chain when it holds of the chain before a block, whatever
\* orphans it has.
Hereditary(P) ==
    /\ \A c \in P, b \in Blocks : WellFormed(c) /\ Accepts(c, b) => UpdateState(c, b) \in P
    /\ \A c \in P, pool \in SUBSET Mined : [c EXCEPT !.orphan_pool = pool] \in P

\* Offering a block that does not extend the chain leaves it as it is, but for
\* the orphan pool.
Pools(c, b, d) ==
    \E pool \in SUBSET Mined : /\ d = [c EXCEPT !.orphan_pool = pool]
                                /\ PoolBounded(pool) /\ pool \subseteq c.orphan_pool \cup {b}

\* A fork that leaves the path to x at its ancestor and ends in z.
Forks(x, f, z) ==
    /\ f \in Seq(Mined) /\ Len(f) >= 1 /\ f[Len(f)] = z
    /\ Ancestor(f) \in 0 .. Index[x] /\ z \in Blocks /\ Index[z] = Ancestor(f) + Len(f)
    /\ \A i \in 1 .. Len(f) : At(z, Ancestor(f) + i) = f[i] /\ Index[f[i]] = Ancestor(f) + i
    /\ \A i \in 0 .. Ancestor(f) : At(z, i) = At(x, i)

\* s is the end of the path to z from height o on.
PathFrom(s, z, o) ==
    /\ s \in Seq(Blocks) /\ Len(s) = Index[z] + 1 - o
    /\ \A i \in 1 .. Len(s) : s[i] = At(z, o + (i - 1))

\* What a reorg makes of the chain: it follows the path to the fork's tip, up to
\* the first block whose content is rejected.
Taken(y, z) ==
    /\ y \in Blocks /\ Index[y] <= Index[z] /\ Valid(y)
    /\ \A i \in 0 .. Index[y] : At(y, i) = At(z, i)
    /\ Index[y] < Index[z] => At(z, Index[y] + 1) \in Invalid

\* The displaced blocks are the path above the ancestor, or none.
DisplacedFrom(old, x, a) ==
    /\ old \in Seq(Blocks)
    /\ \A i \in 1 .. Len(old) : old[i] = At(x, a + i) /\ Index[old[i]] = a + i
    /\ old = <<>> \/ Len(old) = Index[x] - a

\* What apply_in_memory makes of a chain on the path to x.
Extended(c, x, b, r) ==
    /\ r.kind = "Applied" /\ r.old = <<>> /\ r.new = <<b>>
    /\ Extends(b, x) /\ Index[b] = Index[x] + 1 /\ r.chain = UpdateState(c, b) /\ OnPath(r.chain, b)
Untouched(c, x, b, r) ==
    /\ r.kind \in {"Rejected", "Orphaned"} /\ r.old = <<>> /\ r.new = <<>>
    /\ r.chain = c \/ Pools(c, b, r.chain)
    /\ OnPath(r.chain, x)
Switched(c, x, table, r, z, y) ==
    /\ r.kind = "Reorged" /\ Forks(x, r.new, z) /\ Taken(y, z) /\ OnPath(r.chain, y)
    /\ DisplacedFrom(r.old, x, Ancestor(r.new))
    /\ r.old = <<>> <=> Ancestor(r.new) < c.blocks_offset \/ Ancestor(r.new) = Index[x]
    /\ \A Q : Hereditary(Q) /\ GenesisChain \in Q => r.chain \in Q
    /\ TotalWork(Elements(r.new)) > MainWorkAbove(c, Ancestor(r.new), table)
Changed(c, x, b, table, r) ==
    Extended(c, x, b, r) \/ Untouched(c, x, b, r) \/ \E z, y : Switched(c, x, table, r, z, y)

\* e is c after its payout records were drained and its window was cut.
Trimmed(c, e) ==
    /\ WellFormed(e) /\ e.ledger = c.ledger /\ e.pending_tickets = c.pending_tickets
    /\ e.blocks_offset = RW!PrunedOffset(c.blocks_offset, Len(c.blocks))
    /\ Len(e.blocks) = RW!PrunedLength(Len(c.blocks))
    /\ \A y \in Blocks : OnPath(c, y) => OnPath(e, y) /\ Tip(e) = y

\* How the node answers a block: r is what apply_in_memory made of its chain.
Answered(r, b, P) ==
    /\ r.chain \in P /\ WellFormed(r.chain)
    /\ Changed(chain, Tip(chain), b, db.BLOCKS, r)
    /\ IF r.kind \in {"Applied", "Reorged"} THEN Trimmed(r.chain, chain') ELSE chain' = r.chain
    /\ todo' = Writes(r) /\ stray' = stray \cup LeftBehind(r) /\ UNCHANGED <<db, up, restored, torn>>
    /\ AtRest(db, Tip(chain)) /\ up

\* q writes the blocks in S.
WritesOf(q, S) == \A u : u \in S <=> \E k \in 1 .. Len(q) : u \in Written(q[k])

\* The fork f was taken up to y, and s is its next block.
Stops(f, y, s) == s \in Invalid /\ Parent[s] = y /\ s \in Elements(f) /\ s \notin PathSet(y)

\* A node on x moved to t, which is heavier unless a reorg stopped there.
MovesUp(q, x, t) ==
    \/ t = x \/ PathWeight(t) > PathWeight(x)
    \/ \E s \in Mined : /\ s \in Invalid /\ Parent[s] = t
                        /\ \E k \in 1 .. Len(q) : s \in Written(q[k])

\* It keeps the rows light.
StaysLight(table, q, x, S, t, T) ==
    /\ S \subseteq T /\ WritesLight(q, t, T)
    /\ RowsLight(table, <<>>, x, S) => RowsLight(table, q, t, T)

\* From d to e the rows change as w says.
RowsWritten(d, e, w) ==
    \A i \in Heights :
        \/ \E x \in Written(w) : Index[x] = i /\ e.BLOCKS[i] = x
        \/ /\ \E x \in Cleared(w) : Index[x] = i /\ \A y \in Written(w) : Index[y] # i
           /\ e.BLOCKS[i] = NoBlock
        \/ e.BLOCKS[i] = d.BLOCKS[i] /\ \A y \in Written(w) \cup Cleared(w) : Index[y] # i

\* The checkpoints only change by a write of their own.
CheckpointsWritten(d, e, w) ==
    /\ w.op \notin {"checkpoint", "delete"} => e.CHECKPOINTS = d.CHECKPOINTS
    /\ w.op = "checkpoint" => e.CHECKPOINTS \subseteq d.CHECKPOINTS \cup {w.state}
    /\ w.op = "delete" => e.CHECKPOINTS = {c \in d.CHECKPOINTS : c.height < w.from}

-----------------------------------------------------------------------------
\* Replaying a list of blocks in the order of their heights.
Ascending(t, x) ==
    /\ t \in Seq(Mined)
    /\ \A k \in 1 .. Len(t) : Index[t[k]] > Index[x]
    /\ \A j, k \in 1 .. Len(t) : j < k => Index[t[j]] < Index[t[k]]

\* Of the first k blocks of the list the first m climb from x to y, and the next
\* one does not extend y.
Climbs(t, x, k, m, y) ==
    /\ m \in 0 .. k /\ y \in Blocks /\ Index[y] = Index[x] + m
    /\ y = IF m = 0 THEN x ELSE t[m]
    /\ \A i \in 1 .. m : Extends(t[i], IF i = 1 THEN x ELSE t[i - 1])
    /\ m < k => ~Extends(t[m + 1], y)

\* After k blocks: the chain is on the path to the block reached, and the
\* orphans are blocks of the list that are not to be reached.
Replayed(c, P, t, x, k) ==
    /\ c \in P /\ WellFormed(c)
    /\ \E m, y : /\ Climbs(t, x, k, m, y) /\ OnPath(c, y)
                 /\ c.orphan_pool \subseteq {t[j] : j \in m + 1 .. k}
                 /\ \A o \in c.orphan_pool : Parent[o] # y

\* What replaying a list of blocks above x leaves: a chain on the path to the
\* last block that the list climbs to.
Reached(c, P, t, x) ==
    /\ c \in P /\ WellFormed(c)
    /\ \E m, y : Climbs(t, x, Len(t), m, y) /\ OnPath(c, y)

\* t leads from x to y, block by block.
Chained(t, x, m, y) ==
    /\ m \in Nat /\ x \in Blocks /\ y = IF m = 0 THEN x ELSE t[m]
    /\ \A i \in 1 .. m : t[i] \in Mined /\ Parent[t[i]] = IF i = 1 THEN x ELSE t[i - 1]

\* Restarts.  The rows above x climb to y and no further.
LoadedTo(table, x, y) ==
    /\ y \in Blocks /\ Index[x] <= Index[y] /\ \A i \in 0 .. Index[x] : At(y, i) = At(x, i)
    /\ \A i \in Index[x] + 1 .. Index[y] : table[i] = At(y, i) /\ At(y, i) \notin Invalid
    /\ \A z \in Mined : Index[z] = Index[y] + 1 /\ table[Index[z]] = z => ~Extends(z, y)

\* Where startup begins: the block of the latest checkpoint, or genesis.
Base(d) == IF UsesCheckpoint(d) THEN LatestCheckpoint(d).block_hash ELSE Genesis

\* A restart from the tables d ends on y.
Recovers(d, y) ==
    /\ y \in Blocks /\ y = Tip(Loaded(d)) /\ RecoverableWork(d) = PathWeight(y)
    /\ HoldsPath(d.BLOCKS, y) /\ Valid(y)
    /\ Base(d) \in Blocks /\ LoadedTo(d.BLOCKS, Base(d), y)

-----------------------------------------------------------------------------
\* The node as RevealWindow sees it.
\* A path by its heights: where its tickets are, and what their draws used.
TicketHeights(x) == HeightsOf(PathSet(x) \cap Ticketed)
DrawByHeight(d) == [created |-> Index[d.ticket], entropy |-> HeightsOf(Elements(d.entropy))]
CheckpointByHeight(cp) ==
    [height |-> cp.height, tickets |-> HeightsOf(cp.tickets), settled |-> DrawsByHeight(cp.ledger.drawn)]

\* A checkpoint that is about to be stored is the highest one.
Fresh(d, q) ==
    \A k \in 1 .. Len(q) : q[k].op = "checkpoint" => \A cp \in d.CHECKPOINTS : cp.height < q[k].state.height

\* The checkpoints the tables d hold once q is written.
CheckpointsAt(d, q) ==
    {c \in d.CHECKPOINTS : \A w \in Elements(q) : w.op = "delete" => c.height < w.from}
        \cup {w.state : w \in {v \in Elements(q) : v.op = "checkpoint"}}

\* What apply_block on b makes of chain c: e before it is pruned, g after.
ExtendedBy(c, b, e, g, h, earned, mature) ==
    /\ HeightsOf(g.pending_tickets) = (HeightsOf(c.pending_tickets) \ mature) \cup earned
    /\ HeightsOf(Elements(g.ledger.applied) \cap Ticketed)
       = HeightsOf(Elements(c.ledger.applied) \cap Ticketed) \cup earned
    /\ DrawsByHeight(g.ledger.drawn)
       = DrawsByHeight(c.ledger.drawn) \cup {RW!Draw(i, c.blocks_offset) : i \in mature}
    /\ g.blocks_offset = RW!PrunedOffset(c.blocks_offset, Len(c.blocks) + 1)
    /\ Len(g.blocks) = RW!PrunedLength(Len(c.blocks) + 1)
    /\ h = Index[b] /\ h < Cardinality(Heights) /\ Tip(g) = b /\ Tip(e) = b
    /\ CheckpointByHeight(Snapshot(e))
       = [height |-> h, tickets |-> HeightsOf(g.pending_tickets), settled |-> DrawsByHeight(g.ledger.drawn)]
    /\ Snapshot(e).height = h

\* The chain a reorg makes, by heights.
ReplacedBy(x, g, z, a, n, earned) ==
    LET tickets == {t \in TicketHeights(x) : t <= a} \cup earned
    IN  /\ HeightsOf(Elements(g.ledger.applied) \cap Ticketed) = tickets
        /\ HeightsOf(g.pending_tickets) = RW!PendingAt(n, tickets)
        /\ DrawsByHeight(g.ledger.drawn) = {RW!Draw(t, 0) : t \in RW!SettledAt(n, tickets)}
        /\ g.blocks_offset = RW!PrunedOffset(0, n)
        /\ Len(g.blocks) = RW!PrunedLength(n)

\* The chain startup makes of the checkpoint cp and the rows up to x.
LoadedAbove(l, cp, x, T) ==
    /\ DrawsByHeight(l.ledger.drawn)
       = DrawsByHeight(cp.ledger.drawn) \cup {RW!Draw(t, cp.height) : t \in RW!SettledAt(Index[x] + 1, T)}
    /\ HeightsOf(TicketsOf(PathTo[x])) = RW!PendingAt(Index[x] + 1, T)
    /\ l.blocks_offset = cp.height /\ Len(l.blocks) = Index[x] + 1 - cp.height

-----------------------------------------------------------------------------
\* The vocabulary of the lemmas: paths, replays, forks and queues step by step.
\* f solves, on a set A of blocks that is closed under Parent, the recursion
\* that starts from base.
Solves(f, A, V, base, step) ==
    /\ A \subseteq Blocks /\ Genesis \in A /\ f \in [A -> V] /\ f[Genesis] = base
    /\ \A b \in A \ {Genesis} : Parent[b] \in A /\ f[b] = step[<<b, f[Parent[b]]>>]

\* p leads from the genesis block to b, one height at a time.
Leads(p, b) ==
    /\ p \in Seq(Blocks) /\ Len(p) = Index[b] + 1 /\ p[Len(p)] = b
    /\ \A i \in 1 .. Len(p) : Index[p[i]] = i - 1

\* w is what is left of the path to b after its first blocks.
EndOfPath(w, b, offset) ==
    /\ w \in Seq(Blocks) /\ offset \in 0 .. Index[b] /\ Len(w) = Index[b] - offset + 1
    /\ \A i \in 1 .. Len(w) : w[i] = PathTo[b][offset + i]

\* update_state appends a block of the path.
Updated(d, c, b) ==
    /\ d.blocks = Append(c.blocks, b) /\ d.blocks_offset = c.blocks_offset
    /\ d.block_hashes = c.block_hashes \cup {b} /\ d.orphan_pool = c.orphan_pool
    /\ d.pending_tickets = (c.pending_tickets \ Mature(c)) \cup ({b} \cap Ticketed)
    /\ d.settled = c.settled \cup {Draw(c, t) : t \in Mature(c)}
    /\ d.ledger = [applied |-> Append(c.ledger.applied, b),
                   drawn |-> c.ledger.drawn \cup {Draw(c, t) : t \in Mature(c)}]
    /\ d \in Chains

\* The table startup replays against has no rows at all.
RowsTyped(table) == table \in [Heights -> Blocks \cup {NoBlock}]

\* s is the genesis block and then mined blocks.
FromGenesis(s) == s \in Seq(Blocks) /\ Len(s) >= 1 /\ \A i \in 2 .. Len(s) : s[i] \in Mined

\* Replay and reorg.
SoundChains == {c \in Chains : WellFormed(c)}

\* A fork that find_longest_fork offers: mined blocks, from an ancestor on.
IsFork(c, f, table) == f \in Seq(Mined) /\ Len(f) >= 1 /\ HasAncestor(c, f, table)

\* What apply_in_memory may return for a block offered to chain c.
Outcome(c, r) ==
    /\ WellFormed(r.chain) /\ r.new \in Seq(Mined) /\ Displaces(r.old)
    /\ \/ r.kind = "Applied" /\ Tip(r.chain) \in Mined
       \/ r.kind \in {"Rejected", "Orphaned"} /\ r.chain.blocks = c.blocks
       \/ r.kind = "Reorged"

\* The rows of a reorg: those of the new blocks, nothing where only displaced
\* ones were, and the others as they are.
ReorgRows(table, old, new) ==
    LET at == [i \in Heights |-> {b \in Elements(new) : Index[b] = i}]
        gone == {Index[b] : b \in Elements(old)}
    IN  [i \in Heights |-> IF at[i] # {} THEN CHOOSE b \in at[i] : TRUE
                            ELSE IF i \in gone THEN NoBlock ELSE table[i]]

\* Transactions that need nothing of the ones before them.
Unconditional ==
    {w \in WriteTransactions : w.op # "checkpoint" /\ w.op # "reorg"}

\* The rows of a range, as a list in the order of their heights.
ListsRows(s, table, from, to) ==
    /\ s \in Seq(Blocks)
    /\ \A k \in 1 .. Len(s) : Index[s[k]] \in from .. to /\ table[Index[s[k]]] = s[k]
    /\ \A j, k \in 1 .. Len(s) : j < k => Index[s[j]] < Index[s[k]]
    /\ \A i \in from .. to : table[i] # NoBlock => \E k \in 1 .. Len(s) : s[k] = table[i]

\* Rows reads the rows one after the other.
RowRun(f, table, from, n) ==
    /\ f \in [0 .. n -> Seq(Blocks)] /\ f[0] = <<>>
    /\ \A i \in 1 .. n : f[i] = f[i - 1] \o RowAt(table, from + i - 1)

\* trace_fork_chain walks down from the tip while the parent is in the pool.
Traces(f, pool) ==
    \A b \in pool : /\ f[b] = ForkChain(pool, b)
                    /\ f[b] = IF Parent[b] \in pool THEN Append(f[Parent[b]], b) ELSE <<b>>

\* It returns a nonempty chain of orphans that ends in the tip.
Linked(f) == \A i \in 2 .. Len(f) : Parent[f[i]] = f[i - 1]

ForkTo(f, pool, tip) ==
    /\ f \in Seq(pool) /\ Len(f) >= 1 /\ f[Len(f)] = tip
    /\ Linked(f)

\* d is what one block of the list makes of c.
StepTo(c, b, d) ==
    IF Accepts(c, b) THEN d = UpdateState(c, b) ELSE d = c \/ (Pools(c, b, d) /\ Parent[b] # Tip(c))

\* h holds the chains that replaying t goes through.
BlockSteps(h, c, t) ==
    /\ h[0] = c /\ h[Len(t)] = Replay(c, t)
    /\ \A i \in 1 .. Len(t) : h[i] = ReplayBlock(h[i - 1], t[i])
    /\ \A i \in 0 .. Len(t) : h[i] \in SoundChains

\* h holds the chains that replaying the stored blocks of t goes through.
StoredSteps(h, c, t) ==
    /\ h[0] = c /\ h[Len(t)] = ReplayStored(c, t)
    /\ \A i \in 1 .. Len(t) : h[i] = ApplyStored(h[i - 1], t[i])
    /\ \A i \in 0 .. Len(t) : h[i] \in SoundChains

\* The rows of the new blocks complete the path the reorg took.
Completes(d, f, y) ==
    /\ Ancestor(f) \in Nat /\ Ancestor(f) <= Index[y] /\ Index[y] <= Ancestor(f) + Len(f)
    /\ \A i \in 1 .. Len(f) : /\ f[i] \in Mined /\ Index[f[i]] = Ancestor(f) + i
                              /\ Ancestor(f) + i <= Index[y] => f[i] = At(y, Ancestor(f) + i)
    /\ \A i \in 0 .. Index[y] : d.BLOCKS[i] = At(y, i) \/ \E k \in 1 .. Len(f) : Index[f[k]] = i

\* The queue of a deep reorg, transaction by transaction.
DeepQueue(q, f) ==
    /\ Len(f) \in Nat /\ Len(q) = Len(f) + 2
    /\ q[1].op = "delete" /\ q[1].from = 0 /\ q[Len(f) + 2].op = "rebuild"
    /\ \A i \in 1 .. Len(f) : q[i + 1].op = "save" /\ q[i + 1].block = f[i]

\* e is c after update_state on a block it accepts, told by the paths.
Told(c, b, e) ==
    /\ e \in TicketChains /\ Tip(e) = b /\ b \in Mined /\ Parent[b] = Tip(c) /\ Tip(c) \in Blocks
    /\ e.blocks_offset = c.blocks_offset /\ Len(e.blocks) = Len(c.blocks) + 1
    /\ c.blocks_offset \in 0 .. Index[Tip(c)] /\ Len(c.blocks) = Index[Tip(c)] - c.blocks_offset + 1
    /\ e.ledger.drawn = c.ledger.drawn
                        \cup {CutDraw(Tip(c), t, c.blocks_offset) : t \in MatureOn(Tip(c))}

-----------------------------------------------------------------------------
\* A client that pages through the history of an address.
Rank(keys, i) == Cardinality(Newer(keys, i))

\* f numbers the keys 0, 1, ... without a gap.
Numbers(f, keys, n) == f \in Injection(keys, 0 .. n - 1) /\ f \in Surjection(keys, 0 .. n - 1)

\* The keys of the ranks from o on, l of them.
Page(keys, o, l) == {i \in keys : Rank(keys, i) \in o .. o + l - 1}

\* What a list of an address has shown, and what it has to show: of the records
\* that were there all along, those ranked before its offset, as long as no
\* record was taken out.
Lists == [at : {"history"}, offset : Nat, shown : SUBSET Nat, all : BOOLEAN,
          kept : SUBSET Nat, removed : BOOLEAN]

Shows(c, keys) ==
    /\ c.kept \subseteq keys
    /\ ~c.removed => \A i \in c.kept : Rank(keys, i) < c.offset => i \in c.shown
    /\ c.all /\ ~c.removed => c.kept \subseteq c.shown

ReadingBlocks(c) ==
    \E from, untouched, blocks :
        c = [at |-> "blocks", from |-> from, untouched |-> untouched, blocks |-> blocks]

ReadingHistory(c, keys) == c \in Lists /\ Shows(c, keys)

ClientSound(c, keys) ==
    c.at \in {"closed", "page"} \/ ReadingBlocks(c) \/ ReadingHistory(c, keys)

QueryInv == NodeInv /\ ClientSound(client, Keys(db))

\* e is c with one page more.
Grown(e, c, m, P, all) ==
    /\ e \in Lists /\ e.offset = c.offset + m /\ e.shown = c.shown \cup P
    /\ e.all = all /\ e.kept = c.kept /\ e.removed = c.removed

=============================================================================
