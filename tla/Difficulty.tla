------------------------------ MODULE Difficulty ------------------------------
(***************************************************************************)
(* Timestamps and difficulty in one node's chain: the timestamp checks,    *)
(* ASERT and its anchor in update_state, expected_difficulty_for in        *)
(* validate_block_standalone, the rebuild of a reorg, and the restart from *)
(* a checkpoint, whose window is a single block (blockchain.rs).           *)
(*                                                                         *)
(* A block is the sequence of timestamps from genesis up to its own, which *)
(* says all that its hash commits to.  The blocks that arrive were mined   *)
(* by nodes that apply the rules to the whole chain below them, with       *)
(* clocks that may be ahead: Valid.  Every block has the same luck, so     *)
(* the heavier fork is the longer one (Node has other weights).            *)
(*                                                                         *)
(* A difficulty is counted in bits / ASERT_HALFLIFE_SECS, so the formula   *)
(* is exact in integers where the code rounds an f64.                      *)
(***************************************************************************)
EXTENDS Integers, Sequences, FiniteSets, SequencesExt

CONSTANTS
    TargetBlockTime,    \* TARGET_BLOCK_TIME_SECS
    MinDifficulty, MaxDifficulty, InitialDifficulty,
    MtpWindow,          \* MTP_WINDOW
    FutureLimit,        \* 120 seconds
    ReorgWindow,        \* REORG_WINDOW
    CheckpointInterval, \* CHECKPOINT_INTERVAL
    MaxOrphanDepth,     \* MAX_ORPHAN_DEPTH
    MaxTime,            \* bound: the last second
    MaxHeight,          \* bound: index of the last block
    MaxOrphans          \* bound: blocks that wait in the orphan pool

ASSUME DifficultyAssumption ==
    /\ {TargetBlockTime, MtpWindow, ReorgWindow, CheckpointInterval, MaxOrphanDepth}
            \subseteq Nat \ {0}
    /\ {FutureLimit, MaxTime, MaxHeight, MaxOrphans} \subseteq Nat
    /\ {MinDifficulty, MaxDifficulty, InitialDifficulty} \subseteq Nat \ {0}
    /\ MinDifficulty <= MaxDifficulty /\ InitialDifficulty <= MaxDifficulty
    /\ ReorgWindow >= MtpWindow

VARIABLES
    now,      \* SystemTime
    chain,    \* the Blockchain value in memory
    rows,     \* the BLOCKS table: rows[i] is the block with index i - 1
    saved,    \* the CHECKPOINTS table
    outcome   \* what the last apply_block returned

vars == <<now, chain, rows, saved, outcome>>

-----------------------------------------------------------------------------
\* Blocks.
Index(b) == Len(b) - 1
Timestamp(b) == Last(b)
Parent(b) == Front(b)
Upto(b, n) == SubSeq(b, 1, n)
BlocksOf(b) == [i \in 1 .. Len(b) |-> Upto(b, i)]

MaxOf(a, b) == IF a >= b THEN a ELSE b
Since(t, u) == MaxOf(t - u, 0)
Clamp(d) == MaxOf(MinDifficulty, -MaxOf(-d, -MaxDifficulty))
LastOf(s, n) == SubSeq(s, MaxOf(Len(s) - n, 0) + 1, Len(s))

\* recent[recent.len() / 2] of the sorted timestamps
Median(s) ==
    CHOOSE v \in ToSet(s) :
        /\ Cardinality({i \in DOMAIN s : s[i] < v}) <= Len(s) \div 2
        /\ Cardinality({i \in DOMAIN s : s[i] <= v}) > Len(s) \div 2

\* What the chain p asks of its next block, told from the whole of p alone.
RequiredOn(p) ==
    IF Len(p) < 2 \/ InitialDifficulty < MinDifficulty THEN InitialDifficulty
    ELSE Clamp(InitialDifficulty + (Len(p) - 2) * TargetBlockTime - Since(Last(p), p[2]))

\* The difficulty a block's hash meets: what its miner's chain asked for.
Met(b) == RequiredOn(Parent(b))

Valid(b) == \A i \in 2 .. Len(b) : b[i] > Median(LastOf(Upto(b, i - 1), MtpWindow))
ValidBlocks ==
    {b \in UNION {[1 .. n -> 0 .. MaxTime] : n \in 2 .. MaxHeight + 1} : b[1] = 0 /\ Valid(b)}

-----------------------------------------------------------------------------
\* The chain in memory.  `known` is the first index that block_hashes covers.
NoAnchor == [height |-> 0, timestamp |-> 0, difficulty |-> 0]
GenesisChain ==
    [path |-> <<0>>, offset |-> 0, known |-> 0, anchor |-> NoAnchor,
     difficulty |-> InitialDifficulty, orphans |-> {}]

Window(c) == SubSeq(c.path, c.offset + 1, Len(c.path))

\* The formula: a block at this height with this timestamp, from the anchor.
Asert(anchor, height, timestamp) ==
    Clamp(anchor.difficulty + (height - anchor.height) * TargetBlockTime
                            - Since(timestamp, anchor.timestamp))

\* update_state, its checks
InTime(b) == Timestamp(b) <= now + FutureLimit
Accepts(c, b) ==
    /\ Parent(b) = c.path
    /\ InTime(b)
    /\ Timestamp(b) > Median(LastOf(Window(c), MtpWindow))
    /\ Met(b) >= c.difficulty

\* Mutant: the anchor is set at the genesis block.
MutUpdateState(c, b) ==
    LET fixed == c.anchor.difficulty < MinDifficulty
    IN  [c EXCEPT
          !.path = b,
          !.anchor = [height |-> 0, timestamp |-> 0, difficulty |-> InitialDifficulty],
          !.difficulty = IF fixed THEN @ ELSE Asert(c.anchor, Index(b), Timestamp(b))]

\* ... and its effect: the anchor is the first mined block.
UpdateState(c, b) ==
    LET first == Index(b) = 1
        fixed == c.anchor = NoAnchor \/ c.anchor.difficulty < MinDifficulty
    IN  [c EXCEPT
          !.path = b,
          !.anchor = IF first THEN [height |-> 1, timestamp |-> Timestamp(b),
                                    difficulty |-> c.difficulty] ELSE @,
          !.difficulty = IF first \/ fixed THEN @ ELSE Asert(c.anchor, Index(b), Timestamp(b))]

PruneToWindow(c) ==
    LET offset == MaxOf(c.offset, Len(c.path) - ReorgWindow)
    IN  [c EXCEPT !.offset = offset, !.known = MaxOf(@, offset)]

IsOn(c, b) == Len(b) <= Len(c.path) /\ Upto(c.path, Len(b)) = b

\* find_block_timestamp has an answer
Found(c, b) == b \in c.orphans \/ (IsOn(c, b) /\ Index(b) >= MaxOf(c.known, c.offset))

\* Mutant: every block is held to the difficulty of the main chain's tip.
MutExpectedDifficultyFor(c, b) == c.difficulty

\* expected_difficulty_for
ExpectedDifficultyFor(c, b) ==
    IF \/ c.anchor = NoAnchor \/ c.anchor.difficulty < MinDifficulty
       \/ ~Found(c, Parent(b)) \/ Index(Parent(b)) < c.anchor.height
    THEN c.difficulty
    ELSE Asert(c.anchor, Index(Parent(b)), Timestamp(Parent(b)))

ValidateBlockStandalone(c, b) ==
    /\ Met(b) >= ExpectedDifficultyFor(c, b)
    /\ Index(b) <= Len(c.path) + MaxOrphanDepth

-----------------------------------------------------------------------------
\* Fork choice.  A fork grows from a block of the window whose hash is known,
\* or, given the database, from one below the window.
Ancestor(c, pool, o) ==
    Upto(o, CHOOSE n \in 1 .. Len(o) - 1 :
                /\ Upto(o, n) \notin pool
                /\ \A i \in n + 1 .. Len(o) - 1 : Upto(o, i) \in pool)
Rooted(c, a, database) ==
    \/ IsOn(c, a) /\ Index(a) >= c.known
    \/ database /\ Index(a) < c.offset /\ Len(a) <= Len(rows) /\ rows[Len(a)] = a

HeavierForks(c, database) ==
    {o \in c.orphans :
        /\ \A p \in c.orphans : Parent(p) # o
        /\ Rooted(c, Ancestor(c, c.orphans, o), database)
        /\ Len(o) > Len(c.path)}
ForkLength(c, o) == Len(o) - Len(Ancestor(c, c.orphans, o))

TryBlock(c, b) == IF Accepts(c, b) THEN UpdateState(c, b) ELSE c

\* Mutant: the replay starts with the difficulty of the displaced chain.
MutReorgTo(c, tip) ==
    FoldLeft(TryBlock, [GenesisChain EXCEPT !.difficulty = c.difficulty], Tail(BlocksOf(tip)))

\* reorg_to: everything is replayed from genesis, up to the first block that
\* update_state does not accept.
ReorgTo(c, tip) == FoldLeft(TryBlock, GenesisChain, Tail(BlocksOf(tip)))

\* apply_in_memory
ApplyInMemory(c, b, database) ==
    LET pooled == [c EXCEPT !.orphans = @ \cup {b}]
        forks == HeavierForks(pooled, database)
        best == CHOOSE o \in forks : \A p \in forks : ForkLength(pooled, p) <= ForkLength(pooled, o)
    IN  CASE Accepts(c, b) -> [kind |-> "Applied", tip |-> b, chain |-> UpdateState(c, b)]
          [] ~Accepts(c, b) /\ (Parent(b) = c.path \/ ~ValidateBlockStandalone(c, b))
                -> [kind |-> "Rejected", tip |-> c.path, chain |-> c]
          [] OTHER
                -> IF forks = {} THEN [kind |-> "Orphaned", tip |-> c.path, chain |-> pooled]
                   ELSE [kind |-> "Reorged", tip |-> best, chain |-> ReorgTo(c, best)]

-----------------------------------------------------------------------------
\* The tables after apply_block.  A reorg whose blocks below the old tip are
\* all in the window replaces their rows; any other overwrites what it has.
Stored(rs, tip, from, keep) ==
    [i \in 1 .. (IF keep THEN MaxOf(Len(rs), Len(tip)) ELSE Len(tip)) |->
        IF i > from /\ i <= Len(tip) THEN Upto(tip, i) ELSE rs[i]]

Displaces(r) == LET a == CHOOSE n \in 1 .. Len(r.tip) :
                            /\ IsOn(chain, Upto(r.tip, n))
                            /\ \A i \in n + 1 .. Len(r.tip) : ~IsOn(chain, Upto(r.tip, i))
                IN  [from |-> a, shallow |-> a < Len(chain.path) /\ a - 1 >= chain.offset]

Snapshot(c) == [path |-> c.path, anchor |-> c.anchor, difficulty |-> c.difficulty]

\* apply_block
Receive(b) ==
    /\ ~IsOn(chain, b) /\ b \notin chain.orphans
    /\ LET r == ApplyInMemory(chain, b, TRUE)
           d == Displaces(r)
       IN  /\ Cardinality(r.chain.orphans) <= MaxOrphans
           /\ chain' = PruneToWindow(r.chain)
           /\ rows' = CASE r.kind = "Applied" -> Stored(rows, b, Index(b), TRUE)
                        [] r.kind = "Reorged" -> Stored(rows, r.tip, d.from, ~d.shallow)
                        [] OTHER -> rows
           /\ saved' = CASE r.kind = "Applied" /\ Index(b) % CheckpointInterval = 0
                                -> {cp \in saved : Len(cp.path) # Len(b)} \cup {Snapshot(r.chain)}
                         [] r.kind = "Reorged"
                                -> {cp \in saved : d.shallow /\ Len(cp.path) <= d.from}
                         [] OTHER -> saved
           /\ outcome' = [kind |-> r.kind, tip |-> r.tip]
    /\ UNCHANGED now

-----------------------------------------------------------------------------
\* restore_from_checkpoint
RestoreFromCheckpoint(cp) ==
    [path |-> cp.path, offset |-> Index(cp.path), known |-> Len(cp.path),
     anchor |-> cp.anchor, difficulty |-> cp.difficulty, orphans |-> {}]

ReplayBlock(c, b) == ApplyInMemory(c, b, FALSE).chain
Replay(c, blocks) == FoldLeft(ReplayBlock, c, blocks)

\* Mutant: the first block above the checkpoint is skipped.
MutLoadBlocksFrom(i) == SubSeq(rows, i + 2, Len(rows))

\* load_blocks_from
LoadBlocksFrom(i) == SubSeq(rows, i + 1, Len(rows))

Latest == CHOOSE cp \in saved : \A other \in saved : Len(other.path) <= Len(cp.path)
UsesCheckpoint == saved # {} /\ rows[Len(Latest.path)] = Latest.path

\* The process stops and starts again: the rows above the latest checkpoint go
\* through apply_in_memory, or all of them if its block is another one.
Restart ==
    /\ IF UsesCheckpoint
       THEN /\ chain' = PruneToWindow(Replay(RestoreFromCheckpoint(Latest),
                                             LoadBlocksFrom(Len(Latest.path))))
            /\ saved' = saved
       ELSE /\ chain' = PruneToWindow(Replay(GenesisChain, Tail(rows)))
            /\ saved' = {}
    /\ outcome' = [kind |-> "Started", tip |-> chain'.path]
    /\ UNCHANGED <<now, rows>>

Tick ==
    /\ now < MaxTime
    /\ now' = now + 1
    /\ outcome' = [kind |-> "Waited", tip |-> chain.path]
    /\ UNCHANGED <<chain, rows, saved>>

Init ==
    /\ now = 0
    /\ chain = GenesisChain
    /\ rows = <<GenesisChain.path>>
    /\ saved = {}
    /\ outcome = [kind |-> "Started", tip |-> chain.path]

Next == Tick \/ Restart \/ \E b \in ValidBlocks : Receive(b)

Spec == Init /\ [][Next]_vars

-----------------------------------------------------------------------------
\* The difficulty is a function of the chain alone, whatever forks, reorgs and
\* restarts led there, and so the same on every node (blockchain.rs:758-767).
DifficultyFollowsChain == chain.difficulty = RequiredOn(chain.path)

\* A block mined by the rules is never refused for good, if it is not ahead of
\* the clock and not out of reach.  The exceptions: the median over the short
\* window that a checkpoint restart leaves, a fork whose parent is not in
\* memory, and a fork with another first block, hence another anchor; a chain
\* that has no first block yet measures every fork by the initial difficulty.
MedianIsExact == chain.offset = 0 \/ Len(Window(chain)) >= MtpWindow
Comparable(b) ==
    /\ Len(chain.path) >= 2 /\ b[2] = chain.path[2]
    /\ Found(chain, Parent(b))
    /\ Index(b) <= Len(chain.path) + MaxOrphanDepth
ValidNeverRefused ==
    \A b \in ValidBlocks :
        /\ ~IsOn(chain, b) /\ InTime(b)
        /\ IF Parent(b) = chain.path THEN MedianIsExact ELSE Comparable(b)
        => ApplyInMemory(chain, b, TRUE).kind # "Rejected"

\* "Should never happen: all blocks have passed validate_block_standalone
\* before entering the orphan pool" (blockchain.rs:1075-1078): a reorg replays
\* the whole fork it chose.
ReorgCompletes == outcome.kind = "Reorged" => chain.path = outcome.tip

\* ... which holds if none of the fork's blocks is ahead of the clock.
ReorgCompletesInTime ==
    (\A i \in DOMAIN outcome.tip : outcome.tip[i] <= now + FutureLimit) => ReorgCompletes

\* "On restart, the node loads the most recent snapshot and replays only the
\* blocks that followed it" (lootcoin-node/README.md:58): no block is lost.
Lossless == outcome'.kind = "Started" => IsPrefix(chain.path, chain'.path)
RestartKeepsChain == [][Lossless]_vars

\* ... which holds if, above the checkpoint, every block is later than the one
\* before; a full replay always holds the median against the whole window.
Ascending == \A i \in Len(Latest.path) .. Len(chain.path) - 1 : chain.path[i] < chain.path[i + 1]
RestartKeepsAscending == [][(UsesCheckpoint => Ascending) => Lossless]_vars

=============================================================================
