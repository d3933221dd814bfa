---------------------------- MODULE RevealWindow ----------------------------
(***************************************************************************)
(* The lottery's reveal window against the node's sliding block window     *)
(* (lootcoin-node/src/blockchain.rs).                                      *)
(*                                                                         *)
(* A block with at least one user transaction earns its miner a ticket.    *)
(* The ticket created at height t settles when block t + RevealBlocks is   *)
(* applied, and its outcome is a hash of the block hashes at heights       *)
(* t .. t + RevealBlocks - 1.  Those hashes are read from the in-memory    *)
(* window `blocks`, which is pruned to ReorgWindow blocks, rebuilt by a    *)
(* reorg, and cut down to one block by a restart from a checkpoint; a hash *)
(* that is not in the window is silently skipped.                          *)
(*                                                                         *)
(* The module keeps heights only: hashes, balances and the pot are in      *)
(* Ledger, block identities and the tables on disk in Node.                *)
(***************************************************************************)
EXTENDS Integers

CONSTANTS
    RevealBlocks,       \* REVEAL_BLOCKS, the length of the reveal window
    ReorgWindow,        \* REORG_WINDOW, blocks kept in memory
    CheckpointInterval, \* CHECKPOINT_INTERVAL, blocks between two snapshots
    MaxHeight           \* bound of the model: chains have at most MaxHeight blocks

\* blockchain.rs:12 is a compile-time assertion of the third conjunct.
ASSUME WindowAssumption ==
    /\ RevealBlocks \in Nat \ {0}
    /\ ReorgWindow \in Nat
    /\ ReorgWindow >= RevealBlocks
    /\ CheckpointInterval \in Nat \ {0}
    /\ MaxHeight \in Nat \ {0}

VARIABLES
    blocks_offset,   \* height of blocks[0]
    length,          \* blocks.len()
    pending_tickets, \* created_height of every ticket not yet settled
    ticketed,        \* heights of the canonical blocks that earned a ticket
    settled,         \* every settlement in the current state's past
    checkpoints,     \* rows of the CHECKPOINTS table
    restarts         \* history: checkpoint heights the node was restored from

vars == <<blocks_offset, length, pending_tickets, ticketed, settled,
          checkpoints, restarts>>

Height == blocks_offset + length

MaxOf(a, b) == IF a >= b THEN a ELSE b

\* The settlement of ticket t while `blocks` starts at height offset: the
\* heights compute_ticket_reward finds a hash for.
Draw(t, offset) ==
    [created |-> t, entropy |-> MaxOf(t, offset) .. (t + RevealBlocks - 1)]

FullWindow(t) == t .. (t + RevealBlocks - 1)

\* A ticket of a chain of n blocks is pending while block t + RevealBlocks
\* is not among them.
PendingAt(n, tickets) == {t \in tickets : t + RevealBlocks >= n}
SettledAt(n, tickets) == {t \in tickets : t + RevealBlocks < n}

\* Mutant: a window one block shorter than the reveal window needs.
MutKeptShort == ReorgWindow - 1

\* The blocks prune_to_window keeps.
Kept == ReorgWindow

\* Mutant: pruning starts one block too late.
MutPrunedLength(n) == IF n > Kept + 1 THEN Kept ELSE n

\* prune_to_window on a window of n blocks that starts at offset.
PrunedOffset(offset, n) == IF n > Kept THEN offset + (n - Kept) ELSE offset
PrunedLength(n) == IF n > Kept THEN Kept ELSE n

\* Mutant: settlement fires one block late.
MutMatures(t, h) == t + RevealBlocks + 1 = h

\* The settlement test of update_state: an equality.
Matures(t, h) == t + RevealBlocks = h

\* Mutant: the first displaced height keeps its checkpoint.
MutSurviving(ancestor) == {c \in checkpoints : c.height <= ancestor + 1}

\* The checkpoints left by delete_checkpoints_from after a reorg that forks
\* above `ancestor`: none when the reorg displaces nothing or reaches below
\* the window, otherwise those below the first displaced block.
Surviving(ancestor) ==
    IF ancestor < blocks_offset \/ ancestor = Height - 1
    THEN {} ELSE {c \in checkpoints : c.height <= ancestor}

Init ==
    /\ blocks_offset = 0
    /\ length = 1
    /\ pending_tickets = {}
    /\ ticketed = {}
    /\ settled = {}
    /\ checkpoints = {}
    /\ restarts = {}

-----------------------------------------------------------------------------
\* update_state and the Applied arm of apply_block: settle what matures at
\* this height, push the block, issue its ticket, snapshot every
\* CheckpointInterval blocks, prune.
ApplyBlock(hasRealTx) ==
    LET h == Height
        mature == {t \in pending_tickets : Matures(t, h)}
        earned == IF hasRealTx THEN {h} ELSE {}
        pending == (pending_tickets \ mature) \cup earned
        draws == settled \cup {Draw(t, blocks_offset) : t \in mature}
    IN  /\ h < MaxHeight
        /\ pending_tickets' = pending
        /\ ticketed' = ticketed \cup earned
        /\ settled' = draws
        /\ checkpoints' = IF h % CheckpointInterval = 0
                          THEN checkpoints \cup
                               {[height |-> h, tickets |-> pending, settled |-> draws]}
                          ELSE checkpoints
        /\ blocks_offset' = PrunedOffset(blocks_offset, length + 1)
        /\ length' = PrunedLength(length + 1)
        /\ UNCHANGED restarts

\* reorg_to and the Reorged arm of apply_block: the blocks above `ancestor`
\* are replaced by a fork that ends the chain at n blocks, some of them with
\* user transactions; the replay may already stop at the fork's first block.
\* The whole chain is replayed from genesis before the window is pruned, so
\* every settlement of the replay sees its full window.
Reorg(ancestor, n, earned) ==
    LET tickets == {t \in ticketed : t <= ancestor} \cup earned
    IN  /\ ticketed' = tickets
        /\ pending_tickets' = PendingAt(n, tickets)
        /\ settled' = {Draw(t, 0) : t \in SettledAt(n, tickets)}
        /\ checkpoints' = Surviving(ancestor)
        /\ blocks_offset' = PrunedOffset(0, n)
        /\ length' = PrunedLength(n)
        /\ UNCHANGED restarts

\* Startup without a checkpoint: every stored block is replayed from genesis.
RestartFromGenesis ==
    /\ checkpoints = {}
    /\ pending_tickets' = PendingAt(Height, ticketed)
    /\ settled' = {Draw(t, 0) : t \in SettledAt(Height, ticketed)}
    /\ blocks_offset' = PrunedOffset(0, Height)
    /\ length' = PrunedLength(Height)
    /\ UNCHANGED <<ticketed, checkpoints, restarts>>

\* Startup with a checkpoint: restore_from_checkpoint leaves the checkpoint's
\* block alone in the window, the blocks above it are replayed on top, and
\* only then is the window pruned.
RestartFromCheckpoint ==
    \E c \in checkpoints :
        LET tail == {t \in ticketed : t > c.height}
            n == Height - c.height
        IN  /\ \A d \in checkpoints : d.height <= c.height
            /\ pending_tickets' = PendingAt(Height, c.tickets \cup tail)
            /\ settled' = c.settled \cup
                   {Draw(t, c.height) : t \in SettledAt(Height, c.tickets \cup tail)}
            /\ blocks_offset' = PrunedOffset(c.height, n)
            /\ length' = PrunedLength(n)
            /\ restarts' = restarts \cup {c.height}
            /\ UNCHANGED <<ticketed, checkpoints>>

ReorgStep ==
    \E ancestor \in 0 .. (Height - 1), n \in 1 .. MaxHeight :
        /\ n > ancestor
        /\ \E earned \in SUBSET ((ancestor + 1) .. (n - 1)) : Reorg(ancestor, n, earned)

Next ==
    \/ \E hasRealTx \in BOOLEAN : ApplyBlock(hasRealTx)
    \/ ReorgStep
    \/ RestartFromGenesis
    \/ RestartFromCheckpoint

Spec == Init /\ [][Next]_vars

-----------------------------------------------------------------------------
\* Types of the variables; the window is never empty and never longer than
\* ReorgWindow (or its single block when ReorgWindow is smaller).
Checkpoint == [height : Nat,
               tickets : SUBSET Nat,
               settled : SUBSET [created : Nat, entropy : SUBSET Nat]]

TypeOK ==
    /\ blocks_offset \in Nat
    /\ length \in Nat \ {0}
    /\ length <= ReorgWindow
    /\ pending_tickets \subseteq Nat
    /\ ticketed \subseteq 0 .. (Height - 1)
    /\ settled \subseteq [created : Nat, entropy : SUBSET Nat]
    /\ checkpoints \subseteq Checkpoint
    /\ restarts \subseteq Nat

\* No ticket is lost or settled late: what is pending is exactly the tickets
\* of the last RevealBlocks heights.  The settlement test in update_state is
\* an equality, so a ticket that is ever overdue would stay pending for good.
NoTicketOverdue == pending_tickets = PendingAt(Height, ticketed)

\* Every ticket whose window is complete has been drawn, and exactly once,
\* whatever reorgs and restarts the node went through.
DrawnOnce(draws, tickets) ==
    /\ {d.created : d \in draws} = tickets
    /\ \A d, e \in draws : d.created = e.created => d = e

DrawnExactlyOnce == DrawnOnce(settled, SettledAt(Height, ticketed))

\* blockchain.rs:9-12 promises a draw the hash of every block of its reveal
\* window.  What holds of the code: a draw misses a block only if the node was
\* restored from a checkpoint taken strictly inside that window.
CompleteOrCut(draws, cuts) ==
    \A d \in draws :
        \/ d.entropy = FullWindow(d.created)
        \/ \E c \in cuts : d.created < c /\ c < d.created + RevealBlocks

EntropyCompleteUnlessRestored == CompleteOrCut(settled, restarts)

=============================================================================
