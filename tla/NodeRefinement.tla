--------------------------- MODULE NodeRefinement ---------------------------
(***************************************************************************)
(* Node implements RevealWindow: a node with blocks, an orphan pool, fork  *)
(* choice and tables on disk, that is only ever stopped between blocks,    *)
(* treats its tickets as the heights-only model does.                      *)
(*                                                                         *)
(* A step of apply_block that changes memory maps to the whole abstract    *)
(* step and its writes to stutters: the checkpoints are the ones the       *)
(* tables hold once everything outstanding is written.                     *)
(***************************************************************************)
EXTENDS Node

\* A stop between two blocks and the start after it: nothing happens between
\* the two, so they are one step.
Reboot == Idle /\ StartUp

NextRebooting == Running \/ Reboot
SpecRebooting == Init /\ [][NextRebooting]_vars

Outstanding(op) == {w \in Elements(todo) : w.op = op}
CheckpointsNow ==
    {c \in db.CHECKPOINTS : \A w \in Outstanding("delete") : c.height < w.from}
        \cup {w.state : w \in Outstanding("checkpoint")}

HeightsOf(S) == {Index[b] : b \in S}
DrawsByHeight(draws) ==
    {[created |-> Index[d.ticket], entropy |-> HeightsOf(Elements(d.entropy))] : d \in draws}

RW == INSTANCE RevealWindow WITH
          MaxHeight <- Cardinality(Heights),
          blocks_offset <- chain.blocks_offset,
          length <- Len(chain.blocks),
          pending_tickets <- HeightsOf(chain.pending_tickets),
          ticketed <- HeightsOf(Elements(chain.ledger.applied) \cap Ticketed),
          settled <- DrawsByHeight(chain.ledger.drawn),
          checkpoints <- {[height |-> c.height, tickets |-> HeightsOf(c.tickets),
                           settled |-> DrawsByHeight(c.ledger.drawn)] : c \in CheckpointsNow},
          restarts <- restored

\* The node does what RevealWindow does: no ticket is lost or drawn twice, and
\* the entropy is complete unless a checkpoint restart cut it, as proved there
\* for every window size (blockchain.rs:9-16).  A reorg that stops half-way is a
\* reorg to a shorter fork.  Only when the tables hold both kinds of stray row
\* may a step be none of RevealWindow's.
ImplementsRevealWindow == RW!Init /\ [][RW!Next \/ Tangled(stray)]_(RW!vars)

=============================================================================
