------------------------- MODULE RevealWindowProofs -------------------------
(***************************************************************************)
(* Proofs about RevealWindow: for every reveal length, window size at      *)
(* least as long (the compile-time assertion of blockchain.rs:12) and      *)
(* checkpoint interval, no ticket is lost, every ticket is drawn exactly   *)
(* once, and a draw misses a block of its reveal window only if the node   *)
(* was restored from a checkpoint taken inside that window.                *)
(***************************************************************************)
EXTENDS RevealWindow, TLAPS

\* The window starts at genesis, or is full, or starts where a checkpoint
\* restore put it: nothing else moves its lower end.
OffsetExplained ==
    \/ blocks_offset = 0
    \/ length = ReorgWindow
    \/ blocks_offset \in restarts

\* A checkpoint holds the tickets and draws of the canonical chain cut at its
\* height: it survives a reorg only if the fork point is at or above it.
CheckpointSound(c) ==
    LET kept == {t \in ticketed : t <= c.height}
    IN  /\ c.height < Height
        /\ c.tickets = PendingAt(c.height + 1, kept)
        /\ DrawnOnce(c.settled, SettledAt(c.height + 1, kept))
        /\ CompleteOrCut(c.settled, restarts)

CheckpointsSound == \A c \in checkpoints : CheckpointSound(c)

IInv ==
    /\ TypeOK
    /\ NoTicketOverdue
    /\ DrawnExactlyOnce
    /\ EntropyCompleteUnlessRestored
    /\ OffsetExplained
    /\ CheckpointsSound

-----------------------------------------------------------------------------
\* prune_to_window drops blocks from the front only: the height of the chain
\* stays, and the window is never longer than ReorgWindow.
LEMMA Pruning ==
    ASSUME NEW o \in Nat, NEW n \in Nat \ {0}
    PROVE  /\ PrunedOffset(o, n) \in Nat
           /\ PrunedLength(n) \in Nat \ {0}
           /\ PrunedLength(n) <= ReorgWindow
           /\ PrunedOffset(o, n) + PrunedLength(n) = o + n
           /\ PrunedOffset(o, n) = o \/ PrunedLength(n) = ReorgWindow
  BY WindowAssumption DEF PrunedOffset, PrunedLength, Kept

\* compute_ticket_reward makes one draw for each ticket it is given.
LEMMA DrawsOfTickets ==
    ASSUME NEW T \in SUBSET Nat, NEW o \in Nat
    PROVE  /\ DrawnOnce({Draw(t, o) : t \in T}, T)
           /\ {Draw(t, o) : t \in T} \subseteq [created : Nat, entropy : SUBSET Nat]
<1>1. \A t \in Nat : Draw(t, o).created = t
  BY DEF Draw
<1>2. \A t \in Nat : Draw(t, o) \in [created : Nat, entropy : SUBSET Nat]
  BY WindowAssumption DEF Draw, MaxOf
<1> DEFINE D == {Draw(t, o) : t \in T}
<1>3. {d.created : d \in D} = T
  <2>1. ASSUME NEW x \in T PROVE x \in {d.created : d \in D}
    <3>1. Draw(x, o) \in D /\ Draw(x, o).created = x
      BY <1>1
    <3> QED
      BY <3>1
  <2>2. ASSUME NEW d \in D PROVE d.created \in T
    BY <1>1
  <2> QED
    BY <2>1, <2>2
<1>4. ASSUME NEW d \in D, NEW e \in D, d.created = e.created PROVE d = e
  <2>1. PICK t \in T : d = Draw(t, o)
    OBVIOUS
  <2>2. PICK u \in T : e = Draw(u, o)
    OBVIOUS
  <2> QED
    BY <1>1, <1>4, <2>1, <2>2
<1>5. D \subseteq [created : Nat, entropy : SUBSET Nat]
  BY <1>2
<1> QED
  BY <1>3, <1>4, <1>5 DEF DrawnOnce

\* The draws of two disjoint sets of tickets stay one per ticket.
LEMMA DrawsUnion ==
    ASSUME NEW A, NEW B, NEW S, NEW T,
           DrawnOnce(A, S), DrawnOnce(B, T), S \cap T = {}
    PROVE  DrawnOnce(A \cup B, S \cup T)
  BY DEF DrawnOnce

\* A draw made while the window still starts at genesis is complete.
LEMMA GenesisDrawsComplete ==
    ASSUME NEW T \in SUBSET Nat, NEW R
    PROVE  CompleteOrCut({Draw(t, 0) : t \in T}, R)
<1> SUFFICES ASSUME NEW t \in T
             PROVE  Draw(t, 0).entropy = FullWindow(Draw(t, 0).created)
  BY DEF CompleteOrCut
<1> QED
  BY DEF Draw, FullWindow, MaxOf

\* A window cut at height o leaves a draw incomplete only if o lies inside
\* the reveal window.
LEMMA CutDraws ==
    ASSUME NEW T \in SUBSET Nat, NEW o \in Nat, NEW R,
           \A t \in T : o <= t \/ (o \in R /\ o < t + RevealBlocks)
    PROVE  CompleteOrCut({Draw(t, o) : t \in T}, R)
<1> SUFFICES ASSUME NEW t \in T
             PROVE  \/ Draw(t, o).entropy = FullWindow(Draw(t, o).created)
                    \/ \E c \in R : /\ Draw(t, o).created < c
                                    /\ c < Draw(t, o).created + RevealBlocks
  BY DEF CompleteOrCut
<1>1. Draw(t, o).created = t /\ Draw(t, o).entropy = MaxOf(t, o) .. (t + RevealBlocks - 1)
  BY DEF Draw
<1>2. CASE o <= t
  BY <1>1, <1>2 DEF FullWindow, MaxOf
<1>3. CASE ~(o <= t)
  <2>1. o \in R /\ t < o /\ o < t + RevealBlocks
    BY <1>3
  <2> QED
    BY <1>1, <2>1
<1> QED
  BY <1>2, <1>3

\* Draws already explained by some restores stay so when there are more.
LEMMA MoreDraws ==
    ASSUME NEW A, NEW B, NEW R, NEW Q, R \subseteq Q,
           CompleteOrCut(A, R), CompleteOrCut(B, Q)
    PROVE  CompleteOrCut(A \cup B, Q)
  BY DEF CompleteOrCut

\* The tickets update_state settles at height h.
Maturing(h, T) == {t \in PendingAt(h, T) : t + RevealBlocks = h}

\* One more block at height h, with or without a ticket of its own, moves
\* exactly the tickets that mature at h from pending to settled.
LEMMA OneMoreBlock ==
    ASSUME NEW h \in Nat, NEW T \in SUBSET (0 .. (h - 1)), NEW E \in SUBSET {h}
    PROVE  /\ PendingAt(h + 1, T \cup E) = (PendingAt(h, T) \ Maturing(h, T)) \cup E
           /\ SettledAt(h + 1, T \cup E) = SettledAt(h, T) \cup Maturing(h, T)
           /\ SettledAt(h, T) \cap Maturing(h, T) = {}
           /\ \A t \in Maturing(h, T) : t \in Nat /\ t + RevealBlocks = h
<1> DEFINE M == Maturing(h, T)
<1>1. \A t \in T : t \in Nat /\ t < h
  OBVIOUS
<1>2. \A t \in E : t \in Nat /\ t = h
  OBVIOUS
<1>3. ASSUME NEW t
      PROVE  t \in PendingAt(h + 1, T \cup E) <=> t \in (PendingAt(h, T) \ M) \cup E
  <2>1. CASE t \in E
    <3>1. t \in PendingAt(h + 1, T \cup E)
      BY <1>2, <2>1, WindowAssumption DEF PendingAt
    <3> QED
      BY <2>1, <3>1
  <2>2. CASE t \notin E /\ t \in T
    BY <1>1, <2>2, WindowAssumption DEF Maturing, PendingAt
  <2>3. CASE t \notin E /\ t \notin T
    BY <2>3 DEF Maturing, PendingAt
  <2> QED
    BY <2>1, <2>2, <2>3
<1>4. ASSUME NEW t
      PROVE  t \in SettledAt(h + 1, T \cup E) <=> t \in SettledAt(h, T) \cup M
  <2>1. CASE t \in E
    BY <1>1, <1>2, <2>1, WindowAssumption DEF SettledAt, PendingAt, Maturing
  <2>2. CASE t \notin E /\ t \in T
    BY <1>1, <2>2, WindowAssumption DEF SettledAt, PendingAt, Maturing
  <2>3. CASE t \notin E /\ t \notin T
    BY <2>3 DEF SettledAt, PendingAt, Maturing
  <2> QED
    BY <2>1, <2>2, <2>3
<1>5. \A t \in M : t \notin SettledAt(h, T)
  BY <1>1, WindowAssumption DEF SettledAt, PendingAt, Maturing
<1>6. \A t \in M : t \in Nat /\ t + RevealBlocks = h
  BY <1>1 DEF PendingAt, Maturing
<1> QED
  BY <1>3, <1>4, <1>5, <1>6

-----------------------------------------------------------------------------
LEMMA InitInv == Init => IInv
<1> SUFFICES ASSUME Init PROVE IInv
  OBVIOUS
<1>1. TypeOK
  BY WindowAssumption DEF Init, TypeOK, Height
<1> QED
  BY <1>1 DEF Init, IInv, NoTicketOverdue, PendingAt, SettledAt, DrawnExactlyOnce,
       DrawnOnce, EntropyCompleteUnlessRestored, CompleteOrCut, OffsetExplained,
       CheckpointsSound

\* update_state keeps the strengthened invariant.
LEMMA ApplyBlockInv ==
    ASSUME IInv, NEW hasRealTx \in BOOLEAN, ApplyBlock(hasRealTx)
    PROVE  IInv'
<1> DEFINE h == Height
           mature == {t \in pending_tickets : Matures(t, h)}
           earned == IF hasRealTx THEN {h} ELSE {}
           pending == (pending_tickets \ mature) \cup earned
           fresh == {Draw(t, blocks_offset) : t \in mature}
           draws == settled \cup fresh
<1>1. /\ h \in Nat \ {0}
      /\ blocks_offset \in Nat
      /\ length \in Nat \ {0}
      /\ length <= ReorgWindow
      /\ ticketed \subseteq 0 .. (h - 1)
      /\ h = blocks_offset + length
  BY DEF IInv, TypeOK, Height
<1>2. /\ blocks_offset' \in Nat
      /\ length' \in Nat \ {0}
      /\ length' <= ReorgWindow
      /\ Height' = h + 1
      /\ blocks_offset' = blocks_offset \/ length' = ReorgWindow
  <2>1. length + 1 \in Nat \ {0}
    BY <1>1
  <2> QED
    BY <1>1, <2>1, Pruning DEF ApplyBlock, Height
<1>3. /\ pending_tickets' = pending
      /\ ticketed' = ticketed \cup earned
      /\ settled' = draws
      /\ restarts' = restarts
  BY DEF ApplyBlock
<1>4. /\ pending_tickets = PendingAt(h, ticketed)
      /\ earned \in SUBSET {h}
      /\ ticketed \in SUBSET (0 .. (h - 1))
      /\ h \in Nat
  BY <1>1 DEF IInv, NoTicketOverdue
<1>5. ticketed' \subseteq 0 .. h
  BY <1>1, <1>3
<1>6. /\ PendingAt(h + 1, ticketed \cup earned) = (PendingAt(h, ticketed) \ mature) \cup earned
      /\ SettledAt(h + 1, ticketed \cup earned) = SettledAt(h, ticketed) \cup mature
      /\ SettledAt(h, ticketed) \cap mature = {}
      /\ \A t \in mature : t \in Nat /\ t + RevealBlocks = h
  <2>1. mature = Maturing(h, ticketed)
    BY <1>4 DEF Maturing, Matures
  <2> HIDE DEF earned, mature, h
  <2> QED
    BY <1>4, <2>1, OneMoreBlock
<1>7. /\ pending = PendingAt(h + 1, ticketed')
      /\ SettledAt(h + 1, ticketed') = SettledAt(h, ticketed) \cup mature
      /\ mature \in SUBSET Nat
  BY <1>3, <1>4, <1>6
<1>8. /\ DrawnOnce(fresh, mature)
      /\ fresh \subseteq [created : Nat, entropy : SUBSET Nat]
  BY <1>1, <1>7, DrawsOfTickets
<1>9. DrawnOnce(draws, SettledAt(h + 1, ticketed'))
  <2>2. DrawnOnce(settled, SettledAt(h, ticketed))
    BY DEF IInv, DrawnExactlyOnce
  <2> QED
    BY <1>6, <1>7, <1>8, <2>2, DrawsUnion
<1>10. CompleteOrCut(draws, restarts)
  <2>1. ASSUME NEW t \in mature, ~(blocks_offset <= t)
        PROVE  blocks_offset \in restarts /\ blocks_offset < t + RevealBlocks
    <3>1. t \in Nat /\ t + RevealBlocks = h
      BY <1>6
    <3>2. blocks_offset # 0
      BY <1>1, <2>1, <3>1
    <3>3. length # ReorgWindow
      BY <1>1, <2>1, <3>1, WindowAssumption
    <3> QED
      BY <1>1, <3>1, <3>2, <3>3 DEF IInv, OffsetExplained
  <2>2. CompleteOrCut(fresh, restarts)
    BY <1>1, <1>7, <2>1, CutDraws
  <2>3. CompleteOrCut(settled, restarts)
    BY DEF IInv, EntropyCompleteUnlessRestored
  <2> QED
    BY <2>2, <2>3, MoreDraws
<1>11. CheckpointsSound'
  <2> SUFFICES ASSUME NEW c \in checkpoints' PROVE CheckpointSound(c)'
    BY DEF CheckpointsSound
  <2>1. CASE c \in checkpoints
    <3>1. CheckpointSound(c)
      BY <2>1 DEF IInv, CheckpointsSound
    <3>2. c.height \in Nat
      BY <2>1 DEF IInv, TypeOK, Checkpoint
    <3>3. {t \in ticketed' : t <= c.height} = {t \in ticketed : t <= c.height}
      BY <1>1, <1>3, <3>1, <3>2 DEF CheckpointSound
    <3>4. c.height < Height' /\ restarts' = restarts
      BY <1>1, <1>2, <1>3, <3>1, <3>2 DEF CheckpointSound
    <3> HIDE DEF draws, pending, earned, h
    <3> QED
      BY <3>1, <3>3, <3>4 DEF CheckpointSound
  <2>2. CASE c = [height |-> h, tickets |-> pending, settled |-> draws]
    <3>1. /\ c.height = h
          /\ c.tickets = pending
          /\ c.settled = draws
      BY <2>2
    <3>2. {t \in ticketed' : t <= c.height} = ticketed'
      <4>1. \A t \in ticketed' : t <= h
        BY <1>1, <1>5
      <4> QED
        BY <3>1, <4>1
    <3>3. /\ c.height < Height'
          /\ c.tickets = PendingAt(c.height + 1, ticketed')
          /\ DrawnOnce(c.settled, SettledAt(c.height + 1, ticketed'))
          /\ CompleteOrCut(c.settled, restarts')
      <4> HIDE DEF pending, draws
      <4> QED
        BY <1>1, <1>2, <1>3, <1>7, <1>9, <1>10, <3>1
    <3> QED
      BY <3>2, <3>3 DEF CheckpointSound
  <2> QED
    BY <2>1, <2>2 DEF ApplyBlock
<1>12. checkpoints' \subseteq Checkpoint
  <2>1. draws \subseteq [created : Nat, entropy : SUBSET Nat]
    BY <1>8 DEF IInv, TypeOK
  <2>2. pending \subseteq Nat
    BY <1>1 DEF IInv, TypeOK
  <2>3. [height |-> h, tickets |-> pending, settled |-> draws] \in Checkpoint
    BY <1>1, <2>1, <2>2 DEF Checkpoint
  <2> QED
    BY <2>3 DEF ApplyBlock, IInv, TypeOK
<1>13. TypeOK'
  <2>1. settled' \subseteq [created : Nat, entropy : SUBSET Nat]
    BY <1>3, <1>8 DEF IInv, TypeOK
  <2>2. pending_tickets' \subseteq Nat
    BY <1>1, <1>3 DEF IInv, TypeOK
  <2>3. ticketed' \subseteq 0 .. (Height' - 1)
    BY <1>1, <1>2, <1>5
  <2> QED
    BY <1>2, <1>3, <1>12, <2>1, <2>2, <2>3 DEF IInv, TypeOK
<1>14. OffsetExplained'
  BY <1>2, <1>3, <1>1, WindowAssumption DEF IInv, OffsetExplained, ApplyBlock, PrunedOffset, PrunedLength, Kept
<1> QED
  BY <1>2, <1>3, <1>7, <1>9, <1>10, <1>11, <1>13, <1>14
     DEF IInv, NoTicketOverdue, DrawnExactlyOnce, EntropyCompleteUnlessRestored

\* The draws a replay of n blocks from genesis makes: complete, and one for
\* each ticket whose window those blocks contain.
LEMMA ReplayFromGenesis ==
    ASSUME NEW n \in Nat, NEW T \in SUBSET Nat, NEW R
    PROVE  LET draws == {Draw(t, 0) : t \in SettledAt(n, T)}
           IN  /\ DrawnOnce(draws, SettledAt(n, T))
               /\ draws \subseteq [created : Nat, entropy : SUBSET Nat]
               /\ CompleteOrCut(draws, R)
<1>1. SettledAt(n, T) \in SUBSET Nat
  BY DEF SettledAt
<1> HIDE DEF SettledAt
<1> QED
  BY <1>1, DrawsOfTickets, GenesisDrawsComplete

\* A reorg keeps the strengthened invariant: the state is rebuilt from
\* genesis, and only checkpoints of the shared prefix survive.
LEMMA ReorgInv ==
    ASSUME IInv,
           NEW ancestor \in 0 .. (Height - 1), NEW n \in 1 .. MaxHeight,
           n > ancestor,
           NEW earned \in SUBSET ((ancestor + 1) .. (n - 1)),
           Reorg(ancestor, n, earned)
    PROVE  IInv'
<1> DEFINE tickets == {t \in ticketed : t <= ancestor} \cup earned
<1>1. /\ ancestor \in Nat
      /\ n \in Nat \ {0}
      /\ Height \in Nat
      /\ ticketed \in SUBSET Nat
  BY DEF IInv, TypeOK, Height
<1>2. /\ blocks_offset' \in Nat
      /\ length' \in Nat \ {0}
      /\ length' <= ReorgWindow
      /\ Height' = n
      /\ blocks_offset' = 0 \/ length' = ReorgWindow
  BY <1>1, Pruning DEF Reorg, Height
<1>3. /\ ticketed' = tickets
      /\ pending_tickets' = PendingAt(n, tickets)
      /\ settled' = {Draw(t, 0) : t \in SettledAt(n, tickets)}
      /\ restarts' = restarts
      /\ \A c \in checkpoints' : c \in checkpoints /\ c.height <= ancestor
  BY DEF Reorg, Surviving
<1>4. /\ tickets \in SUBSET Nat
      /\ tickets \subseteq 0 .. (n - 1)
  <2>1. \A t \in ticketed : t \in Nat
    BY <1>1
  <2>2. \A t \in earned : t \in Nat /\ t <= n - 1
    BY <1>1
  <2>3. ASSUME NEW t \in tickets PROVE t \in Nat /\ t <= n - 1
    BY <1>1, <2>1, <2>2
  <2> HIDE DEF tickets
  <2>4. \A t \in tickets : t \in 0 .. (n - 1)
    BY <1>1, <2>3
  <2> QED
    BY <2>3, <2>4
<1> HIDE DEF tickets
<1>5. /\ DrawnOnce(settled', SettledAt(n, tickets))
      /\ settled' \subseteq [created : Nat, entropy : SUBSET Nat]
      /\ CompleteOrCut(settled', restarts)
  BY <1>1, <1>3, <1>4, ReplayFromGenesis
<1>6. CheckpointsSound'
  <2> SUFFICES ASSUME NEW c \in checkpoints' PROVE CheckpointSound(c)'
    BY DEF CheckpointsSound
  <2>1. c \in checkpoints /\ c.height <= ancestor
    BY <1>3
  <2>2. CheckpointSound(c) /\ c.height \in Nat
    BY <2>1 DEF IInv, CheckpointsSound, TypeOK, Checkpoint
  <2>3. {t \in tickets : t <= c.height} = {t \in ticketed : t <= c.height}
    <3>1. \A t \in earned : t \in Nat /\ ~(t <= c.height)
      BY <1>1, <2>1, <2>2
    <3>2. \A t \in ticketed : t \in Nat /\ (t <= c.height => t <= ancestor)
      BY <1>1, <2>1, <2>2
    <3> QED
      BY <3>1, <3>2 DEF tickets
  <2>4. c.height < n
    BY <1>1, <2>1, <2>2
  <2> QED
    BY <1>2, <1>3, <2>2, <2>3, <2>4 DEF CheckpointSound
<1>7. TypeOK'
  <2>1. pending_tickets' \subseteq Nat
    BY <1>3, <1>4 DEF PendingAt
  <2>2. ticketed' \subseteq 0 .. (Height' - 1)
    BY <1>2, <1>3, <1>4
  <2>3. checkpoints' \subseteq Checkpoint
    BY <1>3 DEF IInv, TypeOK
  <2> QED
    BY <1>2, <1>3, <1>5, <2>1, <2>2, <2>3 DEF IInv, TypeOK
<1> QED
  BY <1>2, <1>3, <1>5, <1>6, <1>7
     DEF IInv, NoTicketOverdue, DrawnExactlyOnce, EntropyCompleteUnlessRestored,
         OffsetExplained

\* A restart that replays every stored block keeps the invariant.
LEMMA RestartFromGenesisInv ==
    ASSUME IInv, RestartFromGenesis
    PROVE  IInv'
<1>1. /\ Height \in Nat \ {0}
      /\ ticketed \in SUBSET Nat
      /\ ticketed \subseteq 0 .. (Height - 1)
  BY DEF IInv, TypeOK, Height
<1>2. /\ blocks_offset' \in Nat
      /\ length' \in Nat \ {0}
      /\ length' <= ReorgWindow
      /\ Height' = Height
      /\ blocks_offset' = 0 \/ length' = ReorgWindow
  <2>1. blocks_offset' + length' = 0 + Height
    BY <1>1, Pruning DEF RestartFromGenesis
  <2> QED
    BY <1>1, <2>1, Pruning DEF RestartFromGenesis, Height
<1>3. /\ ticketed' = ticketed
      /\ pending_tickets' = PendingAt(Height, ticketed)
      /\ settled' = {Draw(t, 0) : t \in SettledAt(Height, ticketed)}
      /\ restarts' = restarts
      /\ checkpoints = {} /\ checkpoints' = {}
  BY DEF RestartFromGenesis
<1>4. /\ DrawnOnce(settled', SettledAt(Height, ticketed))
      /\ settled' \subseteq [created : Nat, entropy : SUBSET Nat]
      /\ CompleteOrCut(settled', restarts)
  BY <1>1, <1>3, ReplayFromGenesis
<1>5. TypeOK'
  <2>1. pending_tickets' \subseteq Nat
    BY <1>1, <1>3 DEF PendingAt
  <2> QED
    BY <1>1, <1>2, <1>3, <1>4, <2>1 DEF IInv, TypeOK
<1>6. CheckpointsSound'
  BY <1>3 DEF CheckpointsSound
<1> QED
  BY <1>2, <1>3, <1>4, <1>5, <1>6
     DEF IInv, NoTicketOverdue, DrawnExactlyOnce, EntropyCompleteUnlessRestored,
         OffsetExplained

\* A restart from a checkpoint keeps the invariant: the checkpoint stands for
\* the chain cut at its height, the tail is replayed on the cut window, and
\* every draw the cut shortens has the checkpoint inside its reveal window.
LEMMA RestartFromCheckpointInv ==
    ASSUME IInv, RestartFromCheckpoint
    PROVE  IInv'
<1>1. /\ Height \in Nat
      /\ ticketed \in SUBSET Nat
      /\ ticketed \subseteq 0 .. (Height - 1)
  BY DEF IInv, TypeOK, Height
<1> PICK c \in checkpoints :
      LET tail == {t \in ticketed : t > c.height}
          n == Height - c.height
      IN  /\ pending_tickets' = PendingAt(Height, c.tickets \cup tail)
          /\ settled' = c.settled \cup
                 {Draw(t, c.height) : t \in SettledAt(Height, c.tickets \cup tail)}
          /\ blocks_offset' = PrunedOffset(c.height, n)
          /\ length' = PrunedLength(n)
          /\ restarts' = restarts \cup {c.height}
          /\ UNCHANGED <<ticketed, checkpoints>>
  BY DEF RestartFromCheckpoint
<1> DEFINE k == c.height
           kept == {t \in ticketed : t <= k}
           tail == {t \in ticketed : t > k}
           open == PendingAt(k + 1, kept) \cup tail
           fresh == {Draw(t, k) : t \in SettledAt(Height, open)}
<1>2. /\ CheckpointSound(c)
      /\ c \in Checkpoint
  BY DEF IInv, CheckpointsSound, TypeOK
<1>3. /\ k \in Nat /\ k < Height
      /\ c.tickets = PendingAt(k + 1, kept)
      /\ DrawnOnce(c.settled, SettledAt(k + 1, kept))
      /\ CompleteOrCut(c.settled, restarts)
      /\ c.settled \subseteq [created : Nat, entropy : SUBSET Nat]
  BY <1>2 DEF CheckpointSound, Checkpoint
<1>4. /\ blocks_offset' \in Nat
      /\ length' \in Nat \ {0}
      /\ length' <= ReorgWindow
      /\ Height' = Height
      /\ blocks_offset' = k \/ length' = ReorgWindow
  <2> DEFINE m == Height - k
  <2>1. m \in Nat \ {0} /\ k \in Nat
    BY <1>1, <1>3
  <2>2. /\ blocks_offset' = PrunedOffset(k, m)
        /\ length' = PrunedLength(m)
    OBVIOUS
  <2> HIDE DEF k, m
  <2>3. /\ blocks_offset' \in Nat
        /\ length' \in Nat \ {0}
        /\ length' <= ReorgWindow
        /\ blocks_offset' + length' = k + m
        /\ blocks_offset' = k \/ length' = ReorgWindow
    BY <2>1, <2>2, Pruning
  <2>4. k + m = Height
    BY <1>1, <1>3 DEF m
  <2>5. Height' = Height
    BY <2>3, <2>4 DEF Height
  <2> QED
    BY <2>3, <2>5
<1>5. /\ pending_tickets' = PendingAt(Height, open)
      /\ settled' = c.settled \cup fresh
      /\ restarts' = restarts \cup {k}
      /\ ticketed' = ticketed
      /\ checkpoints' = checkpoints
  BY <1>3
<1>6. /\ open \in SUBSET Nat
      /\ PendingAt(Height, open) = PendingAt(Height, ticketed)
      /\ SettledAt(Height, ticketed) = SettledAt(k + 1, kept) \cup SettledAt(Height, open)
      /\ SettledAt(k + 1, kept) \cap SettledAt(Height, open) = {}
      /\ \A t \in SettledAt(Height, open) : k <= t \/ k < t + RevealBlocks
  <2>1. \A t \in ticketed : t \in Nat
    BY <1>1
  <2>2. ASSUME NEW t
        PROVE  t \in open <=> t \in ticketed /\ (t > k \/ t + RevealBlocks >= k + 1)
    BY <1>3, <2>1 DEF PendingAt
  <2> HIDE DEF open
  <2>3. ASSUME NEW t
        PROVE  t \in PendingAt(Height, open) <=> t \in PendingAt(Height, ticketed)
    <3>1. CASE t \in ticketed
      <4>1. t + RevealBlocks >= Height => t + RevealBlocks >= k + 1
        BY <1>1, <1>3, <2>1, <3>1, WindowAssumption
      <4> QED
        BY <2>2, <3>1, <4>1 DEF PendingAt
    <3>2. CASE t \notin ticketed
      BY <2>2, <3>2 DEF PendingAt
    <3> QED
      BY <3>1, <3>2
  <2>4. ASSUME NEW t
        PROVE  t \in SettledAt(k + 1, kept)
                 <=> t \in ticketed /\ t + RevealBlocks < k + 1
    BY <1>3, <2>1, WindowAssumption DEF SettledAt
  <2>5. ASSUME NEW t
        PROVE  t \in SettledAt(Height, open)
                 <=> /\ t \in ticketed
                     /\ t > k \/ t + RevealBlocks >= k + 1
                     /\ t + RevealBlocks < Height
    BY <2>2 DEF SettledAt
  <2>6. ASSUME NEW t
        PROVE  t \in SettledAt(Height, ticketed)
                 <=> t \in SettledAt(k + 1, kept) \cup SettledAt(Height, open)
    <3>1. CASE t \in ticketed
      BY <1>1, <1>3, <2>1, <2>4, <2>5, <3>1, WindowAssumption DEF SettledAt
    <3>2. CASE t \notin ticketed
      BY <2>4, <2>5, <3>2 DEF SettledAt
    <3> QED
      BY <3>1, <3>2
  <2>7. ASSUME NEW t \in SettledAt(Height, open)
        PROVE  /\ t \notin SettledAt(k + 1, kept)
               /\ k <= t \/ k < t + RevealBlocks
    BY <1>3, <2>1, <2>4, <2>5, WindowAssumption
  <2>8. open \in SUBSET Nat
    BY <2>1, <2>2
  <2> QED
    BY <2>3, <2>6, <2>7, <2>8
<1> HIDE DEF open
<1>7. SettledAt(Height, open) \in SUBSET Nat
  BY <1>6 DEF SettledAt
<1>8. /\ DrawnOnce(fresh, SettledAt(Height, open))
      /\ fresh \subseteq [created : Nat, entropy : SUBSET Nat]
  BY <1>3, <1>7, DrawsOfTickets
<1>9. DrawnOnce(settled', SettledAt(Height, ticketed))
  BY <1>3, <1>5, <1>6, <1>8, DrawsUnion
<1>10. CompleteOrCut(settled', restarts')
  <2>1. \A t \in SettledAt(Height, open) :
           k <= t \/ (k \in restarts' /\ k < t + RevealBlocks)
    BY <1>5, <1>6
  <2>2. CompleteOrCut(fresh, restarts')
    BY <1>3, <1>7, <2>1, CutDraws
  <2> QED
    BY <1>3, <1>5, <2>2, MoreDraws
<1>11. CheckpointsSound'
  <2> SUFFICES ASSUME NEW d \in checkpoints PROVE CheckpointSound(d)'
    BY <1>5 DEF CheckpointsSound
  <2>1. CheckpointSound(d)
    BY DEF IInv, CheckpointsSound
  <2>2. CompleteOrCut(d.settled, restarts')
    BY <1>5, <2>1 DEF CheckpointSound, CompleteOrCut
  <2> QED
    BY <1>4, <1>5, <2>1, <2>2 DEF CheckpointSound
<1>12. TypeOK'
  <2>1. pending_tickets' \subseteq Nat
    BY <1>5, <1>6 DEF PendingAt
  <2> QED
    BY <1>1, <1>3, <1>4, <1>5, <1>8, <2>1 DEF IInv, TypeOK
<1>13. OffsetExplained'
  BY <1>4, <1>5 DEF OffsetExplained
<1>14. NoTicketOverdue'
  BY <1>4, <1>5, <1>6 DEF NoTicketOverdue
<1> QED
  BY <1>4, <1>5, <1>9, <1>10, <1>11, <1>12, <1>13, <1>14
     DEF IInv, DrawnExactlyOnce, EntropyCompleteUnlessRestored

\* The strengthened invariant holds in every reachable state.
THEOREM Inductive == Spec => []IInv
<1>1. Init => IInv
  BY InitInv
<1>2. IInv /\ [Next]_vars => IInv'
  <2> SUFFICES ASSUME IInv, [Next]_vars PROVE IInv'
    OBVIOUS
  <2>1. ASSUME NEW hasRealTx \in BOOLEAN, ApplyBlock(hasRealTx) PROVE IInv'
    BY <2>1, ApplyBlockInv
  <2>2. CASE ReorgStep
    BY <2>2, ReorgInv DEF ReorgStep
  <2>3. CASE RestartFromGenesis
    BY <2>3, RestartFromGenesisInv
  <2>4. CASE RestartFromCheckpoint
    BY <2>4, RestartFromCheckpointInv
  <2>5. CASE UNCHANGED vars
    BY <2>5 DEF vars, IInv, TypeOK, Height, NoTicketOverdue, PendingAt, SettledAt,
         DrawnExactlyOnce, DrawnOnce, EntropyCompleteUnlessRestored, CompleteOrCut,
         OffsetExplained, CheckpointsSound, CheckpointSound
  <2> QED
    BY <2>1, <2>2, <2>3, <2>4, <2>5 DEF Next
<1> QED
  BY <1>1, <1>2, PTL DEF Spec

\* Every variable keeps its type, and the window is never longer than
\* ReorgWindow blocks.
THEOREM TypeCorrect == Spec => []TypeOK
<1>1. IInv => TypeOK
  BY DEF IInv
<1> QED
  BY <1>1, Inductive, PTL

\* update_state never skips the height a ticket matures at, so none stays
\* pending for good, through any sequence of blocks, reorgs and restarts.
THEOREM NoTicketLost == Spec => []NoTicketOverdue
<1>1. IInv => NoTicketOverdue
  BY DEF IInv
<1> QED
  BY <1>1, Inductive, PTL

\* Each ticket whose reveal window is complete has exactly one draw.
THEOREM OneDrawPerTicket == Spec => []DrawnExactlyOnce
<1>1. IInv => DrawnExactlyOnce
  BY DEF IInv
<1> QED
  BY <1>1, Inductive, PTL

\* The claim of the assertion at blockchain.rs:12, as far as the code keeps
\* it: entropy degrades only for a reveal window cut by a checkpoint restart.
THEOREM EntropyInWindow == Spec => []EntropyCompleteUnlessRestored
<1>1. IInv => EntropyCompleteUnlessRestored
  BY DEF IInv
<1> QED
  BY <1>1, Inductive, PTL

=============================================================================
