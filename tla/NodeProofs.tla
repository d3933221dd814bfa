----------------------------- MODULE NodeProofs -----------------------------
(***************************************************************************)
(* What Node promises for every tree of blocks, their work and every       *)
(* window, proved from the invariants of NodeInvariants.  From NodeInv:    *)
(* memory and tables keep their types and bounds, the ledger is the replay *)
(* of the chain the node is on, and startup finds the row of every         *)
(* checkpoint.  From PathInv: the rows hold that chain, or will once the   *)
(* queue is written.  From LightInv, TicketInv and DrawInv: the chain is   *)
(* left only for more work, a crash costs one block, no ticket or draw is  *)
(* lost.  From all of them and Fresh: a node implements RevealWindow.  No  *)
(* tree is left out: a reorg that stops half-way at a block with invalid   *)
(* content, and the rows it leaves, are exceptions the theorems state.     *)
(* The last part proves of Queries, which reads the tables, that the pages *)
(* of a history skip no record.                                            *)
(***************************************************************************)
EXTENDS NodeInvariants, FoldTheorems, SequenceTheorems

-----------------------------------------------------------------------------
\* Induction and recursion over the tree.

\* What holds of the genesis block, and of a block when it holds of its
\* parent, holds of every block.
LEMMA TreeInduction ==
    ASSUME NEW Q, Genesis \in Q, \A b \in Mined : Parent[b] \in Q => b \in Q
    PROVE  Blocks \subseteq Q
<1>1. SUFFICES ASSUME Blocks \ Q # {} PROVE FALSE OBVIOUS
<1>2. Blocks \ Q \in SUBSET Mined BY DEF Mined
<1>3. PICK b \in Blocks \ Q : Parent[b] \notin Blocks \ Q BY <1>1, <1>2, NodeAssumption
<1>4. b \in Mined /\ Parent[b] \in Blocks BY <1>2, NodeAssumption
<1> QED BY <1>3, <1>4

LEMMA SolutionsAgree ==
    ASSUME NEW V, NEW base, NEW step, NEW A, NEW B, NEW f, NEW g,
           Solves(f, A, V, base, step), Solves(g, B, V, base, step)
    PROVE  \A b \in A \cap B : f[b] = g[b]
<1> DEFINE Q == {b \in Blocks : b \in A /\ b \in B => f[b] = g[b]}
<1>1. Genesis \in Q BY NodeAssumption DEF Solves
<1>2. ASSUME NEW b \in Mined, Parent[b] \in Q PROVE b \in Q BY <1>2 DEF Solves, Mined
<1>3. Blocks \subseteq Q
  <2> HIDE DEF Q
  <2> QED BY <1>1, <1>2, TreeInduction
<1> QED BY <1>3 DEF Solves

\* A recursion along the tree has a solution.
LEMMA TreeRecursion ==
    ASSUME NEW V, NEW base \in V, NEW step \in [Mined \X V -> V]
    PROVE  \E f : Solves(f, Blocks, V, base, step)
<1> DEFINE Q == {b \in Blocks : \E A, f : b \in A /\ Solves(f, A, V, base, step)}
<1>1. Genesis \in Q
  <2> DEFINE f == [b \in {Genesis} |-> base]
  <2>1. Genesis \in {Genesis} /\ Solves(f, {Genesis}, V, base, step) BY NodeAssumption DEF Solves
  <2> QED BY <2>1, NodeAssumption
<1>2. ASSUME NEW b \in Mined, Parent[b] \in Q PROVE b \in Q
  <2>1. PICK A, f : Parent[b] \in A /\ Solves(f, A, V, base, step) BY <1>2
  <2>2. CASE b \in A BY <2>1, <2>2 DEF Mined
  <2>3. CASE b \notin A
    <3> DEFINE B == A \cup {b}
               g == [x \in B |-> IF x = b THEN step[<<b, f[Parent[b]]>>] ELSE f[x]]
    <3>1. step[<<b, f[Parent[b]]>>] \in V BY <2>1 DEF Solves
    <3>2. g \in [B -> V] /\ g[b] = step[<<b, f[Parent[b]]>>] /\ \A x \in A : g[x] = f[x]
      BY <2>1, <2>3, <3>1 DEF Solves
    <3> HIDE DEF g
    <3>3. Solves(g, B, V, base, step) BY <2>1, <2>3, <3>2 DEF Solves, Mined
    <3>4. b \in B OBVIOUS
    <3> QED BY <3>3, <3>4 DEF Mined
  <2> QED BY <2>2, <2>3
<1>3. Blocks \subseteq Q
  <2> HIDE DEF Q
  <2> QED BY <1>1, <1>2, TreeInduction
<1> DEFINE P(b) == CHOOSE p : b \in p[1] /\ Solves(p[2], p[1], V, base, step)
           h == [b \in Blocks |-> P(b)[2][b]]
<1>4. ASSUME NEW b \in Blocks PROVE b \in P(b)[1] /\ Solves(P(b)[2], P(b)[1], V, base, step)
  <2>1. PICK A, f : b \in A /\ Solves(f, A, V, base, step) BY <1>3
  <2>2. b \in <<A, f>>[1] /\ Solves(<<A, f>>[2], <<A, f>>[1], V, base, step) BY <2>1
  <2> QED BY <2>2
<1> HIDE DEF P
<1>5. ASSUME NEW A, NEW f, Solves(f, A, V, base, step), NEW b \in A PROVE h[b] = f[b]
  <2>1. b \in Blocks BY <1>5 DEF Solves
  <2>2. b \in P(b)[1] /\ Solves(P(b)[2], P(b)[1], V, base, step) BY <1>4, <2>1
  <2>3. P(b)[2][b] = f[b] BY <1>5, <2>2, SolutionsAgree
  <2> QED BY <2>1, <2>3
<1>6. \A b \in Blocks : h[b] \in V BY <1>4 DEF Solves
<1>7. h \in [Blocks -> V] BY <1>6
<1> HIDE DEF h
<1>8. h[Genesis] = base
  <2>1. Genesis \in Blocks BY NodeAssumption
  <2>2. Genesis \in P(Genesis)[1] /\ Solves(P(Genesis)[2], P(Genesis)[1], V, base, step) BY <1>4, <2>1
  <2> QED BY <1>5, <2>2 DEF Solves
<1>9. ASSUME NEW b \in Mined PROVE h[b] = step[<<b, h[Parent[b]]>>]
  <2>1. b \in Blocks /\ b # Genesis BY DEF Mined
  <2>2. b \in P(b)[1] /\ Solves(P(b)[2], P(b)[1], V, base, step) BY <1>4, <2>1
  <2>3. Parent[b] \in P(b)[1] /\ P(b)[2][b] = step[<<b, P(b)[2][Parent[b]]>>] BY <2>1, <2>2 DEF Solves
  <2>4. h[b] = P(b)[2][b] /\ h[Parent[b]] = P(b)[2][Parent[b]] BY <1>5, <2>2, <2>3
  <2> QED BY <2>3, <2>4
<1> QED BY <1>7, <1>8, <1>9, NodeAssumption DEF Solves, Mined

-----------------------------------------------------------------------------
\* Heights and paths.
LEMMA IndexFacts ==
    /\ Index \in [Blocks -> Nat] /\ Index[Genesis] = 0
    /\ \A b \in Mined : Index[b] = Index[Parent[b]] + 1 /\ Index[b] \in Nat \ {0}
<1> DEFINE step == [p \in Mined \X Nat |-> p[2] + 1]
           Is(f) == f = [b \in Blocks |-> IF b = Genesis THEN 0 ELSE f[Parent[b]] + 1]
<1>1. step \in [Mined \X Nat -> Nat] /\ \A b \in Mined, n \in Nat : step[<<b, n>>] = n + 1 OBVIOUS
<1> HIDE DEF step
<1>2. PICK f : Solves(f, Blocks, Nat, 0, step) BY <1>1, TreeRecursion
<1>3. f \in [Blocks -> Nat] /\ f[Genesis] = 0 /\ \A b \in Mined : f[b] = f[Parent[b]] + 1
  <2>1. f \in [Blocks -> Nat] /\ f[Genesis] = 0
        /\ \A b \in Mined : Parent[b] \in Blocks /\ f[b] = step[<<b, f[Parent[b]]>>]
    BY <1>2, NodeAssumption DEF Solves, Mined
  <2>2. \A b \in Mined : f[Parent[b]] \in Nat BY <2>1
  <2> HIDE DEF Is
  <2> QED BY <1>1, <2>1, <2>2
<1>4. Is(f) BY <1>3, NodeAssumption DEF Mined
<1>5. Index = CHOOSE g : Is(g) BY DEF Index
<1>6. Is(Index)
  <2> HIDE DEF Is
  <2> QED BY <1>4, <1>5
<1>7. /\ Index[Genesis] = 0
      /\ \A b \in Mined : Parent[b] \in Blocks /\ b \in Blocks /\ Index[b] = Index[Parent[b]] + 1
  BY <1>6, NodeAssumption DEF Mined
<1>8. DOMAIN Index = Blocks /\ Index = [b \in Blocks |-> Index[b]] BY <1>6
<1>9. \A b \in Blocks : Index[b] \in Nat
  <2> DEFINE Q == {b \in Blocks : Index[b] \in Nat}
  <2>1. Genesis \in Q /\ \A b \in Mined : Parent[b] \in Q => b \in Q BY <1>7, NodeAssumption
  <2>2. Blocks \subseteq Q
    <3> HIDE DEF Q
    <3> QED BY <2>1, TreeInduction
  <2> QED BY <2>2
<1>10. Index \in [Blocks -> Nat] BY <1>8, <1>9
<1> HIDE DEF Is
<1> QED BY <1>7, <1>9, <1>10

LEMMA PathFacts ==
    /\ PathTo[Genesis] = <<Genesis>>
    /\ \A b \in Mined : PathTo[b] = Append(PathTo[Parent[b]], b)
    /\ \A b \in Blocks : Leads(PathTo[b], b)
<1> DEFINE V == Seq(Blocks)
           step == [p \in Mined \X V |-> Append(p[2], p[1])]
           Is(f) == f = [b \in Blocks |-> IF b = Genesis THEN <<b>> ELSE Append(f[Parent[b]], b)]
<1>1. step \in [Mined \X V -> V] /\ \A b \in Mined, s \in V : step[<<b, s>>] = Append(s, b) BY DEF Mined
<1>2. <<Genesis>> \in V BY NodeAssumption
<1> HIDE DEF step, V
<1>3. PICK f : Solves(f, Blocks, V, <<Genesis>>, step) BY <1>1, <1>2, TreeRecursion
<1>4. f \in [Blocks -> V] /\ f[Genesis] = <<Genesis>> /\ \A b \in Mined : f[b] = Append(f[Parent[b]], b)
  BY <1>1, <1>3, NodeAssumption DEF Solves, Mined
<1>5. Is(f) BY <1>4, NodeAssumption DEF Mined
<1>6. PathTo = CHOOSE g : Is(g) BY DEF PathTo
<1>7. Is(PathTo)
  <2> HIDE DEF Is
  <2> QED BY <1>5, <1>6
<1>8. PathTo[Genesis] = <<Genesis>> /\ \A b \in Mined : PathTo[b] = Append(PathTo[Parent[b]], b)
  BY <1>7, NodeAssumption DEF Mined
<1> HIDE DEF Is
<1> DEFINE Q == {b \in Blocks : Leads(PathTo[b], b)}
<1>9. Genesis \in Q
  <2> DEFINE p == <<Genesis>>
  <2>1. p \in Seq(Blocks) /\ Len(p) = 1 /\ p[1] = Genesis /\ Genesis \in Blocks BY NodeAssumption
  <2> HIDE DEF p
  <2>2. Leads(p, Genesis) BY <2>1, IndexFacts DEF Leads
  <2> QED BY <1>8, <2>1, <2>2 DEF p
<1>10. ASSUME NEW b \in Mined, Parent[b] \in Q PROVE b \in Q
  <2> DEFINE p == PathTo[Parent[b]]
             q == Append(p, b)
  <2>1. b \in Blocks /\ Parent[b] \in Blocks /\ Leads(p, Parent[b]) /\ PathTo[b] = q BY <1>8, <1>10 DEF Mined
  <2>2. p \in Seq(Blocks) /\ Len(p) = Index[b] /\ Len(p) \in Nat /\ Index[b] \in Nat
        /\ \A i \in 1 .. Len(p) : Index[p[i]] = i - 1
    BY <2>1, IndexFacts DEF Leads
  <2> HIDE DEF p
  <2>3. q \in Seq(Blocks) /\ Len(q) = Len(p) + 1 /\ q[Len(p) + 1] = b
        /\ \A i \in 1 .. Len(p) : q[i] = p[i]
    BY <2>1, <2>2
  <2> HIDE DEF q
  <2>4. \A i \in 1 .. Len(q) : Index[q[i]] = i - 1 BY <2>2, <2>3
  <2>5. Leads(q, b) BY <2>2, <2>3, <2>4 DEF Leads
  <2> QED BY <2>1, <2>5
<1>11. Blocks \subseteq Q
  <2> HIDE DEF Q
  <2> QED BY <1>9, <1>10, TreeInduction
<1> QED BY <1>8, <1>11

LEMMA HeightsFacts ==
    /\ MaxIndex \in Nat /\ Heights = 0 .. MaxIndex
    /\ \A b \in Blocks : Index[b] \in Heights
<1>1. Heights \subseteq Nat /\ \A b \in Blocks : Index[b] \in Heights BY IndexFacts DEF Heights
<1>2. \E i \in Heights : \A j \in Heights : j <= i
  <2> DEFINE depth == [b \in Blocks |-> 0 - Index[b]]
  <2>1. \A b \in Blocks : depth[b] \in Int /\ depth[b] = 0 - Index[b] /\ Index[b] \in Nat BY IndexFacts
  <2> HIDE DEF depth
  <2>2. PICK b \in Blocks : \A x \in Blocks : depth[b] <= depth[x] BY <2>1, LeastExists, NodeAssumption
  <2>3. \A x \in Blocks : Index[x] <= Index[b] BY <2>1, <2>2
  <2> QED BY <2>3 DEF Heights
<1>3. MaxIndex \in Heights /\ \A j \in Heights : j <= MaxIndex BY <1>2 DEF MaxIndex
<1> DEFINE Q == {b \in Blocks : 0 .. Index[b] \subseteq Heights}
<1>4. Genesis \in Q BY <1>1, IndexFacts, NodeAssumption
<1>5. ASSUME NEW b \in Mined, Parent[b] \in Q PROVE b \in Q
  <2>1. b \in Blocks /\ Index[b] \in Heights /\ Index[b] = Index[Parent[b]] + 1 /\ Index[Parent[b]] \in Nat
    BY <1>1, <1>5, IndexFacts DEF Mined
  <2> QED BY <1>5, <2>1
<1>6. Blocks \subseteq Q
  <2> HIDE DEF Q
  <2> QED BY <1>4, <1>5, TreeInduction
<1>7. PICK b \in Blocks : MaxIndex = Index[b] BY <1>3 DEF Heights
<1>8. 0 .. MaxIndex \subseteq Heights BY <1>6, <1>7
<1> HIDE DEF Q
<1>9. MaxIndex \in Nat BY <1>1, <1>3
<1>10. Heights \subseteq 0 .. MaxIndex BY <1>1, <1>3, <1>9
<1> QED BY <1>1, <1>8, <1>9, <1>10

-----------------------------------------------------------------------------
\* Windows and their ends.
LEMMA SubSeqFacts ==
    ASSUME NEW T, NEW s \in Seq(T), NEW m \in Nat, NEW n \in Nat, m >= 1, n <= Len(s)
    PROVE  /\ SubSeq(s, m, n) \in Seq(T)
           /\ Len(SubSeq(s, m, n)) = IF m <= n THEN n - m + 1 ELSE 0
           /\ \A i \in 1 .. n - m + 1 : SubSeq(s, m, n)[i] = s[m + i - 1]
<1>1. \A i \in m .. n : s[i] \in T OBVIOUS
<1> QED BY <1>1, SubSeqProperties

LEMMA OnPathAligned ==
    ASSUME NEW c, NEW b \in Blocks, OnPath(c, b)
    PROVE  Aligned(c, b)
<1> DEFINE p == PathTo[b]
           off == c.blocks_offset
           n == Index[b]
<1>1. /\ p \in Seq(Blocks) /\ n \in Nat /\ Len(p) = n + 1 /\ p[n + 1] = b
      /\ \A i \in 1 .. Len(p) : Index[p[i]] = i - 1
  BY PathFacts, IndexFacts DEF Leads
<1>2. off \in Nat /\ off <= n /\ c.blocks = SubSeq(p, off + 1, n + 1) BY <1>1 DEF OnPath
<1> HIDE DEF p, off, n
<1>3. /\ SubSeq(p, off + 1, n + 1) \in Seq(Blocks)
      /\ Len(SubSeq(p, off + 1, n + 1)) = IF off + 1 <= n + 1 THEN (n + 1) - (off + 1) + 1 ELSE 0
      /\ \A i \in 1 .. (n + 1) - (off + 1) + 1 : SubSeq(p, off + 1, n + 1)[i] = p[(off + 1) + i - 1]
  BY <1>1, <1>2, SubSeqFacts
<1> DEFINE w == c.blocks
<1>4. /\ w \in Seq(Blocks) /\ Len(w) = n - off + 1
      /\ \A i \in 1 .. (n + 1) - (off + 1) + 1 : w[i] = p[(off + 1) + i - 1]
  BY <1>1, <1>2, <1>3
<1>5. \A i \in 1 .. Len(w) : w[i] = p[off + i] /\ Index[w[i]] = off + i - 1
  <2>1. SUFFICES ASSUME NEW i \in 1 .. Len(w) PROVE w[i] = p[off + i] /\ Index[w[i]] = off + i - 1 OBVIOUS
  <2> HIDE DEF w
  <2> DEFINE j == off + i
  <2>2. i \in 1 .. (n + 1) - (off + 1) + 1 /\ (off + 1) + i - 1 = j /\ j \in 1 .. Len(p)
    BY <1>1, <1>2, <1>4, <2>1
  <2>3. j - 1 = off + i - 1 BY <1>2
  <2> HIDE DEF j
  <2>4. w[i] = p[j] /\ Index[p[j]] = j - 1 BY <1>1, <1>4, <2>2
  <2> QED BY <2>3, <2>4 DEF j
<1>6. w[Len(w)] = b /\ off + Len(w) = n + 1
  <2> HIDE DEF w
  <2>1. Len(w) \in 1 .. Len(w) /\ off + Len(w) = n + 1 BY <1>1, <1>2, <1>4
  <2> QED BY <1>1, <1>5, <2>1
<1>7. Tip(c) = b /\ Height(c) = n + 1 BY <1>6 DEF Tip, Height, Last, off
<1> QED BY <1>1, <1>2, <1>4, <1>5, <1>7 DEF Aligned, p, off, n

\* The genesis chain.
LEMMA GenesisWellFormed ==
    WellFormed(GenesisChain) /\ OnPath(GenesisChain, Genesis) /\ GenesisChain.blocks = <<Genesis>>
<1>1. /\ <<Genesis>> \in Seq(Blocks) /\ Genesis \in Blocks /\ Len(<<Genesis>>) = 1
      /\ <<Genesis>>[1] = Genesis /\ 1 \in DOMAIN <<Genesis>>
  BY NodeAssumption
<1>2. SubSeq(<<Genesis>>, 0 + 1, 0 + 1) = <<Genesis>>
  <2> DEFINE p == <<Genesis>>
  <2>1. p \in Seq(Blocks) /\ Len(p) = 1 BY <1>1
  <2> HIDE DEF p
  <2>2. SubSeq(p, 1, Len(p)) = p BY <2>1, SubSeqFull
  <2>3. 0 + 1 = 1 OBVIOUS
  <2> QED BY <2>1, <2>2, <2>3 DEF p
<1>3. OnPath(GenesisChain, Genesis) BY <1>1, <1>2, PathFacts, IndexFacts DEF OnPath, GenesisChain
<1>4. GenesisChain \in Chains BY <1>1 DEF GenesisChain, Chains, Ledgers
<1>5. PoolBounded(GenesisChain.orphan_pool)
  <2>1. MaxOrphanPool \in Nat BY NodeAssumption
  <2> QED BY <2>1, FS_EmptySet DEF PoolBounded, GenesisChain
<1>6. GenesisChain.block_hashes \subseteq Elements(GenesisChain.blocks) BY <1>1 DEF GenesisChain, Elements
<1> QED BY <1>1, <1>3, <1>4, <1>5, <1>6 DEF WellFormed, GenesisChain

LEMMA OnPathIff ==
    ASSUME NEW c, NEW b \in Blocks
    PROVE  OnPath(c, b) <=> c.ledger.applied = PathTo[b] /\ EndOfPath(c.blocks, b, c.blocks_offset)
<1>1. ASSUME OnPath(c, b)
      PROVE  c.ledger.applied = PathTo[b] /\ EndOfPath(c.blocks, b, c.blocks_offset)
  BY <1>1, OnPathAligned DEF OnPath, EndOfPath, Aligned
<1>2. ASSUME c.ledger.applied = PathTo[b], EndOfPath(c.blocks, b, c.blocks_offset)
      PROVE  OnPath(c, b)
  <2> DEFINE p == PathTo[b]
             off == c.blocks_offset
             n == Index[b]
             w == c.blocks
             q == SubSeq(p, off + 1, n + 1)
  <2>1. p \in Seq(Blocks) /\ n \in Nat /\ Len(p) = n + 1 BY PathFacts, IndexFacts DEF Leads
  <2>2. /\ off \in Nat /\ off <= n /\ w \in Seq(Blocks) /\ Len(w) = n - off + 1
        /\ \A i \in 1 .. Len(w) : w[i] = p[off + i]
    BY <1>2, <2>1 DEF EndOfPath
  <2> HIDE DEF p, n, off, w
  <2>3. /\ q \in Seq(Blocks)
        /\ Len(q) = IF off + 1 <= n + 1 THEN (n + 1) - (off + 1) + 1 ELSE 0
    BY <2>1, <2>2, SubSeqFacts
  <2>4. \A i \in 1 .. (n + 1) - (off + 1) + 1 : q[i] = p[(off + 1) + i - 1] BY <2>1, <2>2, SubSeqFacts
  <2> HIDE DEF q
  <2>5. Len(q) = Len(w) BY <2>1, <2>2, <2>3
  <2>6. ASSUME NEW i \in 1 .. Len(w) PROVE w[i] = q[i]
    <3>1. i \in 1 .. (n + 1) - (off + 1) + 1 /\ (off + 1) + i - 1 = off + i BY <2>1, <2>2
    <3> QED BY <2>2, <2>4, <3>1
  <2>7. w = q BY <2>2, <2>3, <2>5, <2>6, SameSequence
  <2> QED BY <1>2, <2>1, <2>2, <2>7 DEF OnPath, p, off, n, w, q
<1> QED BY <1>1, <1>2

LEMMA UpdateFields ==
    ASSUME NEW c \in Chains, NEW b \in Mined, {Draw(c, t) : t \in Mature(c)} \subseteq Draws
    PROVE  Updated(UpdateState(c, b), c, b)
<1> DEFINE draws == {Draw(c, t) : t \in Mature(c)}
           l == [applied |-> Append(c.ledger.applied, b), drawn |-> c.ledger.drawn \cup draws]
           blocks == Append(c.blocks, b)
           pending == (c.pending_tickets \ Mature(c)) \cup ({b} \cap Ticketed)
           d == [c EXCEPT !.blocks = blocks, !.block_hashes = c.block_hashes \cup {b},
                          !.pending_tickets = pending, !.settled = c.settled \cup draws,
                          !.ledger = l]
<1>1. UpdateState(c, b) = d BY DEF UpdateState
<1>2. /\ c.blocks \in Seq(Blocks) /\ c.blocks_offset \in Nat /\ c.block_hashes \subseteq Blocks
      /\ c.pending_tickets \subseteq Mined /\ c.settled \subseteq Draws
      /\ c.ledger.applied \in Seq(Blocks) /\ c.ledger.drawn \subseteq Draws /\ b \in Blocks
  BY DEF Chains, Ledgers, Mined
<1>3. blocks \in Seq(Blocks) /\ pending \subseteq Mined /\ c.block_hashes \cup {b} \subseteq Blocks
  BY <1>2, NodeAssumption
<1>4. l \in Ledgers /\ c.settled \cup draws \subseteq Draws
  <2>0. draws \subseteq Draws OBVIOUS
  <2> HIDE DEF draws
  <2>1. Append(c.ledger.applied, b) \in Seq(Blocks) BY <1>2
  <2> QED BY <1>2, <2>0, <2>1 DEF Ledgers
<1> HIDE DEF draws, l, blocks, pending
<1>5. /\ d.blocks = blocks /\ d.blocks_offset = c.blocks_offset
      /\ d.block_hashes = c.block_hashes \cup {b} /\ d.orphan_pool = c.orphan_pool
      /\ d.pending_tickets = pending /\ d.settled = c.settled \cup draws /\ d.ledger = l
  BY DEF Chains
<1>6. d \in Chains BY <1>3, <1>4 DEF Chains
<1> HIDE DEF d
<1> QED BY <1>1, <1>5, <1>6 DEF Updated, draws, l, blocks, pending

\* The blocks a draw takes are in memory.
LEMMA DrawsTyped ==
    ASSUME NEW c \in Chains, NEW b \in Blocks, OnPath(c, b), NEW t \in Mature(c)
    PROVE  Draw(c, t) \in Draws
<1> DEFINE n == Len(c.blocks)
           from == Index[t] - c.blocks_offset + 1
           m == IF from < 1 THEN 1 ELSE from
           entropy == SubSeq(c.blocks, m, from + RevealBlocks - 1)
<1>1. /\ c.blocks \in Seq(Blocks) /\ n \in Nat /\ n >= 1 /\ c.blocks_offset \in Nat
      /\ Height(c) = c.blocks_offset + n
  BY OnPathAligned DEF Aligned, Height
<1>2. t \in Mined /\ Index[t] \in Nat /\ Index[t] + RevealBlocks = Height(c) /\ RevealBlocks \in Nat \ {0}
  BY IndexFacts, NodeAssumption DEF Mature, Chains
<1>3. from \in Int /\ from + RevealBlocks - 1 = n BY <1>1, <1>2, SMTT(30)
<1>4. m \in Nat /\ m >= 1 /\ n <= n BY <1>1, <1>3
<1> HIDE DEF m, from, n
<1>5. SubSeq(c.blocks, m, n) \in Seq(Blocks) BY <1>1, <1>4, SubSeqFacts DEF n
<1>6. entropy \in Seq(Blocks) BY <1>3, <1>5
<1>7. Draw(c, t) = [ticket |-> t, at |-> Index[t] + RevealBlocks, entropy |-> entropy] BY DEF Draw, from, m
<1> HIDE DEF entropy
<1>8. Index[t] + RevealBlocks \in Nat BY <1>2
<1> QED BY <1>2, <1>6, <1>7, <1>8 DEF Draws

LEMMA UpdateWellFormed ==
    ASSUME NEW c, WellFormed(c), NEW b \in Blocks, Accepts(c, b)
    PROVE  WellFormed(UpdateState(c, b)) /\ OnPath(UpdateState(c, b), b)
<1>1. PICK a \in Blocks : OnPath(c, a) BY DEF WellFormed
<1>2. Aligned(c, a) /\ c \in Chains BY <1>1, OnPathAligned DEF WellFormed
<1>3. Index[b] = Index[a] + 1 /\ Parent[b] = a /\ Index[a] \in Nat BY <1>2 DEF Accepts, LinksToTip, Aligned
<1>4. b \in Mined BY <1>3, IndexFacts DEF Mined
<1> DEFINE draws == {Draw(c, t) : t \in Mature(c)}
           d == UpdateState(c, b)
<1>5. draws \subseteq Draws BY <1>1, <1>2, DrawsTyped
<1>6. /\ d.blocks = Append(c.blocks, b) /\ d.blocks_offset = c.blocks_offset
      /\ d.block_hashes = c.block_hashes \cup {b} /\ d.orphan_pool = c.orphan_pool
      /\ d.ledger.applied = Append(c.ledger.applied, b)
      /\ d \in Chains
  <2>1. Updated(d, c, b) BY <1>2, <1>4, <1>5, UpdateFields
  <2> HIDE DEF d
  <2> QED BY <2>1 DEF Updated
<1> HIDE DEF d, draws
<1>7. PathTo[b] = Append(PathTo[a], b) /\ PathTo[a] \in Seq(Blocks) /\ Len(PathTo[a]) = Index[a] + 1
  BY <1>3, <1>4, PathFacts DEF Leads
<1>8. d.ledger.applied = PathTo[b] BY <1>1, <1>6, <1>7 DEF OnPath
<1>9. EndOfPath(d.blocks, b, d.blocks_offset)
  <2> DEFINE w == c.blocks
             p == PathTo[a]
             off == c.blocks_offset
             n == Len(w)
  <2>1. /\ w \in Seq(Blocks) /\ off \in Nat /\ off <= Index[a] /\ n = Index[a] - off + 1
        /\ n \in Nat /\ \A i \in 1 .. n : w[i] = p[off + i]
    BY <1>2, <1>3 DEF Aligned
  <2> HIDE DEF w, p, off
  <2>2. /\ Append(w, b) \in Seq(Blocks) /\ Len(Append(w, b)) = n + 1 /\ Append(w, b)[n + 1] = b
        /\ \A i \in 1 .. n : Append(w, b)[i] = w[i]
    BY <2>1
  <2>3. /\ Append(p, b)[Index[a] + 2] = b
        /\ \A j \in 1 .. Index[a] + 1 : Append(p, b)[j] = p[j]
    BY <1>3, <1>7 DEF p
  <2>4. ASSUME NEW i \in 1 .. n + 1 PROVE Append(w, b)[i] = Append(p, b)[off + i]
    <3>1. CASE i = n + 1
      <4>1. off + i = Index[a] + 2 BY <1>3, <2>1, <3>1
      <4> QED BY <2>2, <2>3, <3>1, <4>1
    <3>2. CASE i # n + 1
      <4>1. i \in 1 .. n /\ off + i \in 1 .. Index[a] + 1 BY <1>3, <2>1, <3>2
      <4> QED BY <2>1, <2>2, <2>3, <4>1
    <3> QED BY <3>1, <3>2
  <2>5. off \in 0 .. Index[b] /\ n + 1 = Index[b] - off + 1 BY <1>3, <2>1
  <2> QED BY <1>6, <1>7, <2>2, <2>4, <2>5 DEF EndOfPath, w, p, off
<1>10. OnPath(d, b) BY <1>8, <1>9, OnPathIff
<1>11. d.block_hashes \subseteq Elements(d.blocks)
  <2> DEFINE w == c.blocks
             v == Append(w, b)
  <2>1. w \in Seq(Blocks) /\ c.block_hashes \subseteq Elements(w) BY <1>2 DEF WellFormed, Aligned
  <2>2. DOMAIN w = 1 .. Len(w) /\ Len(w) \in Nat BY <2>1
  <2>3. DOMAIN v = 1 .. (Len(w) + 1) /\ v[Len(w) + 1] = b /\ \A i \in 1 .. Len(w) : v[i] = w[i] BY <2>1
  <2> HIDE DEF w, v
  <2>4. \A x \in Elements(w) : x \in Elements(v) BY <2>2, <2>3 DEF Elements
  <2>5. b \in Elements(v) BY <2>2, <2>3 DEF Elements
  <2>6. c.block_hashes \cup {b} \subseteq Elements(v) BY <2>1, <2>4, <2>5
  <2> QED BY <1>6, <2>6 DEF w, v
<1>12. PoolBounded(d.orphan_pool) BY <1>6 DEF WellFormed
<1> QED BY <1>6, <1>10, <1>11, <1>12 DEF WellFormed, d

\* prune_to_window drops blocks from the low end.
LEMMA PruneWellFormed ==
    ASSUME NEW c, WellFormed(c)
    PROVE  /\ WellFormed(PruneToWindow(c)) /\ Len(PruneToWindow(c).blocks) \in 1 .. ReorgWindow
           /\ PruneToWindow(c).orphan_pool = c.orphan_pool
           /\ \A b \in Blocks : OnPath(c, b) => OnPath(PruneToWindow(c), b)
<1>1. PICK a \in Blocks : OnPath(c, a) BY DEF WellFormed
<1> DEFINE w == c.blocks
           off == c.blocks_offset
           drop == Len(w) - ReorgWindow
<1>2. /\ c \in Chains /\ w \in Seq(Blocks) /\ off \in Nat /\ Len(w) \in Nat /\ Len(w) >= 1
      /\ ReorgWindow \in Nat /\ ReorgWindow >= 1 /\ PoolBounded(c.orphan_pool)
      /\ c.block_hashes \subseteq Elements(w)
  BY <1>1, OnPathAligned, NodeAssumption DEF WellFormed, Aligned
<1>3. CASE drop <= 0
  <2>1. PruneToWindow(c) = c BY <1>3 DEF PruneToWindow
  <2>2. Len(w) \in 1 .. ReorgWindow BY <1>2, <1>3
  <2> QED BY <2>1, <2>2
<1>4. CASE ~(drop <= 0)
  <2> DEFINE v == SubSeq(w, drop + 1, Len(w))
             gone == Elements(SubSeq(w, 1, drop))
             hashes == c.block_hashes \ gone
             d == [c EXCEPT !.blocks = v, !.block_hashes = hashes,
                            !.blocks_offset = off + drop,
                            !.settled = {r \in c.settled : r.at >= off + drop}]
  <2>1. PruneToWindow(c) = d BY <1>4 DEF PruneToWindow
  <2>2. drop \in Nat /\ drop >= 1 /\ Len(w) - drop = ReorgWindow /\ drop <= Len(w) BY <1>2, <1>4
  <2> HIDE DEF drop
  <2>3. /\ v \in Seq(Blocks)
        /\ Len(v) = IF drop + 1 <= Len(w) THEN Len(w) - (drop + 1) + 1 ELSE 0
    BY <1>2, <2>2, SubSeqFacts
  <2>4. \A i \in 1 .. Len(w) - (drop + 1) + 1 : v[i] = w[(drop + 1) + i - 1] BY <1>2, <2>2, SubSeqFacts
  <2> HIDE DEF v
  <2>5. Len(v) = ReorgWindow BY <1>2, <2>2, <2>3
  <2>6. \A i \in 1 .. Len(v) : v[i] = w[drop + i]
    <3>1. SUFFICES ASSUME NEW i \in 1 .. Len(v) PROVE v[i] = w[drop + i] OBVIOUS
    <3>2. i \in 1 .. Len(w) - (drop + 1) + 1 /\ (drop + 1) + i - 1 = drop + i BY <1>2, <2>2, <2>5
    <3> QED BY <2>4, <3>2
  <2>7. hashes \subseteq Elements(v)
    <3>1. SUFFICES ASSUME NEW h \in hashes PROVE h \in Elements(v) OBVIOUS
    <3>2. PICK i \in 1 .. Len(w) : h = w[i] BY <1>2, <3>1 DEF Elements
    <3>3. i > drop
      <4>1. SUFFICES ASSUME i <= drop PROVE h \in gone BY <2>2, <3>1, <3>2
      <4>2. /\ SubSeq(w, 1, drop) \in Seq(Blocks)
            /\ Len(SubSeq(w, 1, drop)) = IF 1 <= drop THEN drop - 1 + 1 ELSE 0
        BY <1>2, <2>2, SubSeqFacts
      <4>3. \A k \in 1 .. drop - 1 + 1 : SubSeq(w, 1, drop)[k] = w[1 + k - 1] BY <1>2, <2>2, SubSeqFacts
      <4> DEFINE u == SubSeq(w, 1, drop)
      <4> HIDE DEF u
      <4>4. DOMAIN u = 1 .. drop BY <2>2, <4>2 DEF u
      <4>5. i \in 1 .. drop - 1 + 1 /\ 1 + i - 1 = i /\ i \in 1 .. drop BY <2>2, <3>2, <4>1
      <4>6. u[i] = h BY <3>2, <4>3, <4>5 DEF u
      <4> QED BY <4>4, <4>5, <4>6 DEF Elements, u
    <3> DEFINE k == i - drop
    <3>4. k \in 1 .. Len(v) /\ drop + k = i BY <1>2, <2>2, <2>5, <3>2, <3>3
    <3> HIDE DEF k
    <3>5. k \in DOMAIN v /\ v[k] = h BY <2>3, <2>6, <3>2, <3>4
    <3> QED BY <3>5 DEF Elements
  <2> HIDE DEF gone, hashes
  <2>8. /\ d.blocks = v /\ d.blocks_offset = off + drop /\ d.block_hashes = hashes
        /\ d.orphan_pool = c.orphan_pool /\ d.ledger = c.ledger
    BY <1>2 DEF Chains
  <2>9. d \in Chains
    <3>1. off + drop \in Nat /\ hashes \subseteq Blocks BY <1>2, <2>2 DEF Chains, hashes
    <3>2. {r \in c.settled : r.at >= off + drop} \subseteq Draws BY <1>2 DEF Chains
    <3> DEFINE rest == {r \in c.settled : r.at >= off + drop}
    <3> HIDE DEF rest
    <3> QED BY <1>2, <2>3, <3>1, <3>2 DEF Chains, rest
  <2> HIDE DEF d
  <2>10. ASSUME NEW b \in Blocks, OnPath(c, b) PROVE OnPath(d, b)
    <3>1. /\ Index[b] \in Nat /\ off <= Index[b] /\ Len(w) = Index[b] - off + 1
          /\ \A i \in 1 .. Len(w) : w[i] = PathTo[b][off + i]
      BY <2>10, OnPathAligned DEF Aligned
    <3>2. ASSUME NEW i \in 1 .. Len(v) PROVE v[i] = PathTo[b][(off + drop) + i]
      <4>1. drop + i \in 1 .. Len(w) /\ off + (drop + i) = (off + drop) + i BY <1>2, <2>2, <2>5
      <4> QED BY <2>6, <3>1, <4>1
    <3>3. off + drop \in 0 .. Index[b] /\ Len(v) = Index[b] - (off + drop) + 1 BY <1>2, <2>2, <2>5, <3>1
    <3>4. EndOfPath(d.blocks, b, d.blocks_offset) BY <2>3, <2>8, <3>2, <3>3 DEF EndOfPath
    <3>5. d.ledger.applied = PathTo[b] BY <2>8, <2>10 DEF OnPath
    <3> QED BY <3>4, <3>5, OnPathIff
  <2>11. WellFormed(d) BY <1>1, <1>2, <2>7, <2>8, <2>9, <2>10 DEF WellFormed
  <2>12. Len(d.blocks) \in 1 .. ReorgWindow BY <1>2, <2>5, <2>8
  <2> QED BY <2>1, <2>8, <2>10, <2>11, <2>12
<1> QED BY <1>3, <1>4

-----------------------------------------------------------------------------
\* The orphan pool.
LEMMA PoolsFinite ==
    ASSUME NEW pool \in SUBSET Mined
    PROVE  IsFiniteSet(pool) /\ Cardinality(pool) \in Nat /\ \A b \in pool : Index[b] \in Int /\ HashRank[b] \in Int
<1>1. pool \in SUBSET Blocks /\ IsFiniteSet(Blocks) /\ HashRank \in [Blocks -> Nat]
  BY NodeAssumption DEF Mined
<1>2. IsFiniteSet(pool) BY <1>1, FS_Subset
<1> QED BY <1>1, <1>2, FS_CardinalityType, IndexFacts

\* Taking one orphan out and putting b in keeps the caps, if b's height had room.
LEMMA PoolInsert ==
    ASSUME NEW pool \in SUBSET Mined, NEW b \in Mined,
           Cardinality(pool) < MaxOrphanPool,
           Cardinality(AtHeight(pool, Index[b])) < MaxOrphansPerHeight,
           \A o \in pool : Cardinality(AtHeight(pool, Index[o])) <= MaxOrphansPerHeight
    PROVE  PoolBounded(pool \cup {b})
<1> DEFINE new == pool \cup {b}
<1>1. IsFiniteSet(pool) /\ Cardinality(pool) \in Nat /\ MaxOrphanPool \in Nat /\ MaxOrphansPerHeight \in Nat
  BY PoolsFinite, NodeAssumption
<1>2. Cardinality(new) <= MaxOrphanPool
  <2>1. Cardinality(new) = IF b \in pool THEN Cardinality(pool) ELSE Cardinality(pool) + 1
    BY <1>1, FS_AddElement
  <2> QED BY <1>1, <2>1
<1>3. ASSUME NEW o \in new PROVE Cardinality(AtHeight(new, Index[o])) <= MaxOrphansPerHeight
  <2>1. CASE Index[o] = Index[b]
    <3> DEFINE A == AtHeight(pool, Index[b])
    <3>1. AtHeight(new, Index[o]) = A \cup {b} BY <2>1 DEF AtHeight
    <3>2. A \in SUBSET Mined BY DEF AtHeight
    <3>3. IsFiniteSet(A) /\ Cardinality(A) \in Nat /\ Cardinality(A) < MaxOrphansPerHeight
      BY <3>2, PoolsFinite
    <3> HIDE DEF A
    <3>4. Cardinality(A \cup {b}) = IF b \in A THEN Cardinality(A) ELSE Cardinality(A) + 1
      BY <3>3, FS_AddElement
    <3> QED BY <1>1, <3>1, <3>3, <3>4
  <2>2. CASE Index[o] # Index[b]
    <3>1. AtHeight(new, Index[o]) = AtHeight(pool, Index[o]) /\ o \in pool BY <2>2 DEF AtHeight
    <3> QED BY <3>1
  <2> QED BY <2>1, <2>2
<1> QED BY <1>2, <1>3 DEF PoolBounded

\* Taking orphans out keeps the caps.
LEMMA PoolShrinks ==
    ASSUME NEW pool \in SUBSET Mined, PoolBounded(pool), NEW less \in SUBSET pool
    PROVE  /\ PoolBounded(less) /\ Cardinality(less) <= Cardinality(pool)
           /\ \A i : Cardinality(AtHeight(less, i)) <= Cardinality(AtHeight(pool, i))
<1>1. IsFiniteSet(pool) /\ Cardinality(pool) \in Nat /\ MaxOrphanPool \in Nat /\ MaxOrphansPerHeight \in Nat
  BY PoolsFinite, NodeAssumption
<1>2. Cardinality(less) <= Cardinality(pool) /\ Cardinality(less) \in Nat BY <1>1, FS_Subset, PoolsFinite
<1>3. ASSUME NEW i
      PROVE  /\ Cardinality(AtHeight(less, i)) <= Cardinality(AtHeight(pool, i))
             /\ Cardinality(AtHeight(less, i)) \in Nat /\ Cardinality(AtHeight(pool, i)) \in Nat
  <2>1. AtHeight(pool, i) \in SUBSET Mined /\ AtHeight(less, i) \in SUBSET AtHeight(pool, i)
        /\ AtHeight(less, i) \in SUBSET Mined
    BY DEF AtHeight
  <2>2. IsFiniteSet(AtHeight(pool, i)) /\ Cardinality(AtHeight(pool, i)) \in Nat
        /\ Cardinality(AtHeight(less, i)) \in Nat
    BY <2>1, PoolsFinite
  <2> QED BY <2>1, <2>2, FS_Subset
<1>4. \A b \in less : Cardinality(AtHeight(less, Index[b])) <= MaxOrphansPerHeight
  <2>1. ASSUME NEW b \in less PROVE Cardinality(AtHeight(less, Index[b])) <= MaxOrphansPerHeight
    <3>1. Cardinality(AtHeight(pool, Index[b])) <= MaxOrphansPerHeight BY <2>1 DEF PoolBounded
    <3> DEFINE i == Index[b]
    <3> HIDE DEF i
    <3>2. /\ Cardinality(AtHeight(less, i)) <= Cardinality(AtHeight(pool, i))
          /\ Cardinality(AtHeight(less, i)) \in Nat /\ Cardinality(AtHeight(pool, i)) \in Nat
      BY <1>3
    <3> QED BY <1>1, <3>1, <3>2 DEF i
  <2> QED BY <2>1
<1>5. Cardinality(less) <= MaxOrphanPool BY <1>1, <1>2 DEF PoolBounded
<1>6. PoolBounded(less) BY <1>4, <1>5 DEF PoolBounded
<1> QED BY <1>2, <1>3, <1>6

LEMMA RoomExists ==
    ASSUME NEW pool \in SUBSET Mined, PoolBounded(pool)
    PROVE  /\ PoolsWithRoom(pool) # {}
           /\ \A p \in PoolsWithRoom(pool) :
                p \in SUBSET pool /\ Cardinality(p) < MaxOrphanPool
<1>1. /\ IsFiniteSet(pool) /\ Cardinality(pool) \in Nat /\ MaxOrphanPool \in Nat /\ MaxOrphanPool >= 1
      /\ Cardinality(pool) <= MaxOrphanPool
  BY PoolsFinite, NodeAssumption DEF PoolBounded
<1>2. CASE Cardinality(pool) < MaxOrphanPool BY <1>2 DEF PoolsWithRoom
<1>3. CASE ~(Cardinality(pool) < MaxOrphanPool)
  <2> DEFINE lowest == {o \in pool : \A p \in pool : Index[o] <= Index[p]}
  <2>1. PoolsWithRoom(pool) = {pool \ {e} : e \in lowest} BY <1>3 DEF PoolsWithRoom
  <2>2. pool # {} BY <1>1, <1>3, FS_EmptySet
  <2>3. lowest # {}
    <3>1. \A x \in pool : Index[x] \in Int BY PoolsFinite
    <3>2. \E x \in pool : \A y \in pool : Index[x] <= Index[y] BY <1>1, <2>2, <3>1, LeastExists
    <3> QED BY <3>2
  <2>4. ASSUME NEW e \in lowest PROVE Cardinality(pool \ {e}) < MaxOrphanPool
    <3>1. Cardinality(pool \ {e}) = IF e \in pool THEN Cardinality(pool) - 1 ELSE Cardinality(pool)
      BY <1>1, FS_RemoveElement
    <3> QED BY <1>1, <3>1
  <2> HIDE DEF lowest
  <2> QED BY <2>1, <2>3, <2>4
<1> QED BY <1>2, <1>3

LEMMA EvictMakesRoom ==
    ASSUME NEW pool \in SUBSET Mined, PoolBounded(pool), NEW b \in Mined
    PROVE  /\ EvictAtHeight(pool, b) \in SUBSET pool
           /\ Cardinality(AtHeight(EvictAtHeight(pool, b), Index[b])) < MaxOrphansPerHeight
<1> DEFINE peers == AtHeight(pool, Index[b])
           Smallest(o) == \A p \in peers : HashRank[o] <= HashRank[p]
           out == CHOOSE o \in peers : Smallest(o)
<1>1. /\ peers \in SUBSET Mined /\ IsFiniteSet(peers) /\ Cardinality(peers) \in Nat
      /\ MaxOrphansPerHeight \in Nat /\ MaxOrphansPerHeight >= 1
  <2>1. peers \in SUBSET Mined BY DEF AtHeight
  <2> HIDE DEF peers
  <2> QED BY <2>1, PoolsFinite, NodeAssumption
<1>2. EvictAtHeight(pool, b) = IF Cardinality(peers) < MaxOrphansPerHeight THEN pool ELSE pool \ {out}
  BY DEF EvictAtHeight, AtHeight
<1>3. CASE Cardinality(peers) < MaxOrphansPerHeight BY <1>2, <1>3
<1>4. CASE ~(Cardinality(peers) < MaxOrphansPerHeight)
  <2>1. peers # {} BY <1>1, <1>4, FS_EmptySet
  <2>2. out \in peers
    <3>1. \A x \in peers : HashRank[x] \in Int BY <1>1, PoolsFinite
    <3> HIDE DEF peers
    <3>2. \E x \in peers : Smallest(x) BY <1>1, <2>1, <3>1, LeastExists
    <3> HIDE DEF Smallest
    <3> QED BY <3>2
  <2> HIDE DEF out
  <2>3. Cardinality(peers) <= MaxOrphansPerHeight
    <3>1. out \in pool /\ Index[out] = Index[b] BY <2>2 DEF AtHeight
    <3>2. Cardinality(AtHeight(pool, Index[out])) <= MaxOrphansPerHeight BY <3>1 DEF PoolBounded
    <3> QED BY <3>1, <3>2
  <2>4. AtHeight(pool \ {out}, Index[b]) = peers \ {out} BY DEF AtHeight
  <2> HIDE DEF peers
  <2>5. Cardinality(peers \ {out}) = IF out \in peers THEN Cardinality(peers) - 1 ELSE Cardinality(peers)
    BY <1>1, FS_RemoveElement
  <2>6. Cardinality(peers \ {out}) < MaxOrphansPerHeight BY <1>1, <2>2, <2>3, <2>5
  <2>7. EvictAtHeight(pool, b) = pool \ {out} BY <1>2, <1>4
  <2> QED BY <2>4, <2>6, <2>7
<1> QED BY <1>3, <1>4

\* Whatever apply_in_memory evicts, the pool with the new block keeps both caps.
LEMMA Pooled ==
    ASSUME NEW pool \in SUBSET Mined, PoolBounded(pool), NEW b \in Mined, NEW room \in PoolsWithRoom(pool)
    PROVE  /\ EvictAtHeight(room, b) \cup {b} \in SUBSET Mined
           /\ PoolBounded(EvictAtHeight(room, b) \cup {b})
<1>1. room \in SUBSET pool /\ Cardinality(room) < MaxOrphanPool BY RoomExists
<1>2. room \in SUBSET Mined /\ PoolBounded(room) BY <1>1, PoolShrinks
<1> DEFINE kept == EvictAtHeight(room, b)
<1>3. kept \in SUBSET room /\ Cardinality(AtHeight(kept, Index[b])) < MaxOrphansPerHeight
  BY <1>2, EvictMakesRoom
<1> HIDE DEF kept
<1>4. PoolBounded(kept) /\ Cardinality(kept) <= Cardinality(room) BY <1>2, <1>3, PoolShrinks
<1>5. kept \in SUBSET Mined BY <1>2, <1>3
<1>6. Cardinality(kept) \in Nat /\ Cardinality(room) \in Nat /\ MaxOrphanPool \in Nat
  BY <1>2, <1>5, PoolsFinite, NodeAssumption
<1>7. Cardinality(kept) < MaxOrphanPool BY <1>1, <1>4, <1>6
<1>8. \A o \in kept : Cardinality(AtHeight(kept, Index[o])) <= MaxOrphansPerHeight BY <1>4 DEF PoolBounded
<1>9. PoolBounded(kept \cup {b}) BY <1>3, <1>5, <1>7, <1>8, PoolInsert
<1> QED BY <1>5, <1>9 DEF kept

\* trace_fork_chain returns a nonempty chain of orphans.
LEMMA ForkTyped ==
    ASSUME NEW pool \in SUBSET Mined, NEW tip \in pool
    PROVE  ForkChain(pool, tip) \in Seq(Mined) /\ Len(ForkChain(pool, tip)) >= 1
<1> DEFINE V == Seq(Mined)
           Is(f) == f = [b \in pool |-> IF Parent[b] \in pool THEN Append(f[Parent[b]], b) ELSE <<b>>]
           step == [p \in Mined \X V |-> IF p[1] \in pool /\ Parent[p[1]] \in pool
                                         THEN Append(p[2], p[1]) ELSE <<p[1]>>]
           trace == CHOOSE f : Is(f)
<1>1. ForkChain(pool, tip) = trace[tip] BY DEF ForkChain
<1>2. \A b \in Mined, s \in V :
         step[<<b, s>>] = IF b \in pool /\ Parent[b] \in pool THEN Append(s, b) ELSE <<b>>
  OBVIOUS
<1>3. \A b \in Mined, s \in V : Append(s, b) \in V /\ <<b>> \in V OBVIOUS
<1>4. step \in [Mined \X V -> V]
  <2>1. \A p \in Mined \X V : Append(p[2], p[1]) \in V /\ <<p[1]>> \in V BY <1>3
  <2> HIDE DEF V
  <2> QED BY <2>1
<1>5. <<>> \in V OBVIOUS
<1> HIDE DEF V, step, Is
<1>6. PICK f : Solves(f, Blocks, V, <<>>, step) BY <1>4, <1>5, TreeRecursion
<1>7. f \in [Blocks -> V] /\ \A b \in Mined : Parent[b] \in Blocks /\ f[b] = step[<<b, f[Parent[b]]>>]
  BY <1>6, NodeAssumption DEF Solves, Mined
<1>8. \A b \in pool : f[b] = IF Parent[b] \in pool THEN Append(f[Parent[b]], b) ELSE <<b>>
  <2>1. \A b \in Mined : f[Parent[b]] \in V BY <1>7
  <2> QED BY <1>2, <1>7, <2>1
<1> DEFINE g == [b \in pool |-> f[b]]
<1>9. Is(g)
  <2>1. \A b \in pool : g[b] = IF Parent[b] \in pool THEN Append(g[Parent[b]], b) ELSE <<b>> BY <1>8
  <2> QED BY <2>1 DEF Is
<1>10. Is(trace)
  <2> HIDE DEF g
  <2> QED BY <1>9
<1> HIDE DEF trace, g
<1>11. \A b \in pool : trace[b] = IF Parent[b] \in pool THEN Append(trace[Parent[b]], b) ELSE <<b>>
  BY <1>10 DEF Is
<1> DEFINE Q == {b \in Blocks : b \in pool => trace[b] \in V /\ Len(trace[b]) >= 1}
<1>12. Genesis \in Q BY NodeAssumption DEF Mined
<1>13. ASSUME NEW b \in Mined, Parent[b] \in Q PROVE b \in Q
  <2>1. SUFFICES ASSUME b \in pool PROVE trace[b] \in V /\ Len(trace[b]) >= 1 BY DEF Mined
  <2>2. CASE Parent[b] \in pool
    <3>1. trace[Parent[b]] \in V BY <1>13, <2>2
    <3> DEFINE s == trace[Parent[b]]
    <3> HIDE DEF s
    <3>2. Append(s, b) \in V /\ Len(Append(s, b)) >= 1 BY <3>1 DEF V, s
    <3> QED BY <1>11, <2>1, <2>2, <3>2 DEF s
  <2>3. CASE Parent[b] \notin pool
    <3>1. <<b>> \in V /\ Len(<<b>>) >= 1 BY DEF V
    <3> QED BY <1>11, <2>1, <2>3, <3>1
  <2> QED BY <2>2, <2>3
<1>14. Blocks \subseteq Q
  <2> HIDE DEF Q
  <2> QED BY <1>12, <1>13, TreeInduction
<1>15. tip \in Q BY <1>14 DEF Mined
<1> QED BY <1>1, <1>15 DEF V

-----------------------------------------------------------------------------
\* What is read from the table of blocks.

LEMMA RowFacts ==
    ASSUME NEW table, RowsPlaced(table), NEW i \in Heights
    PROVE  /\ RowAt(table, i) \in Seq(Blocks)
           /\ i >= 1 => RowAt(table, i) \in Seq(Mined)
           /\ i = 0 => RowAt(table, i) = <<Genesis>>
<1>1. table[i] = NoBlock \/ table[i] \in Blocks BY DEF RowsPlaced
<1>2. <<>> \in Seq(Blocks) /\ <<>> \in Seq(Mined) OBVIOUS
<1>3. CASE i = 0
  <2>1. table[i] = Genesis /\ Genesis # NoBlock /\ <<Genesis>> \in Seq(Blocks)
    BY <1>3, NodeAssumption DEF RowsPlaced
  <2> QED BY <1>3, <2>1 DEF RowAt
<1>4. CASE i # 0 /\ table[i] # NoBlock
  <2>1. Index[table[i]] = i /\ table[i] \in Blocks BY <1>1, <1>4 DEF RowsPlaced
  <2>2. table[i] \in Mined BY <1>4, <2>1, IndexFacts DEF Mined
  <2> DEFINE b == table[i]
  <2> HIDE DEF b
  <2>3. <<b>> \in Seq(Blocks) /\ <<b>> \in Seq(Mined) BY <2>1, <2>2 DEF b
  <2> QED BY <1>4, <2>3 DEF RowAt, b
<1>5. CASE i # 0 /\ table[i] = NoBlock BY <1>2, <1>5 DEF RowAt
<1> QED BY <1>3, <1>4, <1>5

\* What is read from a row above genesis on is mined blocks.
LEMMA RowsAboveGenesis ==
    ASSUME NEW table, RowsPlaced(table), NEW from \in Nat, from >= 1, NEW to \in Heights
    PROVE  Rows(table, from, to) \in Seq(Mined)
<1>1. to \in Nat /\ \A i \in Nat : i <= to => i \in Heights BY HeightsFacts
<1>2. CASE to < from BY <1>2 DEF Rows
<1>3. CASE ~(to < from)
  <2> DEFINE n == to - from + 1
             seqs == [i \in 1 .. n |-> RowAt(table, from + i - 1)]
  <2>1. n \in Nat /\ n = to - from + 1 BY <1>1, <1>3
  <2>2. Rows(table, from, to) = FlattenSeq(seqs) BY <1>3 DEF Rows
  <2> HIDE DEF n
  <2>3. \A i \in 1 .. n : from + i - 1 \in Heights /\ from + i - 1 >= 1 BY <1>1, <2>1
  <2>4. seqs \in [1 .. n -> Seq(Mined)] BY <2>3, RowFacts
  <2> HIDE DEF seqs
  <2>5. PICK f : FlatRun(f, Mined, n, seqs) BY <2>1, <2>4, FlattenRun
  <2> QED BY <2>1, <2>2, <2>5 DEF FlatRun
<1> QED BY <1>2, <1>3

LEMMA AppendMined ==
    ASSUME NEW s, FromGenesis(s), NEW t \in Seq(Mined)
    PROVE  FromGenesis(s \o t)
<1>1. /\ s \in Seq(Blocks) /\ Len(s) \in Nat /\ Len(s) >= 1 /\ Len(t) \in Nat
      /\ \A i \in 2 .. Len(s) : s[i] \in Mined
      /\ \A i \in 1 .. Len(t) : t[i] \in Mined
  BY DEF FromGenesis
<1>2. t \in Seq(Blocks) BY DEF Mined
<1> DEFINE u == s \o t
<1>3. /\ u \in Seq(Blocks) /\ Len(u) = Len(s) + Len(t)
      /\ \A i \in 1 .. Len(s) : u[i] = s[i]
      /\ \A i \in Len(s) + 1 .. Len(s) + Len(t) : u[i] = t[i - Len(s)]
  BY <1>1, <1>2
<1> HIDE DEF u
<1>4. ASSUME NEW i \in 2 .. Len(u) PROVE u[i] \in Mined
  <2>1. CASE i <= Len(s)
    <3>1. i \in 1 .. Len(s) /\ i \in 2 .. Len(s) BY <1>1, <2>1
    <3> QED BY <1>1, <1>3, <3>1
  <2>2. CASE ~(i <= Len(s))
    <3>1. i \in Len(s) + 1 .. Len(s) + Len(t) /\ i - Len(s) \in 1 .. Len(t) BY <1>1, <1>3, <2>2
    <3> QED BY <1>1, <1>3, <3>1
  <2> QED BY <2>1, <2>2
<1>5. Len(u) >= 1 BY <1>1, <1>3
<1> QED BY <1>3, <1>4, <1>5 DEF FromGenesis, u

\* What is read from row 0 on is the genesis block and then mined blocks.
LEMMA RowsFromGenesis ==
    ASSUME NEW table, RowsPlaced(table), NEW to \in Heights
    PROVE  FromGenesis(Rows(table, 0, to))
<1>1. to \in Nat /\ \A i \in Nat : i <= to => i \in Heights BY HeightsFacts
<1> DEFINE n == to - 0 + 1
           seqs == [i \in 1 .. n |-> RowAt(table, 0 + i - 1)]
<1>2. n \in Nat /\ n = to + 1 /\ n >= 1 BY <1>1
<1>3. Rows(table, 0, to) = FlattenSeq(seqs) BY <1>1 DEF Rows
<1> HIDE DEF n
<1>4. \A i \in 1 .. n : 0 + i - 1 = i - 1 /\ i - 1 \in Heights /\ (i >= 2 => i - 1 >= 1) BY <1>1, <1>2
<1>5. \A i \in 1 .. n : seqs[i] = RowAt(table, i - 1) BY <1>4
<1>6. seqs \in [1 .. n -> Seq(Blocks)] BY <1>4, RowFacts
<1> HIDE DEF seqs
<1>7. PICK f : FlatRun(f, Blocks, n, seqs) BY <1>2, <1>6, FlattenRun
<1>8. /\ f \in [0 .. n -> Seq(Blocks)] /\ f[0] = <<>> /\ f[n] = Rows(table, 0, to)
      /\ \A i \in 1 .. n : f[i] = f[i - 1] \o seqs[i]
  BY <1>3, <1>7 DEF FlatRun
<1> DEFINE Q == {i \in Nat : i + 1 <= n => FromGenesis(f[i + 1])}
<1>9. 0 \in Q
  <2>1. 1 \in 1 .. n /\ 1 - 1 = 0 /\ 0 + 1 = 1 /\ 0 \in Heights BY <1>1, <1>2
  <2>2. seqs[1] = <<Genesis>> BY <1>5, <2>1, RowFacts
  <2>3. f[1] = <<>> \o <<Genesis>> BY <1>8, <2>1, <2>2
  <2> DEFINE g == <<Genesis>>
  <2>4. g \in Seq(Blocks) /\ Len(g) = 1 BY NodeAssumption
  <2> HIDE DEF g
  <2>5. <<>> \o g = g BY <2>4
  <2>6. FromGenesis(g) BY <2>4 DEF FromGenesis
  <2>7. FromGenesis(f[1]) BY <2>3, <2>5, <2>6 DEF g
  <2> QED BY <2>1, <2>7
<1>10. ASSUME NEW i \in Nat, i \in Q PROVE i + 1 \in Q
  <2>1. SUFFICES ASSUME i + 1 + 1 <= n PROVE FromGenesis(f[i + 1 + 1]) OBVIOUS
  <2> DEFINE k == i + 1
             m == i + 1 + 1
  <2>2. m \in 1 .. n /\ m - 1 = k /\ m >= 2 /\ k <= n /\ k \in Nat BY <1>2, <2>1
  <2>3. FromGenesis(f[k]) BY <1>10, <2>2
  <2> HIDE DEF k, m, Q
  <2>4. f[m] = f[k] \o seqs[m] BY <1>8, <2>2
  <2>5. seqs[m] \in Seq(Mined) BY <1>4, <1>5, <2>2, RowFacts
  <2>6. FromGenesis(f[m]) BY <2>3, <2>4, <2>5, AppendMined
  <2> QED BY <2>6 DEF m
<1>11. to \in Q
  <2>1. Nat \subseteq Q
    <3> HIDE DEF Q
    <3> QED BY <1>9, <1>10, NatSetInduction
  <2> QED BY <1>1, <2>1
<1> QED BY <1>2, <1>8, <1>11

\* The blocks above genesis.
LEMMA TailMined ==
    ASSUME NEW s, FromGenesis(s)
    PROVE  Tail(s) \in Seq(Mined)
<1>1. s \in Seq(Blocks) /\ Len(s) \in Nat /\ Len(s) >= 1 /\ s # <<>>
      /\ \A i \in 2 .. Len(s) : s[i] \in Mined
  BY DEF FromGenesis
<1> DEFINE t == Tail(s)
<1>2. t \in Seq(Blocks) /\ Len(t) = Len(s) - 1 /\ \A i \in 1 .. Len(t) : t[i] = s[i + 1] BY <1>1
<1> HIDE DEF t
<1>3. \A i \in 1 .. Len(t) : t[i] \in Mined
  <2>1. \A i \in 1 .. Len(t) : i + 1 \in 2 .. Len(s) BY <1>1, <1>2
  <2> QED BY <1>1, <1>2, <2>1
<1>4. t = [i \in 1 .. Len(t) |-> t[i]] /\ Len(t) \in Nat BY <1>2
<1>5. t \in [1 .. Len(t) -> Mined] BY <1>3, <1>4
<1>6. \A n \in Nat : [1 .. n -> Mined] \subseteq Seq(Mined) OBVIOUS
<1> QED BY <1>4, <1>5, <1>6 DEF t

LEMMA RowsInBlocks ==
    ASSUME NEW table, RowsTyped(table), NEW from \in Nat, NEW to \in Int, to <= MaxIndex
    PROVE  Rows(table, from, to) \in Seq(Blocks)
<1>1. MaxIndex \in Nat /\ Heights = 0 .. MaxIndex BY HeightsFacts
<1>2. CASE to < from BY <1>2 DEF Rows
<1>3. CASE ~(to < from)
  <2> DEFINE n == to - from + 1
             seqs == [i \in 1 .. n |-> RowAt(table, from + i - 1)]
  <2>1. n \in Nat /\ n = to - from + 1 BY <1>1, <1>3
  <2>2. Rows(table, from, to) = FlattenSeq(seqs) BY <1>3 DEF Rows
  <2> HIDE DEF n
  <2>3. \A i \in 1 .. n : from + i - 1 \in Heights BY <1>1, <2>1
  <2>4. ASSUME NEW i \in Heights PROVE RowAt(table, i) \in Seq(Blocks)
    <3>1. table[i] = NoBlock \/ table[i] \in Blocks BY <2>4 DEF RowsTyped
    <3> DEFINE b == table[i]
    <3> HIDE DEF b
    <3>2. CASE b = NoBlock
      <4>1. RowAt(table, i) = <<>> BY <3>2 DEF RowAt, b
      <4> QED BY <4>1
    <3>3. CASE b # NoBlock /\ b \in Blocks
      <4>1. RowAt(table, i) = <<b>> BY <3>3 DEF RowAt, b
      <4> QED BY <3>3, <4>1
    <3> QED BY <3>1, <3>2, <3>3 DEF b
  <2>5. seqs \in [1 .. n -> Seq(Blocks)] BY <2>3, <2>4
  <2> HIDE DEF seqs
  <2>6. PICK f : FlatRun(f, Blocks, n, seqs) BY <2>1, <2>5, FlattenRun
  <2> QED BY <2>1, <2>2, <2>6 DEF FlatRun
<1> QED BY <1>2, <1>3

-----------------------------------------------------------------------------
LEMMA ReplayBlockSound ==
    ASSUME NEW c \in SoundChains, NEW b \in Blocks
    PROVE  ReplayBlock(c, b) \in SoundChains
<1>1. CASE Accepts(c, b)
  <2>1. WellFormed(UpdateState(c, b)) BY <1>1, UpdateWellFormed DEF SoundChains
  <2> QED BY <1>1, <2>1 DEF ReplayBlock, SoundChains, WellFormed
<1>2. CASE ~Accepts(c, b) BY <1>2 DEF ReplayBlock
<1> QED BY <1>1, <1>2

LEMMA ReplaySound ==
    ASSUME NEW c \in SoundChains, NEW t \in Seq(Blocks)
    PROVE  Replay(c, t) \in SoundChains
<1> DEFINE n == Len(t)
           op == [p \in (1 .. n) \X SoundChains |-> ReplayBlock(p[2], t[p[1]])]
           eq(f) == f = [U \in SUBSET (1 .. n) |->
                           IF U = {} THEN c ELSE ReplayBlock(f[U \ {Max(U)}], t[Max(U)])]
           k == CHOOSE f : eq(f)
<1>1. n \in Nat /\ DOMAIN t = 1 .. n /\ \A i \in 1 .. n : t[i] \in Blocks OBVIOUS
<1>2. Replay(c, t) = k[1 .. n] BY <1>1 DEF Replay, FoldLeft, MapThenFoldSet
<1>3. op \in [(1 .. n) \X SoundChains -> SoundChains]
      /\ \A i \in 1 .. n, m \in SoundChains : op[<<i, m>>] = ReplayBlock(m, t[i])
  BY <1>1, ReplayBlockSound
<1>4. \A U \in (SUBSET (1 .. n)) \ {{}} : Max(U) \in 1 .. n BY <1>1, MaxIsMember
<1>5. eq(k)
  <2> HIDE DEF n, op
  <2>1. PICK g \in [SUBSET (1 .. n) -> SoundChains] : MaxFold(g, n, c, op) BY <1>1, <1>3, LeftFoldExists
  <2>2. \A U \in SUBSET (1 .. n) :
            g[U] = IF U = {} THEN c ELSE ReplayBlock(g[U \ {Max(U)}], t[Max(U)])
    BY <1>3, <1>4, <2>1 DEF MaxFold
  <2>3. eq(g) BY <2>2
  <2> HIDE DEF eq
  <2> QED BY <2>3
<1>6. Computes(k, n, SoundChains, c, op)
  <2> HIDE DEF k, op
  <2>1. \A U \in SUBSET (1 .. n) :
            k[U] = IF U = {} THEN c ELSE ReplayBlock(k[U \ {Max(U)}], t[Max(U)])
    BY <1>5
  <2> QED BY <1>3, <1>4, <2>1 DEF Computes
<1>7. PICK h : Run(h, n, SoundChains, c, k[1 .. n], op)
  <2> HIDE DEF n, op, k
  <2> QED BY <1>1, <1>3, <1>6, LeftFoldRun
<1> HIDE DEF op, k
<1>8. k[1 .. n] \in SoundChains
  <2> HIDE DEF n
  <2>1. n \in 0 .. n BY <1>1
  <2> QED BY <1>7, <2>1 DEF Run
<1> QED BY <1>2, <1>8

\* Where the fork leaves the window, if it leaves it there.
LEMMA AncestorFacts ==
    ASSUME NEW c, WellFormed(c), NEW f, NEW table, IsFork(c, f, table)
    PROVE  /\ f[1] \in Mined /\ Ancestor(f) \in Nat /\ Index[f[1]] = Ancestor(f) + 1
           /\ c.blocks_offset \in Nat
           /\ \/ Ancestor(f) < c.blocks_offset
              \/ Ancestor(f) - c.blocks_offset + 1 \in 1 .. Len(c.blocks)
<1>1. PICK a \in Blocks : OnPath(c, a) BY DEF WellFormed
<1>2. Aligned(c, a) BY <1>1, OnPathAligned
<1> DEFINE b == f[1]
           off == c.blocks_offset
           w == c.blocks
<1>3. b \in Mined BY DEF IsFork
<1> HIDE DEF b
<1>4. Parent[b] \in Blocks /\ Index[b] = Index[Parent[b]] + 1 /\ Index[Parent[b]] \in Nat
  BY <1>3, IndexFacts, NodeAssumption
<1>5. Ancestor(f) = Index[Parent[b]] BY <1>4 DEF Ancestor, b
<1>6. /\ off \in Nat /\ w \in Seq(Blocks) /\ DOMAIN w = 1 .. Len(w)
      /\ \A i \in 1 .. Len(w) : Index[w[i]] = off + i - 1
  <2>1. /\ off \in Nat /\ w \in Seq(Blocks)
        /\ \A i \in 1 .. Len(w) : Index[w[i]] = off + i - 1
    BY <1>2 DEF Aligned
  <2> HIDE DEF w, off
  <2>2. DOMAIN w = 1 .. Len(w) BY <2>1
  <2> QED BY <2>1, <2>2
<1>7. CASE Parent[b] \in c.block_hashes
  <2>1. Parent[b] \in Elements(w) BY <1>7 DEF WellFormed
  <2>2. PICK i \in 1 .. Len(w) : Parent[b] = w[i] BY <1>6, <2>1 DEF Elements
  <2>3. Index[Parent[b]] = off + i - 1 BY <1>6, <2>2
  <2>4. Index[Parent[b]] - off + 1 \in 1 .. Len(w) BY <1>6, <2>2, <2>3
  <2> QED BY <1>3, <1>4, <1>5, <1>6, <2>4 DEF b
<1>8. CASE Index[b] - 1 < off BY <1>3, <1>4, <1>5, <1>6, <1>8 DEF b
<1> QED BY <1>7, <1>8 DEF IsFork, HasAncestor, b

LEMMA KeptTyped ==
    ASSUME NEW c, WellFormed(c), NEW f, NEW table, IsFork(c, f, table)
    PROVE  Kept(c, f) \in Seq(Blocks)
<1> DEFINE n == Ancestor(f) - c.blocks_offset + 1
           w == c.blocks
<1>1. w \in Seq(Blocks) BY DEF WellFormed, Chains
<1>2. n \in Int /\ (n <= 0 \/ n \in 1 .. Len(w)) BY <1>1, AncestorFacts
<1>3. Kept(c, f) = SubSeq(w, 1, n) BY DEF Kept
<1> HIDE DEF n, w
<1>4. CASE n <= 0
  <2>1. SubSeq(w, 1, n) = <<>> /\ <<>> \in Seq(Blocks) BY <1>1, <1>2, <1>4, SubSeqEmpty
  <2> QED BY <1>3, <2>1
<1>5. CASE n \in 1 .. Len(w)
  <2>1. n \in Nat /\ n <= Len(w) BY <1>1, <1>5
  <2> QED BY <1>1, <1>3, <2>1, SubSeqFacts
<1> QED BY <1>2, <1>4, <1>5

LEMMA ReorgSound ==
    ASSUME NEW c, WellFormed(c), NEW f, NEW table, RowsTyped(table), IsFork(c, f, table)
    PROVE  WellFormed(ReorgTo(c, f, table))
<1> DEFINE canonical == Kept(c, f) \o f
           to == Index[canonical[1]] - 1
           prefix == Rows(table, 0, to)
           all == prefix \o canonical
<1>1. Kept(c, f) \in Seq(Blocks) /\ f \in Seq(Blocks) /\ Len(f) >= 1 BY KeptTyped DEF IsFork, Mined
<1>2. canonical \in Seq(Blocks) /\ Len(canonical) >= 1 BY <1>1
<1> HIDE DEF canonical
<1>3. canonical[1] \in Blocks BY <1>2
<1>4. to \in Int /\ to <= MaxIndex
  <2>1. Index[canonical[1]] \in 0 .. MaxIndex /\ MaxIndex \in Nat BY <1>3, HeightsFacts
  <2> QED BY <2>1
<1> HIDE DEF to
<1>5. prefix \in Seq(Blocks) BY <1>4, RowsInBlocks
<1> HIDE DEF prefix
<1>6. all \in Seq(Blocks) /\ all # <<>> BY <1>2, <1>5
<1> HIDE DEF all
<1>7. Tail(all) \in Seq(Blocks) BY <1>6
<1>8. GenesisChain \in SoundChains BY GenesisWellFormed DEF SoundChains, WellFormed
<1>9. ReorgTo(c, f, table) = Replay(GenesisChain, Tail(all)) BY DEF ReorgTo, all, prefix, to, canonical
<1> QED BY <1>7, <1>8, <1>9, ReplaySound DEF SoundChains

-----------------------------------------------------------------------------
\* apply_in_memory.

LEMMA DisplacedFacts ==
    ASSUME NEW c, WellFormed(c), NEW f, NEW table, IsFork(c, f, table)
    PROVE  Displaces(Displaced(c, f))
<1>1. PICK a \in Blocks : OnPath(c, a) BY DEF WellFormed
<1> DEFINE anc == Ancestor(f)
           off == c.blocks_offset
           w == c.blocks
           m == anc - off + 2
           old == SubSeq(w, m, Len(w))
<1>2. /\ off \in Nat /\ w \in Seq(Blocks)
      /\ \A i \in 1 .. Len(w) : Index[w[i]] = off + i - 1
  BY <1>1, OnPathAligned DEF Aligned
<1>3. anc \in Nat /\ (anc < off \/ anc - off + 1 \in 1 .. Len(w)) BY AncestorFacts
<1>4. CASE anc < off
  <2>1. Displaced(c, f) = <<>> /\ <<>> \in Seq(Blocks) /\ Len(<<>>) = 0 BY <1>4 DEF Displaced
  <2> DEFINE e == <<>>
  <2> HIDE DEF e
  <2>2. e \in Seq(Blocks) /\ Len(e) = 0 /\ Displaced(c, f) = e BY <2>1 DEF e
  <2> QED BY <2>2 DEF Displaces
<1>5. CASE ~(anc < off)
  <2>1. Displaced(c, f) = old BY <1>5 DEF Displaced
  <2> HIDE DEF anc, off, w
  <2>2. m \in Nat /\ m >= 1 /\ Len(w) \in Nat /\ m <= Len(w) + 1 /\ m = anc - off + 2 BY <1>2, <1>3, <1>5
  <2> HIDE DEF m
  <2>3. /\ old \in Seq(Blocks)
        /\ Len(old) = IF m <= Len(w) THEN Len(w) - m + 1 ELSE 0
    BY <1>2, <2>2, SubSeqFacts
  <2>4. \A i \in 1 .. Len(w) - m + 1 : old[i] = w[m + i - 1] BY <1>2, <2>2, SubSeqFacts
  <2> HIDE DEF old
  <2>5. ASSUME NEW i \in 1 .. Len(old) PROVE Index[old[i]] = anc + i
    <3>1. i \in 1 .. Len(w) - m + 1 /\ m + i - 1 \in 1 .. Len(w) BY <2>2, <2>3
    <3>2. Index[w[m + i - 1]] = off + (m + i - 1) - 1 BY <1>2, <3>1
    <3>3. off + (m + i - 1) - 1 = anc + i BY <1>2, <1>3, <2>2, <3>1
    <3> QED BY <2>4, <3>1, <3>2, <3>3
  <2>6. ASSUME NEW i \in 1 .. Len(old) PROVE Index[old[i]] >= 1 /\ Index[old[i]] >= Index[old[1]]
    <3>1. 1 \in 1 .. Len(old) BY <2>3
    <3>2. Index[old[1]] = anc + 1 /\ Index[old[i]] = anc + i BY <2>5, <3>1
    <3> QED BY <1>3, <3>2
  <2> QED BY <2>1, <2>3, <2>6 DEF Displaces
<1> QED BY <1>4, <1>5

LEMMA NothingDisplaced == Displaces(<<>>)
<1> DEFINE e == <<>>
<1>1. e \in Seq(Blocks) /\ Len(e) = 0 OBVIOUS
<1> HIDE DEF e
<1>2. Displaces(e) BY <1>1 DEF Displaces
<1> QED BY <1>2 DEF e

\* Changing the orphan pool changes nothing else.
LEMMA PoolChanged ==
    ASSUME NEW c, WellFormed(c), NEW pool \in SUBSET Mined, PoolBounded(pool)
    PROVE  /\ WellFormed([c EXCEPT !.orphan_pool = pool])
           /\ [c EXCEPT !.orphan_pool = pool].blocks = c.blocks
           /\ [c EXCEPT !.orphan_pool = pool].orphan_pool = pool
<1> DEFINE d == [c EXCEPT !.orphan_pool = pool]
<1>1. c \in Chains BY DEF WellFormed
<1>2. /\ d.blocks = c.blocks /\ d.blocks_offset = c.blocks_offset /\ d.block_hashes = c.block_hashes
      /\ d.orphan_pool = pool /\ d.ledger = c.ledger
  BY <1>1 DEF Chains
<1>3. d \in Chains BY <1>1 DEF Chains
<1> HIDE DEF d
<1>4. \A b \in Blocks : OnPath(c, b) => OnPath(d, b) BY <1>2 DEF OnPath
<1>5. WellFormed(d) BY <1>2, <1>3, <1>4 DEF WellFormed
<1> QED BY <1>2, <1>5 DEF d

\* The forks offered for a reorg are forks.
LEMMA BestAreForks ==
    ASSUME NEW c, WellFormed(c), NEW table, NEW f \in BestForks(c, table)
    PROVE  IsFork(c, f, table)
<1> DEFINE tips == {o \in c.orphan_pool : \A p \in c.orphan_pool : Parent[p] # o}
<1>1. f \in HeavierForks(c, table) BY DEF BestForks
<1>2. f \in {ForkChain(c.orphan_pool, t) : t \in tips} /\ HasAncestor(c, f, table) BY <1>1 DEF HeavierForks
<1>3. PICK t \in tips : f = ForkChain(c.orphan_pool, t) BY <1>2
<1>4. c.orphan_pool \in SUBSET Mined /\ t \in c.orphan_pool BY <1>3 DEF WellFormed, Chains
<1>5. f \in Seq(Mined) /\ Len(f) >= 1 BY <1>3, <1>4, ForkTyped
<1> QED BY <1>2, <1>5 DEF IsFork

LEMMA ApplySound ==
    ASSUME NEW c, WellFormed(c), NEW b \in Mined, NEW table, RowsTyped(table)
    PROVE  /\ ApplyInMemory(c, b, table) # {}
           /\ \A r \in ApplyInMemory(c, b, table) : Outcome(c, r)
<1> DEFINE all == ApplyInMemory(c, b, table)
           applied == [kind |-> "Applied", chain |-> UpdateState(c, b), old |-> <<>>, new |-> <<b>>]
           rejected == [kind |-> "Rejected", chain |-> c, old |-> <<>>, new |-> <<>>]
           With(room) == [c EXCEPT !.orphan_pool = EvictAtHeight(room, b) \cup {b}]
           pooled == {With(room) : room \in PoolsWithRoom(c.orphan_pool)}
           orphaned(p) == [kind |-> "Orphaned", chain |-> p, old |-> <<>>, new |-> <<>>]
           reorged(p, f) == [kind |-> "Reorged", chain |-> ReorgTo(p, f, table),
                             old |-> Displaced(p, f), new |-> f]
<1>0. b \in Blocks BY DEF Mined
<1>1. CASE Accepts(c, b)
  <2>1. all = {applied} BY <1>1 DEF ApplyInMemory
  <2>2. WellFormed(UpdateState(c, b)) /\ Tip(UpdateState(c, b)) = b
    <3>1. WellFormed(UpdateState(c, b)) /\ OnPath(UpdateState(c, b), b) BY <1>0, <1>1, UpdateWellFormed
    <3> QED BY <1>0, <3>1, OnPathAligned DEF Aligned
  <2>3. <<b>> \in Seq(Mined) /\ Displaces(<<>>) BY NothingDisplaced
  <2>4. Outcome(c, applied) BY <2>2, <2>3 DEF Outcome
  <2> HIDE DEF applied
  <2> QED BY <2>1, <2>4
<1>2. CASE ~Accepts(c, b) /\ (LinksToTip(c, b) \/ ~Standalone(c, b))
  <2>1. all = {rejected} BY <1>2 DEF ApplyInMemory
  <2>2. Outcome(c, rejected) BY NothingDisplaced DEF Outcome
  <2> HIDE DEF rejected
  <2> QED BY <2>1, <2>2
<1>3. CASE ~Accepts(c, b) /\ ~(LinksToTip(c, b) \/ ~Standalone(c, b))
  <2>1. all = {orphaned(p) : p \in {q \in pooled : BestForks(q, table) = {}}}
              \cup UNION {{reorged(p, f) : f \in BestForks(p, table)} : p \in pooled}
    BY <1>3 DEF ApplyInMemory
  <2>2. pooled # {} /\ \A p \in pooled : WellFormed(p) /\ p.blocks = c.blocks
    <3>1. c.orphan_pool \in SUBSET Mined /\ PoolBounded(c.orphan_pool) BY DEF WellFormed, Chains
    <3>2. PoolsWithRoom(c.orphan_pool) # {} BY <3>1, RoomExists
    <3>3. ASSUME NEW room \in PoolsWithRoom(c.orphan_pool)
          PROVE  WellFormed(With(room)) /\ With(room).blocks = c.blocks
      <4> DEFINE pool == EvictAtHeight(room, b) \cup {b}
      <4>1. pool \in SUBSET Mined /\ PoolBounded(pool) BY <3>1, Pooled
      <4> HIDE DEF pool
      <4>2. /\ WellFormed([c EXCEPT !.orphan_pool = pool])
            /\ [c EXCEPT !.orphan_pool = pool].blocks = c.blocks
        BY <4>1, PoolChanged
      <4> QED BY <4>2 DEF pool
    <3> HIDE DEF With
    <3> QED BY <3>2, <3>3
  <2> HIDE DEF pooled, With
  <2>3. ASSUME NEW p \in pooled PROVE Outcome(c, orphaned(p)) BY <2>2, NothingDisplaced DEF Outcome
  <2>4. ASSUME NEW p \in pooled, NEW f \in BestForks(p, table) PROVE Outcome(c, reorged(p, f))
    <3>1. WellFormed(p) /\ IsFork(p, f, table) BY <2>2, BestAreForks
    <3>2. WellFormed(ReorgTo(p, f, table)) /\ Displaces(Displaced(p, f)) /\ f \in Seq(Mined)
      BY <3>1, ReorgSound, DisplacedFacts DEF IsFork
    <3> QED BY <3>2 DEF Outcome
  <2> HIDE DEF orphaned, reorged
  <2>5. all # {}
    <3>1. PICK p \in pooled : TRUE BY <2>2
    <3>2. CASE BestForks(p, table) = {} BY <2>1, <3>2
    <3>3. CASE BestForks(p, table) # {} BY <2>1, <3>3
    <3> QED BY <3>2, <3>3
  <2>6. \A r \in all : Outcome(c, r)
    <3>1. SUFFICES ASSUME NEW r \in all PROVE Outcome(c, r) OBVIOUS
    <3>2. (\E p \in pooled : r = orphaned(p))
          \/ \E p \in pooled : \E f \in BestForks(p, table) : r = reorged(p, f)
      BY <2>1, <3>1
    <3> QED BY <2>3, <2>4, <3>2
  <2> QED BY <2>5, <2>6
<1> QED BY <1>1, <1>2, <1>3

\* Replaying stored blocks at startup.
LEMMA StoredStepSound ==
    ASSUME NEW c \in SoundChains, NEW b \in Mined
    PROVE  ApplyStored(c, b) \in SoundChains
<1> DEFINE all == ApplyInMemory(c, b, NoRows)
           r == CHOOSE r \in all : TRUE
<1>1. WellFormed(c) BY DEF SoundChains
<1>2. RowsTyped(NoRows) BY DEF RowsTyped, NoRows
<1>3. all # {} /\ \A q \in all : Outcome(c, q) BY <1>1, <1>2, ApplySound
<1>4. ApplyStored(c, b) = r.chain BY DEF ApplyStored
<1> HIDE DEF all
<1>5. Outcome(c, r) BY <1>3
<1> QED BY <1>4, <1>5 DEF Outcome, SoundChains, WellFormed

LEMMA ReplayStoredSound ==
    ASSUME NEW c \in SoundChains, NEW t \in Seq(Mined)
    PROVE  ReplayStored(c, t) \in SoundChains
<1> DEFINE n == Len(t)
           op == [p \in (1 .. n) \X SoundChains |-> ApplyStored(p[2], t[p[1]])]
           eq(f) == f = [U \in SUBSET (1 .. n) |->
                           IF U = {} THEN c ELSE ApplyStored(f[U \ {Max(U)}], t[Max(U)])]
           k == CHOOSE f : eq(f)
<1>1. n \in Nat /\ DOMAIN t = 1 .. n /\ \A i \in 1 .. n : t[i] \in Mined OBVIOUS
<1>2. ReplayStored(c, t) = k[1 .. n] BY <1>1 DEF ReplayStored, FoldLeft, MapThenFoldSet
<1>3. op \in [(1 .. n) \X SoundChains -> SoundChains]
      /\ \A i \in 1 .. n, m \in SoundChains : op[<<i, m>>] = ApplyStored(m, t[i])
  BY <1>1, StoredStepSound
<1>4. \A U \in (SUBSET (1 .. n)) \ {{}} : Max(U) \in 1 .. n BY <1>1, MaxIsMember
<1>5. eq(k)
  <2> HIDE DEF n, op
  <2>1. PICK g \in [SUBSET (1 .. n) -> SoundChains] : MaxFold(g, n, c, op) BY <1>1, <1>3, LeftFoldExists
  <2>2. \A U \in SUBSET (1 .. n) :
            g[U] = IF U = {} THEN c ELSE ApplyStored(g[U \ {Max(U)}], t[Max(U)])
    BY <1>3, <1>4, <2>1 DEF MaxFold
  <2>3. eq(g) BY <2>2
  <2> HIDE DEF eq
  <2> QED BY <2>3
<1>6. Computes(k, n, SoundChains, c, op)
  <2> HIDE DEF k, op
  <2>1. \A U \in SUBSET (1 .. n) :
            k[U] = IF U = {} THEN c ELSE ApplyStored(k[U \ {Max(U)}], t[Max(U)])
    BY <1>5
  <2> QED BY <1>3, <1>4, <2>1 DEF Computes
<1>7. PICK h : Run(h, n, SoundChains, c, k[1 .. n], op)
  <2> HIDE DEF n, op, k
  <2> QED BY <1>1, <1>3, <1>6, LeftFoldRun
<1> HIDE DEF op, k
<1>8. k[1 .. n] \in SoundChains
  <2> HIDE DEF n
  <2>1. n \in 0 .. n BY <1>1
  <2> QED BY <1>7, <2>1 DEF Run
<1> QED BY <1>2, <1>8

-----------------------------------------------------------------------------
\* The transactions, kind by kind.
LEMMA TransactionCases ==
    ASSUME NEW w \in WriteTransactions
    PROVE  \/ w.op = "applied" /\ w.block \in Mined /\ w.tickets \subseteq Mined /\ w.payouts \subseteq Draws
           \/ w.op = "checkpoint" /\ Consistent(w.state)
           \/ w.op = "delete" /\ w.from \in Nat
           \/ /\ w.op = "reorg" /\ Displaces(w.old) /\ w.new \in Seq(Mined)
              /\ w.tickets \subseteq Mined /\ w.payouts \subseteq Draws
           \/ w.op = "save" /\ w.block \in Mined
           \/ w.op = "rebuild" /\ w.tickets \subseteq Mined /\ w.payouts \subseteq Draws
<1>1. CASE w \in [op : {"applied"}, block : Mined, tickets : SUBSET Mined, payouts : SUBSET Draws] BY <1>1
<1>2. CASE w \in [op : {"checkpoint"}, state : {cp \in CheckpointStates : Consistent(cp)}] BY <1>2
<1>3. CASE w \in [op : {"delete"}, from : Nat] BY <1>3
<1>4. CASE w \in [op : {"reorg"}, old : {s \in Seq(Blocks) : Displaces(s)}, new : Seq(Mined),
                  tickets : SUBSET Mined, payouts : SUBSET Draws]
  BY <1>4
<1>5. CASE w \in [op : {"save"}, block : Mined] BY <1>5
<1>6. CASE w \in [op : {"rebuild"}, tickets : SUBSET Mined, payouts : SUBSET Draws] BY <1>6
<1> QED BY <1>1, <1>2, <1>3, <1>4, <1>5, <1>6 DEF WriteTransactions

\* Rows that are written keep the table in place.
LEMMA RowWritten ==
    ASSUME NEW table, RowsPlaced(table), NEW b \in Mined
    PROVE  /\ RowsPlaced([table EXCEPT ![Index[b]] = b])
           /\ \A i \in Heights : table[i] # NoBlock => [table EXCEPT ![Index[b]] = b][i] # NoBlock
           /\ [table EXCEPT ![Index[b]] = b][Index[b]] # NoBlock
<1>1. b \in Blocks /\ b # NoBlock /\ Index[b] \in Heights /\ Index[b] # 0 /\ 0 \in Heights
  BY IndexFacts, HeightsFacts, NodeAssumption DEF Mined
<1> DEFINE n == Index[b]
           new == [table EXCEPT ![n] = b]
<1>2. table \in [Heights -> Blocks \cup {NoBlock}] /\ table[0] = Genesis
      /\ \A i \in Heights : table[i] # NoBlock => Index[table[i]] = i
  BY DEF RowsPlaced
<1>3. /\ new \in [Heights -> Blocks \cup {NoBlock}] /\ new[n] = b
      /\ \A i \in Heights : i # n => new[i] = table[i]
  BY <1>1, <1>2
<1> HIDE DEF new
<1>4. new[0] = Genesis BY <1>1, <1>2, <1>3
<1>5. \A i \in Heights : new[i] # NoBlock => Index[new[i]] = i BY <1>2, <1>3
<1> QED BY <1>1, <1>2, <1>3, <1>4, <1>5 DEF RowsPlaced, new

-----------------------------------------------------------------------------
\* Each transaction keeps the tables, and what it removes strands nothing.

\* Only the rows change, and none that a checkpoint needs goes.
LEMMA RowsChanged ==
    ASSUME NEW d, Stored(d), NEW e, e \in Tables, RowsPlaced(e.BLOCKS),
           e.CHECKPOINTS = d.CHECKPOINTS,
           \A cp \in d.CHECKPOINTS : e.BLOCKS[cp.height] # NoBlock
    PROVE  Stored(e)
  BY DEF Stored

LEMMA CommitApplied ==
    ASSUME NEW d, Stored(d), NEW w, w.block \in Mined, w.tickets \subseteq Mined, w.payouts \subseteq Draws
    PROVE  /\ Stored(SaveAppliedBlock(d, w))
           /\ SaveAppliedBlock(d, w).BLOCKS[Index[w.block]] # NoBlock
<1> DEFINE n == Index[w.block]
           table == [d.BLOCKS EXCEPT ![n] = w.block]
           over == Overwrite(d.LOTTERY_PAYOUTS, w.payouts)
           e == [d EXCEPT !.BLOCKS = table, !.TX_INDEX = d.TX_INDEX \cup {w.block},
                          !.TICKETS = w.tickets, !.LOTTERY_PAYOUTS = over]
<1>1. SaveAppliedBlock(d, w) = e BY DEF SaveAppliedBlock, Stored, Tables
<1>2. /\ d \in Tables /\ RowsPlaced(d.BLOCKS)
      /\ \A cp \in d.CHECKPOINTS : cp.height \in Heights /\ d.BLOCKS[cp.height] # NoBlock
  BY DEF Stored, Consistent, CheckpointStates
<1>3. /\ RowsPlaced(table) /\ table[n] # NoBlock
      /\ \A i \in Heights : d.BLOCKS[i] # NoBlock => table[i] # NoBlock
  BY <1>2, RowWritten
<1> HIDE DEF table
<1>4. over \subseteq Draws BY <1>2 DEF Overwrite, Tables
<1> HIDE DEF over
<1>5. d.TX_INDEX \cup {w.block} \subseteq Blocks BY <1>2 DEF Tables, Mined
<1>6. e \in Tables /\ e.BLOCKS = table /\ e.CHECKPOINTS = d.CHECKPOINTS
  BY <1>2, <1>3, <1>4, <1>5 DEF Tables, RowsPlaced
<1> HIDE DEF e
<1>7. Stored(e) BY <1>2, <1>3, <1>6, RowsChanged
<1> QED BY <1>1, <1>3, <1>6, <1>7

LEMMA CommitSave ==
    ASSUME NEW d, Stored(d), NEW w, w.block \in Mined
    PROVE  Stored(SaveBlockIndexed(d, w))
<1> DEFINE n == Index[w.block]
           table == [d.BLOCKS EXCEPT ![n] = w.block]
           e == [d EXCEPT !.BLOCKS = table]
<1>1. SaveBlockIndexed(d, w) = e BY DEF SaveBlockIndexed, Stored, Tables
<1>2. /\ d \in Tables /\ RowsPlaced(d.BLOCKS)
      /\ \A cp \in d.CHECKPOINTS : cp.height \in Heights /\ d.BLOCKS[cp.height] # NoBlock
  BY DEF Stored, Consistent, CheckpointStates
<1>3. /\ RowsPlaced(table)
      /\ \A i \in Heights : d.BLOCKS[i] # NoBlock => table[i] # NoBlock
  BY <1>2, RowWritten
<1> HIDE DEF table
<1>4. e \in Tables /\ e.BLOCKS = table /\ e.CHECKPOINTS = d.CHECKPOINTS BY <1>2, <1>3 DEF Tables, RowsPlaced
<1> HIDE DEF e
<1>5. Stored(e) BY <1>2, <1>3, <1>4, RowsChanged
<1> QED BY <1>1, <1>5

LEMMA CommitRebuild ==
    ASSUME NEW d, Stored(d), NEW w, w.tickets \subseteq Mined, w.payouts \subseteq Draws
    PROVE  Stored(RebuildIndicesWithTickets(d, w))
<1> DEFINE index == {d.BLOCKS[i] : i \in Heights} \ {NoBlock}
           e == [d EXCEPT !.TX_INDEX = index, !.TICKETS = w.tickets, !.LOTTERY_PAYOUTS = w.payouts]
<1>1. RebuildIndicesWithTickets(d, w) = e BY DEF RebuildIndicesWithTickets
<1>2. /\ d \in Tables /\ RowsPlaced(d.BLOCKS)
      /\ \A cp \in d.CHECKPOINTS : d.BLOCKS[cp.height] # NoBlock
  BY DEF Stored
<1>3. index \subseteq Blocks BY <1>2 DEF RowsPlaced
<1> HIDE DEF index
<1>4. e \in Tables /\ e.BLOCKS = d.BLOCKS /\ e.CHECKPOINTS = d.CHECKPOINTS BY <1>2, <1>3 DEF Tables
<1> HIDE DEF e
<1>5. Stored(e) BY <1>2, <1>4, RowsChanged
<1> QED BY <1>1, <1>5

LEMMA CommitCheckpoint ==
    ASSUME NEW d, Stored(d), NEW w, Consistent(w.state), d.BLOCKS[w.state.height] # NoBlock
    PROVE  Stored(SaveCheckpoint(d, w))
<1> DEFINE cps == {c \in d.CHECKPOINTS : c.height # w.state.height} \cup {w.state}
           e == [d EXCEPT !.CHECKPOINTS = cps]
<1>1. SaveCheckpoint(d, w) = e BY DEF SaveCheckpoint, Stored, Tables
<1>2. /\ d \in Tables /\ RowsPlaced(d.BLOCKS)
      /\ \A cp \in d.CHECKPOINTS : Consistent(cp) /\ d.BLOCKS[cp.height] # NoBlock
  BY DEF Stored
<1>3. \A cp \in cps : cp \in CheckpointStates /\ Consistent(cp) /\ d.BLOCKS[cp.height] # NoBlock
  BY <1>2 DEF Consistent
<1> HIDE DEF cps
<1>4. e \in Tables /\ e.BLOCKS = d.BLOCKS /\ e.CHECKPOINTS = cps BY <1>2, <1>3 DEF Tables
<1> QED BY <1>1, <1>2, <1>3, <1>4 DEF Stored

LEMMA CommitDelete ==
    ASSUME NEW d, Stored(d), NEW w
    PROVE  /\ Stored(DeleteCheckpointsFrom(d, w))
           /\ \A cp \in DeleteCheckpointsFrom(d, w).CHECKPOINTS : cp.height < w.from
<1> DEFINE cps == {c \in d.CHECKPOINTS : c.height < w.from}
           e == [d EXCEPT !.CHECKPOINTS = cps]
<1>1. DeleteCheckpointsFrom(d, w) = e BY DEF DeleteCheckpointsFrom, Stored, Tables
<1>2. /\ d \in Tables /\ RowsPlaced(d.BLOCKS)
      /\ \A cp \in d.CHECKPOINTS : Consistent(cp) /\ d.BLOCKS[cp.height] # NoBlock
  BY DEF Stored
<1>3. cps \subseteq d.CHECKPOINTS /\ \A cp \in cps : cp.height < w.from OBVIOUS
<1> HIDE DEF cps
<1>4. e \in Tables /\ e.BLOCKS = d.BLOCKS /\ e.CHECKPOINTS = cps BY <1>2, <1>3 DEF Tables
<1> HIDE DEF e
<1> QED BY <1>1, <1>2, <1>3, <1>4 DEF Stored

LEMMA ReorgRowsFacts ==
    ASSUME NEW table, RowsPlaced(table), NEW old, Displaces(old), NEW new \in Seq(Mined)
    PROVE  /\ RowsPlaced(ReorgRows(table, old, new))
           /\ \A i \in Heights : /\ \A j \in 1 .. Len(old) : i < Index[old[j]]
                                 /\ table[i] # NoBlock
                                 => ReorgRows(table, old, new)[i] # NoBlock
<1> DEFINE at == [i \in Heights |-> {b \in Elements(new) : Index[b] = i}]
           Put(i) == at[i]
           gone == {Index[b] : b \in Elements(old)}
           rows == ReorgRows(table, old, new)
<1>1. \A i \in Heights : rows[i] = IF Put(i) # {} THEN CHOOSE b \in Put(i) : TRUE
                                   ELSE IF i \in gone THEN NoBlock ELSE table[i]
  BY DEF ReorgRows
<1>2. \A i \in Heights : Put(i) # {} => (CHOOSE b \in Put(i) : TRUE) \in Put(i) OBVIOUS
<1>3. Elements(new) \subseteq Mined
  <2>1. DOMAIN new = 1 .. Len(new) /\ \A i \in 1 .. Len(new) : new[i] \in Mined OBVIOUS
  <2> QED BY <2>1 DEF Elements
<1>4. \A n \in gone : \E j \in 1 .. Len(old) : n = Index[old[j]]
  <2>1. old \in Seq(Blocks) BY DEF Displaces
  <2>2. DOMAIN old = 1 .. Len(old) BY <2>1
  <2> QED BY <2>2 DEF Elements
<1>5. 0 \notin gone
  <2>1. \A j \in 1 .. Len(old) : Index[old[j]] >= 1 BY DEF Displaces
  <2> HIDE DEF gone
  <2>2. SUFFICES ASSUME 0 \in gone PROVE FALSE OBVIOUS
  <2>3. PICK j \in 1 .. Len(old) : 0 = Index[old[j]] BY <1>4, <2>2
  <2>4. Index[old[j]] >= 1 BY <2>1
  <2> QED BY <2>3, <2>4
<1>6. Put(0) = {}
  <2>1. \A b \in Mined : Index[b] # 0 BY IndexFacts
  <2>2. Put(0) = {b \in Elements(new) : Index[b] = 0} BY HeightsFacts
  <2> QED BY <1>3, <2>1, <2>2
<1>7. \A i \in Heights : \A b \in Put(i) : b \in Blocks /\ Index[b] = i /\ b # NoBlock
  BY <1>3, NodeAssumption DEF Mined
<1> HIDE DEF Put
<1>8. /\ table \in [Heights -> Blocks \cup {NoBlock}] /\ table[0] = Genesis /\ 0 \in Heights
      /\ \A i \in Heights : table[i] # NoBlock => Index[table[i]] = i
  BY HeightsFacts DEF RowsPlaced
<1>9. rows \in [Heights -> Blocks \cup {NoBlock}]
  <2>1. \A i \in Heights : rows[i] \in Blocks \cup {NoBlock} BY <1>1, <1>2, <1>7, <1>8
  <2>2. rows = [i \in Heights |-> rows[i]] BY DEF ReorgRows
  <2> HIDE DEF rows
  <2> QED BY <2>1, <2>2
<1> HIDE DEF rows, gone
<1>10. rows[0] = Genesis BY <1>1, <1>5, <1>6, <1>8
<1>11. \A i \in Heights : rows[i] # NoBlock => Index[rows[i]] = i BY <1>1, <1>2, <1>7, <1>8
<1>12. RowsPlaced(rows) BY <1>9, <1>10, <1>11 DEF RowsPlaced
<1>13. ASSUME NEW i \in Heights, \A j \in 1 .. Len(old) : i < Index[old[j]], table[i] # NoBlock
       PROVE  rows[i] # NoBlock
  <2>1. i \in Nat BY HeightsFacts
  <2>2. i \notin gone
    <3>1. SUFFICES ASSUME i \in gone PROVE FALSE OBVIOUS
    <3>2. PICK j \in 1 .. Len(old) : i = Index[old[j]] BY <1>4, <3>1
    <3>3. i < i BY <1>13, <3>2
    <3> QED BY <2>1, <3>3
  <2> HIDE DEF at
  <2>3. CASE Put(i) = {} BY <1>1, <1>13, <2>2, <2>3
  <2>4. CASE Put(i) # {}
    <3>1. rows[i] \in Put(i) BY <1>1, <1>2, <2>4
    <3> QED BY <1>7, <3>1
  <2> QED BY <2>3, <2>4
<1> QED BY <1>12, <1>13 DEF rows

LEMMA CommitReorg ==
    ASSUME NEW d, Stored(d), NEW w, Displaces(w.old), w.new \in Seq(Mined),
           w.tickets \subseteq Mined, w.payouts \subseteq Draws,
           \A cp \in d.CHECKPOINTS : \A i \in 1 .. Len(w.old) : cp.height < Index[w.old[i]]
    PROVE  Stored(ApplyReorgIncremental(d, w))
<1> DEFINE rows == ReorgRows(d.BLOCKS, w.old, w.new)
           index == (d.TX_INDEX \ Elements(w.old)) \cup Elements(w.new)
           gone == {Index[b] : b \in Elements(w.old)}
           over == Overwrite({p \in d.LOTTERY_PAYOUTS : p.at \notin gone}, w.payouts)
           e == [d EXCEPT !.BLOCKS = rows, !.TX_INDEX = index, !.TICKETS = w.tickets,
                          !.LOTTERY_PAYOUTS = over]
<1>1. ApplyReorgIncremental(d, w) = e BY DEF ApplyReorgIncremental, ReorgRows
<1>2. /\ d \in Tables /\ RowsPlaced(d.BLOCKS)
      /\ \A cp \in d.CHECKPOINTS : cp.height \in Heights /\ d.BLOCKS[cp.height] # NoBlock
  BY DEF Stored, Consistent, CheckpointStates
<1>3. RowsPlaced(rows) /\ \A cp \in d.CHECKPOINTS : rows[cp.height] # NoBlock BY <1>2, ReorgRowsFacts
<1> HIDE DEF rows
<1>4. over \subseteq Draws BY <1>2 DEF Overwrite, Tables
<1>5. index \subseteq Blocks
  <2>1. DOMAIN w.new = 1 .. Len(w.new) /\ \A i \in 1 .. Len(w.new) : w.new[i] \in Mined OBVIOUS
  <2>2. Elements(w.new) \subseteq Mined BY <2>1 DEF Elements
  <2> QED BY <1>2, <2>2 DEF Tables, Mined
<1> HIDE DEF over, index
<1>6. e \in Tables /\ e.BLOCKS = rows /\ e.CHECKPOINTS = d.CHECKPOINTS
  BY <1>2, <1>3, <1>4, <1>5 DEF Tables, RowsPlaced
<1> HIDE DEF e
<1>7. Stored(e) BY <1>2, <1>3, <1>6, RowsChanged
<1> QED BY <1>1, <1>7

\* A safe transaction keeps the tables, and makes the one that follows it safe.
LEMMA CommitSound ==
    ASSUME NEW d, Stored(d), NEW w \in WriteTransactions, Safe(d, w)
    PROVE  /\ Stored(Commit(d, w))
           /\ \A v \in WriteTransactions : Follows(w, v) => Safe(Commit(d, w), v)
<1> DEFINE e == Commit(d, w)
<1>1. CASE w.op = "applied" /\ w.block \in Mined /\ w.tickets \subseteq Mined /\ w.payouts \subseteq Draws
  <2>1. e = SaveAppliedBlock(d, w) BY <1>1 DEF Commit
  <2>2. Stored(e) /\ e.BLOCKS[Index[w.block]] # NoBlock BY <1>1, <2>1, CommitApplied
  <2> HIDE DEF e
  <2> QED BY <1>1, <2>2 DEF Follows, Safe, e
<1>2. CASE w.op = "checkpoint" /\ Consistent(w.state)
  <2>1. e = SaveCheckpoint(d, w) BY <1>2 DEF Commit
  <2>2. Stored(e) BY <1>2, <2>1, CommitCheckpoint DEF Safe
  <2> HIDE DEF e
  <2> QED BY <1>2, <2>2 DEF Follows, Safe, e
<1>3. CASE w.op = "delete" /\ w.from \in Nat
  <2>1. e = DeleteCheckpointsFrom(d, w) BY <1>3 DEF Commit
  <2>2. Stored(e) /\ \A cp \in e.CHECKPOINTS : cp.height < w.from BY <2>1, CommitDelete
  <2> HIDE DEF e
  <2>3. ASSUME NEW v \in WriteTransactions, Follows(w, v) PROVE Safe(e, v)
    <3>1. v.op # "checkpoint" BY <1>3, <2>3 DEF Follows
    <3>2. ASSUME v.op = "reorg", NEW cp \in e.CHECKPOINTS, NEW i \in 1 .. Len(v.old)
          PROVE  cp.height < Index[v.old[i]]
      <4>1. w.from <= Index[v.old[i]] BY <2>3, <3>2 DEF Follows
      <4>2. v.old[i] \in Blocks
        <5>1. Displaces(v.old) BY <3>2, TransactionCases
        <5>2. v.old \in Seq(Blocks) BY <5>1 DEF Displaces
        <5> QED BY <5>2
      <4>3. Index[v.old[i]] \in Nat BY <4>2, IndexFacts
      <4>4. cp.height \in Nat /\ cp.height < w.from
        BY <2>2, HeightsFacts DEF Stored, Consistent, CheckpointStates
      <4> QED BY <1>3, <4>1, <4>3, <4>4
    <3> QED BY <3>1, <3>2 DEF Safe
  <2> QED BY <2>2, <2>3 DEF e
<1>4. CASE /\ w.op = "reorg" /\ Displaces(w.old) /\ w.new \in Seq(Mined)
           /\ w.tickets \subseteq Mined /\ w.payouts \subseteq Draws
  <2>1. e = ApplyReorgIncremental(d, w) BY <1>4 DEF Commit
  <2>2. \A cp \in d.CHECKPOINTS : \A i \in 1 .. Len(w.old) : cp.height < Index[w.old[i]] BY <1>4 DEF Safe
  <2>3. Stored(e) BY <1>4, <2>1, <2>2, CommitReorg
  <2> HIDE DEF e
  <2> QED BY <1>4, <2>3 DEF Follows, Safe, e
<1>5. CASE w.op = "save" /\ w.block \in Mined
  <2>1. e = SaveBlockIndexed(d, w) BY <1>5 DEF Commit
  <2>2. Stored(e) BY <1>5, <2>1, CommitSave
  <2> HIDE DEF e
  <2> QED BY <1>5, <2>2 DEF Follows, Safe, e
<1>6. CASE w.op = "rebuild" /\ w.tickets \subseteq Mined /\ w.payouts \subseteq Draws
  <2>1. e = RebuildIndicesWithTickets(d, w) BY <1>6 DEF Commit
  <2>2. Stored(e) BY <1>6, <2>1, CommitRebuild
  <2> HIDE DEF e
  <2> QED BY <1>6, <2>2 DEF Follows, Safe, e
<1> QED BY <1>1, <1>2, <1>3, <1>4, <1>5, <1>6, TransactionCases

LEMMA NothingScheduled ==
    ASSUME NEW d
    PROVE  Scheduled(d, <<>>)
<1> DEFINE q == <<>>
<1>1. q \in Seq(WriteTransactions) /\ Len(q) = 0 /\ q = <<>> OBVIOUS
<1> HIDE DEF q
<1>2. Scheduled(d, q) BY <1>1 DEF Scheduled
<1> QED BY <1>2 DEF q

\* The outstanding writes stay safe as they are made.
LEMMA QueueAdvances ==
    ASSUME NEW d, Stored(d), NEW q, Scheduled(d, q), q # <<>>
    PROVE  Stored(Commit(d, Head(q))) /\ Scheduled(Commit(d, Head(q)), Tail(q))
<1> DEFINE w == q[1]
           e == Commit(d, w)
           t == Tail(q)
<1>1. /\ q \in Seq(WriteTransactions) /\ Len(q) \in Nat /\ Len(q) >= 1 /\ w \in WriteTransactions /\ Head(q) = w
      /\ Safe(d, w) /\ \A i \in 1 .. Len(q) - 1 : Follows(q[i], q[i + 1])
  BY DEF Scheduled
<1>2. Stored(e) /\ \A v \in WriteTransactions : Follows(w, v) => Safe(e, v) BY <1>1, CommitSound
<1>3. t \in Seq(WriteTransactions) /\ Len(t) = Len(q) - 1 /\ \A i \in 1 .. Len(t) : t[i] = q[i + 1] BY <1>1
<1> HIDE DEF e, t
<1>4. ASSUME t # <<>> PROVE Safe(e, t[1])
  <2>1. 1 \in 1 .. Len(t) /\ 1 \in 1 .. Len(q) - 1 BY <1>1, <1>3, <1>4
  <2>2. t[1] \in WriteTransactions /\ t[1] = q[1 + 1] /\ Follows(q[1], q[1 + 1]) BY <1>1, <1>3, <2>1
  <2> QED BY <1>2, <2>2
<1>5. ASSUME NEW i \in 1 .. Len(t) - 1 PROVE Follows(t[i], t[i + 1])
  <2> DEFINE j == i + 1
  <2>1. i \in 1 .. Len(t) /\ j \in 1 .. Len(t) /\ j \in 1 .. Len(q) - 1 /\ i + 1 = j BY <1>1, <1>3
  <2> HIDE DEF j
  <2>2. t[i] = q[i + 1] /\ t[j] = q[j + 1] /\ Follows(q[j], q[j + 1]) BY <1>1, <1>3, <2>1
  <2> QED BY <2>1, <2>2
<1>6. Scheduled(e, t) BY <1>3, <1>4, <1>5 DEF Scheduled
<1> QED BY <1>1, <1>2, <1>6 DEF e, t

LEMMA UnconditionalScheduled ==
    ASSUME NEW d, NEW q \in Seq(Unconditional)
    PROVE  Scheduled(d, q)
<1>1. q \in Seq(WriteTransactions) /\ Len(q) \in Nat BY DEF Unconditional
<1>2. \A i \in 1 .. Len(q) : q[i].op # "checkpoint" /\ q[i].op # "reorg" BY DEF Unconditional
<1>3. ASSUME q # <<>> PROVE Safe(d, q[1])
  <2>1. 1 \in 1 .. Len(q) BY <1>1, <1>3
  <2> QED BY <1>2, <2>1 DEF Safe
<1>4. ASSUME NEW i \in 1 .. Len(q) - 1 PROVE Follows(q[i], q[i + 1])
  <2>1. i + 1 \in 1 .. Len(q) BY <1>1
  <2> QED BY <1>2, <2>1 DEF Follows
<1> QED BY <1>1, <1>3, <1>4 DEF Scheduled

\* Two transactions, the second made safe by the first.
LEMMA PairScheduled ==
    ASSUME NEW d, NEW v \in Unconditional, NEW w \in WriteTransactions, Follows(v, w)
    PROVE  Scheduled(d, <<v, w>>)
<1> DEFINE q == <<v, w>>
<1>1. v \in WriteTransactions /\ Safe(d, v) BY DEF Unconditional, Safe
<1>2. q \in Seq(WriteTransactions) /\ Len(q) = 2 /\ q[1] = v /\ q[2] = w BY <1>1
<1> HIDE DEF q
<1>3. \A i \in 1 .. Len(q) - 1 : i = 1 /\ i + 1 = 2 BY <1>2
<1>4. \A i \in 1 .. Len(q) - 1 : Follows(q[i], q[i + 1]) BY <1>2, <1>3
<1>5. Scheduled(d, q) BY <1>1, <1>2, <1>4 DEF Scheduled
<1> QED BY <1>5 DEF q

\* What apply_block queues for an outcome.
LEMMA SnapshotConsistent ==
    ASSUME NEW c, WellFormed(c)
    PROVE  Consistent(Snapshot(c)) /\ Snapshot(c).height = Index[Tip(c)]
<1>1. PICK b \in Blocks : OnPath(c, b) BY DEF WellFormed
<1>2. Tip(c) = b /\ Height(c) = Index[b] + 1 /\ Index[b] \in Nat /\ Index[b] \in Heights
  BY <1>1, OnPathAligned, HeightsFacts DEF Aligned
<1> DEFINE s == Snapshot(c)
<1>3. s = [height |-> Height(c) - 1, block_hash |-> Tip(c), tickets |-> c.pending_tickets, ledger |-> c.ledger]
  BY DEF Snapshot
<1>4. Height(c) - 1 = Index[b] BY <1>2
<1>5. s.height = Index[b] /\ s.block_hash = b /\ s.ledger = c.ledger BY <1>2, <1>3, <1>4
<1>6. c.ledger \in Ledgers /\ c.pending_tickets \in SUBSET Mined BY DEF WellFormed, Chains
<1>7. s \in CheckpointStates BY <1>2, <1>3, <1>4, <1>6 DEF CheckpointStates
<1> HIDE DEF s
<1>8. Consistent(s) BY <1>1, <1>5, <1>7 DEF Consistent, OnPath
<1> QED BY <1>2, <1>5, <1>8 DEF s

LEMMA WritesAppliedScheduled ==
    ASSUME NEW d, NEW c, WellFormed(c), Tip(c) \in Mined
    PROVE  Scheduled(d, WritesApplied(c))
<1> DEFINE payouts == PayoutsAt(c.settled, Index[Tip(c)])
           v == [op |-> "applied", block |-> Tip(c), tickets |-> c.pending_tickets, payouts |-> payouts]
           w == [op |-> "checkpoint", state |-> Snapshot(c)]
<1>1. c.pending_tickets \in SUBSET Mined /\ c.settled \subseteq Draws BY DEF WellFormed, Chains
<1>2. payouts \in SUBSET Draws BY <1>1 DEF PayoutsAt
<1>3. WritesApplied(c) = <<v, w>> \/ WritesApplied(c) = <<v>> BY DEF WritesApplied
<1> HIDE DEF payouts
<1>4. v \in Unconditional BY <1>1, <1>2 DEF Unconditional, WriteTransactions
<1>5. w \in WriteTransactions
  <2>1. Snapshot(c) \in CheckpointStates /\ Consistent(Snapshot(c)) BY SnapshotConsistent DEF Consistent
  <2> DEFINE s == Snapshot(c)
  <2> HIDE DEF s
  <2>2. [op |-> "checkpoint", state |-> s] \in [op : {"checkpoint"}, state : {cp \in CheckpointStates : Consistent(cp)}]
    BY <2>1 DEF s
  <2> QED BY <2>2 DEF WriteTransactions, s
<1>6. Follows(v, w) BY SnapshotConsistent DEF Follows
<1> HIDE DEF v, w
<1>7. Scheduled(d, <<v, w>>) BY <1>4, <1>5, <1>6, PairScheduled
<1>8. Scheduled(d, <<v>>)
  <2>1. <<v>> \in Seq(Unconditional) BY <1>4
  <2> DEFINE q == <<v>>
  <2> HIDE DEF q
  <2>2. Scheduled(d, q) BY <2>1, UnconditionalScheduled DEF q
  <2> QED BY <2>2 DEF q
<1> QED BY <1>3, <1>7, <1>8

LEMMA WritesShallowScheduled ==
    ASSUME NEW d, NEW c, WellFormed(c), NEW old, Displaces(old), old # <<>>, NEW new \in Seq(Mined)
    PROVE  Scheduled(d, WritesShallow(c, old, new))
<1> DEFINE payouts == {r \in c.settled : \E b \in Elements(new) : r.at = Index[b]}
           v == [op |-> "delete", from |-> Index[old[1]]]
           w == [op |-> "reorg", old |-> old, new |-> new, tickets |-> c.pending_tickets,
                 payouts |-> payouts]
<1>1. c.pending_tickets \in SUBSET Mined /\ payouts \in SUBSET Draws BY DEF WellFormed, Chains
<1>2. WritesShallow(c, old, new) = <<v, w>> BY DEF WritesShallow
<1> HIDE DEF payouts
<1>3. old \in Seq(Blocks) /\ \A i \in 1 .. Len(old) : Index[old[i]] >= Index[old[1]] BY DEF Displaces
<1>4. old[1] \in Blocks BY <1>3
<1>5. Index[old[1]] \in Nat BY <1>4, IndexFacts
<1>6. v \in Unconditional BY <1>5 DEF Unconditional, WriteTransactions
<1>7. w \in WriteTransactions
  <2>1. old \in {s \in Seq(Blocks) : Displaces(s)} BY <1>3
  <2> DEFINE Olds == {s \in Seq(Blocks) : Displaces(s)}
  <2> HIDE DEF Olds
  <2>2. w \in [op : {"reorg"}, old : Olds, new : Seq(Mined), tickets : SUBSET Mined, payouts : SUBSET Draws]
    BY <1>1, <2>1 DEF Olds
  <2> HIDE DEF w
  <2> QED BY <2>2 DEF WriteTransactions, Olds
<1>8. Follows(v, w)
  <2>1. \A i \in 1 .. Len(old) : Index[old[1]] <= Index[old[i]]
    <3>1. \A i \in 1 .. Len(old) : Index[old[i]] \in Nat BY <1>3, IndexFacts
    <3> QED BY <1>3, <1>5, <3>1
  <2> QED BY <2>1 DEF Follows
<1> HIDE DEF v, w
<1> QED BY <1>2, <1>6, <1>7, <1>8, PairScheduled

LEMMA WritesDeepScheduled ==
    ASSUME NEW d, NEW c, WellFormed(c), NEW new \in Seq(Mined)
    PROVE  Scheduled(d, WritesDeep(c, new))
<1> DEFINE u == [op |-> "delete", from |-> 0]
           w == [op |-> "rebuild", tickets |-> c.pending_tickets, payouts |-> c.settled]
           saves == [i \in DOMAIN new |-> [op |-> "save", block |-> new[i]]]
<1>1. u \in Unconditional BY DEF Unconditional, WriteTransactions
<1>2. w \in Unconditional
  <2>1. c.pending_tickets \in SUBSET Mined /\ c.settled \in SUBSET Draws BY DEF WellFormed, Chains
  <2> QED BY <2>1 DEF Unconditional, WriteTransactions
<1>3. saves \in Seq(Unconditional)
  <2>1. DOMAIN new = 1 .. Len(new) /\ Len(new) \in Nat /\ \A i \in 1 .. Len(new) : new[i] \in Mined OBVIOUS
  <2>2. \A i \in 1 .. Len(new) : [op |-> "save", block |-> new[i]] \in Unconditional
    BY <2>1 DEF Unconditional, WriteTransactions
  <2> DEFINE n == Len(new)
  <2>3. saves \in [1 .. n -> Unconditional] BY <2>1, <2>2
  <2> HIDE DEF saves, n
  <2>4. \A m \in Nat : [1 .. m -> Unconditional] \subseteq Seq(Unconditional) OBVIOUS
  <2>5. n \in Nat BY <2>1 DEF n
  <2> QED BY <2>3, <2>4, <2>5
<1>4. WritesDeep(c, new) = <<u>> \o saves \o <<w>> BY DEF WritesDeep
<1> HIDE DEF u, w, saves
<1>5. <<u>> \o saves \o <<w>> \in Seq(Unconditional) BY <1>1, <1>2, <1>3
<1> QED BY <1>4, <1>5, UnconditionalScheduled

LEMMA WritesScheduled ==
    ASSUME NEW d, NEW c, NEW r, Outcome(c, r)
    PROVE  Scheduled(d, Writes(r))
<1>1. WellFormed(r.chain) /\ r.new \in Seq(Mined) /\ Displaces(r.old) BY DEF Outcome
<1>2. CASE r.kind = "Applied" /\ Tip(r.chain) \in Mined
  <2>1. Writes(r) = WritesApplied(r.chain) BY <1>2 DEF Writes
  <2> QED BY <1>1, <1>2, <2>1, WritesAppliedScheduled
<1>3. CASE r.kind \in {"Rejected", "Orphaned"}
  <2>1. Writes(r) = <<>> BY <1>3 DEF Writes
  <2> QED BY <2>1, NothingScheduled
<1>4. CASE r.kind = "Reorged" /\ r.old # <<>>
  <2>1. Writes(r) = WritesShallow(r.chain, r.old, r.new) BY <1>4 DEF Writes
  <2> QED BY <1>1, <1>4, <2>1, WritesShallowScheduled
<1>5. CASE r.kind = "Reorged" /\ r.old = <<>>
  <2>1. Writes(r) = WritesDeep(r.chain, r.new) BY <1>5 DEF Writes
  <2> QED BY <1>1, <2>1, WritesDeepScheduled
<1> QED BY <1>2, <1>3, <1>4, <1>5 DEF Outcome

-----------------------------------------------------------------------------
\* Startup.
LEMMA LatestStored ==
    ASSUME NEW d, Stored(d), d.CHECKPOINTS # {}
    PROVE  /\ LatestCheckpoint(d) \in d.CHECKPOINTS
           /\ \A c \in d.CHECKPOINTS : c.height <= LatestCheckpoint(d).height
<1> DEFINE H == {c.height : c \in d.CHECKPOINTS}
           below == [h \in H |-> 0 - h]
<1>1. H # {} /\ H \subseteq 0 .. MaxIndex /\ MaxIndex \in Nat
  <2>1. \A c \in d.CHECKPOINTS : c.height \in Heights BY DEF Stored, Consistent, CheckpointStates
  <2> QED BY <2>1, HeightsFacts
<1>2. IsFiniteSet(H)
  <2>1. IsFiniteSet(0 .. MaxIndex) BY <1>1, FS_Interval
  <2> QED BY <1>1, <2>1, FS_Subset
<1> HIDE DEF H
<1>3. \A h \in H : h \in Nat /\ below[h] = 0 - h /\ below[h] \in Int
  <2>1. ASSUME NEW h \in H PROVE h \in Nat /\ 0 - h \in Int BY <1>1
  <2>2. \A h \in H : below[h] = 0 - h OBVIOUS
  <2> QED BY <2>1, <2>2
<1> HIDE DEF below
<1>4. PICK h \in H : \A k \in H : below[h] <= below[k] BY <1>1, <1>2, <1>3, LeastExists
<1>5. \A k \in H : k <= h BY <1>3, <1>4
<1>6. \E c \in d.CHECKPOINTS : \A e \in d.CHECKPOINTS : e.height <= c.height BY <1>4, <1>5 DEF H
<1> QED BY <1>6 DEF LatestCheckpoint

LEMMA RestoreSound ==
    ASSUME NEW cp, Consistent(cp)
    PROVE  RestoreFromCheckpoint(cp) \in SoundChains
<1> DEFINE c == RestoreFromCheckpoint(cp)
           b == cp.block_hash
           p == PathTo[b]
           s == <<b>>
<1>1. /\ b \in Blocks /\ cp.height = Index[b] /\ cp.ledger \in Ledgers /\ cp.ledger.applied = p
      /\ cp.tickets \in SUBSET Mined /\ Index[b] \in Nat
  BY IndexFacts DEF Consistent, CheckpointStates
<1>2. s \in Seq(Blocks) /\ Len(s) = 1 /\ s[1] = b BY <1>1
<1>3. p \in Seq(Blocks) /\ Len(p) = Index[b] + 1 /\ p[Len(p)] = b BY <1>1, PathFacts DEF Leads
<1> HIDE DEF s, b, p
<1>4. /\ c.blocks = s /\ c.blocks_offset = cp.height /\ c.block_hashes = {} /\ c.orphan_pool = {}
      /\ c.pending_tickets = cp.tickets /\ c.settled = {} /\ c.ledger = cp.ledger
  BY DEF RestoreFromCheckpoint, s, b
<1>5. c \in Chains BY <1>1, <1>2 DEF RestoreFromCheckpoint, Chains, s, b
<1> HIDE DEF c
<1>6. EndOfPath(c.blocks, b, c.blocks_offset)
  <2>1. Len(s) = Index[b] - Index[b] + 1 /\ Index[b] \in 0 .. Index[b] BY <1>1, <1>2
  <2>2. ASSUME NEW i \in 1 .. Len(s) PROVE s[i] = PathTo[b][Index[b] + i]
    <3>1. i = 1 BY <1>2
    <3> QED BY <1>2, <1>3, <3>1 DEF p
  <2>3. EndOfPath(s, b, Index[b]) BY <1>2, <2>1, <2>2 DEF EndOfPath
  <2> QED BY <1>1, <1>4, <2>3
<1>7. OnPath(c, b) BY <1>1, <1>4, <1>6, OnPathIff DEF p
<1>8. PoolBounded(c.orphan_pool) BY GenesisWellFormed, <1>4 DEF WellFormed, GenesisChain
<1>9. WellFormed(c) BY <1>1, <1>4, <1>5, <1>7, <1>8 DEF WellFormed
<1> QED BY <1>5, <1>9 DEF SoundChains, c

LEMMA LoadedSound ==
    ASSUME NEW d, Stored(d)
    PROVE  Loaded(d) \in SoundChains
<1>1. RowsPlaced(d.BLOCKS) /\ MaxIndex \in Nat /\ MaxIndex \in Heights BY HeightsFacts DEF Stored
<1>2. CASE UsesCheckpoint(d)
  <2> DEFINE cp == LatestCheckpoint(d)
             rows == Rows(d.BLOCKS, cp.height + 1, MaxIndex)
  <2>1. Consistent(cp) BY <1>2, LatestStored DEF UsesCheckpoint, Stored
  <2>2. cp.height + 1 \in Nat /\ cp.height + 1 >= 1 BY <2>1, HeightsFacts DEF Consistent, CheckpointStates
  <2>3. Loaded(d) = ReplayStored(RestoreFromCheckpoint(cp), rows) BY <1>2 DEF Loaded
  <2> HIDE DEF cp
  <2>4. rows \in Seq(Mined) BY <1>1, <2>2, RowsAboveGenesis
  <2> QED BY <2>1, <2>3, <2>4, RestoreSound, ReplayStoredSound
<1>3. CASE ~UsesCheckpoint(d)
  <2> DEFINE t == Tail(Rows(d.BLOCKS, 0, MaxIndex))
  <2>1. t \in Seq(Mined) BY <1>1, RowsFromGenesis, TailMined
  <2>2. Loaded(d) = ReplayStored(GenesisChain, t) BY <1>3 DEF Loaded
  <2>3. GenesisChain \in SoundChains BY GenesisWellFormed DEF SoundChains, WellFormed
  <2> HIDE DEF t
  <2> QED BY <2>1, <2>2, <2>3, ReplayStoredSound
<1> QED BY <1>2, <1>3

\* Tickets and settled draws do not decide whether a chain is well formed.
LEMMA TicketsChanged ==
    ASSUME NEW c, WellFormed(c), NEW settled \in SUBSET Draws, NEW tickets \in SUBSET Mined
    PROVE  /\ WellFormed([c EXCEPT !.settled = settled, !.pending_tickets = tickets])
           /\ [c EXCEPT !.settled = settled, !.pending_tickets = tickets].blocks = c.blocks
<1> DEFINE d == [c EXCEPT !.settled = settled, !.pending_tickets = tickets]
<1>1. c \in Chains BY DEF WellFormed
<1>2. /\ d.blocks = c.blocks /\ d.blocks_offset = c.blocks_offset /\ d.block_hashes = c.block_hashes
      /\ d.orphan_pool = c.orphan_pool /\ d.ledger = c.ledger
  BY <1>1 DEF Chains
<1>3. d \in Chains BY <1>1 DEF Chains
<1> HIDE DEF d
<1>4. \A b \in Blocks : OnPath(c, b) => OnPath(d, b) BY <1>2 DEF OnPath
<1>5. WellFormed(d) BY <1>2, <1>3, <1>4 DEF WellFormed
<1> QED BY <1>2, <1>5 DEF d

LEMMA StartupSound ==
    ASSUME NEW d, Stored(d)
    PROVE  /\ WellFormed(ChainAtStartup(d)) /\ Len(ChainAtStartup(d).blocks) \in 1 .. ReorgWindow
           /\ Stored(TablesAfterStartup(d))
<1>1. WellFormed(Loaded(d)) BY LoadedSound DEF SoundChains
<1>2. d \in Tables /\ RowsPlaced(d.BLOCKS)
      /\ \A cp \in d.CHECKPOINTS : Consistent(cp) /\ d.BLOCKS[cp.height] # NoBlock
  BY DEF Stored
<1>3. WellFormed(ChainAtStartup(d)) /\ Len(ChainAtStartup(d).blocks) \in 1 .. ReorgWindow
  <2> DEFINE c == PruneToWindow(Loaded(d))
             e == [c EXCEPT !.settled = {}, !.pending_tickets = LoadTickets(d)]
  <2>1. WellFormed(c) /\ Len(c.blocks) \in 1 .. ReorgWindow BY <1>1, PruneWellFormed
  <2>2. LoadTickets(d) \in SUBSET Mined BY <1>2 DEF LoadTickets, Tables
  <2>3. ChainAtStartup(d) = e BY DEF ChainAtStartup
  <2> HIDE DEF c
  <2>4. WellFormed(e) /\ e.blocks = c.blocks BY <2>1, <2>2, TicketsChanged
  <2> QED BY <2>1, <2>3, <2>4
<1>4. CASE UsesCheckpoint(d) BY <1>3, <1>4 DEF TablesAfterStartup
<1>5. CASE ~UsesCheckpoint(d)
  <2> DEFINE c == Loaded(d)
             e == [d EXCEPT !.CHECKPOINTS = {}, !.TX_INDEX = Elements(c.blocks),
                            !.LOTTERY_PAYOUTS = c.settled]
  <2>1. TablesAfterStartup(d) = e BY <1>5 DEF TablesAfterStartup
  <2>2. c.settled \subseteq Draws /\ c.blocks \in Seq(Blocks) BY <1>1 DEF WellFormed, Chains
  <2> HIDE DEF c
  <2>3. Elements(c.blocks) \subseteq Blocks
    <3>1. DOMAIN c.blocks = 1 .. Len(c.blocks) /\ \A i \in 1 .. Len(c.blocks) : c.blocks[i] \in Blocks BY <2>2
    <3> QED BY <3>1 DEF Elements
  <2>4. e \in Tables /\ e.BLOCKS = d.BLOCKS /\ e.CHECKPOINTS = {} BY <1>2, <2>2, <2>3 DEF Tables
  <2> HIDE DEF e
  <2>5. Stored(e) BY <1>2, <2>4 DEF Stored
  <2> QED BY <1>3, <2>1, <2>5
<1> QED BY <1>4, <1>5

-----------------------------------------------------------------------------
\* The invariant.
LEMMA InElements ==
    ASSUME NEW T, NEW s \in Seq(T)
    PROVE  \A x : x \in Elements(s) <=> \E i \in 1 .. Len(s) : x = s[i]
<1>1. DOMAIN s = 1 .. Len(s) OBVIOUS
<1> QED BY <1>1 DEF Elements

LEMMA InitInv == Init => NodeInv
<1> SUFFICES ASSUME Init PROVE NodeInv OBVIOUS
<1>1. WellFormed(chain) /\ chain.blocks = <<Genesis>> BY GenesisWellFormed DEF Init
<1>2. Len(chain.blocks) \in 1 .. ReorgWindow
  <2>1. Len(<<Genesis>>) = 1 OBVIOUS
  <2>2. ReorgWindow \in Nat /\ ReorgWindow >= 1 BY NodeAssumption
  <2> QED BY <1>1, <2>1, <2>2
<1>3. Stored(db)
  <2> DEFINE table == [i \in Heights |-> IF i = 0 THEN Genesis ELSE NoBlock]
  <2>1. RowsPlaced(table)
    <3>1. 0 \in Heights /\ Index[Genesis] = 0 /\ Genesis \in Blocks
      BY HeightsFacts, IndexFacts, NodeAssumption
    <3> QED BY <3>1 DEF RowsPlaced
  <2> HIDE DEF table
  <2>2. db = [BLOCKS |-> table, TX_INDEX |-> {Genesis}, TICKETS |-> {}, LOTTERY_PAYOUTS |-> {},
              CHECKPOINTS |-> {}]
    BY DEF Init, table
  <2>3. table \in [Heights -> Blocks \cup {NoBlock}] /\ Genesis \in Blocks
    BY <2>1, NodeAssumption DEF RowsPlaced
  <2>4. db \in Tables /\ db.BLOCKS = table /\ db.CHECKPOINTS = {} BY <2>2, <2>3 DEF Tables
  <2> QED BY <2>1, <2>4 DEF Stored
<1>4. Scheduled(db, todo) /\ todo = <<>> BY NothingScheduled DEF Init
<1>5. up \in BOOLEAN /\ torn \in BOOLEAN /\ restored \subseteq Nat /\ stray \subseteq Blocks BY DEF Init
<1> QED BY <1>1, <1>2, <1>3, <1>4, <1>5 DEF NodeInv

LEMMA ReceiveInv ==
    ASSUME NodeInv, NEW b \in Mined, Receive(b)
    PROVE  NodeInv'
<1>1. WellFormed(chain) /\ Len(chain.blocks) \in 1 .. ReorgWindow /\ RowsTyped(db.BLOCKS) /\ Stored(db)
  BY DEF NodeInv, Stored, RowsPlaced, RowsTyped
<1>2. PICK r \in ApplyInMemory(chain, b, db.BLOCKS) :
         /\ chain' = IF r.kind \in {"Applied", "Reorged"}
                     THEN PruneToWindow([r.chain EXCEPT !.settled = @ \ Drained(r)])
                     ELSE r.chain
         /\ todo' = Writes(r) /\ stray' = stray \cup LeftBehind(r)
  BY DEF Receive
<1>3. Outcome(chain, r) BY <1>1, ApplySound
<1>4. Scheduled(db, todo') BY <1>2, <1>3, WritesScheduled
<1>5. WellFormed(chain') /\ Len(chain'.blocks) \in 1 .. ReorgWindow
  <2>1. CASE r.kind \in {"Applied", "Reorged"}
    <3> DEFINE c == r.chain
               rest == c.settled \ Drained(r)
               e == [c EXCEPT !.settled = rest]
    <3>1. WellFormed(c) /\ c.pending_tickets \in SUBSET Mined /\ rest \in SUBSET Draws /\ c \in Chains
      BY <1>3 DEF Outcome, WellFormed, Chains
    <3>2. chain' = PruneToWindow(e) BY <1>2, <2>1
    <3> HIDE DEF c, rest
    <3> DEFINE tickets == c.pending_tickets
    <3>3. e = [c EXCEPT !.settled = rest, !.pending_tickets = tickets] BY <3>1 DEF Chains
    <3>4. tickets \in SUBSET Mined BY <3>1
    <3> HIDE DEF tickets
    <3>5. WellFormed([c EXCEPT !.settled = rest, !.pending_tickets = tickets]) BY <3>1, <3>4, TicketsChanged
    <3>6. WellFormed(e) BY <3>3, <3>5
    <3> HIDE DEF e
    <3> QED BY <3>2, <3>6, PruneWellFormed
  <2>2. CASE r.kind \in {"Rejected", "Orphaned"} /\ r.chain.blocks = chain.blocks
    BY <1>1, <1>2, <1>3, <2>2 DEF Outcome
  <2> QED BY <1>3, <2>1, <2>2 DEF Outcome
<1>6. db' = db /\ up' = up /\ torn' = torn /\ restored' = restored /\ up BY DEF Receive
<1>7. stray' \subseteq Blocks
  <2> DEFINE applied == chain.ledger.applied
  <2>1. r.new \in Seq(Mined) /\ applied \in Seq(Blocks) /\ stray \subseteq Blocks
    BY <1>1, <1>3 DEF Outcome, WellFormed, Chains, Ledgers, NodeInv
  <2>2. LeftBehind(r) \subseteq Elements(r.new) \cup Elements(applied) BY DEF LeftBehind
  <2> HIDE DEF applied
  <2>3. Elements(r.new) \subseteq Mined /\ Elements(applied) \subseteq Blocks BY <2>1, InElements
  <2> QED BY <1>2, <2>1, <2>2, <2>3 DEF Mined
<1> QED BY <1>1, <1>4, <1>5, <1>6, <1>7 DEF NodeInv

LEMMA WriteInv ==
    ASSUME NodeInv, Write
    PROVE  NodeInv'
<1>1. Stored(db) /\ Scheduled(db, todo) /\ todo # <<>> BY DEF NodeInv, Write
<1>2. Stored(Commit(db, Head(todo))) /\ Scheduled(Commit(db, Head(todo)), Tail(todo)) BY <1>1, QueueAdvances
<1>3. Stored(db') /\ Scheduled(db', todo') BY <1>2 DEF Write
<1>4. chain' = chain /\ up' = up /\ torn' = torn /\ restored' = restored /\ up /\ stray' = stray BY DEF Write
<1> QED BY <1>3, <1>4 DEF NodeInv

LEMMA CrashInv ==
    ASSUME NodeInv, Crash
    PROVE  NodeInv'
<1>1. WellFormed(chain') /\ Len(chain'.blocks) \in 1 .. ReorgWindow
  <2>1. chain' = GenesisChain /\ WellFormed(GenesisChain) /\ GenesisChain.blocks = <<Genesis>>
    BY GenesisWellFormed DEF Crash
  <2>2. Len(<<Genesis>>) = 1 OBVIOUS
  <2>3. ReorgWindow \in Nat /\ ReorgWindow >= 1 BY NodeAssumption
  <2> QED BY <2>1, <2>2, <2>3
<1>2. /\ db' = db /\ restored' = restored /\ up' = FALSE /\ todo' = <<>> /\ stray' = stray
      /\ torn' = (torn \/ InDeepReorg)
  BY DEF Crash
<1>3. Scheduled(db', todo') BY <1>2, NothingScheduled
<1>4. torn' \in BOOLEAN BY <1>2
<1> QED BY <1>1, <1>2, <1>3, <1>4 DEF NodeInv

LEMMA StartUpInv ==
    ASSUME NodeInv, StartUp, todo = <<>>
    PROVE  NodeInv'
<1>1. Stored(db) BY DEF NodeInv
<1>2. WellFormed(chain') /\ Len(chain'.blocks) \in 1 .. ReorgWindow /\ Stored(db')
  BY <1>1, StartupSound DEF StartUp
<1>3. up' = TRUE /\ todo' = <<>> /\ torn' = torn /\ stray' = stray BY DEF StartUp
<1>4. Scheduled(db', todo') BY <1>3, NothingScheduled
<1>5. restored' \subseteq Nat
  <2>1. CASE UsesCheckpoint(db)
    <3>1. LatestCheckpoint(db).height \in Heights
      BY <1>1, <2>1, LatestStored DEF UsesCheckpoint, Stored, Consistent, CheckpointStates
    <3>2. LatestCheckpoint(db).height \in Nat BY <3>1, HeightsFacts
    <3> QED BY <2>1, <3>2 DEF StartUp, NodeInv
  <2>2. CASE ~UsesCheckpoint(db) BY <2>2 DEF StartUp, NodeInv
  <2> QED BY <2>1, <2>2
<1> QED BY <1>2, <1>3, <1>4, <1>5 DEF NodeInv

\* Every step of the node keeps the invariant, whether it is stopped only
\* between blocks or may crash between any two writes.
LEMMA NextInv ==
    ASSUME NodeInv, [Next \/ NextRebooting]_vars
    PROVE  NodeInv'
<1>1. CASE \E b \in Mined : Receive(b) BY <1>1, ReceiveInv
<1>2. CASE Write BY <1>2, WriteInv
<1>3. CASE Crash BY <1>3, CrashInv
<1>4. CASE Restart BY <1>4, StartUpInv DEF Restart, NodeInv
<1>5. CASE Reboot BY <1>5, StartUpInv DEF Reboot, Idle
<1>6. CASE UNCHANGED vars
  <2>1. /\ chain' = chain /\ db' = db /\ todo' = todo /\ up' = up
        /\ torn' = torn /\ restored' = restored /\ stray' = stray
    BY <1>6 DEF vars
  <2> QED BY <2>1 DEF NodeInv
<1> QED BY <1>1, <1>2, <1>3, <1>4, <1>5, <1>6 DEF Next, NextRebooting, Running

LEMMA Invariance == (Spec \/ SpecRebooting) => []NodeInv
<1>1. NodeInv /\ [Next]_vars => NodeInv' BY NextInv DEF vars
<1>2. NodeInv /\ [NextRebooting]_vars => NodeInv' BY NextInv DEF vars
<1>3. Spec => []NodeInv BY <1>1, InitInv, PTL DEF Spec
<1>4. SpecRebooting => []NodeInv BY <1>2, InitInv, PTL DEF SpecRebooting
<1> QED BY <1>3, <1>4, PTL

\* Memory and tables keep their types, the window its size and the orphan
\* pool its caps, through reorgs, crashes and restarts of any kind
\* (blockchain.rs:71-81, 341-353, 1106-1137).
THEOREM NodeTypeCorrect == (Spec \/ SpecRebooting) => []TypeOK
<1>1. NodeInv => TypeOK
  <2> SUFFICES ASSUME NodeInv PROVE TypeOK OBVIOUS
  <2>1. chain \in Chains /\ Len(chain.blocks) \in 1 .. ReorgWindow /\ PoolBounded(chain.orphan_pool)
    BY DEF NodeInv, WellFormed
  <2>2. OrphanPoolBounded BY <2>1 DEF OrphanPoolBounded, PoolBounded, AtHeight
  <2>3. db \in Tables BY DEF NodeInv, Stored
  <2>4. /\ db.BLOCKS \in [Heights -> Blocks \cup {NoBlock}] /\ db.TX_INDEX \subseteq Blocks
        /\ db.TICKETS \subseteq Mined /\ db.LOTTERY_PAYOUTS \subseteq Draws
        /\ db.CHECKPOINTS \subseteq CheckpointStates
    BY <2>3 DEF Tables
  <2>5. up \in BOOLEAN /\ torn \in BOOLEAN /\ restored \subseteq Nat /\ stray \subseteq Blocks BY DEF NodeInv
  <2> QED BY <2>1, <2>2, <2>4, <2>5 DEF TypeOK
<1> QED BY <1>1, Invariance, PTL

\* Whatever order the blocks arrived in, whichever reorgs, crashes and
\* restarts led there, the ledger is the replay of the path to the tip and the
\* window is the end of that path (blockchain.rs:1064-1165, main.rs:560-640).
THEOREM LedgerReplaysPath == (Spec \/ SpecRebooting) => []LedgerIsReplay
<1>1. NodeInv => LedgerIsReplay
  <2> SUFFICES ASSUME NodeInv PROVE LedgerIsReplay OBVIOUS
  <2>1. PICK b \in Blocks : OnPath(chain, b) BY DEF NodeInv, WellFormed
  <2>2. Tip(chain) = b /\ Len(PathTo[b]) = Index[b] + 1 BY <2>1, OnPathAligned, PathFacts DEF Aligned, Leads
  <2> QED BY <2>1, <2>2 DEF LedgerIsReplay, Path, OnPath
<1> QED BY <1>1, Invariance, PTL

\* Between any two write transactions, and wherever the process dies, the row
\* startup expects of the latest checkpoint's block is there (db.rs:366-368,
\* main.rs:567-572).
THEOREM CheckpointsNeverStranded == (Spec \/ SpecRebooting) => []NoStrandedCheckpoint
<1>1. NodeInv => NoStrandedCheckpoint BY DEF NodeInv, Stored, NoStrandedCheckpoint
<1> QED BY <1>1, Invariance, PTL

\* So startup never dies for want of a row: a node that is down can come up.
THEOREM StartupFindsRow == (Spec \/ SpecRebooting) => []CanStart(db)
<1>1. NodeInv => CanStart(db) BY LatestStored DEF NodeInv, Stored, CanStart
<1> QED BY <1>1, Invariance, PTL

-----------------------------------------------------------------------------
LEMMA NoneListed ==
    ASSUME NEW table, NEW from \in Nat, NEW to \in Int, to < from
    PROVE  ListsRows(<<>>, table, from, to)
<1> DEFINE e == <<>>
<1>1. e \in Seq(Blocks) /\ Len(e) = 0 OBVIOUS
<1> HIDE DEF e
<1>2. 1 .. Len(e) = {} /\ from .. to = {} BY <1>1
<1>3. ListsRows(e, table, from, to) BY <1>1, <1>2 DEF ListsRows
<1> QED BY <1>3 DEF e

\* One row more: nothing when it is empty, its block at the end otherwise.
LEMMA EmptyRowListed ==
    ASSUME NEW table, NEW from \in Nat, NEW i \in Nat, i >= from,
           table[i] = NoBlock, NEW s, ListsRows(s, table, from, i - 1)
    PROVE  ListsRows(s, table, from, i)
<1>1. \A n \in from .. i : n \in from .. (i - 1) \/ n = i OBVIOUS
<1>2. \A n \in from .. (i - 1) : n \in from .. i OBVIOUS
<1> QED BY <1>1, <1>2 DEF ListsRows

LEMMA FullRowListed ==
    ASSUME NEW table, NEW from \in Nat, NEW i \in Nat, i >= from,
           NEW b \in Blocks, table[i] = b, Index[b] = i, NEW s, ListsRows(s, table, from, i - 1)
    PROVE  ListsRows(Append(s, b), table, from, i)
<1> DEFINE t == Append(s, b)
           n == Len(s)
<1>1. /\ s \in Seq(Blocks) /\ n \in Nat
      /\ \A k \in 1 .. n : Index[s[k]] \in from .. (i - 1) /\ table[Index[s[k]]] = s[k]
      /\ \A j, k \in 1 .. n : j < k => Index[s[j]] < Index[s[k]]
      /\ \A m \in from .. (i - 1) : table[m] # NoBlock => \E k \in 1 .. n : s[k] = table[m]
  BY DEF ListsRows
<1>2. t \in Seq(Blocks) /\ Len(t) = n + 1 /\ t[n + 1] = b /\ \A k \in 1 .. n : t[k] = s[k] BY <1>1
<1> HIDE DEF t, n
<1>3. \A k \in 1 .. n + 1 : k \in 1 .. n \/ k = n + 1 BY <1>1
<1>4. \A m \in from .. i : m \in from .. (i - 1) \/ m = i OBVIOUS
<1>5. n + 1 \in 1 .. n + 1 /\ i \in from .. i /\ \A k \in 1 .. n : k \in 1 .. n + 1 BY <1>1
<1>6. ASSUME NEW k \in 1 .. n + 1 PROVE Index[t[k]] \in from .. i /\ table[Index[t[k]]] = t[k]
  <2>1. CASE k \in 1 .. n
    <3>1. Index[s[k]] \in from .. (i - 1) /\ table[Index[s[k]]] = s[k] /\ t[k] = s[k] BY <1>1, <1>2, <2>1
    <3> QED BY <3>1
  <2>2. CASE k = n + 1 BY <1>2, <1>5, <2>2
  <2> QED BY <1>3, <2>1, <2>2
<1>7. ASSUME NEW j \in 1 .. n + 1, NEW k \in 1 .. n + 1, j < k PROVE Index[t[j]] < Index[t[k]]
  <2>1. j \in 1 .. n BY <1>1, <1>7
  <2>2. CASE k \in 1 .. n BY <1>1, <1>2, <1>7, <2>1, <2>2
  <2>3. CASE k = n + 1
    <3>1. Index[s[j]] \in from .. (i - 1) /\ t[j] = s[j] /\ t[k] = b BY <1>1, <1>2, <2>1, <2>3
    <3> QED BY <3>1
  <2> QED BY <1>3, <2>2, <2>3
<1>8. ASSUME NEW m \in from .. i, table[m] # NoBlock PROVE \E k \in 1 .. n + 1 : t[k] = table[m]
  <2>1. CASE m \in from .. (i - 1)
    <3>1. PICK k \in 1 .. n : s[k] = table[m] BY <1>1, <1>8, <2>1
    <3> QED BY <1>2, <1>5, <3>1
  <2>2. CASE m = i BY <1>2, <1>5, <2>2
  <2> QED BY <1>4, <2>1, <2>2
<1>9. ListsRows(t, table, from, i) BY <1>2, <1>6, <1>7, <1>8 DEF ListsRows
<1> QED BY <1>9 DEF t

LEMMA RowsRun ==
    ASSUME NEW table, RowsTyped(table), NEW from \in Nat, NEW to \in Heights, from <= to
    PROVE  \E f : RowRun(f, table, from, to - from + 1) /\ f[to - from + 1] = Rows(table, from, to)
<1>1. to \in Nat /\ \A i \in Nat : i <= to => i \in Heights BY HeightsFacts
<1> DEFINE n == to - from + 1
           seqs == [i \in 1 .. n |-> RowAt(table, from + i - 1)]
<1>2. n \in Nat /\ n = to - from + 1 /\ ~(to < from) BY <1>1
<1>3. Rows(table, from, to) = FlattenSeq(seqs) BY <1>2 DEF Rows
<1> HIDE DEF n
<1>4. \A i \in 1 .. n : from + i - 1 \in Heights BY <1>1, <1>2
<1>5. ASSUME NEW i \in Heights PROVE RowAt(table, i) \in Seq(Blocks)
  <2>1. table[i] = NoBlock \/ table[i] \in Blocks BY DEF RowsTyped
  <2> DEFINE b == table[i]
  <2> HIDE DEF b
  <2>2. CASE b = NoBlock
    <3>1. RowAt(table, i) = <<>> BY <2>2 DEF RowAt, b
    <3> QED BY <3>1
  <2>3. CASE b # NoBlock /\ b \in Blocks
    <3>1. RowAt(table, i) = <<b>> BY <2>3 DEF RowAt, b
    <3> QED BY <2>3, <3>1
  <2> QED BY <2>1, <2>2, <2>3 DEF b
<1>6. seqs \in [1 .. n -> Seq(Blocks)] /\ \A i \in 1 .. n : seqs[i] = RowAt(table, from + i - 1) BY <1>4, <1>5
<1> HIDE DEF seqs
<1>7. PICK f : FlatRun(f, Blocks, n, seqs) BY <1>2, <1>6, FlattenRun
<1>8. RowRun(f, table, from, n) /\ f[n] = Rows(table, from, to) BY <1>3, <1>6, <1>7 DEF FlatRun, RowRun
<1> QED BY <1>8 DEF n

LEMMA RowsListed ==
    ASSUME NEW table, RowsPlaced(table), NEW from \in Nat, NEW to \in Int, to <= MaxIndex
    PROVE  ListsRows(Rows(table, from, to), table, from, to)
<1>1. MaxIndex \in Nat /\ Heights = 0 .. MaxIndex BY HeightsFacts
<1>2. CASE to < from BY <1>2, NoneListed DEF Rows
<1>3. CASE ~(to < from)
  <2> DEFINE n == to - from + 1
  <2>1. to \in Heights /\ from <= to /\ RowsTyped(table) /\ n \in Nat /\ n >= 1 /\ from + n - 1 = to
    BY <1>1, <1>3 DEF RowsPlaced, RowsTyped
  <2>2. PICK f : RowRun(f, table, from, n) /\ f[n] = Rows(table, from, to) BY <2>1, RowsRun
  <2> HIDE DEF n
  <2> DEFINE Q == {i \in Nat : i <= n => ListsRows(f[i], table, from, from + i - 1)}
  <2>3. 0 \in Q
    <3>1. f[0] = <<>> /\ from + 0 - 1 \in Int /\ from + 0 - 1 < from BY <2>2 DEF RowRun
    <3>2. ListsRows(f[0], table, from, from + 0 - 1) BY <3>1, NoneListed
    <3> QED BY <3>2
  <2>4. ASSUME NEW i \in Nat, i \in Q PROVE i + 1 \in Q
    <3>1. SUFFICES ASSUME i + 1 <= n PROVE ListsRows(f[i + 1], table, from, from + (i + 1) - 1) OBVIOUS
    <3> DEFINE h == from + i
               k == i + 1
               s == f[i]
    <3>2. /\ h \in Nat /\ h >= from /\ from + i - 1 = h - 1 /\ from + k - 1 = h /\ k \in 1 .. n
          /\ k - 1 = i /\ h \in Heights /\ i <= n
      BY <1>1, <2>1, <3>1
    <3>3. ListsRows(f[i], table, from, from + i - 1) BY <2>4, <3>2
    <3>4. ListsRows(s, table, from, h - 1) BY <3>2, <3>3
    <3>5. f[k] = f[k - 1] \o RowAt(table, from + k - 1) BY <2>2, <3>2 DEF RowRun
    <3>6. f[k] = s \o RowAt(table, h) BY <3>2, <3>5
    <3>7. s \in Seq(Blocks) BY <3>4 DEF ListsRows
    <3>8. table[h] = NoBlock \/ (table[h] # NoBlock /\ table[h] \in Blocks /\ Index[table[h]] = h)
      BY <3>2 DEF RowsPlaced
    <3> HIDE DEF Q, h, s, k
    <3>9. CASE table[h] = NoBlock
      <4>1. RowAt(table, h) = <<>> BY <3>9 DEF RowAt
      <4>2. f[k] = s BY <3>6, <3>7, <4>1
      <4>3. ListsRows(f[k], table, from, h) BY <3>2, <3>4, <3>9, <4>2, EmptyRowListed
      <4> QED BY <3>2, <4>3 DEF k
    <3>10. CASE table[h] # NoBlock /\ table[h] \in Blocks /\ Index[table[h]] = h
      <4> DEFINE b == table[h]
      <4>1. RowAt(table, h) = <<b>> BY <3>10 DEF RowAt
      <4>2. b \in Blocks /\ table[h] = b /\ Index[b] = h BY <3>10
      <4> HIDE DEF b
      <4>3. f[k] = Append(s, b) BY <3>6, <3>7, <4>1
      <4>4. ListsRows(f[k], table, from, h) BY <3>2, <3>4, <4>2, <4>3, FullRowListed
      <4> QED BY <3>2, <4>4 DEF k
    <3> QED BY <3>8, <3>9, <3>10
  <2>5. n \in Q
    <3>1. Nat \subseteq Q
      <4> HIDE DEF Q
      <4> QED BY <2>3, <2>4, NatSetInduction
    <3> QED BY <2>1, <3>1
  <2> QED BY <2>1, <2>2, <2>5
<1> QED BY <1>2, <1>3

-----------------------------------------------------------------------------
LEMMA ForkTrace ==
    ASSUME NEW pool \in SUBSET Mined
    PROVE  \E f : Traces(f, pool)
<1> DEFINE V == Seq(Mined)
           Is(f) == f = [b \in pool |-> IF Parent[b] \in pool THEN Append(f[Parent[b]], b) ELSE <<b>>]
           step == [p \in Mined \X V |-> IF p[1] \in pool /\ Parent[p[1]] \in pool
                                         THEN Append(p[2], p[1]) ELSE <<p[1]>>]
           trace == CHOOSE f : Is(f)
<1>1. \A b : ForkChain(pool, b) = trace[b] BY DEF ForkChain
<1>2. \A b \in Mined, s \in V :
         step[<<b, s>>] = IF b \in pool /\ Parent[b] \in pool THEN Append(s, b) ELSE <<b>>
  OBVIOUS
<1>3. \A b \in Mined, s \in V : Append(s, b) \in V /\ <<b>> \in V OBVIOUS
<1>4. step \in [Mined \X V -> V]
  <2>1. \A p \in Mined \X V : Append(p[2], p[1]) \in V /\ <<p[1]>> \in V BY <1>3
  <2> HIDE DEF V
  <2> QED BY <2>1
<1>5. <<>> \in V OBVIOUS
<1> HIDE DEF V, step, Is
<1>6. PICK f : Solves(f, Blocks, V, <<>>, step) BY <1>4, <1>5, TreeRecursion
<1>7. f \in [Blocks -> V] /\ \A b \in Mined : Parent[b] \in Blocks /\ f[b] = step[<<b, f[Parent[b]]>>]
  BY <1>6, NodeAssumption DEF Solves, Mined
<1>8. \A b \in pool : f[b] = IF Parent[b] \in pool THEN Append(f[Parent[b]], b) ELSE <<b>>
  <2>1. \A b \in Mined : f[Parent[b]] \in V BY <1>7
  <2> QED BY <1>2, <1>7, <2>1
<1> DEFINE g == [b \in pool |-> f[b]]
<1>9. Is(g)
  <2>1. \A b \in pool : g[b] = IF Parent[b] \in pool THEN Append(g[Parent[b]], b) ELSE <<b>> BY <1>8
  <2> QED BY <2>1 DEF Is
<1>10. Is(trace)
  <2> HIDE DEF g
  <2> QED BY <1>9
<1> HIDE DEF trace, g
<1>11. \A b \in pool : trace[b] = IF Parent[b] \in pool THEN Append(trace[Parent[b]], b) ELSE <<b>>
  BY <1>10 DEF Is
<1> QED BY <1>1, <1>11 DEF Traces

LEMMA ForkExtended ==
    ASSUME NEW pool \in SUBSET Mined, NEW f, NEW b \in pool, ForkTo(f, pool, Parent[b])
    PROVE  ForkTo(Append(f, b), pool, b)
<1> DEFINE e == Append(f, b)
           n == Len(f)
<1>1. n \in Nat /\ n >= 1 /\ f[n] = Parent[b] /\ f \in Seq(pool) /\ \A i \in 2 .. n : Parent[f[i]] = f[i - 1]
  BY DEF ForkTo, Linked
<1>2. e \in Seq(pool) /\ Len(e) = n + 1 /\ e[n + 1] = b /\ \A i \in 1 .. n : e[i] = f[i] BY <1>1
<1> HIDE DEF e, n
<1>3. ASSUME NEW i \in 2 .. n + 1 PROVE Parent[e[i]] = e[i - 1]
  <2>1. i - 1 \in 1 .. n /\ (i = n + 1 \/ i \in 2 .. n) /\ (i \in 2 .. n => i \in 1 .. n) BY <1>1
  <2>2. CASE i = n + 1
    <3>1. e[i] = b /\ i - 1 = n /\ n \in 1 .. n BY <1>1, <1>2, <2>2
    <3> QED BY <1>1, <1>2, <3>1
  <2>3. CASE i \in 2 .. n BY <1>1, <1>2, <2>1, <2>3
  <2> QED BY <2>1, <2>2, <2>3
<1>4. ForkTo(e, pool, b) BY <1>1, <1>2, <1>3 DEF ForkTo, Linked
<1> QED BY <1>4 DEF e

LEMMA ForkLinked ==
    ASSUME NEW pool \in SUBSET Mined, NEW tip \in pool
    PROVE  ForkTo(ForkChain(pool, tip), pool, tip)
<1>1. PICK f : Traces(f, pool) BY ForkTrace
<1> DEFINE Q == {b \in Blocks : b \in pool => ForkTo(f[b], pool, b)}
<1>2. Genesis \in Q BY NodeAssumption DEF Mined
<1>3. ASSUME NEW b \in Mined, Parent[b] \in Q PROVE b \in Q
  <2>1. SUFFICES ASSUME b \in pool PROVE ForkTo(f[b], pool, b) BY DEF Mined
  <2>2. CASE Parent[b] \in pool
    <3>1. ForkTo(f[Parent[b]], pool, Parent[b]) BY <1>3, <2>2
    <3>2. f[b] = Append(f[Parent[b]], b) BY <1>1, <2>1, <2>2 DEF Traces
    <3> QED BY <2>1, <3>1, <3>2, ForkExtended
  <2>3. CASE Parent[b] \notin pool
    <3>1. f[b] = <<b>> BY <1>1, <2>1, <2>3 DEF Traces
    <3>2. ForkTo(<<b>>, pool, b) BY <2>1 DEF ForkTo, Linked
    <3> QED BY <3>1, <3>2
  <2> QED BY <2>2, <2>3
<1>4. Blocks \subseteq Q
  <2> HIDE DEF Q
  <2> QED BY <1>2, <1>3, TreeInduction
<1>5. tip \in Q BY <1>4 DEF Mined
<1> QED BY <1>1, <1>5 DEF Traces

-----------------------------------------------------------------------------
\* Blocks in the order of their heights.
LEMMA AscendingFacts ==
    ASSUME NEW t, NEW x \in Blocks, Ascending(t, x)
    PROVE  \A k \in 1 .. Len(t) : Index[t[k]] >= Index[x] + k
<1> DEFINE n == Len(t)
           Q == {k \in Nat : k \in 1 .. n => Index[t[k]] >= Index[x] + k}
<1>1. /\ n \in Nat /\ Index[x] \in Nat /\ \A k \in 1 .. n : t[k] \in Mined /\ Index[t[k]] \in Nat
      /\ \A k \in 1 .. n : Index[t[k]] > Index[x]
      /\ \A j, k \in 1 .. n : j < k => Index[t[j]] < Index[t[k]]
  BY IndexFacts DEF Ascending, Mined
<1> HIDE DEF n
<1>2. 0 \in Q OBVIOUS
<1>3. ASSUME NEW k \in Nat, k \in Q PROVE k + 1 \in Q
  <2>1. SUFFICES ASSUME k + 1 \in 1 .. n PROVE Index[t[k + 1]] >= Index[x] + (k + 1) OBVIOUS
  <2>2. CASE k = 0 BY <1>1, <2>1, <2>2
  <2>3. CASE k # 0
    <3>1. k \in 1 .. n /\ k < k + 1 BY <1>1, <2>1, <2>3
    <3>2. Index[t[k]] < Index[t[k + 1]] /\ Index[t[k]] >= Index[x] + k BY <1>1, <1>3, <2>1, <3>1
    <3> QED BY <1>1, <2>1, <3>1, <3>2
  <2> QED BY <2>2, <2>3
<1>4. Nat \subseteq Q
  <2> HIDE DEF Q
  <2> QED BY <1>2, <1>3, NatSetInduction
<1> QED BY <1>1, <1>4 DEF n

\* A fork of blocks that do not extend the tip has no ancestor in the window or
\* in a table without rows.
LEMMA NoForkOffered ==
    ASSUME NEW c, WellFormed(c), NEW y \in Blocks, OnPath(c, y),
           \A o \in c.orphan_pool : Index[o] > Index[y] /\ Parent[o] # y
    PROVE  BestForks(c, NoRows) = {}
<1> DEFINE tips == {o \in c.orphan_pool : \A p \in c.orphan_pool : Parent[p] # o}
<1>1. c.orphan_pool \in SUBSET Mined BY DEF WellFormed, Chains
<1>2. ASSUME NEW t \in tips PROVE ~HasAncestor(c, ForkChain(c.orphan_pool, t), NoRows)
  <2> DEFINE f == ForkChain(c.orphan_pool, t)
             z == f[1]
             w == Parent[z]
  <2>1. z \in c.orphan_pool
    <3>1. ForkTo(f, c.orphan_pool, t) BY <1>1, ForkLinked
    <3>2. f \in Seq(c.orphan_pool) /\ Len(f) >= 1 BY <3>1 DEF ForkTo
    <3> HIDE DEF f
    <3> QED BY <3>2
  <2>2. z \in Mined /\ w \in Blocks /\ w # NoBlock /\ w # y /\ Index[z] = Index[w] + 1 /\ Index[z] > Index[y]
    BY <1>1, <2>1, IndexFacts, NodeAssumption DEF Mined
  <2> HIDE DEF f, z
  <2>3. Index[w] \in Nat /\ Index[y] \in Nat /\ Index[z] - 1 = Index[w] /\ Index[w] >= Index[y]
    BY <2>2, IndexFacts
  <2>4. NoRows[Index[z] - 1] # w
    <3>1. Index[w] \in Heights BY <2>2, HeightsFacts
    <3> QED BY <2>2, <2>3, <3>1 DEF NoRows
  <2>5. w \notin c.block_hashes
    <3>1. SUFFICES ASSUME w \in Elements(c.blocks) PROVE FALSE BY DEF WellFormed
    <3> DEFINE n == Len(c.blocks)
    <3>2. /\ n \in Nat /\ n = Index[y] - c.blocks_offset + 1 /\ c.blocks_offset \in Nat
          /\ DOMAIN c.blocks = 1 .. n /\ c.blocks[n] = y
          /\ \A i \in 1 .. n : Index[c.blocks[i]] = c.blocks_offset + i - 1
      <4>1. Aligned(c, y) BY OnPathAligned
      <4>2. /\ n \in Nat /\ n = Index[y] - c.blocks_offset + 1 /\ c.blocks_offset \in Nat
            /\ DOMAIN c.blocks = 1 .. n
            /\ \A i \in 1 .. n : Index[c.blocks[i]] = c.blocks_offset + i - 1
        BY <4>1 DEF Aligned
      <4>3. c.blocks[n] = y BY <4>1 DEF Aligned, Tip, Last
      <4> QED BY <4>2, <4>3
    <3>3. PICK i \in 1 .. n : w = c.blocks[i] BY <3>1, <3>2 DEF Elements
    <3>4. Index[w] = c.blocks_offset + i - 1 BY <3>2, <3>3
    <3> HIDE DEF n, w
    <3>5. i = n BY <2>3, <3>2, <3>4
    <3> QED BY <2>2, <3>2, <3>3, <3>5
  <2> QED BY <2>4, <2>5 DEF HasAncestor, z, f
<1>3. HeavierForks(c, NoRows) = {}
  <2>1. \A f \in HeavierForks(c, NoRows) : HasAncestor(c, f, NoRows) /\ \E t \in tips : f = ForkChain(c.orphan_pool, t)
    BY DEF HeavierForks
  <2> HIDE DEF tips
  <2> QED BY <1>2, <2>1
<1> QED BY <1>3 DEF BestForks

LEMMA NotExtending ==
    ASSUME NEW c, WellFormed(c), NEW y \in Blocks, OnPath(c, y),
           \A o \in c.orphan_pool : Index[o] > Index[y] /\ Parent[o] # y,
           NEW b \in Mined, Index[b] > Index[y], ~Accepts(c, b)
    PROVE  ApplyStored(c, b) = c \/ (Pools(c, b, ApplyStored(c, b)) /\ Parent[b] # y)
<1> DEFINE all == ApplyInMemory(c, b, NoRows)
           With(room) == [c EXCEPT !.orphan_pool = EvictAtHeight(room, b) \cup {b}]
           pooled == {With(room) : room \in PoolsWithRoom(c.orphan_pool)}
           orphaned(p) == [kind |-> "Orphaned", chain |-> p, old |-> <<>>, new |-> <<>>]
           rejected == [kind |-> "Rejected", chain |-> c, old |-> <<>>, new |-> <<>>]
           r == CHOOSE q \in all : TRUE
<1>1. ApplyStored(c, b) = r.chain BY DEF ApplyStored
<1>2. r \in all
  <2>1. RowsTyped(NoRows) BY DEF RowsTyped, NoRows
  <2>2. all # {} BY <2>1, ApplySound
  <2> HIDE DEF all
  <2> QED BY <2>2
<1> HIDE DEF r
<1>3. CASE LinksToTip(c, b) \/ ~Standalone(c, b)
  <2>1. all = {rejected} BY <1>3 DEF ApplyInMemory
  <2>2. r.chain = c BY <1>2, <2>1
  <2> QED BY <1>1, <2>2
<1>4. CASE ~(LinksToTip(c, b) \/ ~Standalone(c, b))
  <2>1. all = {orphaned(p) : p \in {q \in pooled : BestForks(q, NoRows) = {}}}
              \cup UNION {{[kind |-> "Reorged", chain |-> ReorgTo(p, f, NoRows),
                            old |-> Displaced(p, f), new |-> f] : f \in BestForks(p, NoRows)} : p \in pooled}
    BY <1>4 DEF ApplyInMemory
  <2>2. Parent[b] # y
    <3>1. Tip(c) = y /\ Height(c) = Index[y] + 1 BY OnPathAligned DEF Aligned
    <3>2. Index[b] = Index[Parent[b]] + 1 BY IndexFacts
    <3> QED BY <1>4, <3>1, <3>2 DEF LinksToTip
  <2>3. ASSUME NEW p \in pooled PROVE BestForks(p, NoRows) = {} /\ Pools(c, b, p)
    <3>1. PICK room \in PoolsWithRoom(c.orphan_pool) : p = With(room) OBVIOUS
    <3>2. c.orphan_pool \in SUBSET Mined /\ PoolBounded(c.orphan_pool) BY DEF WellFormed, Chains
    <3> DEFINE evicted == EvictAtHeight(room, b)
               pool == evicted \cup {b}
    <3>3. pool \in SUBSET Mined /\ PoolBounded(pool) BY <3>2, Pooled
    <3>4. room \subseteq c.orphan_pool BY <3>2, RoomExists
    <3>5. evicted \subseteq room BY DEF EvictAtHeight
    <3>6. p = [c EXCEPT !.orphan_pool = pool] BY <3>1
    <3> HIDE DEF evicted
    <3>7. pool \subseteq c.orphan_pool \cup {b} BY <3>4, <3>5
    <3> HIDE DEF pool
    <3>8. Pools(c, b, p) BY <3>3, <3>6, <3>7 DEF Pools
    <3>9. WellFormed(p) /\ p.orphan_pool = pool /\ OnPath(p, y)
      <4>1. WellFormed(p) /\ p.orphan_pool = pool BY <3>3, <3>6, PoolChanged
      <4>2. p.ledger = c.ledger /\ p.blocks_offset = c.blocks_offset /\ p.blocks = c.blocks
        BY <3>6 DEF WellFormed, Chains
      <4> QED BY <4>1, <4>2 DEF OnPath
    <3>10. \A o \in p.orphan_pool : Index[o] > Index[y] /\ Parent[o] # y BY <2>2, <3>7, <3>9
    <3> QED BY <3>8, <3>9, <3>10, NoForkOffered
  <2> HIDE DEF pooled, all
  <2>4. \E p \in pooled : r.chain = p
    <3>1. PICK p \in pooled : r = orphaned(p) BY <1>2, <2>1, <2>3
    <3> QED BY <3>1
  <2> QED BY <1>1, <2>2, <2>3, <2>4
<1> QED BY <1>3, <1>4

-----------------------------------------------------------------------------
LEMMA ReplayedStep ==
    ASSUME NEW P, Hereditary(P), NEW x \in Blocks, NEW t, Ascending(t, x),
           NEW k \in Nat, k + 1 <= Len(t), NEW c, Replayed(c, P, t, x, k),
           NEW d, \A m, y : Climbs(t, x, k, m, y) /\ OnPath(c, y)
                            /\ (\A o \in c.orphan_pool : Index[o] > Index[y] /\ Parent[o] # y)
                            /\ Index[t[k + 1]] > Index[y]
                            => StepTo(c, t[k + 1], d)
    PROVE  Replayed(d, P, t, x, k + 1)
<1> DEFINE n == Len(t)
           b == t[k + 1]
<1>1. PICK m, y : /\ Climbs(t, x, k, m, y) /\ OnPath(c, y)
                  /\ c.orphan_pool \subseteq {t[j] : j \in m + 1 .. k}
                  /\ \A o \in c.orphan_pool : Parent[o] # y
  BY DEF Replayed
<1>2. /\ n \in Nat /\ k + 1 \in 1 .. n /\ Index[x] \in Nat
      /\ \A j \in 1 .. n : t[j] \in Mined /\ t[j] \in Blocks /\ Index[t[j]] \in Nat /\ Index[t[j]] >= Index[x] + j
      /\ \A i, j \in 1 .. n : i < j => Index[t[i]] < Index[t[j]]
  <2>1. \A j \in 1 .. n : Index[t[j]] >= Index[x] + j BY AscendingFacts
  <2> QED BY <2>1, IndexFacts DEF Ascending, Mined
<1>3. m \in 0 .. k /\ m \in Nat /\ y \in Blocks /\ Index[y] = Index[x] + m /\ Index[y] \in Nat
  BY <1>1, IndexFacts DEF Climbs
<1> HIDE DEF n
<1>4. \A j \in m + 1 .. k + 1 : j \in 1 .. n /\ Index[t[j]] > Index[y]
  <2>1. \A j \in m + 1 .. k + 1 : j \in 1 .. n /\ j >= m + 1 BY <1>2, <1>3
  <2>2. \A j \in m + 1 .. k + 1 : Index[t[j]] >= Index[x] + j BY <1>2, <2>1
  <2> QED BY <1>2, <1>3, <2>1, <2>2
<1>5. Index[b] > Index[y] /\ b \in Mined /\ b \in Blocks
  <2>1. k + 1 \in m + 1 .. k + 1 BY <1>3
  <2> QED BY <1>2, <1>4, <2>1
<1>6. \A o \in c.orphan_pool : Index[o] > Index[y] /\ Parent[o] # y
  <2>1. \A j \in m + 1 .. k : j \in m + 1 .. k + 1 BY <1>3
  <2> QED BY <1>1, <1>4, <2>1
<1>7. StepTo(c, b, d)
  <2> HIDE DEF b
  <2> QED BY <1>1, <1>5, <1>6 DEF b
<1>8. Tip(c) = y /\ Height(c) = Index[y] + 1 /\ c \in P /\ WellFormed(c) /\ c.orphan_pool \in SUBSET Mined
  <2>1. Aligned(c, y) BY <1>1, <1>3, OnPathAligned
  <2> QED BY <2>1 DEF Aligned, Replayed, WellFormed, Chains
<1>9. ASSUME Accepts(c, b) PROVE Replayed(d, P, t, x, k + 1)
  <2>1. d = UpdateState(c, b) /\ WellFormed(d) /\ OnPath(d, b)
    BY <1>5, <1>7, <1>8, <1>9, UpdateWellFormed DEF StepTo
  <2>2. d \in P BY <1>5, <1>8, <1>9, <2>1 DEF Hereditary
  <2>3. Index[b] = Index[y] + 1 /\ Parent[b] = y /\ b \notin Invalid BY <1>8, <1>9 DEF Accepts, LinksToTip
  <2>4. m = k
    <3>1. SUFFICES ASSUME m # k PROVE FALSE OBVIOUS
    <3>2. m + 1 \in m + 1 .. k + 1 /\ m + 1 < k + 1 BY <1>3, <3>1
    <3>3. Index[t[m + 1]] > Index[y] /\ Index[t[m + 1]] < Index[b] /\ Index[t[m + 1]] \in Nat /\ Index[b] \in Nat
      BY <1>2, <1>4, <3>2
    <3> HIDE DEF b
    <3> QED BY <1>3, <2>3, <3>3
  <2>5. d.orphan_pool = {}
    <3>1. m + 1 .. k = {} BY <1>3, <2>4
    <3>2. c.orphan_pool = {} BY <1>1, <3>1
    <3>3. UpdateState(c, b).orphan_pool = c.orphan_pool BY <1>8 DEF UpdateState, WellFormed, Chains
    <3> QED BY <2>1, <3>2, <3>3
  <2>6. Climbs(t, x, k + 1, k + 1, b)
    <3>1. k + 1 \in 0 .. k + 1 /\ ~(k + 1 < k + 1) /\ k + 1 # 0 OBVIOUS
    <3>2. Index[b] = Index[x] + (k + 1)
      <4> HIDE DEF b
      <4> QED BY <1>2, <1>3, <2>3, <2>4
    <3>3. \A i \in 1 .. k : Extends(t[i], IF i = 1 THEN x ELSE t[i - 1]) BY <1>1, <2>4 DEF Climbs
    <3>4. Extends(t[k + 1], IF k + 1 = 1 THEN x ELSE t[(k + 1) - 1])
      <4>1. y = IF k = 0 THEN x ELSE t[k] BY <1>1, <2>4 DEF Climbs
      <4>2. (k + 1 = 1 <=> k = 0) /\ (k + 1) - 1 = k OBVIOUS
      <4>3. Extends(t[k + 1], y) BY <2>3 DEF Extends
      <4> QED BY <4>1, <4>2, <4>3
    <3>5. \A i \in 1 .. k + 1 : i \in 1 .. k \/ i = k + 1 OBVIOUS
    <3>6. \A i \in 1 .. k + 1 : Extends(t[i], IF i = 1 THEN x ELSE t[i - 1])
      <4> DEFINE Ok(i) == Extends(t[i], IF i = 1 THEN x ELSE t[i - 1])
      <4>1. (\A i \in 1 .. k : Ok(i)) /\ Ok(k + 1) BY <3>3, <3>4
      <4> HIDE DEF Ok
      <4>2. \A i \in 1 .. k + 1 : Ok(i) BY <3>5, <4>1
      <4> QED BY <4>2 DEF Ok
    <3> QED BY <1>5, <3>1, <3>2, <3>6 DEF Climbs
  <2> QED BY <2>1, <2>2, <2>5, <2>6 DEF Replayed
<1>10. ASSUME ~Accepts(c, b) PROVE Replayed(d, P, t, x, k + 1)
  <2>1. ~Extends(b, y)
    <3>1. Index[b] = Index[Parent[b]] + 1 BY <1>5, IndexFacts
    <3> QED BY <1>8, <1>10, <3>1 DEF Accepts, LinksToTip, Extends
  <2>2. Climbs(t, x, k + 1, m, y)
    <3>1. m \in 0 .. k + 1 BY <1>3
    <3>2. m < k + 1 => ~Extends(t[m + 1], y)
      <4>1. m = k \/ m < k BY <1>3
      <4> QED BY <1>1, <2>1, <4>1 DEF Climbs
    <3> QED BY <1>1, <3>1, <3>2 DEF Climbs
  <2>3. /\ d \in P /\ WellFormed(d) /\ OnPath(d, y)
        /\ d.orphan_pool \subseteq c.orphan_pool \cup {b}
        /\ b \in d.orphan_pool /\ b \notin c.orphan_pool => Parent[b] # y
    <3>1. CASE d = c BY <1>1, <1>8, <3>1
    <3>2. CASE Pools(c, b, d) /\ Parent[b] # y
      <4>1. PICK pool \in SUBSET Mined : /\ d = [c EXCEPT !.orphan_pool = pool]
                                         /\ PoolBounded(pool) /\ pool \subseteq c.orphan_pool \cup {b}
        BY <3>2 DEF Pools
      <4>2. WellFormed(d) /\ d.orphan_pool = pool BY <1>8, <4>1, PoolChanged
      <4>3. d \in P BY <1>8, <4>1 DEF Hereditary
      <4>4. d.ledger = c.ledger /\ d.blocks_offset = c.blocks_offset /\ d.blocks = c.blocks
        BY <1>8, <4>1 DEF WellFormed, Chains
      <4> QED BY <1>1, <3>2, <4>1, <4>2, <4>3, <4>4 DEF OnPath
    <3> QED BY <1>7, <1>8, <1>10, <3>1, <3>2 DEF StepTo
  <2>4. d.orphan_pool \subseteq {t[j] : j \in m + 1 .. k + 1}
    <3>1. \A j \in m + 1 .. k : j \in m + 1 .. k + 1 BY <1>3
    <3>2. k + 1 \in m + 1 .. k + 1 BY <1>3
    <3> QED BY <1>1, <2>3, <3>1, <3>2
  <2>5. \A o \in d.orphan_pool : Parent[o] # y BY <1>1, <2>3
  <2> QED BY <2>2, <2>3, <2>4, <2>5 DEF Replayed
<1> QED BY <1>9, <1>10

LEMMA ReplayedStart ==
    ASSUME NEW P, NEW c \in P, WellFormed(c), NEW x \in Blocks, OnPath(c, x), c.orphan_pool = {}, NEW t
    PROVE  Replayed(c, P, t, x, 0)
<1>1. Index[x] \in Nat /\ 1 .. 0 = {} /\ 0 \in 0 .. 0 /\ Index[x] = Index[x] + 0 /\ ~(0 < 0) BY IndexFacts
<1>2. Climbs(t, x, 0, 0, x) BY <1>1 DEF Climbs
<1> QED BY <1>2 DEF Replayed

LEMMA BlockRun ==
    ASSUME NEW c \in SoundChains, NEW t \in Seq(Blocks)
    PROVE  \E h : BlockSteps(h, c, t)
<1> DEFINE n == Len(t)
           op == [p \in (1 .. n) \X SoundChains |-> ReplayBlock(p[2], t[p[1]])]
           eq(f) == f = [U \in SUBSET (1 .. n) |->
                           IF U = {} THEN c ELSE ReplayBlock(f[U \ {Max(U)}], t[Max(U)])]
           k == CHOOSE f : eq(f)
<1>1. n \in Nat /\ DOMAIN t = 1 .. n /\ \A i \in 1 .. n : t[i] \in Blocks OBVIOUS
<1>2. Replay(c, t) = k[1 .. n] BY <1>1 DEF Replay, FoldLeft, MapThenFoldSet
<1>3. op \in [(1 .. n) \X SoundChains -> SoundChains]
      /\ \A i \in 1 .. n, m \in SoundChains : op[<<i, m>>] = ReplayBlock(m, t[i])
  BY <1>1, ReplayBlockSound
<1>4. \A U \in (SUBSET (1 .. n)) \ {{}} : Max(U) \in 1 .. n BY <1>1, MaxIsMember
<1>5. eq(k)
  <2> HIDE DEF n, op
  <2>1. PICK g \in [SUBSET (1 .. n) -> SoundChains] : MaxFold(g, n, c, op) BY <1>1, <1>3, LeftFoldExists
  <2>2. \A U \in SUBSET (1 .. n) :
            g[U] = IF U = {} THEN c ELSE ReplayBlock(g[U \ {Max(U)}], t[Max(U)])
    BY <1>3, <1>4, <2>1 DEF MaxFold
  <2>3. eq(g) BY <2>2
  <2> HIDE DEF eq
  <2> QED BY <2>3
<1>6. Computes(k, n, SoundChains, c, op)
  <2> HIDE DEF k, op
  <2>1. \A U \in SUBSET (1 .. n) :
            k[U] = IF U = {} THEN c ELSE ReplayBlock(k[U \ {Max(U)}], t[Max(U)])
    BY <1>5
  <2> QED BY <1>3, <1>4, <2>1 DEF Computes
<1>7. PICK h : Run(h, n, SoundChains, c, k[1 .. n], op)
  <2> HIDE DEF n, op, k
  <2> QED BY <1>1, <1>3, <1>6, LeftFoldRun
<1> HIDE DEF op, k, n
<1>8. \A i \in 1 .. n : i - 1 \in 0 .. n BY <1>1
<1>9. /\ h[0] = c /\ h[n] = Replay(c, t)
      /\ \A i \in 1 .. n : h[i] = ReplayBlock(h[i - 1], t[i])
      /\ \A i \in 0 .. n : h[i] \in SoundChains
  BY <1>2, <1>3, <1>7, <1>8 DEF Run
<1> QED BY <1>9 DEF BlockSteps, n

LEMMA StoredRun ==
    ASSUME NEW c \in SoundChains, NEW t \in Seq(Mined)
    PROVE  \E h : StoredSteps(h, c, t)
<1> DEFINE n == Len(t)
           op == [p \in (1 .. n) \X SoundChains |-> ApplyStored(p[2], t[p[1]])]
           eq(f) == f = [U \in SUBSET (1 .. n) |->
                           IF U = {} THEN c ELSE ApplyStored(f[U \ {Max(U)}], t[Max(U)])]
           k == CHOOSE f : eq(f)
<1>1. n \in Nat /\ DOMAIN t = 1 .. n /\ \A i \in 1 .. n : t[i] \in Mined OBVIOUS
<1>2. ReplayStored(c, t) = k[1 .. n] BY <1>1 DEF ReplayStored, FoldLeft, MapThenFoldSet
<1>3. op \in [(1 .. n) \X SoundChains -> SoundChains]
      /\ \A i \in 1 .. n, m \in SoundChains : op[<<i, m>>] = ApplyStored(m, t[i])
  BY <1>1, StoredStepSound
<1>4. \A U \in (SUBSET (1 .. n)) \ {{}} : Max(U) \in 1 .. n BY <1>1, MaxIsMember
<1>5. eq(k)
  <2> HIDE DEF n, op
  <2>1. PICK g \in [SUBSET (1 .. n) -> SoundChains] : MaxFold(g, n, c, op) BY <1>1, <1>3, LeftFoldExists
  <2>2. \A U \in SUBSET (1 .. n) :
            g[U] = IF U = {} THEN c ELSE ApplyStored(g[U \ {Max(U)}], t[Max(U)])
    BY <1>3, <1>4, <2>1 DEF MaxFold
  <2>3. eq(g) BY <2>2
  <2> HIDE DEF eq
  <2> QED BY <2>3
<1>6. Computes(k, n, SoundChains, c, op)
  <2> HIDE DEF k, op
  <2>1. \A U \in SUBSET (1 .. n) :
            k[U] = IF U = {} THEN c ELSE ApplyStored(k[U \ {Max(U)}], t[Max(U)])
    BY <1>5
  <2> QED BY <1>3, <1>4, <2>1 DEF Computes
<1>7. PICK h : Run(h, n, SoundChains, c, k[1 .. n], op)
  <2> HIDE DEF n, op, k
  <2> QED BY <1>1, <1>3, <1>6, LeftFoldRun
<1> HIDE DEF op, k, n
<1>8. \A i \in 1 .. n : i - 1 \in 0 .. n BY <1>1
<1>9. /\ h[0] = c /\ h[n] = ReplayStored(c, t)
      /\ \A i \in 1 .. n : h[i] = ApplyStored(h[i - 1], t[i])
      /\ \A i \in 0 .. n : h[i] \in SoundChains
  BY <1>2, <1>3, <1>7, <1>8 DEF Run
<1> QED BY <1>9 DEF StoredSteps, n

\* A stored block that the chain accepts is applied.
LEMMA StoredAccepted ==
    ASSUME NEW c, NEW b, Accepts(c, b)
    PROVE  ApplyStored(c, b) = UpdateState(c, b)
<1> DEFINE all == ApplyInMemory(c, b, NoRows)
           applied == [kind |-> "Applied", chain |-> UpdateState(c, b), old |-> <<>>, new |-> <<b>>]
<1>1. all = {applied} BY DEF ApplyInMemory
<1>2. applied.chain = UpdateState(c, b) OBVIOUS
<1> HIDE DEF all, applied
<1>3. (CHOOSE r \in all : TRUE) = applied BY <1>1
<1> QED BY <1>2, <1>3 DEF ApplyStored, all

LEMMA ReplayClimbs ==
    ASSUME NEW P, Hereditary(P), NEW c \in P, WellFormed(c), NEW x \in Blocks, OnPath(c, x),
           c.orphan_pool = {}, NEW t, Ascending(t, x)
    PROVE  Reached(Replay(c, t), P, t, x)
<1> DEFINE n == Len(t)
<1>0. c \in SoundChains /\ t \in Seq(Mined) /\ t \in Seq(Blocks)
  <2>1. c \in SoundChains BY DEF SoundChains, WellFormed
  <2>2. t \in Seq(Mined) BY DEF Ascending
  <2>3. t \in Seq(Blocks) BY <2>2 DEF Mined
  <2> QED BY <2>1, <2>2, <2>3
<1>1. n \in Nat /\ DOMAIN t = 1 .. n /\ \A i \in 1 .. n : t[i] \in Mined BY <1>0
<1>2. PICK h : BlockSteps(h, c, t) BY <1>0, BlockRun
<1>3. h[0] = c /\ h[n] = Replay(c, t) /\ \A i \in 1 .. n : h[i] = ReplayBlock(h[i - 1], t[i])
  BY <1>2 DEF BlockSteps
<1> HIDE DEF n
<1> DEFINE Q == {i \in Nat : i <= n => Replayed(h[i], P, t, x, i)}
<1>4. 0 \in Q BY <1>3, ReplayedStart
<1>5. ASSUME NEW i \in Nat, i \in Q PROVE i + 1 \in Q
  <2>1. SUFFICES ASSUME i + 1 <= n PROVE Replayed(h[i + 1], P, t, x, i + 1) OBVIOUS
  <2> DEFINE d == h[i + 1]
             e == h[i]
             b == t[i + 1]
  <2>2. i + 1 \in 1 .. n /\ (i + 1) - 1 = i /\ i <= n BY <1>1, <2>1
  <2>3. Replayed(e, P, t, x, i) BY <1>5, <2>2
  <2>4. d = ReplayBlock(e, b) /\ b \in Mined BY <1>1, <1>3, <2>2
  <2>5. WellFormed(e) BY <2>3 DEF Replayed
  <2> HIDE DEF d, e, b
  <2>6. ASSUME NEW m, NEW y, Climbs(t, x, i, m, y), OnPath(e, y),
               \A o \in e.orphan_pool : Index[o] > Index[y] /\ Parent[o] # y, Index[b] > Index[y]
        PROVE  StepTo(e, b, d)
    BY <2>4 DEF StepTo, ReplayBlock
  <2>7. Replayed(d, P, t, x, i + 1) BY <2>1, <2>3, <2>6, ReplayedStep DEF b, n
  <2> QED BY <2>7 DEF d
<1>6. n \in Q
  <2>1. Nat \subseteq Q
    <3> HIDE DEF Q
    <3> QED BY <1>4, <1>5, NatSetInduction
  <2> QED BY <1>1, <2>1
<1>7. Replayed(Replay(c, t), P, t, x, n) BY <1>1, <1>3, <1>6
<1> QED BY <1>7 DEF Replayed, Reached, n

LEMMA ReplayStoredClimbs ==
    ASSUME NEW P, Hereditary(P), NEW c \in P, WellFormed(c), NEW x \in Blocks, OnPath(c, x),
           c.orphan_pool = {}, NEW t, Ascending(t, x)
    PROVE  Reached(ReplayStored(c, t), P, t, x)
<1> DEFINE n == Len(t)
<1>0. c \in SoundChains /\ t \in Seq(Mined) /\ t \in Seq(Blocks)
  <2>1. c \in SoundChains BY DEF SoundChains, WellFormed
  <2>2. t \in Seq(Mined) BY DEF Ascending
  <2>3. t \in Seq(Blocks) BY <2>2 DEF Mined
  <2> QED BY <2>1, <2>2, <2>3
<1>1. n \in Nat /\ DOMAIN t = 1 .. n /\ \A i \in 1 .. n : t[i] \in Mined BY <1>0
<1>2. PICK h : StoredSteps(h, c, t) BY <1>0, StoredRun
<1>3. h[0] = c /\ h[n] = ReplayStored(c, t) /\ \A i \in 1 .. n : h[i] = ApplyStored(h[i - 1], t[i])
  BY <1>2 DEF StoredSteps
<1> HIDE DEF n
<1> DEFINE Q == {i \in Nat : i <= n => Replayed(h[i], P, t, x, i)}
<1>4. 0 \in Q BY <1>3, ReplayedStart
<1>5. ASSUME NEW i \in Nat, i \in Q PROVE i + 1 \in Q
  <2>1. SUFFICES ASSUME i + 1 <= n PROVE Replayed(h[i + 1], P, t, x, i + 1) OBVIOUS
  <2> DEFINE d == h[i + 1]
             e == h[i]
             b == t[i + 1]
  <2>2. i + 1 \in 1 .. n /\ (i + 1) - 1 = i /\ i <= n BY <1>1, <2>1
  <2>3. Replayed(e, P, t, x, i) BY <1>5, <2>2
  <2>4. d = ApplyStored(e, b) /\ b \in Mined BY <1>1, <1>3, <2>2
  <2>5. WellFormed(e) BY <2>3 DEF Replayed
  <2> HIDE DEF d, e, b
  <2>6. ASSUME NEW m, NEW y, Climbs(t, x, i, m, y), OnPath(e, y),
               \A o \in e.orphan_pool : Index[o] > Index[y] /\ Parent[o] # y, Index[b] > Index[y]
        PROVE  StepTo(e, b, d)
    <3>1. y \in Blocks BY <2>6 DEF Climbs
    <3>2. CASE Accepts(e, b) BY <2>4, <3>2, StoredAccepted DEF StepTo
    <3>3. CASE ~Accepts(e, b)
      <4>1. ApplyStored(e, b) = e \/ (Pools(e, b, ApplyStored(e, b)) /\ Parent[b] # y)
        BY <2>4, <2>5, <2>6, <3>1, <3>3, NotExtending
      <4>2. Tip(e) = y BY <2>6, <3>1, OnPathAligned DEF Aligned
      <4> QED BY <2>4, <3>3, <4>1, <4>2 DEF StepTo
    <3> QED BY <3>2, <3>3
  <2>7. Replayed(d, P, t, x, i + 1) BY <2>1, <2>3, <2>6, ReplayedStep DEF b, n
  <2> QED BY <2>7 DEF d
<1>6. n \in Q
  <2>1. Nat \subseteq Q
    <3> HIDE DEF Q
    <3> QED BY <1>4, <1>5, NatSetInduction
  <2> QED BY <1>1, <2>1
<1>7. Replayed(ReplayStored(c, t), P, t, x, n) BY <1>1, <1>3, <1>6
<1> QED BY <1>7 DEF Replayed, Reached, n

-----------------------------------------------------------------------------
\* A path and the paths to its blocks.
LEMMA OwnPathFacts == \A y \in Blocks : OwnPath(y)
<1> DEFINE Q == {y \in Blocks : OwnPath(y)}
<1>1. Genesis \in Q
  <2>1. Index[Genesis] = 0 /\ PathTo[Genesis] = <<Genesis>> /\ Genesis \in Blocks
    BY IndexFacts, PathFacts, NodeAssumption
  <2>2. At(Genesis, 0) = Genesis BY <2>1 DEF At
  <2>3. \A i \in 0 .. Index[Genesis] : i = 0 /\ ~(i >= 1) /\ \A j \in 0 .. i : j = 0 BY <2>1
  <2>4. OwnPath(Genesis) BY <2>1, <2>2, <2>3 DEF OwnPath
  <2> QED BY <2>1, <2>4
<1>2. ASSUME NEW y \in Mined, Parent[y] \in Q PROVE y \in Q
  <2> DEFINE p == Parent[y]
             n == Index[p]
  <2>1. p \in Blocks /\ OwnPath(p) /\ y \in Blocks /\ y # Genesis BY <1>2 DEF Mined
  <2>2. n \in Nat /\ Index[y] = n + 1 BY <2>1, IndexFacts
  <2>3. PathTo[y] = Append(PathTo[p], y) /\ PathTo[p] \in Seq(Blocks) /\ Len(PathTo[p]) = n + 1
    BY <2>1, PathFacts DEF Leads
  <2>4. \A i \in 0 .. n : At(y, i) = At(p, i)
    <3>1. \A i \in 0 .. n : i + 1 \in 1 .. n + 1 BY <2>2
    <3> QED BY <2>3, <3>1 DEF At
  <2>5. At(y, n + 1) = y BY <2>2, <2>3 DEF At
  <2> HIDE DEF n, p
  <2>6. ASSUME NEW i \in 0 .. n + 1
        PROVE  /\ At(y, i) \in Blocks /\ Index[At(y, i)] = i
               /\ i >= 1 => At(y, i) \in Mined /\ Parent[At(y, i)] = At(y, i - 1)
               /\ \A j \in 0 .. i : At(At(y, i), j) = At(y, j)
    <3>1. CASE i = n + 1
      <4>1. At(y, i) = y /\ i - 1 = n /\ n \in 0 .. n /\ i \in Nat BY <2>2, <2>5, <3>1
      <4>2. At(y, n) = p BY <2>1, <2>4, <4>1 DEF OwnPath, n
      <4> QED BY <1>2, <2>1, <2>2, <3>1, <4>1, <4>2 DEF p
    <3>2. CASE i \in 0 .. n
      <4>1. At(y, i) = At(p, i) /\ \A j \in 0 .. i : j \in 0 .. n /\ At(y, j) = At(p, j) BY <2>2, <2>4, <3>2
      <4>2. /\ At(p, i) \in Blocks /\ Index[At(p, i)] = i
            /\ i >= 1 => At(p, i) \in Mined /\ Parent[At(p, i)] = At(p, i - 1)
            /\ \A j \in 0 .. i : At(At(p, i), j) = At(p, j)
        BY <2>1, <3>2 DEF OwnPath, n
      <4>3. i >= 1 => i - 1 \in 0 .. i BY <2>2, <3>2
      <4> QED BY <4>1, <4>2, <4>3
    <3> QED BY <2>2, <3>1, <3>2
  <2>7. At(y, 0) = Genesis
    <3>1. 0 \in 0 .. n BY <2>2
    <3> QED BY <2>1, <2>4, <3>1 DEF OwnPath
  <2>8. OwnPath(y) BY <2>2, <2>5, <2>6, <2>7 DEF OwnPath
  <2> QED BY <2>1, <2>8
<1>3. Blocks \subseteq Q
  <2> HIDE DEF Q
  <2> QED BY <1>1, <1>2, TreeInduction
<1> QED BY <1>3

LEMMA ChainedUp ==
    ASSUME NEW t, NEW x, NEW m, NEW y, Chained(t, x, m, y)
    PROVE  /\ y \in Blocks /\ Index[y] = Index[x] + m
           /\ \A i \in 1 .. m : Index[t[i]] = Index[x] + i
<1>1. /\ m \in Nat /\ x \in Blocks /\ Index[x] \in Nat /\ y = IF m = 0 THEN x ELSE t[m]
      /\ \A i \in 1 .. m : t[i] \in Mined /\ Parent[t[i]] = IF i = 1 THEN x ELSE t[i - 1]
  BY IndexFacts DEF Chained
<1> DEFINE Q == {i \in Nat : i \in 1 .. m => Index[t[i]] = Index[x] + i}
<1>2. 0 \in Q OBVIOUS
<1>3. ASSUME NEW i \in Nat, i \in Q PROVE i + 1 \in Q
  <2>1. SUFFICES ASSUME i + 1 \in 1 .. m PROVE Index[t[i + 1]] = Index[x] + (i + 1) OBVIOUS
  <2>2. t[i + 1] \in Mined /\ Index[t[i + 1]] = Index[Parent[t[i + 1]]] + 1 BY <1>1, <2>1, IndexFacts
  <2>3. CASE i = 0
    <3>1. Parent[t[i + 1]] = x BY <1>1, <2>1, <2>3
    <3> QED BY <1>1, <2>2, <2>3, <3>1
  <2>4. CASE i # 0
    <3>1. i \in 1 .. m /\ i + 1 # 1 /\ (i + 1) - 1 = i BY <1>1, <2>1, <2>4
    <3>2. Parent[t[i + 1]] = t[i] /\ Index[t[i]] = Index[x] + i BY <1>1, <1>3, <2>1, <3>1
    <3> QED BY <1>1, <2>2, <3>2
  <2> QED BY <2>3, <2>4
<1>4. Nat \subseteq Q
  <2> HIDE DEF Q
  <2> QED BY <1>2, <1>3, NatSetInduction
<1>5. \A i \in 1 .. m : i \in Nat /\ Index[t[i]] = Index[x] + i BY <1>4
<1>6. CASE m = 0 BY <1>1, <1>5, <1>6
<1>7. CASE m # 0
  <2>1. m \in 1 .. m BY <1>1, <1>7
  <2> QED BY <1>1, <1>5, <1>7, <2>1 DEF Mined
<1> QED BY <1>6, <1>7

\* So the path to y is the path to x and then t.
LEMMA ChainedPath ==
    ASSUME NEW t, NEW x, NEW m, NEW y, Chained(t, x, m, y)
    PROVE  /\ y \in Blocks /\ Index[y] = Index[x] + m
           /\ \A i \in 1 .. m : At(y, Index[x] + i) = t[i]
           /\ \A i \in 0 .. Index[x] : At(y, i) = At(x, i)
<1> DEFINE u(i) == IF i = 0 THEN x ELSE t[i]
           h(r) == Index[x] + (m - r)
           Q == {r \in Nat : r <= m => At(y, h(r)) = u(m - r)}
<1>1. /\ m \in Nat /\ x \in Blocks /\ y = u(m)
      /\ \A i \in 1 .. m : t[i] \in Mined /\ Parent[t[i]] = IF i = 1 THEN x ELSE t[i - 1]
  BY DEF Chained
<1>2. y \in Blocks /\ Index[y] = Index[x] + m /\ Index[x] \in Nat /\ Index[y] \in Nat
  BY <1>1, ChainedUp, IndexFacts
<1>3. OwnPath(y) /\ OwnPath(x) BY <1>1, <1>2, OwnPathFacts
<1>4. \A i \in 1 .. m : Parent[u(i)] = u(i - 1)
  <2>1. \A i \in 1 .. m : i # 0 /\ (i = 1 <=> i - 1 = 0) BY <1>1
  <2> QED BY <1>1, <2>1
<1> HIDE DEF u
<1>5. 0 \in Q
  <2>1. h(0) = Index[y] /\ m - 0 = m BY <1>1, <1>2
  <2> QED BY <1>1, <1>3, <2>1 DEF OwnPath
<1>6. ASSUME NEW r \in Nat, r \in Q PROVE r + 1 \in Q
  <2>1. SUFFICES ASSUME r + 1 <= m PROVE At(y, h(r + 1)) = u(m - (r + 1)) OBVIOUS
  <2>2. /\ r <= m /\ h(r) \in 0 .. Index[y] /\ h(r) >= 1 /\ h(r) - 1 = h(r + 1)
        /\ m - r \in 1 .. m /\ m - (r + 1) = (m - r) - 1
    BY <1>1, <1>2, <2>1
  <2>3. At(y, h(r)) = u(m - r) BY <1>6, <2>2
  <2>4. Parent[At(y, h(r))] = At(y, h(r) - 1) BY <1>3, <2>2 DEF OwnPath
  <2>5. Parent[u(m - r)] = u((m - r) - 1) BY <1>4, <2>2
  <2> HIDE DEF h
  <2> QED BY <2>2, <2>3, <2>4, <2>5
<1>7. Nat \subseteq Q
  <2> HIDE DEF Q
  <2> QED BY <1>5, <1>6, NatSetInduction
<1>8. \A i \in 0 .. m : At(y, Index[x] + i) = u(i)
  <2>1. SUFFICES ASSUME NEW i \in 0 .. m PROVE At(y, Index[x] + i) = u(i) OBVIOUS
  <2> DEFINE r == m - i
  <2>2. r \in Nat /\ r <= m /\ m - r = i /\ Index[x] + (m - r) = Index[x] + i BY <1>1, <1>2
  <2> HIDE DEF r
  <2>3. At(y, h(r)) = u(m - r) BY <1>7, <2>2
  <2> QED BY <2>2, <2>3
<1>9. ASSUME NEW i \in 0 .. Index[x] PROVE At(y, i) = At(x, i)
  <2>1. At(y, Index[x] + 0) = u(0) /\ Index[x] + 0 = Index[x] /\ Index[x] \in 0 .. Index[y]
    BY <1>1, <1>2, <1>8
  <2>2. At(y, Index[x]) = x BY <2>1 DEF u
  <2>3. At(At(y, Index[x]), i) = At(y, i) BY <1>3, <2>1 DEF OwnPath
  <2> QED BY <2>2, <2>3
<1>10. \A i \in 1 .. m : i \in 0 .. m /\ i # 0 BY <1>1
<1> QED BY <1>2, <1>8, <1>9, <1>10 DEF u

-----------------------------------------------------------------------------
\* The rows above a height.
LEMMA TailListed ==
    ASSUME NEW table, RowsPlaced(table), NEW to \in Heights, NEW s, ListsRows(s, table, 0, to)
    PROVE  ListsRows(Tail(s), table, 1, to)
<1> DEFINE n == Len(s)
           t == Tail(s)
<1>0. to \in Nat /\ \A i \in 0 .. to : i \in Heights BY HeightsFacts
<1>1. /\ n \in Nat /\ s \in Seq(Blocks) /\ \A k \in 1 .. n : s[k] \in Blocks
      /\ \A k \in 1 .. n : Index[s[k]] \in 0 .. to /\ table[Index[s[k]]] = s[k]
      /\ \A j, k \in 1 .. n : j < k => Index[s[j]] < Index[s[k]]
      /\ \A i \in 0 .. to : table[i] # NoBlock => \E k \in 1 .. n : s[k] = table[i]
  BY DEF ListsRows
<1>2. table[0] = Genesis /\ Genesis # NoBlock /\ Index[Genesis] = 0 /\ 0 \in 0 .. to
  BY <1>0, IndexFacts, NodeAssumption DEF RowsPlaced
<1>3. PICK g \in 1 .. n : s[g] = Genesis BY <1>1, <1>2
<1>4. g = 1
  <2>1. SUFFICES ASSUME g # 1 PROVE FALSE OBVIOUS
  <2>2. 1 \in 1 .. n /\ 1 < g BY <1>1, <2>1
  <2> HIDE DEF n
  <2>3. Index[s[1]] < 0 /\ Index[s[1]] \in 0 .. to BY <1>1, <1>2, <1>3, <2>2
  <2> QED BY <2>3
<1>5. n >= 1 /\ s # <<>> BY <1>1, <1>3
<1>6. t \in Seq(Blocks) /\ Len(t) = n - 1 /\ \A k \in 1 .. n - 1 : t[k] = s[k + 1] BY <1>1, <1>5
<1> HIDE DEF t, n
<1>7. \A k \in 1 .. n - 1 : k + 1 \in 1 .. n /\ 1 \in 1 .. n /\ 1 < k + 1 BY <1>1
<1>8. ASSUME NEW k \in 1 .. n - 1 PROVE Index[t[k]] \in 1 .. to /\ table[Index[t[k]]] = t[k]
  <2>1. Index[s[1]] < Index[s[k + 1]] /\ Index[s[1]] = 0 /\ Index[s[k + 1]] \in 0 .. to
    BY <1>1, <1>2, <1>3, <1>4, <1>7
  <2>2. table[Index[s[k + 1]]] = s[k + 1] /\ t[k] = s[k + 1] BY <1>1, <1>6, <1>7
  <2> QED BY <2>1, <2>2
<1>9. ASSUME NEW j \in 1 .. n - 1, NEW k \in 1 .. n - 1, j < k PROVE Index[t[j]] < Index[t[k]]
  <2>1. j + 1 \in 1 .. n /\ k + 1 \in 1 .. n /\ j + 1 < k + 1 BY <1>1, <1>9
  <2> QED BY <1>1, <1>6, <2>1
<1>10. ASSUME NEW i \in 1 .. to, table[i] # NoBlock PROVE \E k \in 1 .. n - 1 : t[k] = table[i]
  <2>1. i \in 0 .. to /\ i # 0 /\ i \in Nat BY <1>0
  <2>2. PICK k \in 1 .. n : s[k] = table[i] BY <1>1, <1>10, <2>1
  <2>3. k # 1
    <3>1. Index[table[i]] = i BY <1>0, <1>10, <2>1 DEF RowsPlaced
    <3> QED BY <1>2, <1>3, <1>4, <2>1, <2>2, <3>1
  <2>4. k - 1 \in 1 .. n - 1 /\ (k - 1) + 1 = k BY <1>1, <2>3
  <2> QED BY <1>6, <2>2, <2>4
<1>11. ListsRows(t, table, 1, to) BY <1>6, <1>8, <1>9, <1>10 DEF ListsRows
<1> QED BY <1>11 DEF t

LEMMA ListedAscending ==
    ASSUME NEW table, NEW x \in Blocks, NEW to, NEW t, ListsRows(t, table, Index[x] + 1, to)
    PROVE  Ascending(t, x)
<1>1. Index[x] \in Nat BY IndexFacts
<1>2. /\ t \in Seq(Blocks) /\ \A k \in 1 .. Len(t) : Index[t[k]] \in Index[x] + 1 .. to
      /\ \A j, k \in 1 .. Len(t) : j < k => Index[t[j]] < Index[t[k]]
  BY DEF ListsRows
<1>3. \A k \in 1 .. Len(t) : Index[t[k]] > Index[x] BY <1>1, <1>2
<1>4. \A k \in 1 .. Len(t) : t[k] \in Mined
  <2>1. \A k \in 1 .. Len(t) : t[k] \in Blocks /\ t[k] # Genesis BY <1>1, <1>2, <1>3, IndexFacts
  <2> QED BY <2>1 DEF Mined
<1>5. t \in Seq(Mined) BY <1>2, <1>4
<1> QED BY <1>2, <1>3, <1>5 DEF Ascending

\* A list that climbs leads from x to y.
LEMMA ClimbsChained ==
    ASSUME NEW t, NEW x \in Blocks, Ascending(t, x), NEW m, NEW y, Climbs(t, x, Len(t), m, y)
    PROVE  Chained(t, x, m, y) /\ \A i \in 1 .. m : i \in 1 .. Len(t) /\ t[i] \notin Invalid
<1>1. m \in 0 .. Len(t) /\ Len(t) \in Nat /\ \A i \in 1 .. Len(t) : t[i] \in Mined BY DEF Climbs, Ascending
<1>2. m \in Nat /\ \A i \in 1 .. m : i \in 1 .. Len(t) BY <1>1
<1> QED BY <1>1, <1>2 DEF Climbs, Extends, Chained

LEMMA ReachedRows ==
    ASSUME NEW table, RowsPlaced(table), NEW x \in Blocks,
           NEW t, ListsRows(t, table, Index[x] + 1, MaxIndex), NEW m, NEW y, Climbs(t, x, Len(t), m, y)
    PROVE  LoadedTo(table, x, y)
<1>1. Ascending(t, x) BY ListedAscending
<1>2. Chained(t, x, m, y) /\ \A i \in 1 .. m : i \in 1 .. Len(t) /\ t[i] \notin Invalid BY <1>1, ClimbsChained
<1>3. /\ y \in Blocks /\ Index[y] = Index[x] + m
      /\ \A i \in 1 .. m : At(y, Index[x] + i) = t[i]
      /\ \A i \in 0 .. Index[x] : At(y, i) = At(x, i)
  BY <1>2, ChainedPath
<1>4. \A i \in 1 .. m : Index[t[i]] = Index[x] + i BY <1>2, ChainedUp
<1>5. m \in Nat /\ Index[x] \in Nat /\ Len(t) \in Nat /\ m <= Len(t) BY <1>1, IndexFacts DEF Climbs, Ascending
<1>6. ASSUME NEW i \in Index[x] + 1 .. Index[y] PROVE table[i] = At(y, i) /\ At(y, i) \notin Invalid
  <2> DEFINE j == i - Index[x]
  <2>1. j \in 1 .. m /\ Index[x] + j = i BY <1>3, <1>5
  <2> HIDE DEF j
  <2>2. At(y, i) = t[j] /\ Index[t[j]] = i /\ j \in 1 .. Len(t) /\ t[j] \notin Invalid
    BY <1>2, <1>3, <1>4, <2>1
  <2>3. table[Index[t[j]]] = t[j] BY <2>2 DEF ListsRows
  <2> QED BY <2>2, <2>3
<1>7. ASSUME NEW z \in Mined, Index[z] = Index[y] + 1, table[Index[z]] = z PROVE ~Extends(z, y)
  <2>1. Index[z] \in Index[x] + 1 .. MaxIndex /\ z # NoBlock /\ z \in Blocks
    <3>1. z \in Blocks /\ z # NoBlock BY NodeAssumption DEF Mined
    <3>2. Index[z] \in 0 .. MaxIndex /\ MaxIndex \in Nat BY <3>1, HeightsFacts
    <3> QED BY <1>3, <1>5, <1>7, <3>1, <3>2
  <2>2. PICK k \in 1 .. Len(t) : t[k] = z BY <1>7, <2>1 DEF ListsRows
  <2>3. Index[t[k]] >= Index[x] + k BY <1>1, AscendingFacts
  <2>4. k <= m + 1 BY <1>3, <1>5, <1>7, <2>2, <2>3
  <2>5. k # m + 1 => k \in 1 .. m BY <1>5, <2>4
  <2>6. k = m + 1
    <3>1. SUFFICES ASSUME k \in 1 .. m PROVE FALSE BY <2>5
    <3>2. Index[z] = Index[x] + k BY <1>4, <2>2, <3>1
    <3> QED BY <1>3, <1>5, <1>7, <3>1, <3>2
  <2>7. m < Len(t) BY <1>5, <2>2, <2>6
  <2> QED BY <2>2, <2>6, <2>7 DEF Climbs
<1>8. Index[x] <= Index[y] BY <1>3, <1>5
<1> QED BY <1>3, <1>6, <1>7, <1>8 DEF LoadedTo

-----------------------------------------------------------------------------
\* Loading a checkpoint and the rows above it.
LEMMA LoadedReaches ==
    ASSUME NEW d, Stored(d), NEW P, Hereditary(P),
           UsesCheckpoint(d) => RestoreFromCheckpoint(LatestCheckpoint(d)) \in P,
           ~UsesCheckpoint(d) => GenesisChain \in P
    PROVE  /\ Loaded(d) \in P /\ WellFormed(Loaded(d)) /\ Base(d) \in Blocks
           /\ \E y : LoadedTo(d.BLOCKS, Base(d), y) /\ OnPath(Loaded(d), y)
<1> DEFINE table == d.BLOCKS
           x == Base(d)
           c == Loaded(d)
           Done(t) == x \in Blocks /\ ListsRows(t, table, Index[x] + 1, MaxIndex) /\ Reached(c, P, t, x)
<1>1. RowsPlaced(table) /\ MaxIndex \in Nat /\ MaxIndex \in Heights BY HeightsFacts DEF Stored
<1>2. ASSUME UsesCheckpoint(d) PROVE \E t : Done(t)
  <2> DEFINE cp == LatestCheckpoint(d)
             base == RestoreFromCheckpoint(cp)
             t == Rows(table, cp.height + 1, MaxIndex)
  <2>1. Consistent(cp) /\ x = cp.block_hash BY <1>2, LatestStored DEF UsesCheckpoint, Stored, Base
  <2>2. x \in Blocks /\ cp.height = Index[x] /\ Index[x] \in Nat
    BY <2>1, IndexFacts DEF Consistent, CheckpointStates
  <2>3. WellFormed(base) /\ base.orphan_pool = {} /\ Tip(base) = x
    <3>1. base.blocks = <<cp.block_hash>> /\ base.orphan_pool = {} BY DEF RestoreFromCheckpoint
    <3>2. Tip(base) = cp.block_hash BY <3>1 DEF Tip, Last
    <3>3. WellFormed(base) BY <2>1, RestoreSound DEF SoundChains
    <3> QED BY <2>1, <3>1, <3>2, <3>3
  <2>4. c = ReplayStored(base, t) /\ base \in P BY <1>2 DEF Loaded
  <2> HIDE DEF x, c, base, cp, table
  <2>5. OnPath(base, x)
    <3>1. PICK b \in Blocks : OnPath(base, b) BY <2>3 DEF WellFormed
    <3>2. Tip(base) = b BY <3>1, OnPathAligned DEF Aligned
    <3> QED BY <2>3, <3>1, <3>2
  <2>6. ListsRows(t, table, Index[x] + 1, MaxIndex)
    <3>1. Index[x] + 1 \in Nat /\ MaxIndex \in Int /\ MaxIndex <= MaxIndex BY <1>1, <2>2
    <3> QED BY <1>1, <2>2, <3>1, RowsListed
  <2> HIDE DEF t
  <2>7. Ascending(t, x) BY <2>2, <2>6, ListedAscending
  <2>8. Reached(c, P, t, x) BY <2>2, <2>3, <2>4, <2>5, <2>7, ReplayStoredClimbs
  <2> QED BY <2>2, <2>6, <2>8
<1>3. ASSUME ~UsesCheckpoint(d) PROVE \E t : Done(t)
  <2> DEFINE s == Rows(table, 0, MaxIndex)
             t == Tail(s)
  <2>1. x = Genesis /\ x \in Blocks /\ Index[x] = 0 /\ 0 + 1 = 1 BY <1>3, NodeAssumption, IndexFacts DEF Base
  <2>2. c = ReplayStored(GenesisChain, t) /\ GenesisChain \in P BY <1>3 DEF Loaded
  <2>3. WellFormed(GenesisChain) /\ OnPath(GenesisChain, x) /\ GenesisChain.orphan_pool = {}
    BY <2>1, GenesisWellFormed DEF GenesisChain
  <2> HIDE DEF x, c, table
  <2>4. ListsRows(t, table, Index[x] + 1, MaxIndex)
    <3>1. ListsRows(s, table, 0, MaxIndex) BY <1>1, RowsListed
    <3> HIDE DEF s
    <3>2. ListsRows(t, table, 1, MaxIndex) BY <1>1, <3>1, TailListed
    <3> QED BY <2>1, <3>2
  <2> HIDE DEF t
  <2>5. Ascending(t, x) BY <2>1, <2>4, ListedAscending
  <2>6. Reached(c, P, t, x) BY <2>1, <2>2, <2>3, <2>5, ReplayStoredClimbs
  <2> QED BY <2>1, <2>4, <2>6
<1>4. PICK t : Done(t) BY <1>2, <1>3
<1> HIDE DEF x, c, table
<1>5. PICK m, y : Climbs(t, x, Len(t), m, y) /\ OnPath(c, y) BY <1>4 DEF Reached
<1>6. LoadedTo(table, x, y) BY <1>1, <1>4, <1>5, ReachedRows
<1>7. c \in P /\ WellFormed(c) BY <1>4 DEF Reached
<1> QED BY <1>4, <1>5, <1>6, <1>7 DEF x, c, table

LEMMA BaseHeld ==
    ASSUME NEW d, Stored(d), CheckpointRows(d)
    PROVE  /\ UsesCheckpoint(d) <=> d.CHECKPOINTS # {}
           /\ HoldsPath(d.BLOCKS, Base(d)) /\ Valid(Base(d))
<1>1. RowsPlaced(d.BLOCKS) BY DEF Stored
<1>2. CASE d.CHECKPOINTS # {}
  <2> DEFINE cp == LatestCheckpoint(d)
             x == cp.block_hash
  <2>1. cp \in d.CHECKPOINTS BY <1>2, LatestStored
  <2>2. HoldsPath(d.BLOCKS, x) /\ Valid(x) BY <2>1 DEF CheckpointRows
  <2>3. x \in Blocks /\ cp.height = Index[x] /\ Index[x] \in Nat
    BY <2>1, IndexFacts DEF Stored, Consistent, CheckpointStates
  <2>4. d.BLOCKS[cp.height] = x
    <3>1. OwnPath(x) /\ Index[x] \in 0 .. Index[x] BY <2>3, OwnPathFacts
    <3> QED BY <2>2, <2>3, <3>1 DEF HoldsPath, OwnPath
  <2>5. UsesCheckpoint(d) BY <1>2, <2>4 DEF UsesCheckpoint
  <2> QED BY <1>2, <2>2, <2>5 DEF Base
<1>3. CASE d.CHECKPOINTS = {}
  <2>1. ~UsesCheckpoint(d) /\ Base(d) = Genesis BY <1>3 DEF UsesCheckpoint, Base
  <2>2. Index[Genesis] = 0 /\ OwnPath(Genesis) BY IndexFacts, OwnPathFacts, NodeAssumption
  <2>3. HoldsPath(d.BLOCKS, Genesis) /\ Valid(Genesis)
    <3>1. \A i \in 0 .. 0 : i = 0 OBVIOUS
    <3>2. 1 .. 0 = {} OBVIOUS
    <3> QED BY <1>1, <2>2, <3>1, <3>2 DEF HoldsPath, Valid, RowsPlaced, OwnPath
  <2> QED BY <1>3, <2>1, <2>3
<1> QED BY <1>2, <1>3

\* What climbs from a path that the rows hold is held too.
LEMMA LoadedHeld ==
    ASSUME NEW table, NEW x \in Blocks, HoldsPath(table, x), Valid(x), NEW y, LoadedTo(table, x, y)
    PROVE  HoldsPath(table, y) /\ Valid(y)
<1>1. y \in Blocks /\ Index[x] \in Nat /\ Index[y] \in Nat /\ Index[x] <= Index[y] BY IndexFacts DEF LoadedTo
<1>2. \A i \in 0 .. Index[y] : i \in 0 .. Index[x] \/ i \in Index[x] + 1 .. Index[y] BY <1>1
<1>3. \A i \in 1 .. Index[y] : i \in 0 .. Index[y] /\ (i \in 0 .. Index[x] => i \in 1 .. Index[x]) BY <1>1
<1> QED BY <1>2, <1>3 DEF HoldsPath, Valid, LoadedTo

-----------------------------------------------------------------------------
\* A list of rows of which none is empty is the rows one by one.
LEMMA FullRows ==
    ASSUME NEW table, NEW s, NEW to \in Int, to + 1 \in Nat, ListsRows(s, table, 0, to),
           \A i \in 0 .. to : table[i] # NoBlock /\ Index[table[i]] = i
    PROVE  Len(s) = to + 1 /\ \A k \in 1 .. to + 1 : s[k] = table[k - 1]
<1> DEFINE n == Len(s)
           Q == {k \in Nat : k \in 1 .. to + 1 => k <= n /\ Index[s[k]] = k - 1 /\ s[k] = table[k - 1]}
<1>1. /\ n \in Nat /\ \A k \in 1 .. n : s[k] \in Blocks /\ Index[s[k]] \in Nat
      /\ \A k \in 1 .. n : Index[s[k]] \in 0 .. to
      /\ \A j, k \in 1 .. n : j < k => Index[s[j]] < Index[s[k]]
      /\ \A i \in 0 .. to : \E k \in 1 .. n : s[k] = table[i]
  BY DEF ListsRows
<1> HIDE DEF n
<1>2. 0 \in Q OBVIOUS
<1>3. ASSUME NEW k \in Nat, k \in Q PROVE k + 1 \in Q
  <2>1. SUFFICES ASSUME k + 1 \in 1 .. to + 1
                 PROVE  k + 1 <= n /\ Index[s[k + 1]] = (k + 1) - 1 /\ s[k + 1] = table[(k + 1) - 1]
    OBVIOUS
  <2>2. k \in 0 .. to /\ (k + 1) - 1 = k BY <2>1
  <2>3. PICK j \in 1 .. n : s[j] = table[k] BY <1>1, <2>2
  <2>4. Index[s[j]] = k BY <2>2, <2>3
  <2>5. j >= k + 1
    <3>1. CASE k = 0 BY <2>3, <3>1
    <3>2. CASE k # 0
      <4>1. k \in 1 .. n /\ Index[s[k]] = k - 1 BY <1>3, <2>1, <3>2
      <4>2. CASE j < k
        <5>1. Index[s[j]] < Index[s[k]] BY <1>1, <2>3, <4>1, <4>2
        <5> QED BY <2>4, <4>1, <5>1
      <4>3. CASE j = k BY <2>4, <4>1, <4>3
      <4> QED BY <2>3, <4>1, <4>2, <4>3
    <3> QED BY <3>1, <3>2
  <2>6. k + 1 \in 1 .. n BY <1>1, <2>3, <2>5
  <2>7. j = k + 1
    <3>1. SUFFICES ASSUME k + 1 < j PROVE FALSE BY <1>1, <2>3, <2>5
    <3>2. Index[s[k + 1]] < Index[s[j]] /\ Index[s[k + 1]] \in Nat BY <1>1, <2>3, <2>6, <3>1
    <3>3. CASE k = 0 BY <2>4, <3>2, <3>3
    <3>4. CASE k # 0
      <4>1. k \in 1 .. n /\ Index[s[k]] = k - 1 /\ k < k + 1 BY <1>3, <2>1, <3>4
      <4>2. Index[s[k]] < Index[s[k + 1]] BY <1>1, <2>6, <4>1
      <4> QED BY <2>4, <3>2, <4>1, <4>2
    <3> QED BY <3>3, <3>4
  <2> QED BY <1>1, <2>2, <2>3, <2>4, <2>6, <2>7
<1>4. Nat \subseteq Q
  <2> HIDE DEF Q
  <2> QED BY <1>2, <1>3, NatSetInduction
<1>5. \A k \in 1 .. to + 1 : k \in Nat /\ k <= n /\ Index[s[k]] = k - 1 /\ s[k] = table[k - 1] BY <1>4
<1>6. n = to + 1
  <2>1. n >= to + 1
    <3>1. CASE to + 1 = 0 BY <1>1, <3>1
    <3>2. CASE to + 1 # 0
      <4>1. to + 1 \in 1 .. to + 1 BY <3>2
      <4> QED BY <1>5, <4>1
    <3> QED BY <3>1, <3>2
  <2>2. SUFFICES ASSUME n > to + 1 PROVE FALSE BY <1>1, <2>1
  <2>3. to + 2 \in 1 .. n BY <1>1, <2>2
  <2>4. Index[s[to + 2]] \in 0 .. to BY <1>1, <2>3
  <2>5. to + 1 \in 1 .. to + 1 /\ to + 1 \in 1 .. n /\ to + 1 < to + 2 BY <1>1, <2>2, <2>4
  <2>6. Index[s[to + 1]] < Index[s[to + 2]] /\ Index[s[to + 1]] = (to + 1) - 1 BY <1>1, <1>5, <2>3, <2>5
  <2> QED BY <2>4, <2>6
<1> QED BY <1>5, <1>6 DEF n

-----------------------------------------------------------------------------
\* The fork that is chosen, and what it displaces.
LEMMA BestFork ==
    ASSUME NEW c, WellFormed(c), NEW x \in Blocks, OnPath(c, x), NEW table, HoldsPath(table, x),
           NEW f \in BestForks(c, table)
    PROVE  \E z : Forks(x, f, z)
<1> DEFINE tips == {o \in c.orphan_pool : \A p \in c.orphan_pool : Parent[p] # o}
           b == f[1]
           p == Parent[b]
           a == Ancestor(f)
           n == Len(f)
<1>1. f \in {ForkChain(c.orphan_pool, t) : t \in tips} /\ HasAncestor(c, f, table)
  BY DEF BestForks, HeavierForks
<1>2. PICK z \in tips : f = ForkChain(c.orphan_pool, z) BY <1>1
<1>3. c.orphan_pool \in SUBSET Mined /\ z \in c.orphan_pool BY <1>2 DEF WellFormed, Chains
<1>4. ForkTo(f, c.orphan_pool, z) BY <1>2, <1>3, ForkLinked
<1>5. f \in Seq(Mined) /\ n \in Nat /\ n >= 1 /\ f[n] = z /\ \A i \in 2 .. n : Parent[f[i]] = f[i - 1]
  <2>1. f \in Seq(c.orphan_pool) BY <1>4 DEF ForkTo
  <2>2. f \in Seq(Mined) BY <1>3, <2>1
  <2> QED BY <1>4, <2>2 DEF ForkTo, Linked
<1>6. \A i \in 1 .. n : f[i] \in Mined BY <1>5
<1> HIDE DEF n
<1>7. b \in Mined /\ p \in Blocks /\ Index[b] = Index[p] + 1 /\ Index[p] \in Nat /\ a = Index[p]
  <2>1. b \in Mined BY <1>5, <1>6
  <2>2. p \in Blocks /\ Index[b] = Index[p] + 1 /\ Index[p] \in Nat BY <2>1, IndexFacts, NodeAssumption
  <2> QED BY <2>1, <2>2 DEF Ancestor
<1>8. Chained(f, p, n, z)
  <2>1. n # 0 /\ 1 \in 1 .. n /\ \A i \in 1 .. n : i = 1 \/ i \in 2 .. n BY <1>5
  <2>2. \A i \in 1 .. n : Parent[f[i]] = IF i = 1 THEN p ELSE f[i - 1] BY <1>5, <2>1
  <2> QED BY <1>5, <1>6, <1>7, <2>1, <2>2 DEF Chained
<1>9. /\ z \in Blocks /\ Index[z] = Index[p] + n
      /\ \A i \in 1 .. n : At(z, Index[p] + i) = f[i]
      /\ \A i \in 0 .. Index[p] : At(z, i) = At(p, i)
      /\ \A i \in 1 .. n : Index[f[i]] = Index[p] + i
  BY <1>8, ChainedPath, ChainedUp
<1>10. a \in 0 .. Index[x] /\ p = At(x, a)
  <2>1. Aligned(c, x) /\ Index[x] \in Nat /\ OwnPath(x) BY OnPathAligned, IndexFacts, OwnPathFacts
  <2>2. CASE p \in c.block_hashes
    <3> DEFINE l == Len(c.blocks)
    <3>1. /\ l \in Nat /\ DOMAIN c.blocks = 1 .. l /\ l = Index[x] - c.blocks_offset + 1
          /\ c.blocks_offset \in Nat
          /\ \A i \in 1 .. l : c.blocks[i] = PathTo[x][c.blocks_offset + i]
          /\ \A i \in 1 .. l : Index[c.blocks[i]] = c.blocks_offset + i - 1
      BY <2>1 DEF Aligned
    <3>2. p \in Elements(c.blocks) BY <2>2 DEF WellFormed
    <3>3. PICK i \in 1 .. l : p = c.blocks[i] BY <3>1, <3>2 DEF Elements
    <3> HIDE DEF l, p, a
    <3>4. a = c.blocks_offset + i - 1 /\ c.blocks_offset + i = a + 1 /\ a \in 0 .. Index[x]
      BY <1>7, <2>1, <3>1, <3>3
    <3>5. p = PathTo[x][a + 1] BY <3>1, <3>3, <3>4
    <3> QED BY <3>4, <3>5 DEF At
  <2>3. CASE p \notin c.block_hashes
    <3>1. Index[b] - 1 < c.blocks_offset /\ table[Index[b] - 1] = p BY <1>1, <2>3 DEF HasAncestor
    <3>2. Index[b] - 1 = a /\ c.blocks_offset <= Index[x] /\ c.blocks_offset \in Nat BY <1>7, <2>1 DEF Aligned
    <3> HIDE DEF a, b
    <3>3. a \in 0 .. Index[x] BY <1>7, <2>1, <3>1, <3>2
    <3>4. table[a] = At(x, a) BY <3>3 DEF HoldsPath
    <3> QED BY <3>1, <3>2, <3>3, <3>4
  <2> QED BY <2>2, <2>3
<1>11. \A i \in 0 .. a : At(p, i) = At(x, i)
  <2>1. OwnPath(x) BY OwnPathFacts
  <2> QED BY <1>10, <2>1 DEF OwnPath
<1> HIDE DEF p, a
<1>12. Forks(x, f, z) BY <1>5, <1>7, <1>9, <1>10, <1>11 DEF Forks, a, n
<1> QED BY <1>12

-----------------------------------------------------------------------------
\* Ends of paths.
LEMMA PathJoins ==
    ASSUME NEW z \in Blocks, NEW o \in Nat, NEW u \in Nat, o <= u, u <= Index[z] + 1,
           NEW s \in Seq(Blocks), Len(s) = u - o, \A i \in 1 .. Len(s) : s[i] = At(z, o + (i - 1)),
           NEW t, PathFrom(t, z, u)
    PROVE  PathFrom(s \o t, z, o)
<1> DEFINE r == s \o t
           m == Len(s)
           n == Len(t)
<1>1. /\ m \in Nat /\ n \in Nat /\ m = u - o /\ n = Index[z] + 1 - u /\ t \in Seq(Blocks)
      /\ Index[z] \in Nat
      /\ \A i \in 1 .. n : t[i] = At(z, u + (i - 1))
      /\ \A i \in 1 .. m : s[i] = At(z, o + (i - 1))
  BY IndexFacts DEF PathFrom
<1>2. /\ r \in Seq(Blocks) /\ Len(r) = m + n
      /\ \A i \in 1 .. m : r[i] = s[i]
      /\ \A i \in 1 .. n : r[m + i] = t[i]
  <2>0. t \in Seq(Blocks) BY <1>1
  <2>1. /\ r \in Seq(Blocks) /\ Len(r) = m + n
        /\ \A i \in 1 .. m + n : r[i] = IF i <= m THEN s[i] ELSE t[i - m]
    BY <2>0, ConcatProperties
  <2>2. \A i \in 1 .. m + n : r[i] = IF i <= m THEN s[i] ELSE t[i - m] BY <2>1
  <2> HIDE DEF m, n, r
  <2>3. \A i \in 1 .. m : i \in 1 .. m + n /\ i <= m BY <1>1
  <2>4. \A i \in 1 .. n : m + i \in 1 .. m + n /\ ~(m + i <= m) /\ (m + i) - m = i BY <1>1
  <2> QED BY <2>1, <2>2, <2>3, <2>4
<1> HIDE DEF m, n, r
<1>3. ASSUME NEW i \in 1 .. m + n PROVE r[i] = At(z, o + (i - 1))
  <2>1. CASE i \in 1 .. m BY <1>1, <1>2, <2>1
  <2>2. CASE i \notin 1 .. m
    <3> DEFINE j == i - m
    <3>1. j \in 1 .. n /\ m + j = i /\ u + (j - 1) = o + (i - 1) BY <1>1, <2>2
    <3> HIDE DEF j
    <3>2. r[m + j] = t[j] /\ t[j] = At(z, u + (j - 1)) BY <1>1, <1>2, <3>1
    <3> QED BY <3>1, <3>2
  <2> QED BY <2>1, <2>2
<1>4. m + n = Index[z] + 1 - o BY <1>1
<1>5. PathFrom(r, z, o) BY <1>2, <1>3, <1>4 DEF PathFrom
<1> QED BY <1>5 DEF r

\* The rows below height o, if they hold a path.
LEMMA PathRows ==
    ASSUME NEW table, RowsPlaced(table), NEW z \in Blocks, NEW o \in Nat, o <= Index[z] + 1,
           \A i \in 0 .. o - 1 : table[i] = At(z, i)
    PROVE  /\ Rows(table, 0, o - 1) \in Seq(Blocks) /\ Len(Rows(table, 0, o - 1)) = o
           /\ \A i \in 1 .. o : Rows(table, 0, o - 1)[i] = At(z, i - 1)
<1> DEFINE s == Rows(table, 0, o - 1)
<1>1. OwnPath(z) /\ Index[z] \in 0 .. MaxIndex /\ MaxIndex \in Nat BY OwnPathFacts, HeightsFacts
<1>2. o - 1 \in Int /\ o - 1 <= MaxIndex /\ (o - 1) + 1 = o BY <1>1
<1>3. ListsRows(s, table, 0, o - 1) BY <1>2, RowsListed
<1> HIDE DEF s
<1>4. ASSUME NEW i \in 0 .. o - 1 PROVE table[i] # NoBlock /\ Index[table[i]] = i
  <2>1. i \in 0 .. Index[z] BY <1>1
  <2>2. At(z, i) \in Blocks /\ Index[At(z, i)] = i BY <1>1, <2>1 DEF OwnPath
  <2> QED BY <2>2, NodeAssumption
<1>5. Len(s) = (o - 1) + 1 /\ \A k \in 1 .. (o - 1) + 1 : s[k] = table[k - 1] BY <1>2, <1>3, <1>4, FullRows
<1>6. \A i \in 1 .. o : i - 1 \in 0 .. o - 1 OBVIOUS
<1>7. s \in Seq(Blocks) /\ Len(s) = o /\ \A i \in 1 .. o : s[i] = At(z, i - 1)
  BY <1>2, <1>3, <1>5, <1>6 DEF ListsRows
<1> QED BY <1>7 DEF s

\* The blocks of the window up to the ancestor, and the fork.
LEMMA CanonicalPath ==
    ASSUME NEW c, WellFormed(c), NEW x \in Blocks, OnPath(c, x), NEW f, NEW z, Forks(x, f, z)
    PROVE  \E o \in 0 .. Ancestor(f) + 1 : PathFrom(Kept(c, f) \o f, z, o)
<1> DEFINE a == Ancestor(f)
           off == c.blocks_offset
           w == c.blocks
           n == Len(f)
           l == Len(w)
<1>1. /\ f \in Seq(Blocks) /\ n \in Nat /\ n >= 1 /\ a \in 0 .. Index[x] /\ z \in Blocks /\ Index[z] = a + n
      /\ \A i \in 1 .. n : At(z, a + i) = f[i]
      /\ \A i \in 0 .. a : At(z, i) = At(x, i)
  <2>1. f \in Seq(Mined) BY DEF Forks
  <2>2. f \in Seq(Blocks) BY <2>1 DEF Mined
  <2> QED BY <2>2 DEF Forks
<1>2. Index[x] \in Nat /\ off \in Nat /\ w \in Seq(Blocks) /\ l \in Nat /\ l = Index[x] - off + 1
      /\ \A i \in 1 .. l : w[i] = PathTo[x][off + i]
  <2>1. Aligned(c, x) BY OnPathAligned
  <2> QED BY <2>1 DEF Aligned
<1> HIDE DEF a, off, w, n, l
<1>3. PathFrom(f, z, a + 1)
  <2>1. n = Index[z] + 1 - (a + 1) BY <1>1, <1>2
  <2>2. \A i \in 1 .. n : (a + 1) + (i - 1) = a + i BY <1>1, <1>2
  <2> QED BY <1>1, <2>1, <2>2 DEF PathFrom, n
<1>4. Kept(c, f) = SubSeq(w, 1, a - off + 1) BY DEF Kept, a, off, w
<1>5. CASE a < off
  <2>1. a - off + 1 \in Int /\ a - off + 1 < 1 BY <1>1, <1>2, <1>5
  <2>2. SubSeq(w, 1, a - off + 1) = <<>> BY <1>2, <2>1, SubSeqEmpty
  <2>3. Kept(c, f) \o f = f
    <3>1. <<>> \o f = f BY <1>1, ConcatEmptySeq
    <3> QED BY <1>4, <2>2, <3>1
  <2>4. a + 1 \in 0 .. a + 1 BY <1>1, <1>2
  <2> QED BY <1>3, <2>3, <2>4 DEF a
<1>6. CASE ~(a < off)
  <2> DEFINE k == a - off + 1
             s == SubSeq(w, 1, k)
  <2>1. k \in Nat /\ k >= 1 /\ k <= l /\ off <= a + 1 /\ a + 1 \in Nat /\ a + 1 <= Index[z] + 1 /\ k = (a + 1) - off
    BY <1>1, <1>2, <1>6
  <2>2. s \in Seq(Blocks) /\ Len(s) = k /\ \A i \in 1 .. k : s[i] = w[i]
    <3>1. /\ s \in Seq(Blocks) /\ Len(s) = (IF 1 <= k THEN k - 1 + 1 ELSE 0)
          /\ \A i \in 1 .. k - 1 + 1 : s[i] = w[1 + i - 1]
      <4>1. 1 \in Nat /\ 1 >= 1 /\ k <= Len(w) BY <2>1 DEF l
      <4> HIDE DEF k
      <4> QED BY <1>2, <2>1, <4>1, SubSeqFacts
    <3>2. \A i \in 1 .. k : i \in 1 .. k - 1 + 1 /\ 1 + i - 1 = i BY <2>1
    <3> HIDE DEF s, k
    <3> QED BY <2>1, <3>1, <3>2
  <2> HIDE DEF s, k
  <2>3. \A i \in 1 .. k : s[i] = At(z, off + (i - 1))
    <3>1. SUFFICES ASSUME NEW i \in 1 .. k PROVE s[i] = At(z, off + (i - 1)) OBVIOUS
    <3>2. i \in 1 .. l /\ off + (i - 1) \in 0 .. a /\ off + i = (off + (i - 1)) + 1 BY <1>1, <1>2, <2>1
    <3>3. s[i] = PathTo[x][off + i] BY <1>2, <2>2, <3>2
    <3>4. s[i] = At(x, off + (i - 1)) BY <3>2, <3>3 DEF At
    <3> QED BY <1>1, <3>2, <3>4
  <2>4. PathFrom(s \o f, z, off) BY <1>1, <1>2, <1>3, <2>1, <2>2, <2>3, PathJoins
  <2>5. off \in 0 .. a + 1 BY <1>2, <2>1
  <2> QED BY <1>4, <2>4, <2>5 DEF a, s, k
<1> QED BY <1>5, <1>6

LEMMA ReorgReaches ==
    ASSUME NEW c, WellFormed(c), NEW x \in Blocks, OnPath(c, x),
           NEW table, RowsPlaced(table), HoldsPath(table, x),
           NEW f, NEW z, Forks(x, f, z), NEW P, Hereditary(P), GenesisChain \in P
    PROVE  /\ ReorgTo(c, f, table) \in P /\ WellFormed(ReorgTo(c, f, table))
           /\ \E y : Taken(y, z) /\ OnPath(ReorgTo(c, f, table), y)
<1> DEFINE a == Ancestor(f)
           canonical == Kept(c, f) \o f
           prefix == Rows(table, 0, Index[canonical[1]] - 1)
           s == prefix \o canonical
           t == Tail(s)
           n == Index[z]
<1>1. /\ a \in 0 .. Index[x] /\ z \in Blocks /\ n \in Nat /\ Index[x] \in Nat
      /\ \A i \in 0 .. a : At(z, i) = At(x, i)
      /\ a + 1 <= n /\ OwnPath(z)
  <2>1. z \in Blocks /\ a \in 0 .. Index[x] /\ n = a + Len(f) /\ Len(f) >= 1 /\ \A i \in 0 .. a : At(z, i) = At(x, i)
    BY DEF Forks
  <2>2. f \in Seq(Mined) /\ Len(f) \in Nat BY DEF Forks
  <2>3. Index[x] \in Nat /\ n \in Nat /\ OwnPath(z) BY <2>1, IndexFacts, OwnPathFacts
  <2> HIDE DEF n, a
  <2> QED BY <2>1, <2>2, <2>3
<1>2. PICK o \in 0 .. a + 1 : PathFrom(canonical, z, o) BY CanonicalPath
<1> HIDE DEF canonical, a
<1>3. o \in Nat /\ o <= n /\ canonical[1] = At(z, o) /\ Index[canonical[1]] = o
  <2>1. o \in Nat /\ o \in 0 .. n /\ n + 1 - o >= 1 BY <1>1, <1>2
  <2>2. Len(canonical) = n + 1 - o BY <1>2 DEF PathFrom
  <2> HIDE DEF n
  <2>3. 1 \in 1 .. Len(canonical) /\ o + (1 - 1) = o BY <1>1, <2>1, <2>2
  <2>4. canonical[1] = At(z, o) BY <1>2, <2>3 DEF PathFrom
  <2> QED BY <1>1, <2>1, <2>4 DEF OwnPath, n
<1>4. \A i \in 0 .. o - 1 : table[i] = At(z, i)
  <2>1. \A i \in 0 .. o - 1 : i \in 0 .. a /\ i \in 0 .. Index[x] BY <1>1, <1>2
  <2> QED BY <1>1, <2>1 DEF HoldsPath
<1>5. prefix = Rows(table, 0, o - 1) BY <1>3
<1>6. prefix \in Seq(Blocks) /\ Len(prefix) = o /\ \A i \in 1 .. o : prefix[i] = At(z, i - 1)
  <2>1. o <= Index[z] + 1 BY <1>1, <1>3
  <2> QED BY <1>1, <1>3, <1>4, <1>5, <2>1, PathRows
<1> HIDE DEF prefix
<1>7. PathFrom(s, z, 0)
  <2>1. 0 \in Nat /\ 0 <= o /\ o <= Index[z] + 1 /\ Len(prefix) = o - 0 BY <1>1, <1>3, <1>6
  <2>2. \A i \in 1 .. Len(prefix) : prefix[i] = At(z, 0 + (i - 1))
    <3>1. \A i \in 1 .. o : 0 + (i - 1) = i - 1 BY <1>3
    <3> QED BY <1>6, <3>1
  <2> QED BY <1>1, <1>2, <1>3, <1>6, <2>1, <2>2, PathJoins
<1> HIDE DEF s
<1>8. s \in Seq(Blocks) /\ Len(s) = n + 1 /\ \A i \in 1 .. n + 1 : s[i] = At(z, i - 1)
  <2>1. s \in Seq(Blocks) /\ Len(s) = n + 1 - 0 /\ \A i \in 1 .. Len(s) : s[i] = At(z, 0 + (i - 1))
    BY <1>7 DEF PathFrom
  <2> HIDE DEF n
  <2>2. Len(s) = n + 1 /\ \A i \in 1 .. n + 1 : 0 + (i - 1) = i - 1 BY <1>1, <2>1
  <2> QED BY <2>1, <2>2
<1>9. t \in Seq(Blocks) /\ Len(t) = n /\ \A i \in 1 .. n : t[i] = At(z, i)
  <2> HIDE DEF n
  <2>1. s # <<>> /\ Len(s) >= 1 BY <1>1, <1>8
  <2>2. t \in Seq(Blocks) /\ Len(t) = Len(s) - 1 /\ \A i \in 1 .. Len(s) - 1 : t[i] = s[i + 1] BY <1>8, <2>1
  <2> HIDE DEF t
  <2>3. Len(s) - 1 = n /\ \A i \in 1 .. n : i + 1 \in 1 .. n + 1 /\ (i + 1) - 1 = i BY <1>1, <1>8
  <2> QED BY <1>8, <2>2, <2>3
<1> HIDE DEF t
<1>10. ReorgTo(c, f, table) = Replay(GenesisChain, t) BY DEF ReorgTo, t, s, prefix, canonical
<1>11. Index[Genesis] = 0 /\ Genesis \in Blocks BY IndexFacts, NodeAssumption
<1>12. \A i \in 1 .. n : i \in 0 .. n /\ i >= 1 BY <1>1
<1>13. \A i \in 1 .. n : t[i] \in Mined /\ Index[t[i]] = i /\ Parent[t[i]] = At(z, i - 1)
  BY <1>1, <1>9, <1>12 DEF OwnPath
<1>14. Ascending(t, Genesis)
  <2>1. t \in Seq(Mined) BY <1>9, <1>13
  <2>2. \A i \in 1 .. n : i > 0 BY <1>1
  <2> HIDE DEF n
  <2> QED BY <1>9, <1>11, <1>13, <2>1, <2>2 DEF Ascending
<1>15. Reached(Replay(GenesisChain, t), P, t, Genesis)
  <2>1. WellFormed(GenesisChain) /\ OnPath(GenesisChain, Genesis) /\ GenesisChain.orphan_pool = {}
    BY GenesisWellFormed DEF GenesisChain
  <2> QED BY <1>11, <1>14, <2>1, ReplayClimbs
<1>16. PICK m, y : Climbs(t, Genesis, n, m, y) /\ OnPath(Replay(GenesisChain, t), y)
  BY <1>9, <1>15 DEF Reached
<1>17. Chained(t, Genesis, m, y) /\ \A i \in 1 .. m : i \in 1 .. n /\ t[i] \notin Invalid
  BY <1>9, <1>11, <1>14, <1>16, ClimbsChained
<1>18. y \in Blocks /\ Index[y] = m /\ m \in Nat /\ m <= n /\ \A i \in 1 .. m : At(y, i) = t[i]
  <2>1. /\ y \in Blocks /\ Index[y] = Index[Genesis] + m
        /\ \A i \in 1 .. m : At(y, Index[Genesis] + i) = t[i]
    BY <1>17, ChainedPath
  <2>2. m \in Nat /\ m <= n BY <1>1, <1>16 DEF Climbs
  <2>3. \A i \in 1 .. m : 0 + i = i BY <2>2
  <2> QED BY <1>11, <2>1, <2>2, <2>3
<1> HIDE DEF n
<1>19. \A i \in 0 .. m : At(y, i) = At(z, i)
  <2>1. \A i \in 0 .. m : i = 0 \/ (i \in 1 .. m /\ i \in 1 .. n) BY <1>1, <1>18
  <2>2. At(y, 0) = Genesis /\ At(z, 0) = Genesis BY <1>1, <1>18, OwnPathFacts DEF OwnPath
  <2> QED BY <1>9, <1>18, <2>1, <2>2
<1>20. Valid(y) BY <1>17, <1>18 DEF Valid
<1>21. m < n => At(z, m + 1) \in Invalid
  <2>1. SUFFICES ASSUME m < n PROVE At(z, m + 1) \in Invalid OBVIOUS
  <2>2. m + 1 \in 1 .. n /\ (m + 1) - 1 = m /\ m \in 0 .. m BY <1>1, <1>18, <2>1
  <2>3. t[m + 1] = At(z, m + 1) /\ Parent[t[m + 1]] = At(z, m) BY <1>9, <1>13, <2>2
  <2>4. At(y, m) = y BY <1>18, OwnPathFacts DEF OwnPath
  <2>5. ~Extends(t[m + 1], y) BY <1>16, <2>1 DEF Climbs
  <2> QED BY <1>19, <2>2, <2>3, <2>4, <2>5 DEF Extends
<1>22. Taken(y, z) BY <1>18, <1>19, <1>20, <1>21 DEF Taken, n
<1> QED BY <1>10, <1>15, <1>16, <1>22 DEF Reached

-----------------------------------------------------------------------------
\* The displaced blocks are a stretch of the path.
LEMMA DisplacedPath ==
    ASSUME NEW c, WellFormed(c), NEW x \in Blocks, OnPath(c, x), NEW f, NEW z, Forks(x, f, z)
    PROVE  /\ DisplacedFrom(Displaced(c, f), x, Ancestor(f))
           /\ Displaced(c, f) = <<>> <=> Ancestor(f) < c.blocks_offset \/ Ancestor(f) = Index[x]
<1> DEFINE a == Ancestor(f)
           off == c.blocks_offset
           w == c.blocks
           l == Len(w)
           s == SubSeq(w, a - off + 2, l)
<1>1. a \in 0 .. Index[x] BY DEF Forks
<1>2. Index[x] \in Nat /\ off \in Nat /\ w \in Seq(Blocks) /\ l \in Nat /\ l = Index[x] - off + 1
      /\ \A i \in 1 .. l : w[i] = PathTo[x][off + i] /\ Index[w[i]] = off + i - 1
  <2>1. Aligned(c, x) BY OnPathAligned
  <2> QED BY <2>1 DEF Aligned
<1>3. Displaced(c, f) = IF a < off THEN <<>> ELSE s BY DEF Displaced
<1>4. CASE a < off
  <2> DEFINE e == <<>>
  <2>1. e \in Seq(Blocks) /\ Len(e) = 0 /\ e = <<>> OBVIOUS
  <2> HIDE DEF e
  <2>2. DisplacedFrom(e, x, a) BY <2>1 DEF DisplacedFrom
  <2> QED BY <1>3, <1>4, <2>1, <2>2
<1>5. CASE ~(a < off)
  <2> DEFINE k == a - off + 2
  <2>1. k \in Nat /\ k >= 1 /\ l <= Len(w) /\ k <= l + 1 /\ l - k + 1 = Index[x] - a
    <3> HIDE DEF off, a, w
    <3>1. k \in Nat /\ k >= 1 /\ k <= l + 1 /\ l - k + 1 = Index[x] - a
      <4> HIDE DEF l
      <4> QED BY <1>1, <1>2, <1>5
    <3> QED BY <1>2, <3>1
  <2>2. /\ s \in Seq(Blocks) /\ Len(s) = (IF k <= l THEN l - k + 1 ELSE 0)
        /\ \A i \in 1 .. l - k + 1 : s[i] = w[k + i - 1]
    <3>1. s = SubSeq(w, k, l) OBVIOUS
    <3> HIDE DEF s, k, l, w
    <3>2. w \in Seq(Blocks) /\ k \in Nat /\ l \in Nat /\ k >= 1 /\ l <= Len(w) BY <1>2, <2>1
    <3>3. /\ SubSeq(w, k, l) \in Seq(Blocks) /\ Len(SubSeq(w, k, l)) = (IF k <= l THEN l - k + 1 ELSE 0)
          /\ \A i \in 1 .. l - k + 1 : SubSeq(w, k, l)[i] = w[k + i - 1]
      BY <3>2, SubSeqFacts
    <3> QED BY <3>1, <3>3
  <2> HIDE DEF s, k, l, w, off, a
  <2>3. Len(s) = Index[x] - a BY <1>1, <1>2, <2>1, <2>2
  <2>4. ASSUME NEW i \in 1 .. Len(s) PROVE s[i] = At(x, a + i) /\ Index[s[i]] = a + i
    <3>1. i \in 1 .. l - k + 1 /\ k + i - 1 \in 1 .. l BY <1>1, <1>2, <2>1, <2>2
    <3>2. s[i] = w[k + i - 1] BY <2>2, <3>1
    <3>3. w[k + i - 1] = PathTo[x][off + (k + i - 1)] /\ Index[w[k + i - 1]] = off + (k + i - 1) - 1
      BY <1>2, <3>1
    <3>4. off + (k + i - 1) = a + i + 1 /\ off + (k + i - 1) - 1 = a + i BY <1>1, <1>2, <3>1 DEF k
    <3> QED BY <3>2, <3>3, <3>4 DEF At
  <2>5. DisplacedFrom(s, x, a) BY <2>2, <2>3, <2>4 DEF DisplacedFrom
  <2>6. s = <<>> <=> a = Index[x]
    <3>1. s = <<>> <=> Len(s) = 0 BY <2>2
    <3> QED BY <1>1, <1>2, <2>3, <3>1
  <2> QED BY <1>3, <1>5, <2>5, <2>6 DEF a, off
<1> QED BY <1>4, <1>5

-----------------------------------------------------------------------------
\* A block that is applied, pooled or wins with its fork.
LEMMA ApplyReaches ==
    ASSUME NEW c, WellFormed(c), NEW x \in Blocks, OnPath(c, x), NEW b \in Mined,
           NEW table, RowsPlaced(table), HoldsPath(table, x),
           NEW P, Hereditary(P), c \in P, GenesisChain \in P,
           NEW r \in ApplyInMemory(c, b, table)
    PROVE  r.chain \in P /\ WellFormed(r.chain) /\ Changed(c, x, b, table, r)
<1> DEFINE all == ApplyInMemory(c, b, table)
           applied == [kind |-> "Applied", chain |-> UpdateState(c, b), old |-> <<>>, new |-> <<b>>]
           rejected == [kind |-> "Rejected", chain |-> c, old |-> <<>>, new |-> <<>>]
           With(room) == [c EXCEPT !.orphan_pool = EvictAtHeight(room, b) \cup {b}]
           pooled == {With(room) : room \in PoolsWithRoom(c.orphan_pool)}
           orphaned(p) == [kind |-> "Orphaned", chain |-> p, old |-> <<>>, new |-> <<>>]
           reorged(p, f) == [kind |-> "Reorged", chain |-> ReorgTo(p, f, table),
                             old |-> Displaced(p, f), new |-> f]
<1>0. b \in Blocks /\ Tip(c) = x /\ Height(c) = Index[x] + 1 BY OnPathAligned DEF Mined, Aligned
<1>1. CASE Accepts(c, b)
  <2>1. all = {applied} BY <1>1 DEF ApplyInMemory
  <2>2. WellFormed(UpdateState(c, b)) /\ OnPath(UpdateState(c, b), b) BY <1>0, <1>1, UpdateWellFormed
  <2>3. UpdateState(c, b) \in P BY <1>0, <1>1 DEF Hereditary
  <2>4. Index[b] = Index[x] + 1 /\ Extends(b, x) BY <1>0, <1>1 DEF Accepts, LinksToTip, Extends
  <2>5. Extended(c, x, b, applied) BY <2>2, <2>4 DEF Extended
  <2>6. r = applied /\ r.chain = UpdateState(c, b) BY <2>1
  <2> HIDE DEF applied
  <2> QED BY <2>2, <2>3, <2>5, <2>6 DEF Changed
<1>2. CASE ~Accepts(c, b) /\ (LinksToTip(c, b) \/ ~Standalone(c, b))
  <2>1. all = {rejected} BY <1>2 DEF ApplyInMemory
  <2>2. Untouched(c, x, b, rejected) BY DEF Untouched
  <2>3. r = rejected /\ r.chain = c BY <2>1
  <2> HIDE DEF rejected
  <2> QED BY <2>2, <2>3 DEF Changed
<1>3. CASE ~Accepts(c, b) /\ ~(LinksToTip(c, b) \/ ~Standalone(c, b))
  <2>1. all = {orphaned(p) : p \in {q \in pooled : BestForks(q, table) = {}}}
              \cup UNION {{reorged(p, f) : f \in BestForks(p, table)} : p \in pooled}
    BY <1>3 DEF ApplyInMemory
  <2>2. ASSUME NEW p \in pooled
        PROVE  /\ WellFormed(p) /\ p \in P /\ Pools(c, b, p) /\ OnPath(p, x)
               /\ p.blocks = c.blocks /\ p.blocks_offset = c.blocks_offset
    <3>1. PICK room \in PoolsWithRoom(c.orphan_pool) : p = With(room) OBVIOUS
    <3>2. c.orphan_pool \in SUBSET Mined /\ PoolBounded(c.orphan_pool) BY DEF WellFormed, Chains
    <3> DEFINE evicted == EvictAtHeight(room, b)
               pool == evicted \cup {b}
    <3>3. pool \in SUBSET Mined /\ PoolBounded(pool) BY <3>2, Pooled
    <3>4. room \subseteq c.orphan_pool BY <3>2, RoomExists
    <3>5. evicted \subseteq room BY DEF EvictAtHeight
    <3>6. p = [c EXCEPT !.orphan_pool = pool] BY <3>1
    <3> HIDE DEF evicted
    <3>7. pool \subseteq c.orphan_pool \cup {b} BY <3>4, <3>5
    <3> HIDE DEF pool
    <3>8. Pools(c, b, p) BY <3>3, <3>6, <3>7 DEF Pools
    <3>9. WellFormed(p) /\ p.orphan_pool = pool BY <3>3, <3>6, PoolChanged
    <3>10. p.ledger = c.ledger /\ p.blocks_offset = c.blocks_offset /\ p.blocks = c.blocks
      BY <3>6 DEF WellFormed, Chains
    <3>11. p \in P BY <3>3, <3>6 DEF Hereditary
    <3> QED BY <3>8, <3>9, <3>10, <3>11 DEF OnPath
  <2> HIDE DEF pooled, With
  <2>3. ASSUME NEW p \in pooled, r = orphaned(p)
        PROVE  r.chain \in P /\ WellFormed(r.chain) /\ Changed(c, x, b, table, r)
    <3>1. r.chain = p /\ r.kind = "Orphaned" /\ r.old = <<>> /\ r.new = <<>> BY <2>3
    <3>2. Untouched(c, x, b, r) BY <2>2, <3>1 DEF Untouched
    <3> QED BY <2>2, <3>1, <3>2 DEF Changed
  <2>4. ASSUME NEW p \in pooled, NEW f \in BestForks(p, table), r = reorged(p, f)
        PROVE  r.chain \in P /\ WellFormed(r.chain) /\ Changed(c, x, b, table, r)
    <3>1. r.chain = ReorgTo(p, f, table) /\ r.kind = "Reorged" /\ r.old = Displaced(p, f) /\ r.new = f BY <2>4
    <3>2. WellFormed(p) /\ OnPath(p, x) /\ p.blocks = c.blocks /\ p.blocks_offset = c.blocks_offset BY <2>2
    <3>3. PICK z : Forks(x, f, z) BY <3>2, BestFork
    <3>4. r.chain \in P /\ WellFormed(r.chain) /\ \E y : Taken(y, z) /\ OnPath(r.chain, y)
      BY <3>1, <3>2, <3>3, ReorgReaches
    <3>5. PICK y : Taken(y, z) /\ OnPath(r.chain, y) BY <3>4
    <3>6. /\ DisplacedFrom(r.old, x, Ancestor(f))
          /\ r.old = <<>> <=> Ancestor(f) < c.blocks_offset \/ Ancestor(f) = Index[x]
      BY <3>1, <3>2, <3>3, DisplacedPath
    <3>7. TotalWork(Elements(f)) > MainWorkAbove(p, Ancestor(f), table) BY DEF BestForks, HeavierForks
    <3>8. MainWorkAbove(p, Ancestor(f), table) = MainWorkAbove(c, Ancestor(f), table)
      BY <3>2 DEF MainWorkAbove
    <3>9. ASSUME NEW Q, Hereditary(Q), GenesisChain \in Q PROVE r.chain \in Q
      BY <3>1, <3>2, <3>3, <3>9, ReorgReaches
    <3>10. Switched(c, x, table, r, z, y) BY <3>1, <3>3, <3>5, <3>6, <3>7, <3>8, <3>9 DEF Switched
    <3> QED BY <3>4, <3>10 DEF Changed
  <2>5. (\E p \in pooled : r = orphaned(p))
        \/ \E p \in pooled : \E f \in BestForks(p, table) : r = reorged(p, f)
    BY <2>1
  <2> QED BY <2>3, <2>4, <2>5
<1> QED BY <1>1, <1>2, <1>3

-----------------------------------------------------------------------------
\* The rows a transaction changes.
LEMMA OneRowWritten ==
    ASSUME NEW d, Stored(d), NEW e, NEW w, w.op \in {"applied", "save"}, w.block \in Mined,
           e.BLOCKS = [d.BLOCKS EXCEPT ![Index[w.block]] = w.block]
    PROVE  RowsWritten(d, e, w)
<1>1. Written(w) = {w.block} /\ Cleared(w) = {} /\ d.BLOCKS \in [Heights -> Blocks \cup {NoBlock}]
  BY DEF Written, Cleared, Stored, RowsPlaced
<1>2. ASSUME NEW i \in Heights
      PROVE  \/ Index[w.block] = i /\ e.BLOCKS[i] = w.block
             \/ e.BLOCKS[i] = d.BLOCKS[i] /\ Index[w.block] # i
  BY <1>1
<1> QED BY <1>1, <1>2 DEF RowsWritten

LEMMA ReorgRowsWritten ==
    ASSUME NEW d, Stored(d), NEW e, NEW w, w.op = "reorg",
           e.BLOCKS = ReorgRows(d.BLOCKS, w.old, w.new)
    PROVE  RowsWritten(d, e, w)
<1> DEFINE new == Elements(w.new)
           old == Elements(w.old)
           OfHeight(i) == {b \in new : Index[b] = i}
<1>1. Written(w) = new /\ Cleared(w) = old BY DEF Written, Cleared
<1>2. \A i \in Heights : e.BLOCKS[i] = IF OfHeight(i) # {} THEN CHOOSE b \in OfHeight(i) : TRUE
                                       ELSE IF i \in {Index[b] : b \in old} THEN NoBlock
                                       ELSE d.BLOCKS[i]
  BY DEF ReorgRows
<1>3. \A i : OfHeight(i) # {} => (CHOOSE b \in OfHeight(i) : TRUE) \in OfHeight(i) OBVIOUS
<1>4. \A i, b : b \in OfHeight(i) <=> b \in new /\ Index[b] = i OBVIOUS
<1> HIDE DEF new, old, OfHeight
<1> QED BY <1>1, <1>2, <1>3, <1>4 DEF RowsWritten

LEMMA RowsKept ==
    ASSUME NEW d, NEW e, NEW w, e.BLOCKS = d.BLOCKS, w.op \in {"checkpoint", "delete", "rebuild"}
    PROVE  RowsWritten(d, e, w)
<1>1. Written(w) = {} /\ Cleared(w) = {} BY DEF Written, Cleared
<1> QED BY <1>1 DEF RowsWritten

LEMMA CommitRows ==
    ASSUME NEW d, Stored(d), NEW w \in WriteTransactions
    PROVE  RowsWritten(d, Commit(d, w), w) /\ CheckpointsWritten(d, Commit(d, w), w)
<1> DEFINE e == Commit(d, w)
<1>0. d \in Tables BY DEF Stored
<1>1. CASE w.op = "applied" /\ w.block \in Mined
  <2>1. e = SaveAppliedBlock(d, w) BY <1>1 DEF Commit
  <2>2. e.BLOCKS = [d.BLOCKS EXCEPT ![Index[w.block]] = w.block] /\ e.CHECKPOINTS = d.CHECKPOINTS
    BY <1>0, <2>1 DEF SaveAppliedBlock, Tables
  <2> HIDE DEF e
  <2> QED BY <1>1, <2>2, OneRowWritten DEF CheckpointsWritten, e
<1>2. CASE w.op = "checkpoint"
  <2>1. e = SaveCheckpoint(d, w) BY <1>2 DEF Commit
  <2>2. /\ e.BLOCKS = d.BLOCKS
        /\ e.CHECKPOINTS = {c \in d.CHECKPOINTS : c.height # w.state.height} \cup {w.state}
    BY <1>0, <2>1 DEF SaveCheckpoint, Tables
  <2> HIDE DEF e
  <2> QED BY <1>2, <2>2, RowsKept DEF CheckpointsWritten, e
<1>3. CASE w.op = "delete"
  <2>1. e = DeleteCheckpointsFrom(d, w) BY <1>3 DEF Commit
  <2>2. e.BLOCKS = d.BLOCKS /\ e.CHECKPOINTS = {c \in d.CHECKPOINTS : c.height < w.from}
    BY <1>0, <2>1 DEF DeleteCheckpointsFrom, Tables
  <2> HIDE DEF e
  <2> QED BY <1>3, <2>2, RowsKept DEF CheckpointsWritten, e
<1>4. CASE w.op = "reorg"
  <2>1. e = ApplyReorgIncremental(d, w) BY <1>4 DEF Commit
  <2>2. e.BLOCKS = ReorgRows(d.BLOCKS, w.old, w.new) /\ e.CHECKPOINTS = d.CHECKPOINTS
    BY <1>0, <2>1 DEF ApplyReorgIncremental, Tables, ReorgRows
  <2> HIDE DEF e
  <2> QED BY <1>4, <2>2, ReorgRowsWritten DEF CheckpointsWritten, e
<1>5. CASE w.op = "save" /\ w.block \in Mined
  <2>1. e = SaveBlockIndexed(d, w) BY <1>5 DEF Commit
  <2>2. e.BLOCKS = [d.BLOCKS EXCEPT ![Index[w.block]] = w.block] /\ e.CHECKPOINTS = d.CHECKPOINTS
    BY <1>0, <2>1 DEF SaveBlockIndexed, Tables
  <2> HIDE DEF e
  <2> QED BY <1>5, <2>2, OneRowWritten DEF CheckpointsWritten, e
<1>6. CASE w.op = "rebuild"
  <2>1. e = RebuildIndicesWithTickets(d, w) BY <1>6 DEF Commit
  <2>2. e.BLOCKS = d.BLOCKS /\ e.CHECKPOINTS = d.CHECKPOINTS
    BY <1>0, <2>1 DEF RebuildIndicesWithTickets, Tables
  <2> HIDE DEF e
  <2> QED BY <1>6, <2>2, RowsKept DEF CheckpointsWritten, e
<1> QED BY <1>1, <1>2, <1>3, <1>4, <1>5, <1>6, TransactionCases

-----------------------------------------------------------------------------
\* The rows up to height n are left alone.
LEMMA RowsBelow ==
    ASSUME NEW d, NEW e, NEW w, RowsWritten(d, e, w), NEW b \in Blocks,
           \A x \in Written(w) \cup Cleared(w) : Index[b] < Index[x], HoldsPath(d.BLOCKS, b)
    PROVE  HoldsPath(e.BLOCKS, b)
<1>1. Index[b] \in Nat /\ MaxIndex \in Nat /\ Heights = 0 .. MaxIndex /\ Index[b] \in Heights
  BY IndexFacts, HeightsFacts
<1>2. SUFFICES ASSUME NEW i \in 0 .. Index[b] PROVE e.BLOCKS[i] = d.BLOCKS[i] BY DEF HoldsPath
<1>3. i \in Heights BY <1>1
<1>4. \A x \in Written(w) \cup Cleared(w) : Index[x] # i BY <1>1
<1> QED BY <1>3, <1>4 DEF RowsWritten

LEMMA RowsAdvance ==
    ASSUME NEW d, NEW e, NEW q, q # <<>>, q \in Seq(WriteTransactions), NEW b \in Blocks,
           RowsWritten(d, e, q[1]), Agrees(q[1], b), RowsComing(d.BLOCKS, q, b)
    PROVE  RowsComing(e.BLOCKS, Tail(q), b)
<1> DEFINE w == q[1]
           t == Tail(q)
<1>1. Len(q) \in Nat /\ Len(q) >= 1 /\ Len(t) = Len(q) - 1 /\ \A k \in 1 .. Len(t) : t[k] = q[k + 1] OBVIOUS
<1>2. Index[b] \in Nat /\ MaxIndex \in Nat /\ Heights = 0 .. MaxIndex /\ Index[b] \in Heights
  BY IndexFacts, HeightsFacts
<1> HIDE DEF w, t
<1>3. SUFFICES ASSUME NEW i \in 0 .. Index[b],
                      ~(\E k \in 1 .. Len(t) : \E x \in Written(t[k]) : Index[x] = i)
               PROVE  e.BLOCKS[i] = At(b, i)
  BY DEF RowsComing, t
<1>4. i \in Heights /\ i <= Index[b] BY <1>2
<1>5. d.BLOCKS[i] = At(b, i) \/ \E x \in Written(w) : Index[x] = i
  <2>1. SUFFICES ASSUME d.BLOCKS[i] # At(b, i) PROVE \E x \in Written(w) : Index[x] = i OBVIOUS
  <2>2. PICK k \in 1 .. Len(q) : \E x \in Written(q[k]) : Index[x] = i BY <2>1 DEF RowsComing
  <2>3. CASE k = 1 BY <2>2, <2>3 DEF w
  <2>4. CASE k # 1
    <3> DEFINE j == k - 1
    <3>1. j \in 1 .. Len(t) /\ j + 1 = k BY <1>1, <2>4
    <3> HIDE DEF j
    <3>2. t[j] = q[k] BY <1>1, <3>1
    <3> QED BY <1>3, <2>2, <3>1, <3>2
  <2> QED BY <2>3, <2>4
<1>6. ASSUME NEW x \in Written(w), Index[x] = i PROVE x = At(b, i) BY <1>4, <1>6 DEF Agrees, w
<1>7. ASSUME NEW x \in Cleared(w), Index[x] = i PROVE \E y \in Written(w) : Index[y] = i
  BY <1>4, <1>7 DEF Agrees, w
<1>8. \/ \E x \in Written(w) : Index[x] = i /\ e.BLOCKS[i] = x
      \/ \E x \in Cleared(w) : Index[x] = i /\ \A y \in Written(w) : Index[y] # i
      \/ e.BLOCKS[i] = d.BLOCKS[i] /\ d.BLOCKS[i] = At(b, i)
  BY <1>4, <1>5 DEF RowsWritten, w
<1> QED BY <1>6, <1>7, <1>8

-----------------------------------------------------------------------------
\* As the outstanding writes are made, they keep bringing the tables to b.
LEMMA SparesAdvance ==
    ASSUME NEW d, Stored(d), NEW w \in WriteTransactions, Spares(d, w), NEW v, Succeeds(w, v),
           NEW e, CheckpointsWritten(d, e, w), Stored(e), v.op = "reorg" => Elements(v.new) \cup Elements(v.old) \subseteq Blocks
    PROVE  Spares(e, v)
<1>1. \A cp \in e.CHECKPOINTS : cp.height \in Nat BY HeightsFacts DEF Stored, Consistent, CheckpointStates
<1>2. CASE v.op = "reorg"
  <2>1. w.op = "delete" /\ \A x \in Written(v) \cup Cleared(v) : w.from <= Index[x] BY <1>2 DEF Succeeds
  <2>2. w.from \in Nat BY <2>1, TransactionCases
  <2>3. \A cp \in e.CHECKPOINTS : cp.height < w.from BY <2>1 DEF CheckpointsWritten
  <2>4. \A x \in Written(v) \cup Cleared(v) : Index[x] \in Nat BY <1>2, IndexFacts DEF Written, Cleared
  <2>5. \A cp \in e.CHECKPOINTS : \A x \in Written(v) \cup Cleared(v) : cp.height < Index[x]
    BY <1>1, <2>1, <2>2, <2>3, <2>4
  <2> QED BY <1>2, <2>5 DEF Spares
<1>3. CASE v.op = "save"
  <2>1. e.CHECKPOINTS = {}
    <3>1. CASE w.op = "save" BY <3>1 DEF CheckpointsWritten, Spares
    <3>2. CASE w.op = "delete" /\ w.from = 0
      <4>1. \A cp \in e.CHECKPOINTS : cp.height < 0 BY <3>2 DEF CheckpointsWritten
      <4> QED BY <1>1, <4>1
    <3> QED BY <1>3, <3>1, <3>2 DEF Succeeds
  <2> QED BY <2>1 DEF Spares
<1>4. CASE v.op # "reorg" /\ v.op # "save"
  <2>1. Written(v) \cup Cleared(v) = {} BY <1>4 DEF Written, Cleared, Succeeds
  <2> QED BY <1>4, <2>1 DEF Spares
<1> QED BY <1>2, <1>3, <1>4

LEMMA ElementsBlocks ==
    ASSUME NEW w \in WriteTransactions, w.op = "reorg"
    PROVE  Elements(w.new) \cup Elements(w.old) \subseteq Blocks
<1>1. w.new \in Seq(Mined) /\ w.old \in Seq(Blocks) BY TransactionCases DEF Displaces
<1> DEFINE s == w.new
           t == w.old
<1>2. DOMAIN s = 1 .. Len(s) /\ \A i \in 1 .. Len(s) : s[i] \in Mined BY <1>1
<1>3. DOMAIN t = 1 .. Len(t) /\ \A i \in 1 .. Len(t) : t[i] \in Blocks BY <1>1
<1> QED BY <1>2, <1>3 DEF Elements, Mined

\* A checkpoint is kept if the rows below it are left alone, or added when its
\* own rows are all there.
LEMMA CheckpointsAdvance ==
    ASSUME NEW d, Stored(d), NEW w \in WriteTransactions, NEW b, Spares(d, w),
           CheckpointRows(d),
           NEW e, RowsWritten(d, e, w), CheckpointsWritten(d, e, w),
           w.op = "checkpoint" => w.state.block_hash = b /\ HoldsPath(d.BLOCKS, b) /\ Valid(b) /\ b \in Blocks
    PROVE  CheckpointRows(e)
<1>1. ASSUME NEW cp \in d.CHECKPOINTS
      PROVE  HoldsPath(e.BLOCKS, cp.block_hash) /\ Valid(cp.block_hash)
  <2>1. cp.block_hash \in Blocks /\ cp.height = Index[cp.block_hash]
    BY DEF Stored, Consistent, CheckpointStates
  <2>2. HoldsPath(d.BLOCKS, cp.block_hash) /\ Valid(cp.block_hash) BY DEF CheckpointRows
  <2>3. \A x \in Written(w) \cup Cleared(w) : Index[cp.block_hash] < Index[x] BY <2>1 DEF Spares
  <2> QED BY <2>1, <2>2, <2>3, RowsBelow
<1>2. e.CHECKPOINTS \subseteq d.CHECKPOINTS \/ (w.op = "checkpoint" /\ e.CHECKPOINTS \subseteq d.CHECKPOINTS \cup {w.state})
  BY DEF CheckpointsWritten
<1>3. ASSUME w.op = "checkpoint"
      PROVE  HoldsPath(e.BLOCKS, w.state.block_hash) /\ Valid(w.state.block_hash)
  <2>1. Written(w) \cup Cleared(w) = {} BY <1>3 DEF Written, Cleared
  <2> QED BY <1>3, <2>1, RowsBelow
<1> QED BY <1>1, <1>2, <1>3 DEF CheckpointRows

LEMMA PlacedAdvances ==
    ASSUME NEW d, Stored(d), NEW q, Scheduled(d, q), q # <<>>, NEW b \in Blocks, Valid(b), Placed(d, q, b)
    PROVE  Placed(Commit(d, Head(q)), Tail(q), b)
<1> DEFINE w == q[1]
           e == Commit(d, w)
           t == Tail(q)
           l == Len(q)
<1>1. /\ q \in Seq(WriteTransactions) /\ l \in Nat /\ l >= 1 /\ w \in WriteTransactions /\ Head(q) = w
      /\ \A k \in 1 .. l : q[k] \in WriteTransactions
  BY DEF Scheduled
<1>2. RowsWritten(d, e, w) /\ CheckpointsWritten(d, e, w) /\ Stored(e)
  <2>1. Safe(d, w) BY DEF Scheduled
  <2> QED BY <1>1, <2>1, CommitRows, CommitSound
<1>3. t \in Seq(WriteTransactions) /\ Len(t) = l - 1 /\ \A k \in 1 .. Len(t) : t[k] = q[k + 1] /\ k + 1 \in 1 .. l
  BY <1>1
<1>4. Agrees(w, b) /\ Spares(d, w) BY <1>1 DEF Placed
<1> HIDE DEF e, t, w
<1>5. CheckpointRows(e)
  <2>1. ASSUME w.op = "checkpoint" PROVE w.state.block_hash = b /\ HoldsPath(d.BLOCKS, b)
    <3>1. w = q[1] /\ 1 \in 1 .. Len(q) BY <1>1 DEF w
    <3>2. 1 = l /\ w.state.block_hash = b BY <2>1, <3>1 DEF Placed
    <3>3. Written(w) = {} BY <2>1 DEF Written
    <3>4. \A k \in 1 .. l : Written(q[k]) = {}
      <4>1. \A k \in 1 .. l : k = 1
        <5>1. \A k \in 1 .. 1 : k = 1 OBVIOUS
        <5>2. 1 .. l = 1 .. 1 BY <3>2
        <5> HIDE DEF l
        <5> QED BY <5>1, <5>2
      <4> QED BY <3>1, <3>3, <4>1
    <3>5. RowsComing(d.BLOCKS, q, b) BY DEF Placed
    <3>6. HoldsPath(d.BLOCKS, b) BY <3>4, <3>5 DEF RowsComing, HoldsPath
    <3> QED BY <3>2, <3>6
  <2>2. CheckpointRows(d) BY DEF Placed
  <2> QED BY <1>1, <1>2, <1>4, <2>1, <2>2, CheckpointsAdvance
<1>6. RowsComing(e.BLOCKS, t, b) BY <1>1, <1>2, <1>4, RowsAdvance DEF Placed, w, t
<1>7. \A k \in 1 .. Len(t) : Agrees(t[k], b) BY <1>3 DEF Placed
<1>8. \A k \in 1 .. Len(t) - 1 : Succeeds(t[k], t[k + 1])
  <2>1. TAKE k \in 1 .. Len(t) - 1
  <2> DEFINE j == k + 1
  <2>2. k \in 1 .. Len(t) /\ j \in 1 .. Len(t) /\ j \in 1 .. l - 1 /\ k + 1 = j BY <1>1, <1>3
  <2> HIDE DEF j
  <2>3. t[k] = q[k + 1] /\ t[j] = q[j + 1] BY <1>3, <2>2
  <2>4. Succeeds(q[j], q[j + 1]) BY <2>2 DEF Placed
  <2> QED BY <2>2, <2>3, <2>4
<1>9. \A k \in 1 .. Len(t) : t[k].op = "checkpoint" => k = Len(t) /\ t[k].state.block_hash = b
  <2>1. TAKE k \in 1 .. Len(t)
  <2> DEFINE j == k + 1
  <2>2. j \in 1 .. l /\ t[k] = q[j] /\ (j = l => k = Len(t)) BY <1>1, <1>3
  <2> HIDE DEF j
  <2> QED BY <2>2 DEF Placed
<1>10. t # <<>> => Spares(e, t[1])
  <2>1. SUFFICES ASSUME t # <<>> PROVE Spares(e, t[1]) OBVIOUS
  <2>2. 1 \in 1 .. l - 1 /\ 1 \in 1 .. Len(t) /\ 1 + 1 \in 1 .. l BY <1>1, <1>3, <2>1
  <2>3. t[1] = q[1 + 1] /\ Succeeds(q[1], q[1 + 1]) BY <1>3, <2>2 DEF Placed
  <2>4. t[1] \in WriteTransactions BY <1>1, <2>2, <2>3
  <2>5. t[1].op = "reorg" => Elements(t[1].new) \cup Elements(t[1].old) \subseteq Blocks
    BY <2>4, ElementsBlocks
  <2> DEFINE v == t[1]
  <2>6. Succeeds(w, v) BY <2>3 DEF w
  <2> HIDE DEF v
  <2>7. v = t[1] BY DEF v
  <2> QED BY <1>1, <1>2, <1>4, <2>5, <2>6, <2>7, SparesAdvance
<1>11. Placed(e, t, b) BY <1>5, <1>6, <1>7, <1>8, <1>9, <1>10 DEF Placed
<1> QED BY <1>1, <1>11 DEF e, t

LEMMA ToppedAdvances ==
    ASSUME NEW d, Stored(d), NEW q, Scheduled(d, q), q # <<>>, NEW b \in Blocks, Placed(d, q, b), Topped(d, q, b)
    PROVE  Topped(Commit(d, Head(q)), Tail(q), b)
<1> DEFINE w == q[1]
           e == Commit(d, w)
           t == Tail(q)
           l == Len(q)
<1>1. q \in Seq(WriteTransactions) /\ l \in Nat /\ l >= 1 /\ w \in WriteTransactions /\ Head(q) = w
  BY DEF Scheduled
<1>2. CheckpointsWritten(d, e, w) BY <1>1, CommitRows
<1>3. Len(t) = l - 1 /\ \A k \in 1 .. Len(t) : t[k] = q[k + 1] BY <1>1
<1> HIDE DEF e, t, w
<1>4. ASSUME NEW cp \in e.CHECKPOINTS, cp \in d.CHECKPOINTS, ~(cp.height <= Index[b])
      PROVE  \E k \in 1 .. Len(t) : t[k].op = "delete" /\ t[k].from <= cp.height
  <2>1. PICK k \in 1 .. l : q[k].op = "delete" /\ q[k].from <= cp.height BY <1>4 DEF Topped
  <2>2. CASE k = 1
    <3>1. w.op = "delete" /\ w.from <= cp.height /\ w.from \in Nat BY <1>1, <2>1, <2>2, TransactionCases DEF w
    <3>2. cp.height < w.from BY <1>2, <3>1 DEF CheckpointsWritten
    <3>3. cp.height \in Nat BY <1>4, HeightsFacts DEF Stored, Consistent, CheckpointStates
    <3> QED BY <3>1, <3>2, <3>3
  <2>3. CASE k # 1
    <3> DEFINE j == k - 1
    <3>1. j \in 1 .. Len(t) /\ j + 1 = k BY <1>1, <1>3, <2>3
    <3> HIDE DEF j
    <3>2. t[j] = q[k] BY <1>3, <3>1
    <3> QED BY <2>1, <3>1, <3>2
  <2> QED BY <2>2, <2>3
<1>5. ASSUME NEW cp \in e.CHECKPOINTS, cp \notin d.CHECKPOINTS PROVE cp.height <= Index[b]
  <2>1. w.op = "checkpoint" /\ cp = w.state BY <1>2, <1>5 DEF CheckpointsWritten
  <2>2. w = q[1] /\ 1 \in 1 .. Len(q) BY <1>1 DEF w
  <2>3. cp.block_hash = b BY <2>1, <2>2 DEF Placed
  <2>4. cp.height = Index[cp.block_hash] BY <1>1, <2>1, TransactionCases DEF Consistent
  <2>5. Index[b] \in Nat BY IndexFacts
  <2> QED BY <2>3, <2>4, <2>5
<1>6. Topped(e, t, b) BY <1>4, <1>5 DEF Topped
<1> QED BY <1>1, <1>6 DEF e, t

-----------------------------------------------------------------------------
\* Queues of one and of two transactions.
LEMMA SinglePlaced ==
    ASSUME NEW d, CheckpointRows(d), NEW b, NEW v, Agrees(v, b), Spares(d, v), v.op # "checkpoint",
           \A i \in 0 .. Index[b] : d.BLOCKS[i] = At(b, i) \/ \E x \in Written(v) : Index[x] = i
    PROVE  Placed(d, <<v>>, b)
<1> DEFINE q == <<v>>
<1>1. Len(q) = 1 /\ q[1] = v /\ \A k \in 1 .. Len(q) : k = 1 OBVIOUS
<1> HIDE DEF q
<1>2. 1 \in 1 .. Len(q) /\ 1 .. Len(q) - 1 = {} BY <1>1
<1>3. RowsComing(d.BLOCKS, q, b) BY <1>1, <1>2 DEF RowsComing
<1>4. Placed(d, q, b) BY <1>1, <1>2, <1>3 DEF Placed
<1> QED BY <1>4 DEF q

LEMMA PairPlaced ==
    ASSUME NEW d, CheckpointRows(d), NEW b, NEW v, NEW w, Agrees(v, b), Agrees(w, b), Spares(d, v),
           Succeeds(v, w), v.op # "checkpoint", w.op = "checkpoint" => w.state.block_hash = b,
           \A i \in 0 .. Index[b] :
               d.BLOCKS[i] = At(b, i) \/ \E x \in Written(v) \cup Written(w) : Index[x] = i
    PROVE  Placed(d, <<v, w>>, b)
<1> DEFINE q == <<v, w>>
<1>1. Len(q) = 2 /\ q[1] = v /\ q[2] = w /\ q # <<>> OBVIOUS
<1> HIDE DEF q
<1>2. /\ 1 \in 1 .. Len(q) /\ 2 \in 1 .. Len(q) /\ \A k \in 1 .. Len(q) : k = 1 \/ k = 2
      /\ \A k \in 1 .. Len(q) - 1 : k = 1 /\ k + 1 = 2
  BY <1>1
<1>3. RowsComing(d.BLOCKS, q, b) BY <1>1, <1>2 DEF RowsComing
<1>4. \A k \in 1 .. Len(q) - 1 : Succeeds(q[k], q[k + 1]) BY <1>1, <1>2
<1>5. \A k \in 1 .. Len(q) : q[k].op = "checkpoint" => k = Len(q) /\ q[k].state.block_hash = b BY <1>1, <1>2
<1>6. \A k \in 1 .. Len(q) : Agrees(q[k], b) BY <1>1, <1>2
<1>7. Placed(d, q, b) BY <1>1, <1>3, <1>4, <1>5, <1>6 DEF Placed
<1> QED BY <1>7 DEF q

LEMMA RestHeaded ==
    ASSUME NEW d, NEW x
    PROVE  AtRest(d, x) <=> Headed(d, <<>>, x)
<1> DEFINE q == <<>>
<1>1. q = <<>> /\ 1 .. Len(q) = {} /\ 1 .. Len(q) - 1 = {} OBVIOUS
<1> HIDE DEF q
<1>2. Topped(d, q, x) <=> \A cp \in d.CHECKPOINTS : cp.height <= Index[x] BY <1>1 DEF Topped
<1>3. RowsComing(d.BLOCKS, q, x) <=> HoldsPath(d.BLOCKS, x) BY <1>1 DEF RowsComing, HoldsPath
<1>4. Placed(d, q, x) <=> CheckpointRows(d) /\ RowsComing(d.BLOCKS, q, x) BY <1>1 DEF Placed
<1>5. AtRest(d, x) <=> Headed(d, q, x) BY <1>2, <1>3, <1>4 DEF AtRest, Headed
<1> QED BY <1>5 DEF q

LEMMA CheckpointHeights ==
    ASSUME NEW d, Stored(d)
    PROVE  \A cp \in d.CHECKPOINTS : cp.height \in Nat
BY HeightsFacts DEF Stored, Consistent, CheckpointStates

LEMMA AppliedHeaded ==
    ASSUME NEW d, Stored(d), NEW x \in Blocks, AtRest(d, x), NEW b \in Mined, Extends(b, x),
           NEW c, OnPath(c, b)
    PROVE  Headed(d, WritesApplied(c), b)
<1> DEFINE payouts == PayoutsAt(c.settled, Index[Tip(c)])
           v == [op |-> "applied", block |-> Tip(c), tickets |-> c.pending_tickets, payouts |-> payouts]
           w == [op |-> "checkpoint", state |-> Snapshot(c)]
           n == Index[x]
<1>1. WritesApplied(c) = <<v, w>> \/ WritesApplied(c) = <<v>> BY DEF WritesApplied
<1>2. b \in Blocks /\ Tip(c) = b /\ Parent[b] = x /\ b \notin Invalid
  BY OnPathAligned DEF Aligned, Extends, Mined
<1>3. n \in Nat /\ Index[b] = n + 1 BY <1>2, IndexFacts
<1>4. /\ At(b, n + 1) = b /\ \A i \in 0 .. n : At(b, i) = At(x, i)
  <2>1. OwnPath(b) BY <1>2, OwnPathFacts
  <2>2. n + 1 \in 0 .. Index[b] /\ n + 1 >= 1 /\ (n + 1) - 1 = n /\ n \in 0 .. Index[b] BY <1>3
  <2>3. At(b, n + 1) = b /\ Parent[At(b, n + 1)] = At(b, n) BY <1>3, <2>1, <2>2 DEF OwnPath
  <2>4. \A j \in 0 .. n : At(At(b, n), j) = At(b, j) BY <2>1, <2>2 DEF OwnPath
  <2> QED BY <1>2, <2>3, <2>4
<1>5. Written(v) = {b} /\ Cleared(v) = {} /\ Written(w) = {} /\ Cleared(w) = {}
      /\ v.op = "applied" /\ w.op = "checkpoint" /\ w.state.block_hash = b
  BY <1>2 DEF Written, Cleared, Snapshot
<1> HIDE DEF v, w, n
<1>6. Agrees(v, b) /\ Agrees(w, b) BY <1>3, <1>4, <1>5 DEF Agrees
<1>7. \A cp \in d.CHECKPOINTS : cp.height < Index[b] BY <1>3, CheckpointHeights DEF AtRest, n
<1>8. Spares(d, v) /\ Succeeds(v, w) BY <1>5, <1>7 DEF Spares, Succeeds
<1>9. \A i \in 0 .. Index[b] : d.BLOCKS[i] = At(b, i) \/ (i = Index[b] /\ b \in Written(v))
  <2>1. \A i \in 0 .. Index[b] : i \in 0 .. n \/ i = Index[b] BY <1>3
  <2>2. \A i \in 0 .. n : d.BLOCKS[i] = At(b, i) BY <1>4 DEF AtRest, HoldsPath, n
  <2> QED BY <1>5, <2>1, <2>2
<1>10. CheckpointRows(d) BY DEF AtRest
<1>11. v.op # "checkpoint" BY <1>5
<1>12. Placed(d, <<v>>, b) BY <1>6, <1>8, <1>9, <1>10, <1>11, SinglePlaced
<1>13. Placed(d, <<v, w>>, b) BY <1>5, <1>6, <1>8, <1>9, <1>10, <1>11, PairPlaced
<1>14. Valid(b)
  <2>1. \A i \in 1 .. Index[b] : i \in 1 .. n \/ i = n + 1 BY <1>3
  <2>2. \A i \in 1 .. n : At(b, i) \notin Invalid
    <3>1. \A i \in 1 .. n : i \in 0 .. n BY <1>3
    <3> QED BY <1>4, <3>1 DEF AtRest, Valid, n
  <2> QED BY <1>2, <1>4, <2>1, <2>2 DEF Valid
<1>15. \A q : Topped(d, q, b)
  <2>1. \A cp \in d.CHECKPOINTS : cp.height <= Index[b] BY <1>3, <1>7, CheckpointHeights
  <2> QED BY <2>1 DEF Topped
<1> QED BY <1>1, <1>12, <1>13, <1>14, <1>15 DEF Headed

-----------------------------------------------------------------------------
LEMMA ForkCompletes ==
    ASSUME NEW d, NEW x \in Blocks, AtRest(d, x), NEW f, NEW z, Forks(x, f, z), NEW y, Taken(y, z)
    PROVE  Completes(d, f, y)
<1> DEFINE a == Ancestor(f)
           l == Len(f)
           n == Index[y]
<1>1. /\ a \in 0 .. Index[x] /\ l \in Nat /\ Index[z] = a + l /\ f \in Seq(Mined)
      /\ \A i \in 1 .. l : At(z, a + i) = f[i] /\ Index[f[i]] = a + i
      /\ \A i \in 0 .. a : At(z, i) = At(x, i)
  BY DEF Forks
<1>2. /\ n \in Nat /\ Index[x] \in Nat /\ n <= Index[z] /\ \A i \in 0 .. n : At(y, i) = At(z, i)
      /\ n < Index[z] => At(z, n + 1) \in Invalid
  BY IndexFacts DEF Taken
<1>3. \A i \in 1 .. l : f[i] \in Mined BY <1>1
<1>4. (\A i \in 1 .. Index[x] : At(x, i) \notin Invalid) /\ \A i \in 0 .. Index[x] : d.BLOCKS[i] = At(x, i)
  BY DEF AtRest, Valid, HoldsPath
<1> HIDE DEF a, l, n
<1>5. a <= n
  <2>1. SUFFICES ASSUME ~(a <= n) PROVE FALSE OBVIOUS
  <2>2. n < Index[z] /\ n + 1 \in 0 .. a /\ n + 1 \in 1 .. Index[x] BY <1>1, <1>2, <2>1
  <2> QED BY <1>1, <1>2, <1>4, <2>2
<1>6. \A i \in 1 .. l : a + i <= n => f[i] = At(y, a + i)
  <2>1. \A i \in 1 .. l : a + i <= n => a + i \in 0 .. n BY <1>1, <1>2
  <2> QED BY <1>1, <1>2, <2>1
<1>7. ASSUME NEW i \in 0 .. n PROVE d.BLOCKS[i] = At(y, i) \/ \E k \in 1 .. l : Index[f[k]] = i
  <2>1. CASE i <= a
    <3>1. i \in 0 .. a /\ i \in 0 .. Index[x] BY <1>1, <1>2, <2>1
    <3> QED BY <1>1, <1>2, <1>4, <3>1
  <2>2. CASE ~(i <= a)
    <3>1. i - a \in 1 .. l /\ a + (i - a) = i BY <1>1, <1>2, <2>2
    <3> QED BY <1>1, <3>1
  <2> QED BY <2>1, <2>2
<1>8. n <= a + l /\ a \in Nat BY <1>1, <1>2
<1> QED BY <1>1, <1>3, <1>5, <1>6, <1>7, <1>8 DEF Completes, a, l, n

LEMMA ShallowHeaded ==
    ASSUME NEW d, Stored(d), NEW x \in Blocks, AtRest(d, x), NEW f, NEW z, Forks(x, f, z),
           NEW y, Taken(y, z), NEW old, old # <<>>, DisplacedFrom(old, x, Ancestor(f)), NEW c
    PROVE  Headed(d, WritesShallow(c, old, f), y)
<1> DEFINE payouts == {r \in c.settled : \E b \in Elements(f) : r.at = Index[b]}
           v == [op |-> "delete", from |-> Index[old[1]]]
           w == [op |-> "reorg", old |-> old, new |-> f, tickets |-> c.pending_tickets,
                 payouts |-> payouts]
           a == Ancestor(f)
           l == Len(f)
           n == Index[y]
<1>1. WritesShallow(c, old, f) = <<v, w>> BY DEF WritesShallow
<1>2. /\ a \in Nat /\ n \in Nat /\ l \in Nat /\ a <= n /\ n <= a + l
      /\ \A i \in 1 .. l : f[i] \in Mined /\ Index[f[i]] = a + i /\ (a + i <= n => f[i] = At(y, a + i))
      /\ \A i \in 0 .. n : d.BLOCKS[i] = At(y, i) \/ \E k \in 1 .. l : Index[f[k]] = i
  <2>1. Completes(d, f, y) BY ForkCompletes
  <2>2. n \in Nat /\ l \in Nat BY IndexFacts DEF Taken, Forks
  <2> QED BY <2>1, <2>2 DEF Completes
<1>3. /\ \A b : b \in Elements(f) <=> \E i \in 1 .. l : b = f[i]
      /\ \A b : b \in Elements(old) <=> \E i \in 1 .. Len(old) : b = old[i]
  <2>1. f \in Seq(Mined) /\ old \in Seq(Blocks) BY DEF Forks, DisplacedFrom
  <2> QED BY <2>1, InElements
<1>4. Len(old) \in Nat /\ 1 \in 1 .. Len(old) /\ \A i \in 1 .. Len(old) : Index[old[i]] = a + i
  <2>1. old \in Seq(Blocks) /\ \A i \in 1 .. Len(old) : Index[old[i]] = a + i BY DEF DisplacedFrom
  <2> HIDE DEF a
  <2> QED BY <2>1
<1>5. /\ Written(v) = {} /\ Cleared(v) = {} /\ v.op = "delete" /\ v.from = a + 1
      /\ Written(w) = Elements(f) /\ Cleared(w) = Elements(old) /\ w.op = "reorg"
  BY <1>4 DEF Written, Cleared
<1> HIDE DEF v, w, a, l, n
<1>6. Agrees(v, y) /\ Spares(d, v) BY <1>5 DEF Agrees, Spares
<1>7. Agrees(w, y)
  <2>1. ASSUME NEW b \in Written(w), Index[b] <= n PROVE b = At(y, Index[b])
    <3>1. PICK i \in 1 .. l : b = f[i] BY <1>3, <1>5
    <3> QED BY <1>2, <2>1, <3>1
  <2>2. ASSUME NEW b \in Cleared(w), Index[b] <= n PROVE \E u \in Written(w) : Index[u] = Index[b]
    <3>1. PICK i \in 1 .. Len(old) : b = old[i] BY <1>3, <1>5
    <3>2. Index[b] = a + i /\ i \in 1 .. l BY <1>2, <1>4, <2>2, <3>1
    <3>3. Index[f[i]] = a + i /\ f[i] \in Written(w) BY <1>2, <1>3, <1>5, <3>2
    <3> QED BY <3>2, <3>3
  <2> QED BY <2>1, <2>2 DEF Agrees, n
<1>8. Succeeds(v, w)
  <2>1. ASSUME NEW b \in Written(w) \cup Cleared(w) PROVE a + 1 <= Index[b]
    <3>1. CASE b \in Written(w)
      <4>1. PICK i \in 1 .. l : b = f[i] BY <1>3, <1>5, <3>1
      <4> QED BY <1>2, <4>1
    <3>2. CASE b \in Cleared(w)
      <4>1. PICK i \in 1 .. Len(old) : b = old[i] BY <1>3, <1>5, <3>2
      <4> QED BY <1>2, <1>4, <4>1
    <3> QED BY <3>1, <3>2
  <2> QED BY <1>5, <2>1 DEF Succeeds
<1>9. ASSUME NEW i \in 0 .. n
      PROVE  d.BLOCKS[i] = At(y, i) \/ \E u \in Written(v) \cup Written(w) : Index[u] = i
  BY <1>2, <1>3, <1>5
<1>10. Placed(d, <<v, w>>, y)
  <2>1. CheckpointRows(d) /\ v.op # "checkpoint" /\ w.op # "checkpoint" BY <1>5 DEF AtRest
  <2> QED BY <1>6, <1>7, <1>8, <1>9, <2>1, PairPlaced DEF n
<1>11. Topped(d, <<v, w>>, y)
  <2>1. ASSUME NEW cp \in d.CHECKPOINTS PROVE cp.height <= n \/ v.from <= cp.height
    BY <1>2, <1>5, CheckpointHeights
  <2> DEFINE q == <<v, w>>
  <2>2. 1 \in 1 .. Len(q) /\ q[1] = v OBVIOUS
  <2> HIDE DEF q
  <2>3. Topped(d, q, y) BY <1>5, <2>1, <2>2 DEF Topped, n
  <2> QED BY <2>3 DEF q
<1> QED BY <1>1, <1>10, <1>11 DEF Headed, Taken

LEMMA WritesDeepQueue ==
    ASSUME NEW c, NEW f \in Seq(Mined)
    PROVE  DeepQueue(WritesDeep(c, f), f)
<1> DEFINE u == [op |-> "delete", from |-> 0]
           w == [op |-> "rebuild", tickets |-> c.pending_tickets, payouts |-> c.settled]
           saves == [i \in DOMAIN f |-> [op |-> "save", block |-> f[i]]]
           l == Len(f)
           Kinds == {u, w} \cup {saves[i] : i \in 1 .. l}
           q == <<u>> \o saves \o <<w>>
<1>1. l \in Nat /\ DOMAIN f = 1 .. l /\ WritesDeep(c, f) = q BY DEF WritesDeep
<1>2. saves \in Seq(Kinds) /\ Len(saves) = l
  <2>1. saves \in [1 .. l -> Kinds] BY <1>1
  <2> HIDE DEF saves, l, Kinds
  <2> QED BY <1>1, <2>1
<1>3. \A i \in 1 .. l : saves[i].op = "save" /\ saves[i].block = f[i] BY <1>1
<1>4. u \in Kinds /\ w \in Kinds /\ u.op = "delete" /\ u.from = 0 /\ w.op = "rebuild" OBVIOUS
<1> HIDE DEF u, w, saves, l, Kinds
<1> DEFINE s == <<u>> \o saves
<1>5. s \in Seq(Kinds) /\ Len(s) = l + 1 /\ s[1] = u /\ \A i \in 1 .. l : s[i + 1] = saves[i]
  BY <1>1, <1>2, <1>4
<1>6. q = s \o <<w>> OBVIOUS
<1> HIDE DEF s, q
<1>7. Len(q) = l + 2 /\ q[l + 2] = w /\ \A i \in 1 .. l + 1 : q[i] = s[i]
  <2>1. Len(<<w>>) = 1 /\ <<w>> \in Seq(Kinds) /\ <<w>>[1] = w BY <1>4
  <2> DEFINE e == <<w>>
  <2> HIDE DEF e
  <2>2. e = <<w>> BY DEF e
  <2>3. Len(q) = Len(s) + Len(e) /\ \A i \in 1 .. Len(s) + Len(e) : q[i] = IF i <= Len(s) THEN s[i] ELSE e[i - Len(s)]
    BY <1>5, <1>6, <2>1, <2>2, ConcatProperties
  <2>4. Len(s) + Len(e) = l + 2 /\ l + 2 - Len(s) = 1 /\ ~(l + 2 <= Len(s)) /\ l + 2 \in 1 .. l + 2
    BY <1>1, <1>5, <2>1, <2>2
  <2>5. \A i \in 1 .. l + 1 : i \in 1 .. l + 2 /\ i <= Len(s) BY <1>1, <1>5
  <2> QED BY <2>1, <2>2, <2>3, <2>4, <2>5
<1>8. \A i \in 1 .. l : i + 1 \in 1 .. l + 1 BY <1>1
<1>9. 1 \in 1 .. l + 1 BY <1>1
<1>10. DeepQueue(q, f) BY <1>1, <1>3, <1>4, <1>5, <1>7, <1>8, <1>9 DEF DeepQueue, l
<1> QED BY <1>1, <1>10

LEMMA DeepHeaded ==
    ASSUME NEW d, Stored(d), NEW x \in Blocks, AtRest(d, x), NEW f, NEW z, Forks(x, f, z),
           NEW y, Taken(y, z), NEW q, DeepQueue(q, f)
    PROVE  Headed(d, q, y)
<1> DEFINE a == Ancestor(f)
           l == Len(f)
           n == Index[y]
<1>1. /\ a \in Nat /\ n \in Nat /\ l \in Nat /\ l >= 1
      /\ \A i \in 1 .. l : f[i] \in Mined /\ Index[f[i]] = a + i /\ (a + i <= n => f[i] = At(y, a + i))
      /\ \A i \in 0 .. n : d.BLOCKS[i] = At(y, i) \/ \E k \in 1 .. l : Index[f[k]] = i
  <2>1. Completes(d, f, y) BY ForkCompletes
  <2>2. n \in Nat /\ l \in Nat /\ l >= 1 BY IndexFacts DEF Taken, Forks
  <2> QED BY <2>1, <2>2 DEF Completes
<1>2. /\ Len(q) = l + 2 /\ q[1].op = "delete" /\ q[1].from = 0 /\ q[l + 2].op = "rebuild"
      /\ \A i \in 1 .. l : q[i + 1].op = "save" /\ q[i + 1].block = f[i]
  BY DEF DeepQueue
<1> HIDE DEF a, l, n
<1>3. \A k \in 1 .. Len(q) : \/ k = 1 \/ k = l + 2
                             \/ k - 1 \in 1 .. l /\ (k - 1) + 1 = k
  BY <1>1, <1>2
<1>4. ASSUME NEW k \in 1 .. Len(q)
      PROVE  /\ q[k].op \in {"delete", "rebuild"} \/ (q[k].op = "save" /\ \E i \in 1 .. l : q[k].block = f[i])
             /\ k = 1 \/ q[k].op \in {"save", "rebuild"}
  BY <1>2, <1>3
<1>5. \A k \in 1 .. Len(q) : Agrees(q[k], y)
  <2>1. TAKE k \in 1 .. Len(q)
  <2>2. CASE q[k].op \in {"delete", "rebuild"} BY <2>2 DEF Agrees, Written, Cleared
  <2>3. ASSUME q[k].op = "save", NEW i \in 1 .. l, q[k].block = f[i] PROVE Agrees(q[k], y)
    <3>1. Written(q[k]) = {f[i]} /\ Cleared(q[k]) = {} BY <2>3 DEF Written, Cleared
    <3> QED BY <1>1, <3>1 DEF Agrees, n
  <2> QED BY <1>4, <2>2, <2>3
<1>6. RowsComing(d.BLOCKS, q, y)
  <2>1. ASSUME NEW i \in 0 .. n, NEW j \in 1 .. l, Index[f[j]] = i
        PROVE  \E k \in 1 .. Len(q) : \E b \in Written(q[k]) : Index[b] = i
    <3>1. j + 1 \in 1 .. Len(q) BY <1>1, <1>2
    <3>2. q[j + 1].op = "save" /\ q[j + 1].block = f[j] BY <1>2
    <3>3. f[j] \in Written(q[j + 1]) BY <3>2 DEF Written
    <3> QED BY <2>1, <3>1, <3>3
  <2> QED BY <1>1, <2>1 DEF RowsComing, n
<1>7. Spares(d, q[1]) BY <1>2 DEF Spares, Written, Cleared
<1>8. \A k \in 1 .. Len(q) - 1 : Succeeds(q[k], q[k + 1])
  <2>1. TAKE k \in 1 .. Len(q) - 1
  <2>2. k \in 1 .. Len(q) /\ k + 1 \in 1 .. Len(q) /\ k + 1 # 1 /\ k # l + 2 /\ 1 \in 1 .. l /\ (k # 1 => k - 1 \in 1 .. l /\ (k - 1) + 1 = k)
    BY <1>1, <1>2
  <2>3. q[k + 1].op \in {"save", "rebuild"} BY <1>4, <2>2
  <2>4. CASE k = 1
    <3>1. q[1 + 1].op = "save" BY <1>2, <2>2
    <3> QED BY <1>2, <2>4, <3>1 DEF Succeeds
  <2>5. CASE k # 1
    <3>1. q[k].op = "save" BY <1>2, <2>2, <2>5
    <3> QED BY <2>3, <3>1 DEF Succeeds
  <2> QED BY <2>4, <2>5
<1>9. \A k \in 1 .. Len(q) : q[k].op # "checkpoint" BY <1>2, <1>4
<1>10. Placed(d, q, y)
  <2>1. CheckpointRows(d) BY DEF AtRest
  <2> QED BY <1>5, <1>6, <1>7, <1>8, <1>9, <2>1 DEF Placed
<1>11. Topped(d, q, y)
  <2>1. 1 \in 1 .. Len(q) BY <1>1, <1>2
  <2>2. \A cp \in d.CHECKPOINTS : 0 <= cp.height BY CheckpointHeights
  <2> QED BY <1>2, <2>1, <2>2 DEF Topped
<1> QED BY <1>10, <1>11 DEF Headed, Taken

-----------------------------------------------------------------------------
\* What a chain inherits block by block.
LEMMA ChainsHereditary == Hereditary(Chains)
<1>1. \A c \in Chains, b \in Blocks : WellFormed(c) /\ Accepts(c, b) => UpdateState(c, b) \in Chains
  BY UpdateWellFormed DEF WellFormed
<1>2. \A c \in Chains, pool \in SUBSET Mined : [c EXCEPT !.orphan_pool = pool] \in Chains BY DEF Chains
<1> QED BY <1>1, <1>2 DEF Hereditary

LEMMA TipOnPath ==
    ASSUME NEW c, WellFormed(c)
    PROVE  Tip(c) \in Blocks /\ OnPath(c, Tip(c))
<1>1. PICK b \in Blocks : OnPath(c, b) BY DEF WellFormed
<1>2. Tip(c) = b BY <1>1, OnPathAligned DEF Aligned
<1> QED BY <1>1, <1>2

LEMMA PruneKeeps ==
    ASSUME NEW c, c \in Chains
    PROVE  /\ PruneToWindow(c).ledger = c.ledger /\ PruneToWindow(c).pending_tickets = c.pending_tickets
           /\ PruneToWindow(c).blocks_offset = RW!PrunedOffset(c.blocks_offset, Len(c.blocks))
           /\ Len(PruneToWindow(c).blocks) = RW!PrunedLength(Len(c.blocks))
<1> DEFINE l == Len(c.blocks)
           w == ReorgWindow
           drop == l - w
           offset == c.blocks_offset + drop
           kept == SubSeq(c.blocks, drop + 1, l)
           p == PruneToWindow(c)
<1>1. l \in Nat /\ w \in Nat /\ c.blocks_offset \in Nat /\ c.blocks \in Seq(Blocks)
  BY NodeAssumption DEF Chains
<1>2. RW!PrunedOffset(c.blocks_offset, l) = (IF l > w THEN c.blocks_offset + (l - w) ELSE c.blocks_offset)
      /\ RW!PrunedLength(l) = (IF l > w THEN w ELSE l)
  BY DEF RW!PrunedOffset, RW!PrunedLength, RW!Kept
<1>3. CASE drop <= 0
  <2>1. p = c BY <1>3 DEF PruneToWindow
  <2>2. ~(l > w) BY <1>1, <1>3
  <2> QED BY <1>2, <2>1, <2>2
<1>4. CASE ~(drop <= 0)
  <2>1. p.ledger = c.ledger /\ p.pending_tickets = c.pending_tickets /\ p.blocks = kept /\ p.blocks_offset = offset
    BY <1>4 DEF PruneToWindow, Chains
  <2>2. l > w /\ drop = l - w BY <1>1, <1>4
  <2>3. Len(kept) = w
    <3>1. Len(kept) = IF drop + 1 <= l THEN l - (drop + 1) + 1 ELSE 0
      <4>1. drop + 1 \in Nat /\ drop + 1 >= 1 /\ l <= Len(c.blocks) BY <1>1, <1>4
      <4> HIDE DEF drop, l
      <4> QED BY <1>1, <4>1, SubSeqFacts
    <3> HIDE DEF kept, l, w
    <3> QED BY <1>1, <1>4, <3>1
  <2> HIDE DEF p, kept, l, w
  <2> QED BY <1>2, <2>1, <2>2, <2>3 DEF p, l, offset, drop
<1> QED BY <1>3, <1>4

LEMMA DrainTrims ==
    ASSUME NEW c, WellFormed(c), NEW rest \in SUBSET Draws, NEW e, e = [c EXCEPT !.settled = rest]
    PROVE  Trimmed(c, PruneToWindow(e))
<1> DEFINE tickets == c.pending_tickets
           p == PruneToWindow(e)
<1>1. c \in Chains /\ tickets \in SUBSET Mined BY DEF WellFormed, Chains
<1>2. /\ e.ledger = c.ledger /\ e.pending_tickets = c.pending_tickets /\ e.blocks = c.blocks
      /\ e.blocks_offset = c.blocks_offset
  BY <1>1 DEF Chains
<1>3. e = [c EXCEPT !.settled = rest, !.pending_tickets = tickets] BY <1>1 DEF Chains
<1> HIDE DEF tickets
<1>4. WellFormed([c EXCEPT !.settled = rest, !.pending_tickets = tickets]) BY <1>1, TicketsChanged
<1>5. WellFormed(e) BY <1>3, <1>4
<1>6. /\ WellFormed(p) /\ p.ledger = e.ledger /\ p.pending_tickets = e.pending_tickets
      /\ \A y \in Blocks : OnPath(e, y) => OnPath(p, y)
      /\ p.blocks_offset = RW!PrunedOffset(e.blocks_offset, Len(e.blocks))
      /\ Len(p.blocks) = RW!PrunedLength(Len(e.blocks))
  BY <1>5, PruneWellFormed, PruneKeeps DEF WellFormed
<1> HIDE DEF p
<1>7. \A y \in Blocks : OnPath(c, y) => OnPath(e, y) BY <1>2 DEF OnPath
<1>8. \A y \in Blocks : OnPath(c, y) => OnPath(p, y) /\ Tip(p) = y BY <1>6, <1>7, OnPathAligned DEF Aligned
<1>9. Trimmed(c, p) BY <1>2, <1>6, <1>8 DEF Trimmed
<1> QED BY <1>9 DEF p

LEMMA ReceiveAnswers ==
    ASSUME NodeInv, PathInv, NEW b \in Mined, Receive(b),
           NEW P, Hereditary(P), chain \in P, GenesisChain \in P
    PROVE  \E r : Answered(r, b, P)
<1> DEFINE x == Tip(chain)
<1>1. WellFormed(chain) /\ RowsPlaced(db.BLOCKS) BY DEF NodeInv, Stored
<1>2. x \in Blocks /\ OnPath(chain, x) BY <1>1, TipOnPath
<1>3. AtRest(db, x)
  <2>1. up /\ todo = <<>> BY DEF Receive
  <2>2. Headed(db, <<>>, x) BY <2>1 DEF Headed, PathInv
  <2> HIDE DEF x
  <2> QED BY <2>2, RestHeaded
<1>4. PICK r \in ApplyInMemory(chain, b, db.BLOCKS) :
         /\ chain' = IF r.kind \in {"Applied", "Reorged"}
                     THEN PruneToWindow([r.chain EXCEPT !.settled = @ \ Drained(r)])
                     ELSE r.chain
         /\ todo' = Writes(r) /\ stray' = stray \cup LeftBehind(r)
  BY DEF Receive
<1>5. r.chain \in P /\ WellFormed(r.chain) /\ Changed(chain, x, b, db.BLOCKS, r)
  <2> HIDE DEF x
  <2>1. HoldsPath(db.BLOCKS, x) BY <1>3 DEF AtRest
  <2> QED BY <1>1, <1>2, <2>1, ApplyReaches
<1>6. ASSUME r.kind \in {"Applied", "Reorged"} PROVE Trimmed(r.chain, chain')
  <2> DEFINE c == r.chain
             rest == c.settled \ Drained(r)
             e == [c EXCEPT !.settled = rest]
  <2>1. WellFormed(c) /\ rest \in SUBSET Draws BY <1>5 DEF WellFormed, Chains
  <2>2. chain' = PruneToWindow(e) BY <1>4, <1>6
  <2> HIDE DEF rest, c
  <2>3. e = [c EXCEPT !.settled = rest] OBVIOUS
  <2> HIDE DEF e
  <2>4. Trimmed(c, PruneToWindow(e)) BY <2>1, <2>3, DrainTrims
  <2> QED BY <2>2, <2>4 DEF c
<1> QED BY <1>3, <1>4, <1>5, <1>6 DEF Answered, Receive

LEMMA AnsweredHeaded ==
    ASSUME NodeInv, NEW r, NEW b \in Mined, NEW P, Answered(r, b, P)
    PROVE  Headed(db', todo', Tip(chain'))
<1> DEFINE x == Tip(chain)
<1>1. WellFormed(chain) /\ Stored(db) /\ x \in Blocks BY TipOnPath DEF NodeInv
<1>2. AtRest(db, x) /\ db' = db /\ todo' = Writes(r) BY DEF Answered
<1> HIDE DEF x
<1>3. CASE Extended(chain, x, b, r)
  <2>1. r.kind = "Applied" /\ Extends(b, x) /\ OnPath(r.chain, b) /\ b \in Blocks BY <1>3 DEF Extended, Mined
  <2>2. Tip(chain') = b BY <2>1 DEF Answered, Trimmed
  <2>3. Writes(r) = WritesApplied(r.chain) BY <2>1 DEF Writes
  <2>4. Headed(db, WritesApplied(r.chain), b) BY <1>1, <1>2, <2>1, AppliedHeaded
  <2> QED BY <1>2, <2>2, <2>3, <2>4
<1>4. CASE Untouched(chain, x, b, r)
  <2>1. r.kind \in {"Rejected", "Orphaned"} /\ OnPath(r.chain, x) BY <1>4 DEF Untouched
  <2>2. chain' = r.chain BY <2>1 DEF Answered
  <2>3. Tip(chain') = x BY <1>1, <2>1, <2>2, OnPathAligned DEF Aligned
  <2>4. Writes(r) = <<>> BY <2>1 DEF Writes
  <2> QED BY <1>2, <2>3, <2>4, RestHeaded
<1>5. ASSUME NEW z, NEW y, Switched(chain, x, db.BLOCKS, r, z, y)
      PROVE  Headed(db', todo', Tip(chain'))
  <2>1. /\ r.kind = "Reorged" /\ Forks(x, r.new, z) /\ Taken(y, z) /\ OnPath(r.chain, y) /\ y \in Blocks
        /\ DisplacedFrom(r.old, x, Ancestor(r.new))
    BY <1>5 DEF Switched, Taken
  <2>2. Tip(chain') = y BY <2>1 DEF Answered, Trimmed
  <2>3. CASE r.old # <<>>
    <3>1. Writes(r) = WritesShallow(r.chain, r.old, r.new) BY <2>1, <2>3 DEF Writes
    <3>2. Headed(db, WritesShallow(r.chain, r.old, r.new), y) BY <1>1, <1>2, <2>1, <2>3, ShallowHeaded
    <3> QED BY <1>2, <2>2, <3>1, <3>2
  <2>4. CASE r.old = <<>>
    <3>1. Writes(r) = WritesDeep(r.chain, r.new) BY <2>1, <2>4 DEF Writes
    <3>2. r.new \in Seq(Mined) BY <2>1 DEF Forks
    <3>3. DeepQueue(WritesDeep(r.chain, r.new), r.new) BY <3>2, WritesDeepQueue
    <3>4. Headed(db, WritesDeep(r.chain, r.new), y) BY <1>1, <1>2, <2>1, <3>3, DeepHeaded
    <3> QED BY <1>2, <2>2, <3>1, <3>4
  <2> QED BY <2>3, <2>4
<1> QED BY <1>3, <1>4, <1>5 DEF Answered, Changed, x

-----------------------------------------------------------------------------
\* Startup: the chain it builds, and the rows it builds it from.
LEMMA StartupReaches ==
    ASSUME NEW d, Stored(d), CheckpointRows(d), NEW P, Hereditary(P),
           UsesCheckpoint(d) => RestoreFromCheckpoint(LatestCheckpoint(d)) \in P,
           ~UsesCheckpoint(d) => GenesisChain \in P
    PROVE  /\ Loaded(d) \in P /\ WellFormed(Loaded(d))
           /\ LoadedTo(d.BLOCKS, Base(d), Tip(Loaded(d)))
           /\ HoldsPath(d.BLOCKS, Tip(Loaded(d))) /\ Valid(Tip(Loaded(d)))
<1> DEFINE c == Loaded(d)
           x == Base(d)
<1>1. c \in P /\ WellFormed(c) /\ x \in Blocks /\ \E y : LoadedTo(d.BLOCKS, x, y) /\ OnPath(c, y)
  BY LoadedReaches
<1>2. HoldsPath(d.BLOCKS, x) /\ Valid(x) BY BaseHeld
<1> HIDE DEF c, x
<1>3. PICK y : LoadedTo(d.BLOCKS, x, y) /\ OnPath(c, y) BY <1>1
<1>4. y \in Blocks BY <1>3 DEF LoadedTo
<1>5. Tip(c) = y BY <1>3, <1>4, OnPathAligned DEF Aligned
<1>6. HoldsPath(d.BLOCKS, y) /\ Valid(y) BY <1>1, <1>2, <1>3, LoadedHeld
<1> QED BY <1>1, <1>3, <1>5, <1>6 DEF c, x

LEMMA ServedChain ==
    ASSUME NEW d, Stored(d)
    PROVE  Tip(ChainAtStartup(d)) = Tip(Loaded(d)) /\ OnPath(ChainAtStartup(d), Tip(Loaded(d)))
           /\ ChainAtStartup(d).ledger = Loaded(d).ledger
<1> DEFINE c == Loaded(d)
           p == PruneToWindow(c)
           tickets == LoadTickets(d)
           e == [p EXCEPT !.settled = {}, !.pending_tickets = tickets]
           y == Tip(c)
<1>1. WellFormed(c) /\ y \in Blocks /\ OnPath(c, y) BY LoadedSound, TipOnPath DEF SoundChains
<1>2. WellFormed(p) /\ OnPath(p, y) /\ p.ledger = c.ledger BY <1>1, PruneWellFormed, PruneKeeps DEF WellFormed
<1>3. ChainAtStartup(d) = e BY DEF ChainAtStartup
<1> HIDE DEF p, c, y, tickets
<1>4. e.ledger = p.ledger /\ e.blocks = p.blocks /\ e.blocks_offset = p.blocks_offset
  BY <1>2 DEF WellFormed, Chains
<1> HIDE DEF e
<1>5. OnPath(e, y) BY <1>2, <1>4 DEF OnPath
<1>6. Tip(e) = y BY <1>1, <1>5, OnPathAligned DEF Aligned
<1> QED BY <1>2, <1>3, <1>4, <1>5, <1>6 DEF y, c

LEMMA StartupRests ==
    ASSUME NEW d, Stored(d), CheckpointRows(d)
    PROVE  AtRest(TablesAfterStartup(d), Tip(ChainAtStartup(d)))
<1> DEFINE y == Tip(Loaded(d))
           e == TablesAfterStartup(d)
<1>1. GenesisChain \in Chains /\ (UsesCheckpoint(d) => RestoreFromCheckpoint(LatestCheckpoint(d)) \in Chains)
  <2>1. GenesisChain \in Chains BY GenesisWellFormed DEF WellFormed
  <2>2. ASSUME UsesCheckpoint(d) PROVE RestoreFromCheckpoint(LatestCheckpoint(d)) \in Chains
    <3>1. Consistent(LatestCheckpoint(d)) BY <2>2, LatestStored DEF UsesCheckpoint, Stored
    <3> QED BY <3>1, RestoreSound DEF SoundChains
  <2> QED BY <2>1, <2>2
<1>2. LoadedTo(d.BLOCKS, Base(d), y) /\ HoldsPath(d.BLOCKS, y) /\ Valid(y)
  BY <1>1, ChainsHereditary, StartupReaches
<1>3. UsesCheckpoint(d) <=> d.CHECKPOINTS # {} BY BaseHeld
<1>4. Tip(ChainAtStartup(d)) = y BY ServedChain
<1> HIDE DEF y
<1>5. CASE UsesCheckpoint(d)
  <2> DEFINE cp == LatestCheckpoint(d)
  <2>1. e = d BY <1>5 DEF TablesAfterStartup
  <2>2. cp.height = Index[cp.block_hash] /\ cp.height \in Nat /\ cp \in d.CHECKPOINTS
    BY <1>3, <1>5, LatestStored, CheckpointHeights DEF Stored, Consistent
  <2>3. Index[cp.block_hash] <= Index[y] /\ Index[y] \in Nat BY <1>2, <1>5, IndexFacts DEF LoadedTo, Base
  <2>4. \A c \in d.CHECKPOINTS : c.height <= cp.height BY <1>3, <1>5, LatestStored
  <2> HIDE DEF cp
  <2>5. \A c \in d.CHECKPOINTS : c.height <= Index[y] BY <2>2, <2>3, <2>4, CheckpointHeights
  <2> QED BY <1>2, <1>4, <2>1, <2>5 DEF AtRest
<1>6. CASE ~UsesCheckpoint(d)
  <2>1. e.BLOCKS = d.BLOCKS /\ e.CHECKPOINTS = {} BY <1>6 DEF TablesAfterStartup, Stored, Tables
  <2> HIDE DEF e
  <2> QED BY <1>2, <1>4, <2>1 DEF AtRest, CheckpointRows, e
<1> QED BY <1>5, <1>6

-----------------------------------------------------------------------------
\* The rows hold the chain, step by step.
LEMMA GenesisRests ==
    ASSUME NEW d, Stored(d), CheckpointRows(d)
    PROVE  Placed(d, <<>>, Genesis) /\ Valid(Genesis)
<1>1. Index[Genesis] = 0 /\ OwnPath(Genesis) /\ d.BLOCKS[0] = Genesis
  BY IndexFacts, OwnPathFacts, NodeAssumption DEF Stored, RowsPlaced
<1>2. HoldsPath(d.BLOCKS, Genesis) /\ Valid(Genesis)
  <2>1. \A i \in 0 .. 0 : i = 0 OBVIOUS
  <2>2. 1 .. 0 = {} OBVIOUS
  <2> QED BY <1>1, <2>1, <2>2 DEF HoldsPath, Valid, OwnPath
<1> DEFINE q == <<>>
<1>3. q = <<>> /\ 1 .. Len(q) = {} /\ 1 .. Len(q) - 1 = {} OBVIOUS
<1> HIDE DEF q
<1>4. RowsComing(d.BLOCKS, q, Genesis) BY <1>2 DEF RowsComing, HoldsPath
<1>5. Placed(d, q, Genesis) BY <1>3, <1>4 DEF Placed
<1> QED BY <1>2, <1>5 DEF q

LEMMA PathInit == Init => PathInv
<1> SUFFICES ASSUME Init PROVE PathInv OBVIOUS
<1>1. Stored(db) /\ Tip(chain) = Genesis /\ todo = <<>> /\ db.CHECKPOINTS = {}
  <2>1. chain = GenesisChain /\ todo = <<>> /\ db.CHECKPOINTS = {} BY DEF Init
  <2>2. Tip(GenesisChain) = Genesis BY GenesisWellFormed, NodeAssumption, OnPathAligned DEF Aligned
  <2>3. Stored(db) BY InitInv DEF NodeInv
  <2> QED BY <2>1, <2>2, <2>3
<1>2. CheckpointRows(db) BY <1>1 DEF CheckpointRows
<1>3. Topped(db, todo, Genesis) BY <1>1 DEF Topped
<1> QED BY <1>1, <1>2, <1>3, GenesisRests DEF PathInv

LEMMA PathWrite ==
    ASSUME NodeInv, PathInv, Write
    PROVE  PathInv'
<1> DEFINE x == Tip(chain)
<1>1. Stored(db) /\ Scheduled(db, todo) /\ todo # <<>> /\ x \in Blocks /\ up BY TipOnPath DEF NodeInv, Write
<1>2. Valid(x) /\ Placed(db, todo, x) /\ Topped(db, todo, x) BY <1>1 DEF PathInv
<1> HIDE DEF x
<1>3. Placed(Commit(db, Head(todo)), Tail(todo), x) /\ Topped(Commit(db, Head(todo)), Tail(todo), x)
  BY <1>1, <1>2, PlacedAdvances, ToppedAdvances
<1>4. db' = Commit(db, Head(todo)) /\ todo' = Tail(todo) /\ chain' = chain /\ up' = up BY DEF Write
<1>5. Tip(chain') = x BY <1>4 DEF x
<1> QED BY <1>2, <1>3, <1>4, <1>5 DEF PathInv

LEMMA PathReceive ==
    ASSUME NodeInv, PathInv, NEW b \in Mined, Receive(b)
    PROVE  PathInv'
<1>1. chain \in Chains /\ GenesisChain \in Chains BY GenesisWellFormed DEF NodeInv, WellFormed
<1>2. PICK r : Answered(r, b, Chains) BY <1>1, ChainsHereditary, ReceiveAnswers
<1>3. Headed(db', todo', Tip(chain')) BY <1>2, AnsweredHeaded
<1> QED BY <1>3 DEF Headed, PathInv

LEMMA PathCrash ==
    ASSUME NodeInv, PathInv, Crash
    PROVE  PathInv'
<1>1. Stored(db) /\ CheckpointRows(db) BY DEF NodeInv, PathInv, Placed
<1>2. db' = db /\ todo' = <<>> /\ up' = FALSE /\ Tip(chain') = Genesis
  <2>1. chain' = GenesisChain BY DEF Crash
  <2>2. Tip(GenesisChain) = Genesis BY GenesisWellFormed, NodeAssumption, OnPathAligned DEF Aligned
  <2> QED BY <2>1, <2>2 DEF Crash
<1> QED BY <1>1, <1>2, GenesisRests DEF PathInv

LEMMA PathStartUp ==
    ASSUME NodeInv, PathInv, StartUp, todo = <<>>
    PROVE  PathInv'
<1>1. Stored(db) /\ CheckpointRows(db) BY DEF NodeInv, PathInv, Placed
<1>2. chain' = ChainAtStartup(db) /\ db' = TablesAfterStartup(db) /\ todo' = <<>> BY DEF StartUp
<1>3. AtRest(db', Tip(chain')) BY <1>1, <1>2, StartupRests
<1>4. Headed(db', <<>>, Tip(chain')) BY <1>3, RestHeaded
<1> QED BY <1>2, <1>4 DEF PathInv, Headed

LEMMA PathNext ==
    ASSUME NodeInv, PathInv, [Next \/ NextRebooting]_vars
    PROVE  PathInv'
<1>1. CASE \E b \in Mined : Receive(b) BY <1>1, PathReceive
<1>2. CASE Write BY <1>2, PathWrite
<1>3. CASE Crash BY <1>3, PathCrash
<1>4. CASE Restart BY <1>4, PathStartUp DEF Restart, NodeInv
<1>5. CASE Reboot BY <1>5, PathStartUp DEF Reboot, Idle
<1>6. CASE UNCHANGED vars
  <2>1. chain' = chain /\ db' = db /\ todo' = todo /\ up' = up BY <1>6 DEF vars
  <2> QED BY <2>1 DEF PathInv
<1> QED BY <1>1, <1>2, <1>3, <1>4, <1>5, <1>6 DEF Next, NextRebooting, Running

LEMMA PathInvariance == (Spec \/ SpecRebooting) => [](NodeInv /\ PathInv)
<1>1. NodeInv /\ PathInv /\ [Next]_vars => NodeInv' /\ PathInv' BY NextInv, PathNext DEF vars
<1>2. NodeInv /\ PathInv /\ [NextRebooting]_vars => NodeInv' /\ PathInv' BY NextInv, PathNext DEF vars
<1>3. Spec => [](NodeInv /\ PathInv) BY <1>1, InitInv, PathInit, PTL DEF Spec
<1>4. SpecRebooting => [](NodeInv /\ PathInv) BY <1>2, InitInv, PathInit, PTL DEF SpecRebooting
<1> QED BY <1>3, <1>4, PTL

\* With no write outstanding, the rows of BLOCKS up to the tip are the chain the
\* node is on: a restart finds every one of its blocks, after any reorgs and
\* wherever the process has died before (db.rs:285-368, main.rs:560-640).
THEOREM RowsHoldChain ==
    (Spec \/ SpecRebooting) => [](Idle => \A i \in 0 .. Index[Tip(chain)] : db.BLOCKS[i] = Path[i + 1])
<1>1. NodeInv /\ PathInv => (Idle => \A i \in 0 .. Index[Tip(chain)] : db.BLOCKS[i] = Path[i + 1])
  <2> SUFFICES ASSUME NodeInv, PathInv, Idle
               PROVE  \A i \in 0 .. Index[Tip(chain)] : db.BLOCKS[i] = Path[i + 1]
    OBVIOUS
  <2> DEFINE x == Tip(chain)
  <2>1. Headed(db, <<>>, x) BY DEF PathInv, Idle, Headed
  <2> HIDE DEF x
  <2>2. HoldsPath(db.BLOCKS, x) BY <2>1, RestHeaded DEF AtRest
  <2> QED BY <2>2 DEF HoldsPath, At, Path, x
<1> QED BY <1>1, PathInvariance, PTL

\* No block whose content update_state rejects is ever on the chain a node is
\* on, whatever it was offered and whatever it reloads (blockchain.rs:1010-1100).
THEOREM ChainIsValid == (Spec \/ SpecRebooting) => [](Elements(Path) \cap Invalid = {})
<1>1. NodeInv /\ PathInv => Elements(Path) \cap Invalid = {}
  <2> SUFFICES ASSUME NodeInv, PathInv PROVE Elements(Path) \cap Invalid = {}
    OBVIOUS
  <2> DEFINE x == Tip(chain)
             p == PathTo[x]
  <2>1. x \in Blocks /\ Valid(x) BY TipOnPath DEF NodeInv, PathInv
  <2>2. Path = p BY DEF Path
  <2> HIDE DEF x
  <2>3. p \in Seq(Blocks) /\ Len(p) = Index[x] + 1 /\ Index[x] \in Nat
    BY <2>1, PathFacts, IndexFacts DEF Leads
  <2>4. \A y : y \in Elements(p) <=> \E i \in 1 .. Len(p) : y = p[i] BY <2>3, InElements
  <2>5. ASSUME NEW i \in 1 .. Len(p) PROVE p[i] \notin Invalid
    <3>1. CASE i = 1
      <4>1. At(x, 0) = Genesis BY <2>1, OwnPathFacts DEF OwnPath
      <4> QED BY <3>1, <4>1, NodeAssumption DEF At, Mined
    <3>2. CASE i # 1
      <4>1. i - 1 \in 1 .. Index[x] /\ (i - 1) + 1 = i BY <2>3, <3>2
      <4>2. At(x, i - 1) \notin Invalid BY <2>1, <4>1 DEF Valid
      <4> QED BY <4>1, <4>2 DEF At
    <3> QED BY <3>1, <3>2
  <2> QED BY <2>2, <2>4, <2>5
<1> QED BY <1>1, PathInvariance, PTL

\* The row of every stored checkpoint is the checkpoint's own block, between any
\* two write transactions: startup never refuses a checkpoint for a block hash
\* that differs and starts from genesis with it in the table (main.rs:575).
THEOREM CheckpointsMatchRows ==
    (Spec \/ SpecRebooting) => [](\A cp \in db.CHECKPOINTS : db.BLOCKS[cp.height] = cp.block_hash)
<1>1. NodeInv /\ PathInv => \A cp \in db.CHECKPOINTS : db.BLOCKS[cp.height] = cp.block_hash
  <2> SUFFICES ASSUME NodeInv, PathInv, NEW cp \in db.CHECKPOINTS
               PROVE  db.BLOCKS[cp.height] = cp.block_hash
    OBVIOUS
  <2> DEFINE x == cp.block_hash
  <2>1. x \in Blocks /\ cp.height = Index[x] /\ HoldsPath(db.BLOCKS, x)
    BY DEF NodeInv, Stored, Consistent, CheckpointStates, PathInv, Placed, CheckpointRows
  <2> HIDE DEF x
  <2>2. Index[x] \in 0 .. Index[x] /\ At(x, Index[x]) = x BY <2>1, IndexFacts, OwnPathFacts DEF OwnPath
  <2> QED BY <2>1, <2>2 DEF HoldsPath, x
<1> QED BY <1>1, PathInvariance, PTL

-----------------------------------------------------------------------------
\* Work of sets of blocks and of paths.
LEMMA WorkFacts ==
    /\ \A A, B \in SUBSET Blocks :
          /\ TotalWork(A \cup B) + TotalWork(A \cap B) = TotalWork(A) + TotalWork(B)
          /\ TotalWork(A) \in Nat
          /\ A \subseteq B => TotalWork(A) <= TotalWork(B)
    /\ TotalWork({}) = 0 /\ \A b \in Blocks : TotalWork({b}) = Work[b] /\ Work[b] \in Nat /\ Work[b] > 0
<1>1. IsFiniteSet(Blocks) /\ Work \in [Blocks -> Nat] /\ \A b \in Blocks : Work[b] \in Nat /\ Work[b] > 0
  <2>1. IsFiniteSet(Blocks) /\ Work \in [Blocks -> Nat \ {0}] BY NodeAssumption
  <2>2. \A b \in Blocks : Work[b] \in Nat /\ Work[b] > 0 BY <2>1
  <2>3. Work = [b \in Blocks |-> Work[b]] BY <2>1
  <2>4. Work \in [Blocks -> Nat] BY <2>2, <2>3
  <2> QED BY <2>1, <2>2, <2>4
<1>2. \A S : TotalWork(S) = SumOn(Work, S) BY DEF TotalWork, SumOn, SumOf
<1>3. \A A, B \in SUBSET Blocks : SumOn(Work, A \cup B) + SumOn(Work, A \cap B) = SumOn(Work, A) + SumOn(Work, B)
  BY <1>1, SumUnion
<1>4. \A A \in SUBSET Blocks : SumOn(Work, A) \in Nat BY <1>1, SumMonotone
<1>5. ASSUME NEW A \in SUBSET Blocks, NEW B \in SUBSET Blocks, A \subseteq B PROVE SumOn(Work, A) <= SumOn(Work, B)
  <2>1. A \in SUBSET B BY <1>5
  <2> QED BY <1>1, <2>1, SumMonotone
<1>6. SumOn(Work, {}) = 0 /\ \A b \in Blocks : SumOn(Work, {b}) = Work[b] BY <1>1, SumSmall
<1> QED BY <1>1, <1>2, <1>3, <1>4, <1>5, <1>6

LEMMA PathSetFacts ==
    ASSUME NEW x \in Blocks
    PROVE  /\ PathSet(x) \in SUBSET Blocks /\ Elements(PathTo[x]) = PathSet(x)
           /\ \A a \in 0 .. Index[x] : /\ PathUpTo(x, a) \cup PathAbove(x, a) = PathSet(x)
                                       /\ PathUpTo(x, a) \cap PathAbove(x, a) = {}
<1> DEFINE p == PathTo[x]
           n == Index[x]
<1>1. p \in Seq(Blocks) /\ Len(p) = n + 1 /\ n \in Nat /\ OwnPath(x)
  BY PathFacts, IndexFacts, OwnPathFacts DEF Leads
<1>2. \A y : y \in Elements(p) <=> \E i \in 1 .. Len(p) : y = p[i] BY <1>1, InElements
<1>3. \A i \in 0 .. n : At(x, i) \in Blocks /\ Index[At(x, i)] = i /\ At(x, i) = p[i + 1]
  BY <1>1 DEF OwnPath, At
<1> HIDE DEF p, n
<1>4. \A y : y \in PathSet(x) <=> \E i \in 0 .. n : y = At(x, i) BY DEF PathSet, n
<1>5. Elements(p) = PathSet(x)
  <2>1. ASSUME NEW y \in Elements(p) PROVE y \in PathSet(x)
    <3>1. PICK i \in 1 .. Len(p) : y = p[i] BY <1>2
    <3>2. i - 1 \in 0 .. n /\ (i - 1) + 1 = i BY <1>1
    <3>3. At(x, i - 1) = p[i] BY <1>3, <3>2
    <3> QED BY <1>4, <3>1, <3>2, <3>3
  <2>2. ASSUME NEW y \in PathSet(x) PROVE y \in Elements(p)
    <3>1. PICK i \in 0 .. n : y = At(x, i) BY <1>4
    <3>2. i + 1 \in 1 .. Len(p) BY <1>1
    <3> QED BY <1>2, <1>3, <3>1, <3>2
  <2> QED BY <2>1, <2>2
<1>6. ASSUME NEW a \in 0 .. n
      PROVE  /\ PathUpTo(x, a) \cup PathAbove(x, a) = PathSet(x)
             /\ PathUpTo(x, a) \cap PathAbove(x, a) = {}
  <2>1. 0 .. n = (0 .. a) \cup (a + 1 .. n) BY <1>1
  <2>2. PathUpTo(x, a) \cup PathAbove(x, a) = PathSet(x) BY <2>1 DEF PathUpTo, PathAbove, PathSet, n
  <2>3. ASSUME NEW y, y \in PathUpTo(x, a), y \in PathAbove(x, a) PROVE FALSE
    <3>1. PICK i \in 0 .. a : y = At(x, i) BY <2>3 DEF PathUpTo
    <3>2. PICK j \in a + 1 .. n : y = At(x, j) BY <2>3 DEF PathAbove, n
    <3>3. i \in 0 .. n /\ j \in 0 .. n /\ i # j BY <1>1
    <3> QED BY <1>3, <3>1, <3>2, <3>3
  <2> QED BY <2>2, <2>3
<1> QED BY <1>3, <1>4, <1>5, <1>6 DEF p, n

\* A path that goes on from x has more work than x.
LEMMA LongerIsHeavier ==
    ASSUME NEW x \in Blocks, NEW y \in Blocks, Index[x] <= Index[y], x # y,
           \A i \in 0 .. Index[x] : At(y, i) = At(x, i)
    PROVE  TotalWork(PathSet(y)) > TotalWork(PathSet(x))
<1>1. Index[x] \in Nat /\ Index[y] \in Nat /\ OwnPath(x) /\ OwnPath(y) BY IndexFacts, OwnPathFacts
<1>2. PathSet(x) \in SUBSET Blocks /\ PathSet(y) \in SUBSET Blocks /\ {y} \in SUBSET Blocks BY PathSetFacts
<1>3. PathSet(x) \subseteq PathSet(y)
  <2>1. \A i \in 0 .. Index[x] : i \in 0 .. Index[y] BY <1>1
  <2> QED BY <2>1 DEF PathSet
<1>4. y \in PathSet(y)
  <2>1. Index[y] \in 0 .. Index[y] /\ At(y, Index[y]) = y BY <1>1 DEF OwnPath
  <2> QED BY <2>1 DEF PathSet
<1>5. y \notin PathSet(x)
  <2>1. SUFFICES ASSUME y \in PathSet(x) PROVE FALSE OBVIOUS
  <2>2. PICK i \in 0 .. Index[x] : y = At(x, i) BY <2>1 DEF PathSet
  <2>3. Index[y] = i BY <1>1, <2>2 DEF OwnPath
  <2>4. i = Index[x] BY <1>1, <2>3
  <2> QED BY <1>1, <2>2, <2>4 DEF OwnPath
<1>6. PathSet(x) \cup {y} \in SUBSET Blocks /\ PathSet(x) \cup {y} \subseteq PathSet(y) /\ PathSet(x) \cap {y} = {}
  BY <1>2, <1>3, <1>4, <1>5
<1> DEFINE A == PathSet(x)
           B == PathSet(y)
           Y == {y}
<1> HIDE DEF A, B, Y
<1>7. /\ TotalWork(A \cup Y) + TotalWork(A \cap Y) = TotalWork(A) + TotalWork(Y)
      /\ TotalWork(A \cup Y) <= TotalWork(B) /\ TotalWork(A \cap Y) = 0
      /\ TotalWork(A) \in Nat /\ TotalWork(B) \in Nat /\ TotalWork(A \cup Y) \in Nat
  BY <1>2, <1>6, WorkFacts DEF A, B, Y
<1>8. TotalWork(Y) \in Nat /\ TotalWork(Y) > 0 BY WorkFacts DEF Y
<1>9. TotalWork(B) > TotalWork(A) BY <1>7, <1>8
<1> QED BY <1>9 DEF A, B

\* The work find_longest_fork compares with is that of the path above the ancestor.
LEMMA MainWorkFacts ==
    ASSUME NEW c, WellFormed(c), NEW x \in Blocks, OnPath(c, x),
           NEW table, RowsPlaced(table), HoldsPath(table, x), NEW a \in 0 .. Index[x]
    PROVE  MainWorkAbove(c, a, table) = TotalWork(PathAbove(x, a))
<1> DEFINE n == Index[x]
           o == c.blocks_offset
           w == c.blocks
           s == Rows(table, a + 1, o - 1)
           Window == {b \in Elements(w) : Index[b] > a}
<1>1. /\ n \in Nat /\ o \in Nat /\ o <= n /\ w \in Seq(Blocks) /\ Len(w) = n - o + 1 /\ a \in Nat
      /\ \A i \in 1 .. Len(w) : w[i] = PathTo[x][o + i] /\ Index[w[i]] = o + i - 1
  BY OnPathAligned, IndexFacts DEF Aligned
<1>2. \A y : y \in Elements(w) <=> \E i \in 1 .. Len(w) : y = w[i] BY <1>1, InElements
<1>3. ListsRows(s, table, a + 1, o - 1)
  <2>1. MaxIndex \in Nat /\ n \in 0 .. MaxIndex BY HeightsFacts
  <2>2. a + 1 \in Nat /\ o - 1 \in Int /\ o - 1 <= MaxIndex
    <3> HIDE DEF n, o
    <3> QED BY <1>1, <2>1
  <2> QED BY <2>2, RowsListed
<1>4. \A i \in 0 .. n : table[i] = At(x, i) /\ At(x, i) \in Blocks /\ Index[At(x, i)] = i
  BY OwnPathFacts DEF HoldsPath, OwnPath
<1>5. MainWorkAbove(c, a, table) = TotalWork(Window \cup Elements(s)) BY DEF MainWorkAbove
<1> HIDE DEF n, o, w, s
<1>6. s \in Seq(Blocks) BY <1>3 DEF ListsRows
<1>7. \A y : y \in Elements(s) <=> \E i \in 1 .. Len(s) : y = s[i] BY <1>6, InElements
<1>8. ASSUME NEW y \in Window \cup Elements(s) PROVE \E i \in a + 1 .. n : y = At(x, i)
  <2>1. CASE y \in Window
    <3>1. PICK i \in 1 .. Len(w) : y = w[i] /\ Index[y] > a BY <1>2, <2>1
    <3> DEFINE j == o + i - 1
    <3>2. y = PathTo[x][o + i] /\ Index[y] = j BY <1>1, <3>1
    <3>3. j + 1 = o + i /\ j \in a + 1 .. n BY <1>1, <3>1, <3>2
    <3> HIDE DEF j
    <3>4. y = At(x, j) BY <3>2, <3>3 DEF At
    <3> QED BY <3>3, <3>4
  <2>2. CASE y \in Elements(s)
    <3>1. PICK k \in 1 .. Len(s) : y = s[k] BY <1>7, <2>2
    <3>2. Index[y] \in a + 1 .. o - 1 /\ table[Index[y]] = y BY <1>3, <3>1 DEF ListsRows
    <3>3. Index[y] \in a + 1 .. n /\ Index[y] \in 0 .. n BY <1>1, <3>2
    <3> QED BY <1>4, <3>2, <3>3
  <2> QED BY <2>1, <2>2
<1>9. ASSUME NEW i \in a + 1 .. n PROVE At(x, i) \in Window \cup Elements(s)
  <2>1. i \in 0 .. n BY <1>1
  <2>2. CASE i < o
    <3>1. i \in a + 1 .. o - 1 BY <1>1, <2>2
    <3>2. table[i] # NoBlock /\ table[i] = At(x, i) BY <1>4, <2>1, NodeAssumption
    <3>3. \E k \in 1 .. Len(s) : s[k] = table[i] BY <1>3, <3>1, <3>2 DEF ListsRows
    <3> QED BY <1>7, <3>2, <3>3
  <2>3. CASE ~(i < o)
    <3> DEFINE k == i - o + 1
    <3>1. k \in 1 .. Len(w) /\ o + k = i + 1 BY <1>1, <2>3
    <3> HIDE DEF k
    <3>2. w[k] = At(x, i) BY <1>1, <3>1 DEF At
    <3>3. Index[At(x, i)] > a BY <1>1, <1>4, <2>1
    <3> QED BY <1>2, <3>1, <3>2, <3>3
  <2> QED BY <2>2, <2>3
<1>10. Window \cup Elements(s) = PathAbove(x, a)
  <2> HIDE DEF Window
  <2>1. \A y : y \in PathAbove(x, a) <=> \E i \in a + 1 .. n : y = At(x, i) BY DEF PathAbove, n
  <2> QED BY <1>8, <1>9, <2>1
<1> QED BY <1>5, <1>10

-----------------------------------------------------------------------------
\* A fork that outweighs the path above its ancestor makes a heavier path.
LEMMA ForkIsHeavier ==
    ASSUME NEW x \in Blocks, NEW f, NEW z, Forks(x, f, z),
           TotalWork(Elements(f)) > TotalWork(PathAbove(x, Ancestor(f)))
    PROVE  TotalWork(PathSet(z)) > TotalWork(PathSet(x))
<1> DEFINE a == Ancestor(f)
           l == Len(f)
           Low == PathUpTo(x, a)
<1>1. /\ a \in 0 .. Index[x] /\ l \in Nat /\ Index[z] = a + l /\ f \in Seq(Mined) /\ z \in Blocks
      /\ \A i \in 1 .. l : At(z, a + i) = f[i]
      /\ \A i \in 0 .. a : At(z, i) = At(x, i)
  BY DEF Forks
<1>2. Index[x] \in Nat /\ Index[z] \in Nat /\ a \in 0 .. Index[z] BY <1>1, IndexFacts
<1>3. \A y : y \in Elements(f) <=> \E i \in 1 .. l : y = f[i] BY <1>1, InElements
<1> HIDE DEF a, l
<1>4. PathUpTo(z, a) = Low BY <1>1 DEF PathUpTo
<1>5. PathAbove(z, a) = Elements(f)
  <2>1. ASSUME NEW i \in a + 1 .. Index[z] PROVE At(z, i) \in Elements(f)
    <3>1. i - a \in 1 .. l /\ a + (i - a) = i BY <1>1, <1>2
    <3> QED BY <1>1, <1>3, <3>1
  <2>2. ASSUME NEW i \in 1 .. l PROVE f[i] \in PathAbove(z, a)
    <3>1. a + i \in a + 1 .. Index[z] BY <1>1, <1>2
    <3> QED BY <1>1, <3>1 DEF PathAbove
  <2> QED BY <1>3, <2>1, <2>2 DEF PathAbove
<1>6. /\ Low \cup PathAbove(x, a) = PathSet(x) /\ Low \cap PathAbove(x, a) = {}
      /\ Low \cup Elements(f) = PathSet(z) /\ Low \cap Elements(f) = {}
      /\ PathSet(x) \in SUBSET Blocks /\ PathSet(z) \in SUBSET Blocks
  BY <1>1, <1>2, <1>4, <1>5, PathSetFacts
<1> DEFINE A == PathAbove(x, a)
           F == Elements(f)
<1> HIDE DEF Low, A, F
<1>7. Low \in SUBSET Blocks /\ A \in SUBSET Blocks /\ F \in SUBSET Blocks BY <1>6 DEF A, F
<1>8. /\ TotalWork(Low \cup A) + TotalWork(Low \cap A) = TotalWork(Low) + TotalWork(A)
      /\ TotalWork(Low \cup F) + TotalWork(Low \cap F) = TotalWork(Low) + TotalWork(F)
      /\ TotalWork(Low) \in Nat /\ TotalWork(A) \in Nat /\ TotalWork(F) \in Nat
      /\ TotalWork(Low \cup A) \in Nat /\ TotalWork(Low \cup F) \in Nat
  <2>1. Low \cup A \in SUBSET Blocks /\ Low \cup F \in SUBSET Blocks BY <1>7
  <2> QED BY <1>7, <2>1, WorkFacts
<1>9. TotalWork(Low \cap A) = 0 /\ TotalWork(Low \cap F) = 0 BY <1>6, WorkFacts DEF A, F
<1>10. TotalWork(F) > TotalWork(A) BY DEF A, F, a
<1>11. TotalWork(Low \cup F) > TotalWork(Low \cup A) BY <1>8, <1>9, <1>10
<1> QED BY <1>6, <1>11 DEF A, F

LEMMA WeightFacts ==
    /\ \A x \in Blocks : PathWeight(x) \in Nat
    /\ \A y \in Blocks : \A i \in 0 .. Index[y] : PathWeight(At(y, i)) <= PathWeight(y)
    /\ \A x, y \in Blocks : Index[x] <= Index[y] /\ (\A i \in 0 .. Index[x] : At(y, i) = At(x, i))
                            => PathWeight(x) <= PathWeight(y)
<1>1. \A x \in Blocks : PathWeight(x) \in Nat BY PathSetFacts, WorkFacts DEF PathWeight
<1>2. ASSUME NEW x \in Blocks, NEW y \in Blocks, Index[x] <= Index[y], \A i \in 0 .. Index[x] : At(y, i) = At(x, i)
      PROVE  PathWeight(x) <= PathWeight(y)
  <2>1. x = y \/ TotalWork(PathSet(y)) > TotalWork(PathSet(x)) BY <1>2, LongerIsHeavier
  <2> QED BY <1>1, <2>1 DEF PathWeight
<1>3. ASSUME NEW y \in Blocks, NEW i \in 0 .. Index[y] PROVE PathWeight(At(y, i)) <= PathWeight(y)
  <2> DEFINE x == At(y, i)
  <2>1. x \in Blocks /\ Index[x] = i /\ \A j \in 0 .. i : At(x, j) = At(y, j) BY OwnPathFacts DEF OwnPath
  <2>2. i <= Index[y] BY IndexFacts
  <2> HIDE DEF x
  <2>3. PathWeight(x) <= PathWeight(y) BY <1>2, <2>1, <2>2
  <2> QED BY <2>3 DEF x
<1> QED BY <1>1, <1>2, <1>3

\* A reorg takes the whole fork, which is heavier than the path it leaves, or
\* stops at a block that is not to be had on any path: it has invalid content.
LEMMA SwitchEnds ==
    ASSUME NEW c, WellFormed(c), NEW x \in Blocks, OnPath(c, x), Valid(x),
           NEW table, RowsPlaced(table), HoldsPath(table, x), NEW r, NEW z, NEW y,
           Switched(c, x, table, r, z, y)
    PROVE  /\ z \in Blocks /\ y \in Blocks /\ PathWeight(z) > PathWeight(x)
           /\ Ancestor(r.new) <= Index[y] /\ Index[y] <= Index[z]
           /\ \A u \in Elements(r.new) : u \in PathSet(y) \/ ~Valid(u)
           /\ y = z \/ \E s \in Mined : Stops(r.new, y, s)
<1> DEFINE f == r.new
           a == Ancestor(f)
           l == Len(f)
           n == Index[y]
<1>1. Forks(x, f, z) /\ Taken(y, z) /\ TotalWork(Elements(f)) > MainWorkAbove(c, a, table) BY DEF Switched
<1>2. /\ a \in 0 .. Index[x] /\ l \in Nat /\ Index[z] = a + l /\ f \in Seq(Mined) /\ z \in Blocks
      /\ \A i \in 1 .. l : At(z, a + i) = f[i] /\ Index[f[i]] = a + i
      /\ \A i \in 0 .. a : At(z, i) = At(x, i)
  BY <1>1 DEF Forks
<1>3. /\ y \in Blocks /\ n <= Index[z] /\ \A i \in 0 .. n : At(y, i) = At(z, i)
      /\ n < Index[z] => At(z, n + 1) \in Invalid
  BY <1>1 DEF Taken
<1>4. n \in Nat /\ Index[x] \in Nat /\ OwnPath(y) /\ OwnPath(z) /\ a \in Nat
  BY <1>2, <1>3, IndexFacts, OwnPathFacts
<1>5. \A i \in 1 .. Index[x] : At(x, i) \notin Invalid BY DEF Valid
<1>6. \A u : u \in Elements(f) <=> \E i \in 1 .. l : u = f[i] BY <1>2, InElements
<1>7. PathWeight(z) > PathWeight(x)
  <2>1. MainWorkAbove(c, a, table) = TotalWork(PathAbove(x, a)) BY <1>2, MainWorkFacts
  <2> QED BY <1>1, <2>1, ForkIsHeavier DEF PathWeight
<1> HIDE DEF f, a, l, n
<1>8. a <= n
  <2>1. SUFFICES ASSUME ~(a <= n) PROVE FALSE OBVIOUS
  <2>2. n < Index[z] /\ n + 1 \in 0 .. a /\ n + 1 \in 1 .. Index[x] BY <1>2, <1>4, <2>1
  <2> QED BY <1>2, <1>3, <1>5, <2>2
<1>9. ASSUME NEW u \in Elements(f) PROVE u \in PathSet(y) \/ ~Valid(u)
  <2>1. PICK i \in 1 .. l : u = f[i] BY <1>6
  <2>2. At(z, a + i) = u /\ Index[u] = a + i /\ a + i \in 0 .. Index[z] BY <1>2, <1>4, <2>1
  <2>3. CASE a + i <= n
    <3>1. a + i \in 0 .. n BY <1>4, <2>3
    <3> QED BY <1>3, <2>2, <3>1 DEF PathSet, n
  <2>4. CASE ~(a + i <= n)
    <3>1. n < Index[z] /\ n + 1 \in 0 .. a + i /\ n + 1 \in 1 .. Index[u] BY <1>2, <1>4, <2>2, <2>4
    <3>2. At(At(z, a + i), n + 1) = At(z, n + 1) BY <1>4, <2>2, <3>1 DEF OwnPath
    <3> QED BY <1>3, <2>2, <3>1, <3>2 DEF Valid
  <2> QED BY <2>3, <2>4
<1>10. y = z \/ \E s \in Mined : Stops(f, y, s)
  <2>1. CASE n = Index[z]
    <3>1. n \in 0 .. n /\ At(y, n) = y /\ At(z, Index[z]) = z BY <1>4 DEF OwnPath, n
    <3> QED BY <1>3, <2>1, <3>1
  <2>2. CASE n < Index[z]
    <3> DEFINE s == At(z, n + 1)
    <3>1. /\ n + 1 \in 0 .. Index[z] /\ n + 1 >= 1 /\ (n + 1) - 1 = n /\ n \in 0 .. n /\ n \in 0 .. Index[y]
          /\ (n + 1) - a \in 1 .. l /\ a + ((n + 1) - a) = n + 1
      BY <1>2, <1>4, <1>8, <2>2 DEF n
    <3>2. s \in Mined /\ Parent[s] = At(z, n) /\ Index[s] = n + 1 BY <1>4, <3>1 DEF OwnPath
    <3>3. At(z, n) = y
      <4>1. At(y, n) = y BY <1>4 DEF OwnPath, n
      <4> QED BY <1>3, <3>1, <4>1
    <3>4. s \in Elements(f) BY <1>2, <1>6, <3>1
    <3>5. \A u \in PathSet(y) : Index[u] <= n BY <1>4 DEF PathSet, OwnPath, n
    <3>6. s \notin PathSet(y) /\ s \in Invalid BY <1>3, <1>4, <2>2, <3>2, <3>5
    <3> HIDE DEF s
    <3> QED BY <3>2, <3>3, <3>4, <3>6 DEF Stops
  <2> QED BY <1>2, <1>3, <1>4, <2>1, <2>2
<1> QED BY <1>2, <1>3, <1>7, <1>8, <1>9, <1>10 DEF f, a, n

\* What the rows hold above a chain at rest, a restart adds to it.
LEMMA RestartExtends ==
    ASSUME NEW table, NEW x \in Blocks, HoldsPath(table, x), Valid(x),
           NEW base \in Blocks, NEW y, LoadedTo(table, base, y), HoldsPath(table, y)
    PROVE  y \in Blocks /\ Index[x] <= Index[y] /\ \A i \in 0 .. Index[x] : At(y, i) = At(x, i)
<1>1. y \in Blocks /\ Index[x] \in Nat /\ Index[y] \in Nat /\ OwnPath(x) /\ OwnPath(y)
  BY IndexFacts, OwnPathFacts DEF LoadedTo
<1>2. Index[x] <= Index[y]
  <2>1. SUFFICES ASSUME Index[y] < Index[x] PROVE FALSE BY <1>1
  <2> DEFINE n == Index[y]
             z == At(x, n + 1)
  <2>2. n + 1 \in 0 .. Index[x] /\ n \in 0 .. Index[x] /\ n \in 0 .. Index[y] /\ n + 1 >= 1
        /\ (n + 1) - 1 = n /\ n + 1 \in 1 .. Index[x]
    BY <1>1, <2>1
  <2>3. z \in Mined /\ Index[z] = n + 1 /\ Parent[z] = At(x, n) /\ z \notin Invalid /\ table[n + 1] = z
    BY <1>1, <2>2 DEF OwnPath, Valid, HoldsPath
  <2>4. At(x, n) = table[n] /\ table[n] = At(y, n) /\ At(y, n) = y BY <1>1, <2>2 DEF OwnPath, HoldsPath
  <2>5. Extends(z, y) BY <2>3, <2>4 DEF Extends
  <2> HIDE DEF z
  <2> QED BY <2>3, <2>5 DEF LoadedTo
<1>3. \A i \in 0 .. Index[x] : i \in 0 .. Index[y] BY <1>1, <1>2
<1> QED BY <1>1, <1>2, <1>3 DEF HoldsPath

\* The work a restart recovers.
LEMMA Recovered ==
    ASSUME NEW d, Stored(d), CheckpointRows(d)
    PROVE  Recovers(d, Tip(Loaded(d)))
<1> DEFINE c == Loaded(d)
           y == Tip(c)
<1>1. LoadedTo(d.BLOCKS, Base(d), y) /\ HoldsPath(d.BLOCKS, y) /\ Valid(y)
  <2>1. GenesisChain \in Chains BY GenesisWellFormed DEF WellFormed
  <2>2. ASSUME UsesCheckpoint(d) PROVE RestoreFromCheckpoint(LatestCheckpoint(d)) \in Chains
    <3>1. Consistent(LatestCheckpoint(d)) BY <2>2, LatestStored DEF UsesCheckpoint, Stored
    <3> QED BY <3>1, RestoreSound DEF SoundChains
  <2> QED BY <2>1, <2>2, ChainsHereditary, StartupReaches
<1>2. Base(d) \in Blocks
  <2>1. CASE UsesCheckpoint(d)
    BY <2>1, LatestStored DEF UsesCheckpoint, Stored, Consistent, CheckpointStates, Base
  <2>2. CASE ~UsesCheckpoint(d) BY <2>2, NodeAssumption DEF Base
  <2> QED BY <2>1, <2>2
<1>3. y \in Blocks /\ OnPath(c, y) BY LoadedSound, TipOnPath DEF SoundChains
<1>4. RecoverableWork(d) = PathWeight(y)
  <2>1. Elements(c.ledger.applied) = PathSet(y) BY <1>3, PathSetFacts DEF OnPath
  <2> QED BY <2>1 DEF RecoverableWork, PathWeight
<1> QED BY <1>1, <1>2, <1>3, <1>4 DEF Recovers

\* It recovers at least what the rows hold the whole path to.
LEMMA RecoversHeld ==
    ASSUME NEW d, NEW y, Recovers(d, y), NEW x \in Blocks, HoldsPath(d.BLOCKS, x), Valid(x)
    PROVE  RecoverableWork(d) >= PathWeight(x)
<1>1. Index[x] <= Index[y] /\ (\A i \in 0 .. Index[x] : At(y, i) = At(x, i)) /\ y \in Blocks
  BY RestartExtends DEF Recovers
<1> QED BY <1>1, WeightFacts DEF Recovers

\* What it recovers depends on the rows only.
LEMMA SameRowsRecover ==
    ASSUME NEW d, NEW y, Recovers(d, y), NEW e, NEW z, Recovers(e, z), e.BLOCKS = d.BLOCKS
    PROVE  y = z
<1>1. y \in Blocks /\ z \in Blocks /\ Index[y] \in Nat /\ Index[z] \in Nat BY IndexFacts DEF Recovers
<1>2. Index[y] <= Index[z] /\ (\A i \in 0 .. Index[y] : At(z, i) = At(y, i)) BY RestartExtends DEF Recovers
<1>3. Index[z] <= Index[y] BY RestartExtends DEF Recovers
<1>4. Index[y] = Index[z] /\ Index[y] \in 0 .. Index[y] BY <1>1, <1>2, <1>3
<1>5. At(z, Index[z]) = z /\ At(y, Index[y]) = y BY <1>1, OwnPathFacts DEF OwnPath
<1> QED BY <1>2, <1>4, <1>5

-----------------------------------------------------------------------------
\* Which rows the queued transactions write.
LEMMA AppliedWrites ==
    ASSUME NEW c
    PROVE  WritesOf(WritesApplied(c), {Tip(c)})
<1> DEFINE payouts == PayoutsAt(c.settled, Index[Tip(c)])
           v == [op |-> "applied", block |-> Tip(c), tickets |-> c.pending_tickets, payouts |-> payouts]
           w == [op |-> "checkpoint", state |-> Snapshot(c)]
<1>1. WritesApplied(c) = <<v, w>> \/ WritesApplied(c) = <<v>> BY DEF WritesApplied
<1>2. Written(v) = {Tip(c)} /\ Written(w) = {} BY DEF Written
<1> HIDE DEF v, w
<1>3. WritesOf(<<v, w>>, {Tip(c)})
  <2> DEFINE q == <<v, w>>
  <2>1. q[1] = v /\ q[2] = w /\ 1 \in 1 .. Len(q) /\ \A k \in 1 .. Len(q) : k = 1 \/ k = 2 OBVIOUS
  <2> HIDE DEF q
  <2>2. WritesOf(q, {Tip(c)}) BY <1>2, <2>1 DEF WritesOf
  <2> QED BY <2>2 DEF q
<1>4. WritesOf(<<v>>, {Tip(c)})
  <2> DEFINE q == <<v>>
  <2>1. q[1] = v /\ 1 \in 1 .. Len(q) /\ \A k \in 1 .. Len(q) : k = 1 OBVIOUS
  <2> HIDE DEF q
  <2>2. WritesOf(q, {Tip(c)}) BY <1>2, <2>1 DEF WritesOf
  <2> QED BY <2>2 DEF q
<1> QED BY <1>1, <1>3, <1>4

LEMMA ShallowWrites ==
    ASSUME NEW c, NEW old, NEW f, NEW q, q = WritesShallow(c, old, f)
    PROVE  WritesOf(q, Elements(f)) /\ \A u \in Elements(old) : \E k \in 1 .. Len(q) : u \in Cleared(q[k])
<1> DEFINE payouts == {r \in c.settled : \E b \in Elements(f) : r.at = Index[b]}
           v == [op |-> "delete", from |-> Index[old[1]]]
           w == [op |-> "reorg", old |-> old, new |-> f, tickets |-> c.pending_tickets,
                 payouts |-> payouts]
<1>1. q = <<v, w>> BY DEF WritesShallow
<1>2. Written(v) = {} /\ Written(w) = Elements(f) /\ Cleared(w) = Elements(old) BY DEF Written, Cleared
<1> HIDE DEF v, w
<1>3. q[1] = v /\ q[2] = w /\ 2 \in 1 .. Len(q) /\ \A k \in 1 .. Len(q) : k = 1 \/ k = 2 BY <1>1
<1> QED BY <1>2, <1>3 DEF WritesOf

LEMMA DeepWrites ==
    ASSUME NEW f \in Seq(Mined), NEW q, DeepQueue(q, f)
    PROVE  WritesOf(q, Elements(f))
<1>1. /\ Len(f) \in Nat /\ Len(q) = Len(f) + 2 /\ q[1].op = "delete" /\ q[Len(f) + 2].op = "rebuild"
      /\ \A i \in 1 .. Len(f) : q[i + 1].op = "save" /\ q[i + 1].block = f[i]
  BY DEF DeepQueue
<1>2. \A y : y \in Elements(f) <=> \E i \in 1 .. Len(f) : y = f[i] BY InElements
<1>3. ASSUME NEW i \in 1 .. Len(f) PROVE i + 1 \in 1 .. Len(q) /\ Written(q[i + 1]) = {f[i]}
  BY <1>1 DEF Written
<1>4. ASSUME NEW k \in 1 .. Len(q), NEW u \in Written(q[k]) PROVE u \in Elements(f)
  <2>1. k = 1 \/ k = Len(f) + 2 \/ (k - 1 \in 1 .. Len(f) /\ (k - 1) + 1 = k) BY <1>1
  <2>2. CASE k = 1 \/ k = Len(f) + 2
    <3>1. q[k].op \in {"delete", "rebuild"} BY <1>1, <2>2
    <3> QED BY <1>4, <3>1 DEF Written
  <2>3. CASE k - 1 \in 1 .. Len(f) /\ (k - 1) + 1 = k
    <3>1. Written(q[k]) = {f[k - 1]} BY <1>3, <2>3
    <3> QED BY <1>2, <1>4, <2>3, <3>1
  <2> QED BY <2>1, <2>2, <2>3
<1> QED BY <1>2, <1>3, <1>4 DEF WritesOf

\* Once nothing but a checkpoint is outstanding, the rows are there.
LEMMA NothingToWrite ==
    ASSUME NEW d, NEW q \in Seq(WriteTransactions), NEW b, Placed(d, q, b), q = <<>> \/ q[1].op = "checkpoint"
    PROVE  \A k \in 1 .. Len(q) : Written(q[k]) = {} /\ Cleared(q[k]) = {}
<1>1. Len(q) \in Nat OBVIOUS
<1>2. CASE q = <<>> BY <1>2
<1>3. CASE q # <<>> /\ q[1].op = "checkpoint"
  <2>1. 1 \in 1 .. Len(q) BY <1>3
  <2>2. 1 = Len(q) BY <1>3, <2>1 DEF Placed
  <2>3. \A k \in 1 .. Len(q) : k = 1
    <3>1. \A k \in 1 .. 1 : k = 1 OBVIOUS
    <3>2. 1 .. Len(q) = 1 .. 1 BY <2>2
    <3> QED BY <3>1, <3>2
  <2>4. Written(q[1]) = {} /\ Cleared(q[1]) = {} BY <1>3 DEF Written, Cleared
  <2> QED BY <2>3, <2>4
<1> QED BY <1>2, <1>3

LEMMA NothingComing ==
    ASSUME NEW d, NEW q \in Seq(WriteTransactions), NEW b, Placed(d, q, b), q = <<>> \/ q[1].op = "checkpoint"
    PROVE  HoldsPath(d.BLOCKS, b)
BY NothingToWrite DEF Placed, RowsComing, HoldsPath

LEMMA NextInQueue ==
    ASSUME NEW d, NEW q \in Seq(WriteTransactions), NEW b, Placed(d, q, b), q # <<>>, Tail(q) # <<>>
    PROVE  /\ Succeeds(Head(q), Tail(q)[1]) /\ Tail(q)[1] \in WriteTransactions
           /\ Head(q).op # "checkpoint"
<1>1. Len(q) \in Nat /\ Len(q) >= 1 /\ Head(q) = q[1] /\ Len(Tail(q)) = Len(q) - 1 OBVIOUS
<1>2. Tail(q) \in Seq(WriteTransactions) OBVIOUS
<1>3. Len(Tail(q)) >= 1
  <2> DEFINE t == Tail(q)
  <2>1. t \in Seq(WriteTransactions) /\ t # <<>> BY <1>2
  <2> HIDE DEF t
  <2>2. Len(t) >= 1 BY <2>1
  <2> QED BY <2>2 DEF t
<1>4. Tail(q)[1] = q[1 + 1] /\ 1 \in 1 .. Len(q) - 1 /\ 1 \in 1 .. Len(q) /\ 1 # Len(q) /\ 1 + 1 \in 1 .. Len(q)
  BY <1>1, <1>3
<1>5. Succeeds(q[1], q[1 + 1]) /\ q[1].op # "checkpoint" /\ q[1 + 1] \in WriteTransactions BY <1>4 DEF Placed
<1> QED BY <1>1, <1>4, <1>5

\* A transaction that writes rows outside a deep reorg is the last one to do so.
LEMMA AfterRows ==
    ASSUME NEW d, NEW q \in Seq(WriteTransactions), NEW b, Placed(d, q, b), q # <<>>,
           Head(q).op \in {"applied", "reorg", "checkpoint"}
    PROVE  Tail(q) = <<>> \/ Tail(q)[1].op = "checkpoint"
<1>1. SUFFICES ASSUME Tail(q) # <<>> PROVE Tail(q)[1].op = "checkpoint" OBVIOUS
<1>2. Succeeds(Head(q), Tail(q)[1]) /\ Tail(q)[1] \in WriteTransactions /\ Head(q).op # "checkpoint"
  BY <1>1, NextInQueue
<1> DEFINE v == Tail(q)[1]
           w == Head(q)
<1> HIDE DEF v, w
<1>3. Succeeds(w, v) /\ v \in WriteTransactions /\ w.op \in {"applied", "reorg"} BY <1>2 DEF v, w
<1>4. v.op \in {"applied", "checkpoint", "delete", "reorg", "save", "rebuild"} BY <1>3, TransactionCases
<1>5. v.op = "checkpoint" BY <1>3, <1>4 DEF Succeeds
<1> QED BY <1>5 DEF v

\* Deleting checkpoints leaves the rows alone.
LEMMA DeleteKeepsRows ==
    ASSUME NEW d, Stored(d), NEW w \in WriteTransactions, w.op = "delete"
    PROVE  Commit(d, w).BLOCKS = d.BLOCKS
<1>1. Commit(d, w) = DeleteCheckpointsFrom(d, w) BY DEF Commit
<1> QED BY <1>1 DEF DeleteCheckpointsFrom, Stored, Tables

\* A path, one block longer.
LEMMA PathOneMore ==
    ASSUME NEW b \in Mined, NEW x \in Blocks, Parent[b] = x
    PROVE  /\ Index[b] = Index[x] + 1 /\ Index[x] \in Nat /\ PathSet(b) = PathSet(x) \cup {b}
           /\ PathTo[b] = Append(PathTo[x], b)
           /\ \A i \in 0 .. Index[x] : At(b, i) = At(x, i)
<1> DEFINE n == Index[x]
<1>1. b \in Blocks /\ n \in Nat /\ Index[b] = n + 1 /\ OwnPath(b) BY IndexFacts, OwnPathFacts DEF Mined
<1>2. At(b, n + 1) = b /\ \A i \in 0 .. n : At(b, i) = At(x, i)
  <2>1. n + 1 \in 0 .. Index[b] /\ n + 1 >= 1 /\ (n + 1) - 1 = n /\ n \in 0 .. Index[b] BY <1>1
  <2>2. At(b, n + 1) = b /\ Parent[At(b, n + 1)] = At(b, n) BY <1>1, <2>1 DEF OwnPath
  <2>3. \A j \in 0 .. n : At(At(b, n), j) = At(b, j) BY <1>1, <2>1 DEF OwnPath
  <2> QED BY <2>2, <2>3
<1> HIDE DEF n
<1>3. \A i : i \in 0 .. n + 1 <=> i \in 0 .. n \/ i = n + 1 BY <1>1
<1>4. PathSet(b) = PathSet(x) \cup {b} BY <1>1, <1>2, <1>3 DEF PathSet, n
<1>5. PathTo[b] = Append(PathTo[x], b) BY PathFacts
<1> QED BY <1>1, <1>2, <1>4, <1>5 DEF n

-----------------------------------------------------------------------------
\* Light blocks.
LEMMA OnPathLight ==
    ASSUME NEW t \in Blocks, NEW u \in PathSet(t), NEW S
    PROVE  Light(u, t, S)
<1>1. OwnPath(t) /\ Index[t] \in Nat BY IndexFacts, OwnPathFacts
<1>2. PICK i \in 0 .. Index[t] : u = At(t, i) BY DEF PathSet
<1>3. Index[u] <= Index[t] BY <1>1, <1>2 DEF OwnPath
<1>4. PathWeight(u) <= PathWeight(t) BY <1>2, WeightFacts
<1> QED BY <1>3, <1>4 DEF Light

LEMMA LightUp ==
    ASSUME NEW x \in Blocks, NEW y \in Blocks, Index[x] <= Index[y], PathWeight(x) <= PathWeight(y),
           NEW S, NEW T, S \subseteq T, NEW u \in Blocks, Light(u, x, S)
    PROVE  Light(u, y, T)
<1>1. /\ Index[x] \in Nat /\ Index[y] \in Nat /\ Index[u] \in Nat
      /\ PathWeight(x) \in Nat /\ PathWeight(y) \in Nat /\ PathWeight(u) \in Nat
  BY IndexFacts, WeightFacts
<1>2. Tangled(S) => Tangled(T) BY DEF Tangled
<1>3. Index[u] <= Index[y] \/ u \in T BY <1>1 DEF Light
<1>4. Valid(u) /\ ~Tangled(T) => PathWeight(u) <= PathWeight(y) BY <1>1, <1>2 DEF Light
<1> QED BY <1>3, <1>4 DEF Light

LEMMA RowsUp ==
    ASSUME NEW table, RowsPlaced(table), NEW x \in Blocks, NEW y \in Blocks, Index[x] <= Index[y],
           PathWeight(x) <= PathWeight(y), NEW S, NEW T, S \subseteq T, NEW q, RowsLight(table, q, x, S)
    PROVE  RowsLight(table, q, y, T)
<1>1. SUFFICES ASSUME NEW i \in Heights, table[i] # NoBlock, ~Coming(q, i) PROVE Light(table[i], y, T)
  BY DEF RowsLight
<1>2. Light(table[i], x, S) BY <1>1 DEF RowsLight
<1>3. table[i] \in Blocks BY <1>1 DEF RowsPlaced
<1> QED BY <1>2, <1>3, LightUp

\* With nothing to write, nothing is coming.
LEMMA NothingWritten ==
    /\ \A t, S : WritesLight(<<>>, t, S)
    /\ \A i : ~Coming(<<>>, i)
<1> DEFINE e == <<>>
<1>1. 1 .. Len(e) = {} OBVIOUS
<1> HIDE DEF e
<1>2. (\A t, S : WritesLight(e, t, S)) /\ \A i : ~Coming(e, i) BY <1>1 DEF WritesLight, Coming
<1> QED BY <1>2 DEF e

LEMMA NoneComing ==
    ASSUME NEW q, \A k \in 1 .. Len(q) : Written(q[k]) = {} /\ Cleared(q[k]) = {}
    PROVE  /\ \A t, S : WritesLight(q, t, S)
           /\ \A table, t, S : RowsLight(table, q, t, S) <=> RowsLight(table, <<>>, t, S)
<1>1. \A i : ~Coming(q, i) BY DEF Coming
<1> QED BY <1>1, NothingWritten DEF RowsLight, WritesLight

\* When no row of the path's climbers is heavier, a restart ends on the path that
\* the rows hold.
LEMMA RestTip ==
    ASSUME NEW d, Stored(d), CheckpointRows(d), NEW x \in Blocks, HoldsPath(d.BLOCKS, x), Valid(x),
           NEW S, ~Tangled(S), RowsLight(d.BLOCKS, <<>>, x, S)
    PROVE  Tip(Loaded(d)) = x
<1> DEFINE y == Tip(Loaded(d))
<1>1. Recovers(d, y) BY Recovered
<1> HIDE DEF y
<1>2. /\ y \in Blocks /\ HoldsPath(d.BLOCKS, y) /\ Base(d) \in Blocks /\ LoadedTo(d.BLOCKS, Base(d), y) /\ Valid(y)
  BY <1>1 DEF Recovers
<1>3. Index[x] <= Index[y] /\ \A i \in 0 .. Index[x] : At(y, i) = At(x, i) BY <1>2, RestartExtends
<1>4. PathWeight(y) <= PathWeight(x) /\ PathWeight(x) \in Nat /\ PathWeight(y) \in Nat
  <2>1. OwnPath(y) /\ Index[y] \in Nat /\ Index[y] \in Heights /\ y # NoBlock
    BY <1>2, OwnPathFacts, IndexFacts, NodeAssumption DEF Heights
  <2>2. Index[y] \in 0 .. Index[y] /\ At(y, Index[y]) = y BY <2>1 DEF OwnPath
  <2>3. d.BLOCKS[Index[y]] = y BY <1>2, <2>2 DEF HoldsPath
  <2>4. Light(y, x, S) BY <2>1, <2>3, NothingWritten DEF RowsLight
  <2> QED BY <1>2, <2>4, WeightFacts DEF Light
<1>5. ASSUME x # y PROVE FALSE
  <2>1. PathWeight(y) > PathWeight(x) BY <1>2, <1>3, <1>5, LongerIsHeavier DEF PathWeight
  <2> QED BY <1>4, <2>1
<1> QED BY <1>5 DEF y

-----------------------------------------------------------------------------
\* A block that extends the chain, and one that starts a reorg.
LEMMA ExtendedLight ==
    ASSUME NEW table, RowsPlaced(table), NEW x \in Blocks, NEW b \in Mined, Parent[b] = x, NEW S,
           NEW q, WritesOf(q, {b})
    PROVE  StaysLight(table, q, x, S, b, S) /\ PathWeight(b) > PathWeight(x)
<1>1. b \in Blocks /\ Index[b] = Index[x] + 1 /\ Index[x] \in Nat /\ \A i \in 0 .. Index[x] : At(b, i) = At(x, i)
  BY PathOneMore DEF Mined
<1>2. Index[x] <= Index[b] /\ x # b BY <1>1
<1>3. PathWeight(b) > PathWeight(x) /\ PathWeight(b) \in Nat /\ PathWeight(x) \in Nat
  BY <1>1, <1>2, LongerIsHeavier, WeightFacts DEF PathWeight
<1>4. b \in PathSet(b)
  <2>1. At(b, Index[b]) = b /\ Index[b] \in 0 .. Index[b] BY <1>1, OwnPathFacts DEF OwnPath
  <2> QED BY <2>1 DEF PathSet
<1>5. WritesLight(q, b, S) BY <1>1, <1>4, OnPathLight DEF WritesLight, WritesOf
<1>6. RowsLight(table, <<>>, x, S) => RowsLight(table, q, b, S)
  <2>1. SUFFICES ASSUME RowsLight(table, <<>>, x, S) PROVE RowsLight(table, q, b, S) OBVIOUS
  <2>2. PathWeight(x) <= PathWeight(b) /\ S \subseteq S BY <1>3
  <2>3. RowsLight(table, <<>>, b, S) BY <1>1, <1>2, <2>1, <2>2, RowsUp
  <2> QED BY <2>3, NothingWritten DEF RowsLight
<1> QED BY <1>3, <1>5, <1>6 DEF StaysLight

LEMMA SwitchedLight ==
    ASSUME NodeInv, NEW x, x = Tip(chain), Valid(x), HoldsPath(db.BLOCKS, x), NEW r, NEW z, NEW y,
           Switched(chain, x, db.BLOCKS, r, z, y), NEW q, q = Writes(r),
           NEW T, T = stray \cup LeftBehind(r)
    PROVE  y \in Blocks /\ StaysLight(db.BLOCKS, q, x, stray, y, T) /\ MovesUp(q, x, y)
<1> DEFINE f == r.new
           a == Ancestor(f)
           l == Len(f)
           table == db.BLOCKS
<1>1. WellFormed(chain) /\ RowsPlaced(table) /\ x \in Blocks /\ OnPath(chain, x)
  BY TipOnPath DEF NodeInv, Stored
<1>2. /\ z \in Blocks /\ y \in Blocks /\ PathWeight(z) > PathWeight(x) /\ a <= Index[y] /\ Index[y] <= Index[z]
      /\ \A u \in Elements(f) : u \in PathSet(y) \/ ~Valid(u)
      /\ y = z \/ \E s \in Mined : Stops(f, y, s)
  BY <1>1, SwitchEnds
<1>3. /\ r.kind = "Reorged" /\ OnPath(r.chain, y) /\ Taken(y, z)
      /\ r.old \in Seq(Blocks) /\ (r.old = <<>> \/ Len(r.old) = Index[x] - a)
      /\ \A i \in 1 .. Len(r.old) : r.old[i] = At(x, a + i) /\ Index[r.old[i]] = a + i
  BY DEF Switched, DisplacedFrom
<1>4. /\ a \in 0 .. Index[x] /\ l \in Nat /\ l >= 1 /\ f[l] = z /\ Index[z] = a + l /\ f \in Seq(Mined)
      /\ \A i \in 1 .. l : Index[f[i]] = a + i
      /\ \A i \in 0 .. a : At(z, i) = At(x, i)
  BY DEF Switched, Forks
<1>5. WritesOf(q, Elements(f)) /\ (r.old # <<>> => \A u \in Elements(r.old) : \E k \in 1 .. Len(q) : u \in Cleared(q[k]))
  <2>1. CASE r.old # <<>>
    <3>1. q = WritesShallow(r.chain, r.old, f) BY <1>3, <2>1 DEF Writes
    <3> QED BY <3>1, ShallowWrites
  <2>2. CASE r.old = <<>>
    <3>1. q = WritesDeep(r.chain, f) BY <1>3, <2>2 DEF Writes
    <3> QED BY <1>4, <2>2, <3>1, WritesDeepQueue, DeepWrites
  <2> QED BY <2>1, <2>2
<1>6. Index[x] \in Nat /\ Index[y] \in Nat /\ Index[z] \in Nat /\ a \in Nat /\ OwnPath(x) /\ OwnPath(y)
  BY <1>1, <1>2, <1>4, IndexFacts, OwnPathFacts
<1>7. /\ stray \subseteq T
      /\ \A u \in Elements(f) : u \in PathSet(y) \/ u \in T
      /\ r.old = <<>> => \A u \in PathSet(x) : Index[u] > Index[z] => u \in T
  <2>1. Elements(r.chain.ledger.applied) = PathSet(y) /\ Elements(chain.ledger.applied) = PathSet(x)
    BY <1>1, <1>2, <1>3, PathSetFacts DEF OnPath
  <2>2. Last(f) = z BY <1>4 DEF Last
  <2>3. LeftBehind(r) = (Elements(f) \ PathSet(y)) \cup {u \in PathSet(x) : r.old = <<>> /\ Index[u] > Index[z]}
    BY <1>3, <2>1, <2>2 DEF LeftBehind
  <2> HIDE DEF f
  <2> QED BY <2>3
<1>8. \A u : u \in Elements(f) <=> \E i \in 1 .. l : u = f[i] BY <1>4, InElements
<1>9. \A u : u \in Elements(r.old) <=> \E i \in 1 .. Len(r.old) : u = r.old[i] BY <1>3, InElements
<1> HIDE DEF f, a, l, table
<1>10. WritesLight(q, y, T)
  <2>1. ASSUME NEW u \in Elements(f) PROVE Light(u, y, T)
    <3>1. CASE u \in PathSet(y) BY <1>2, <3>1, OnPathLight
    <3>2. CASE u \notin PathSet(y) BY <1>2, <1>7, <3>2 DEF Light
    <3> QED BY <3>1, <3>2
  <2> QED BY <1>5, <2>1 DEF WritesLight, WritesOf
<1>11. ASSUME RowsLight(table, <<>>, x, stray), NEW i \in Heights, table[i] # NoBlock, ~Coming(q, i)
       PROVE  Light(table[i], y, T)
  <2> DEFINE u == table[i]
  <2>1. Light(u, x, stray) /\ u \in Blocks /\ Index[u] = i /\ i \in Nat
    BY <1>1, <1>11, NothingWritten, HeightsFacts DEF RowsLight, RowsPlaced
  <2>2. \A j \in 0 .. Index[x] : table[j] = At(x, j) BY DEF HoldsPath, table
  <2> HIDE DEF u
  <2>3. CASE i <= a
    <3>1. i \in 0 .. a /\ i \in 0 .. Index[x] /\ i \in 0 .. Index[y] BY <1>2, <1>4, <1>6, <2>1, <2>3
    <3>2. u = At(y, i) BY <1>3, <1>4, <2>2, <3>1 DEF Taken, u
    <3>3. u \in PathSet(y) BY <3>1, <3>2 DEF PathSet
    <3> QED BY <1>2, <3>3, OnPathLight DEF u
  <2>4. CASE a < i /\ i <= Index[z]
    <3>1. i - a \in 1 .. l /\ a + (i - a) = i BY <1>4, <1>6, <2>1, <2>4
    <3>2. f[i - a] \in Elements(f) /\ Index[f[i - a]] = i BY <1>4, <1>8, <3>1
    <3>3. Coming(q, i) BY <1>5, <3>2 DEF WritesOf, Coming
    <3> QED BY <1>11, <3>3
  <2>5. CASE Index[z] < i /\ i <= Index[x] /\ r.old # <<>>
    <3>1. i - a \in 1 .. Len(r.old) /\ a + (i - a) = i BY <1>3, <1>4, <1>6, <2>1, <2>5
    <3>2. r.old[i - a] \in Elements(r.old) /\ Index[r.old[i - a]] = i BY <1>3, <1>9, <3>1
    <3>3. Coming(q, i) BY <1>5, <2>5, <3>2 DEF Coming
    <3> QED BY <1>11, <3>3
  <2>6. CASE Index[z] < i /\ (r.old = <<>> \/ i > Index[x])
    <3>1. u \in T
      <4>1. CASE i <= Index[x]
        <5>1. i \in 0 .. Index[x] BY <2>1, <4>1, <1>6
        <5>2. u \in PathSet(x) BY <2>2, <5>1 DEF PathSet, u
        <5> QED BY <1>6, <1>7, <2>1, <2>6, <4>1, <5>2
      <4>2. CASE i > Index[x] BY <1>6, <1>7, <2>1, <4>2 DEF Light
      <4> QED BY <1>6, <2>1, <4>1, <4>2
    <3>2. ASSUME Valid(u), ~Tangled(T) PROVE PathWeight(u) <= PathWeight(y)
      <4>1. y = z
        <5>1. SUFFICES ASSUME NEW s \in Mined, Stops(f, y, s) PROVE FALSE BY <1>2
        <5>2. s \in T /\ ~Valid(s) BY <1>2, <1>7, <5>1 DEF Stops
        <5> QED BY <3>1, <3>2, <5>2 DEF Tangled
      <4>2. ~Tangled(stray) BY <1>7, <3>2 DEF Tangled
      <4>3. PathWeight(u) <= PathWeight(x) BY <2>1, <3>2, <4>2 DEF Light
      <4> QED BY <1>1, <1>2, <2>1, <4>1, <4>3, WeightFacts
    <3> QED BY <3>1, <3>2 DEF Light, u
  <2> QED BY <1>6, <2>1, <2>3, <2>4, <2>5, <2>6
<1>12. RowsLight(table, <<>>, x, stray) => RowsLight(table, q, y, T) BY <1>11 DEF RowsLight
<1>13. MovesUp(q, x, y)
  <2>1. ASSUME NEW s \in Mined, Stops(f, y, s) PROVE MovesUp(q, x, y)
    BY <1>5, <2>1 DEF Stops, MovesUp, WritesOf
  <2> QED BY <1>2, <2>1 DEF MovesUp
<1> QED BY <1>2, <1>7, <1>10, <1>12, <1>13 DEF StaysLight, table

\* Whatever block it is.
LEMMA AnsweredLight ==
    ASSUME NodeInv, NEW r, NEW b \in Mined, NEW P, Answered(r, b, P)
    PROVE  /\ StaysLight(db.BLOCKS, todo', Tip(chain), stray, Tip(chain'), stray')
           /\ MovesUp(todo', Tip(chain), Tip(chain'))
<1> DEFINE x == Tip(chain)
           t == Tip(chain')
<1>1. /\ RowsPlaced(db.BLOCKS) /\ x \in Blocks /\ Valid(x) /\ HoldsPath(db.BLOCKS, x)
      /\ todo' = Writes(r) /\ stray' = stray \cup LeftBehind(r) /\ Changed(chain, x, b, db.BLOCKS, r)
  BY TipOnPath DEF NodeInv, Stored, Answered, AtRest
<1>2. \A y \in Blocks : r.kind \in {"Applied", "Reorged"} /\ OnPath(r.chain, y) => t = y
  BY DEF Answered, Trimmed
<1>3. r.kind \notin {"Applied", "Reorged"} => chain' = r.chain BY DEF Answered
<1> HIDE DEF t
<1>4. CASE Extended(chain, x, b, r)
  <2>1. r.kind = "Applied" /\ OnPath(r.chain, b) /\ Parent[b] = x /\ b \in Blocks
    BY <1>4 DEF Extended, Extends, Mined
  <2>2. t = b /\ Tip(r.chain) = b BY <1>2, <2>1, OnPathAligned DEF Aligned
  <2>3. WritesOf(todo', {b}) BY <1>1, <2>1, <2>2, AppliedWrites DEF Writes
  <2>4. stray' = stray BY <1>1, <2>1 DEF LeftBehind
  <2> HIDE DEF x
  <2> QED BY <1>1, <2>1, <2>2, <2>3, <2>4, ExtendedLight DEF t, x, MovesUp
<1>5. CASE Untouched(chain, x, b, r)
  <2>1. r.kind \notin {"Applied", "Reorged"} /\ OnPath(r.chain, x) /\ Writes(r) = <<>> /\ LeftBehind(r) = {}
    BY <1>5 DEF Untouched, Writes, LeftBehind
  <2> HIDE DEF x
  <2>2. t = x BY <1>1, <1>3, <2>1, OnPathAligned DEF Aligned, t
  <2>3. todo' = <<>> /\ stray' = stray BY <1>1, <2>1
  <2> QED BY <2>2, <2>3, NothingWritten DEF StaysLight, MovesUp, t, x
<1>6. ASSUME NEW z, NEW y, Switched(chain, x, db.BLOCKS, r, z, y)
      PROVE  StaysLight(db.BLOCKS, todo', x, stray, t, stray') /\ MovesUp(todo', x, t)
  <2>1. y \in Blocks /\ StaysLight(db.BLOCKS, todo', x, stray, y, stray') /\ MovesUp(todo', x, y)
    <3> DEFINE q == Writes(r)
               T == stray \cup LeftBehind(r)
    <3>1. q = Writes(r) /\ T = stray \cup LeftBehind(r) /\ x = Tip(chain) OBVIOUS
    <3> HIDE DEF q, T, x
    <3>2. y \in Blocks /\ StaysLight(db.BLOCKS, q, x, stray, y, T) /\ MovesUp(q, x, y)
      BY <1>1, <1>6, <3>1, SwitchedLight
    <3> QED BY <1>1, <3>2 DEF q, T
  <2>2. t = y BY <1>2, <1>6, <2>1 DEF Switched
  <2> QED BY <2>1, <2>2
<1> HIDE DEF x
<1> QED BY <1>1, <1>4, <1>5, <1>6 DEF Changed, t, x

-----------------------------------------------------------------------------
\* The chain is left only for more work.
LEMMA PathWorkOf ==
    ASSUME NodeInv
    PROVE  PathWork = PathWeight(Tip(chain)) /\ chain.ledger.applied = PathTo[Tip(chain)]
<1>1. Tip(chain) \in Blocks /\ OnPath(chain, Tip(chain)) BY TipOnPath DEF NodeInv
<1> QED BY <1>1, PathSetFacts DEF PathWork, OnPath, PathWeight

\* What startup makes of a node that rests on x.
LEMMA RestStarts ==
    ASSUME NodeInv, PathInv, todo = <<>>, up
    PROVE  AtRest(db, Tip(chain)) /\ Tip(chain) \in Blocks
<1> DEFINE x == Tip(chain)
<1>1. Headed(db, <<>>, x) /\ x \in Blocks BY TipOnPath DEF PathInv, Headed, NodeInv
<1> HIDE DEF x
<1>2. AtRest(db, x) /\ x \in Blocks BY <1>1, RestHeaded
<1> QED BY <1>2 DEF x

LEMMA RebootHeavier ==
    ASSUME NodeInv, PathInv, Reboot
    PROVE  Tip(chain') = Tip(chain) \/ PathWeight(Tip(chain')) > PathWeight(Tip(chain))
<1> DEFINE x == Tip(chain)
           y == Tip(Loaded(db))
<1>1. Stored(db) /\ CheckpointRows(db) BY DEF NodeInv, PathInv, Placed
<1>2. AtRest(db, x) /\ x \in Blocks BY RestStarts DEF Reboot, Idle
<1>3. Tip(chain') = y
  <2>1. chain' = ChainAtStartup(db) BY DEF Reboot, StartUp
  <2> QED BY <1>1, <2>1, ServedChain
<1>4. Recovers(db, y) BY <1>1, Recovered
<1> HIDE DEF x, y
<1>5. y \in Blocks /\ Index[x] <= Index[y] /\ \A i \in 0 .. Index[x] : At(y, i) = At(x, i)
  BY <1>2, <1>4, RestartExtends DEF Recovers, AtRest
<1>6. x = y \/ PathWeight(y) > PathWeight(x) BY <1>2, <1>5, LongerIsHeavier DEF PathWeight
<1> QED BY <1>3, <1>6 DEF x

\* While it runs, and from a stop between two blocks to the start after it, a
\* node leaves its chain only for one with more work, whatever blocks it is
\* offered, except for the lower part of a fork whose replay stops at a block
\* with invalid content (blockchain.rs:520-640, 1064-1100).
THEOREM LeavesForMoreWork == (Spec \/ SpecRebooting) => MoreWorkOnly
<1> DEFINE Moves == up /\ up' /\ chain'.ledger.applied # chain.ledger.applied
                    => PathWork' > PathWork \/ (\E b \in Mined : StoppedAt(b))'
<1>1. ASSUME NodeInv, NodeInv', PathInv, [Next \/ NextRebooting]_vars
      PROVE  Moves
  <2>0. SUFFICES ASSUME up, up', chain'.ledger.applied # chain.ledger.applied
                 PROVE  PathWork' > PathWork \/ (\E b \in Mined : StoppedAt(b))'
    OBVIOUS
  <2>1. PathWork = PathWeight(Tip(chain)) /\ chain.ledger.applied = PathTo[Tip(chain)] BY <1>1, PathWorkOf
  <2>2. PathWork' = PathWeight(Tip(chain')) /\ chain'.ledger.applied = PathTo[Tip(chain')]
    <3>1. Tip(chain') \in Blocks /\ OnPath(chain', Tip(chain')) BY <1>1, TipOnPath DEF NodeInv
    <3> QED BY <3>1, PathSetFacts DEF PathWork, OnPath, PathWeight
  <2>3. CASE \E b \in Mined : Receive(b)
    <3>1. PICK b \in Mined : Receive(b) BY <2>3
    <3>2. chain \in Chains /\ GenesisChain \in Chains BY <1>1, GenesisWellFormed DEF NodeInv, WellFormed
    <3>3. PICK r : Answered(r, b, Chains) BY <1>1, <3>1, <3>2, ChainsHereditary, ReceiveAnswers
    <3>4. MovesUp(todo', Tip(chain), Tip(chain')) BY <1>1, <3>3, AnsweredLight
    <3>5. ASSUME NEW s \in Mined, s \in Invalid, Parent[s] = Tip(chain'),
                 NEW k \in 1 .. Len(todo'), s \in Written(todo'[k])
          PROVE  (\E u \in Mined : StoppedAt(u))'
      <4>1. todo' \in Seq(WriteTransactions) BY <1>1 DEF NodeInv, Scheduled
      <4>2. todo'[k] \in Elements(todo') BY <3>5, <4>1, InElements
      <4>3. \E u \in Mined : u \in Invalid /\ Parent[u] = Tip(chain') /\ \E w \in Elements(todo') : u \in Written(w)
        BY <3>5, <4>2
      <4> QED BY <4>3 DEF StoppedAt
    <3> QED BY <2>0, <2>1, <2>2, <3>4, <3>5 DEF MovesUp
  <2>4. CASE Write \/ UNCHANGED vars BY <2>0, <2>4 DEF Write, vars
  <2>5. CASE Crash \/ Restart BY <2>0, <2>5 DEF Crash, Restart
  <2>6. CASE Reboot BY <1>1, <2>0, <2>1, <2>2, <2>6, RebootHeavier
  <2> QED BY <1>1, <2>3, <2>4, <2>5, <2>6 DEF Next, NextRebooting, Running
<1>2. NodeInv /\ NodeInv' /\ PathInv /\ ([Next]_vars \/ [NextRebooting]_vars) => [Moves]_vars BY <1>1 DEF vars
<1>3. Spec => MoreWorkOnly BY <1>2, PathInvariance, PTL DEF Spec, MoreWorkOnly
<1>4. SpecRebooting => MoreWorkOnly BY <1>2, PathInvariance, PTL DEF SpecRebooting, MoreWorkOnly
<1> QED BY <1>3, <1>4

-----------------------------------------------------------------------------
\* The rows stay light.
LEMMA RestLight ==
    ASSUME NEW d, Stored(d), CheckpointRows(d), NEW x \in Blocks, HoldsPath(d.BLOCKS, x), Valid(x),
           NEW S, RowsLight(d.BLOCKS, <<>>, x, S)
    PROVE  RowsLight(d.BLOCKS, <<>>, Tip(Loaded(d)), S)
<1> DEFINE y == Tip(Loaded(d))
<1>1. Recovers(d, y) /\ RowsPlaced(d.BLOCKS) BY Recovered DEF Stored
<1> HIDE DEF y
<1>2. y \in Blocks /\ Index[x] <= Index[y] /\ \A i \in 0 .. Index[x] : At(y, i) = At(x, i)
  BY <1>1, RestartExtends DEF Recovers
<1>3. PathWeight(x) <= PathWeight(y) /\ S \subseteq S BY <1>2, WeightFacts
<1>4. RowsLight(d.BLOCKS, <<>>, y, S) BY <1>1, <1>2, <1>3, RowsUp
<1> QED BY <1>4 DEF y

LEMMA SameRowsTip ==
    ASSUME NEW d, NEW e, Stored(d), Stored(e), CheckpointRows(d), CheckpointRows(e), e.BLOCKS = d.BLOCKS
    PROVE  Tip(Loaded(e)) = Tip(Loaded(d))
<1>1. Recovers(d, Tip(Loaded(d))) /\ Recovers(e, Tip(Loaded(e))) BY Recovered
<1> QED BY <1>1, SameRowsRecover

LEMMA LightInit ==
    ASSUME Init
    PROVE  LightInv
<1>1. NodeInv /\ PathInv /\ todo = <<>> /\ up BY InitInv, PathInit DEF Init
<1>2. Tip(chain) = Genesis
  <2>1. Tip(GenesisChain) = Genesis BY GenesisWellFormed, NodeAssumption, OnPathAligned DEF Aligned
  <2> QED BY <2>1 DEF Init
<1>3. Genesis \in Blocks /\ Stored(db) /\ CheckpointRows(db) /\ HoldsPath(db.BLOCKS, Genesis) /\ Valid(Genesis)
  BY <1>1, <1>2, RestStarts DEF NodeInv, AtRest
<1>4. Genesis \in PathSet(Genesis) BY <1>3, OwnPathFacts, IndexFacts DEF OwnPath, PathSet
<1>5. RowsLight(db.BLOCKS, <<>>, Genesis, stray)
  <2>1. \A i \in Heights : db.BLOCKS[i] # NoBlock => db.BLOCKS[i] = Genesis BY DEF Init
  <2> QED BY <1>3, <1>4, <2>1, OnPathLight DEF RowsLight
<1>6. RowsLight(db.BLOCKS, <<>>, Tip(Loaded(db)), stray) BY <1>3, <1>5, RestLight
<1>7. ASSUME ~Tangled(stray) PROVE Tip(Loaded(db)) = Genesis BY <1>3, <1>5, <1>7, RestTip
<1>8. PathWeight(Genesis) <= PathWeight(Genesis) BY <1>3, WeightFacts
<1> QED BY <1>1, <1>2, <1>5, <1>6, <1>7, <1>8, NothingWritten DEF LightInv

LEMMA LightReceive ==
    ASSUME NodeInv, PathInv, LightInv, NEW b \in Mined, Receive(b), NodeInv'
    PROVE  LightInv'
<1> DEFINE x == Tip(chain)
           t == Tip(chain')
           y == Tip(Loaded(db))
<1>1. chain \in Chains /\ GenesisChain \in Chains BY GenesisWellFormed DEF NodeInv, WellFormed
<1>2. PICK r : Answered(r, b, Chains) BY <1>1, ChainsHereditary, ReceiveAnswers
<1>3. StaysLight(db.BLOCKS, todo', x, stray, t, stray') /\ MovesUp(todo', x, t) BY <1>2, AnsweredLight
<1>4. up /\ todo = <<>> /\ db' = db /\ torn' = torn /\ up' = up BY DEF Receive
<1>5. x \in Blocks /\ t \in Blocks /\ AtRest(db, x) /\ todo' \in Seq(WriteTransactions)
      /\ Stored(db) /\ CheckpointRows(db)
  BY <1>4, RestStarts, TipOnPath DEF NodeInv, Scheduled, AtRest
<1>6. y \in Blocks
  <2>1. Recovers(db, y) BY <1>5, Recovered
  <2> HIDE DEF y
  <2> QED BY <2>1 DEF Recovers
<1>7. ~torn => RowsLight(db.BLOCKS, <<>>, x, stray) /\ RowsLight(db.BLOCKS, <<>>, y, stray)
  BY <1>4 DEF LightInv, InDeepReorg
<1> HIDE DEF x, t, y
<1>8. WritesLight(todo', t, stray') /\ (~torn => RowsLight(db.BLOCKS, todo', t, stray')) /\ stray \subseteq stray'
  BY <1>3, <1>7 DEF StaysLight
<1>9. ~torn => RowsLight(db.BLOCKS, <<>>, y, stray')
  <2>1. RowsPlaced(db.BLOCKS) /\ Index[y] <= Index[y] /\ PathWeight(y) <= PathWeight(y)
    BY <1>5, <1>6, IndexFacts, WeightFacts DEF Stored
  <2> QED BY <1>6, <1>7, <1>8, <2>1, RowsUp
<1>10. ASSUME ~torn, ~HalfDone(todo'), ~Tangled(stray') PROVE PathWeight(y) <= PathWeight(t)
  <2>1. ~Tangled(stray) BY <1>8, <1>10 DEF Tangled
  <2>2. y = x BY <1>5, <1>7, <1>10, <2>1, RestTip DEF AtRest, y
  <2>3. ASSUME NEW s \in Invalid, NEW k \in 1 .. Len(todo'), s \in Written(todo'[k]) PROVE FALSE
    <3>1. todo'[k] \in Elements(todo') BY <1>5, InElements
    <3> QED BY <1>10, <2>3, <3>1 DEF HalfDone
  <2>4. t = x \/ PathWeight(t) > PathWeight(x) BY <1>3, <2>3 DEF MovesUp
  <2>5. PathWeight(t) \in Nat /\ PathWeight(x) \in Nat BY <1>5, WeightFacts
  <2> QED BY <2>2, <2>4, <2>5
<1>11. ~torn => RowsLight(db.BLOCKS, <<>>, Tip(Loaded(db)), stray') BY <1>9 DEF y
<1>12. ~torn /\ ~HalfDone(todo') /\ ~Tangled(stray') => PathWeight(Tip(Loaded(db))) <= PathWeight(Tip(chain'))
  BY <1>10 DEF y, t
<1>13. WritesLight(todo', Tip(chain'), stray') /\ (~torn => RowsLight(db.BLOCKS, todo', Tip(chain'), stray'))
  BY <1>8 DEF t
<1> QED BY <1>4, <1>11, <1>12, <1>13 DEF LightInv, HalfDone

\* One transaction.
LEMMA RowsLightAdvance ==
    ASSUME NEW q \in Seq(WriteTransactions), q # <<>>, NEW t, t = Tail(q), NEW w, w = q[1],
           NEW d, NEW e, RowsWritten(d, e, w), NEW x, NEW S, WritesLight(q, x, S), RowsLight(d.BLOCKS, q, x, S)
    PROVE  WritesLight(t, x, S) /\ RowsLight(e.BLOCKS, t, x, S)
<1>1. Len(q) \in Nat /\ Len(q) >= 1 /\ Len(t) = Len(q) - 1 /\ 1 \in 1 .. Len(q) /\ \A k \in 1 .. Len(t) : t[k] = q[k + 1]
  OBVIOUS
<1>2. \A k \in 1 .. Len(t) : k + 1 \in 1 .. Len(q) BY <1>1
<1>3. WritesLight(t, x, S) BY <1>1, <1>2 DEF WritesLight
<1>4. ASSUME NEW i \in Heights, e.BLOCKS[i] # NoBlock, ~Coming(t, i) PROVE Light(e.BLOCKS[i], x, S)
  <2>1. CASE \E u \in Written(w) : Index[u] = i /\ e.BLOCKS[i] = u BY <1>1, <2>1 DEF WritesLight
  <2>2. CASE e.BLOCKS[i] = d.BLOCKS[i] /\ \A y \in Written(w) \cup Cleared(w) : Index[y] # i
    <3>1. ~Coming(q, i)
      <4>1. SUFFICES ASSUME NEW k \in 1 .. Len(q), NEW v \in Written(q[k]) \cup Cleared(q[k]), Index[v] = i
                     PROVE  FALSE
        BY DEF Coming
      <4>2. k # 1 BY <2>2, <4>1
      <4>3. k - 1 \in 1 .. Len(t) /\ (k - 1) + 1 = k BY <1>1, <4>2
      <4>4. t[k - 1] = q[k] BY <1>1, <4>3
      <4> QED BY <1>4, <4>1, <4>3, <4>4 DEF Coming
    <3> QED BY <1>4, <2>2, <3>1 DEF RowsLight
  <2> QED BY <1>4, <2>1, <2>2 DEF RowsWritten
<1> QED BY <1>3, <1>4 DEF RowsLight

LEMMA LightWrite ==
    ASSUME NodeInv, PathInv, LightInv, Write, NodeInv', PathInv'
    PROVE  LightInv'
<1> DEFINE x == Tip(chain)
           d == db
           e == Commit(db, Head(todo))
           w == Head(todo)
           t == Tail(todo)
           S == stray
           y == Tip(Loaded(d))
           z == Tip(Loaded(e))
<1>1. /\ Stored(d) /\ todo \in Seq(WriteTransactions) /\ todo # <<>> /\ x \in Blocks /\ up
      /\ Placed(d, todo, x) /\ Valid(x) /\ CheckpointRows(d)
  BY TipOnPath DEF NodeInv, PathInv, Write, Scheduled, Placed
<1>2. db' = e /\ todo' = t /\ chain' = chain /\ up' = up /\ torn' = torn /\ stray' = S BY DEF Write
<1>3. Stored(e) /\ CheckpointRows(e) /\ Placed(e, t, x) BY <1>2 DEF NodeInv, PathInv, Placed
<1>4. w \in WriteTransactions /\ w = todo[1] /\ Len(todo) \in Nat /\ Len(todo) >= 1 /\ t \in Seq(WriteTransactions)
      /\ Len(t) = Len(todo) - 1 /\ t = Tail(todo) /\ \A k \in 1 .. Len(t) : t[k] = todo[k + 1]
  BY <1>1
<1>5. RowsWritten(d, e, w) BY <1>1, <1>4, CommitRows
<1>6. WritesLight(todo, x, S) /\ (~torn => RowsLight(d.BLOCKS, todo, x, S)) BY <1>1 DEF LightInv
<1>7. /\ ~torn /\ ~InDeepReorg => RowsLight(d.BLOCKS, <<>>, y, S)
      /\ ~torn /\ ~InDeepReorg /\ ~HalfDone(todo) /\ ~Tangled(S) => PathWeight(y) <= PathWeight(x)
  BY <1>1 DEF LightInv
<1>8. t # <<>> => Succeeds(w, t[1]) /\ t[1] \in WriteTransactions /\ w.op # "checkpoint" BY <1>1, NextInQueue
<1>9. w.op = "delete" => e.BLOCKS = d.BLOCKS BY <1>1, <1>4, DeleteKeepsRows
<1>10. InDeepReorg <=> w.op \in {"save", "rebuild"} BY <1>1 DEF InDeepReorg
<1>11. t # <<>> => t[1] = Head(t) BY <1>4
<1>12. InDeepReorg' <=> t # <<>> /\ t[1].op \in {"save", "rebuild"} BY <1>2, <1>11 DEF InDeepReorg
<1>13. Tip(chain') = x /\ Tip(Loaded(db')) = z BY <1>2
<1>14. PathWeight(x) \in Nat BY <1>1, WeightFacts
<1> HIDE DEF x, d, e, w, t, y, z, S
<1>15. WritesLight(t, x, S)
  <2>1. \A k \in 1 .. Len(t) : k + 1 \in 1 .. Len(todo) BY <1>4
  <2> QED BY <1>4, <1>6, <2>1 DEF WritesLight
<1>16. ~torn => RowsLight(e.BLOCKS, t, x, S) BY <1>1, <1>4, <1>5, <1>6, RowsLightAdvance
<1>17. ASSUME ~torn, ~(t # <<>> /\ t[1].op \in {"save", "rebuild"})
       PROVE  /\ RowsLight(e.BLOCKS, <<>>, z, S)
              /\ ~HalfDone(t) /\ ~Tangled(S) => PathWeight(z) <= PathWeight(x)
  <2>1. CASE t = <<>> \/ t[1].op = "checkpoint"
    <3>1. HoldsPath(e.BLOCKS, x) BY <1>3, <1>4, <2>1, NothingComing
    <3>2. \A k \in 1 .. Len(t) : Written(t[k]) = {} /\ Cleared(t[k]) = {} BY <1>3, <1>4, <2>1, NothingToWrite
    <3>3. RowsLight(e.BLOCKS, <<>>, x, S) BY <1>16, <1>17, <3>2, NoneComing
    <3>4. RowsLight(e.BLOCKS, <<>>, z, S) BY <1>1, <1>3, <3>1, <3>3, RestLight DEF z
    <3>5. ASSUME ~Tangled(S) PROVE z = x BY <1>1, <1>3, <3>1, <3>3, <3>5, RestTip DEF z
    <3> QED BY <1>14, <3>4, <3>5
  <2>2. CASE t # <<>> /\ t[1].op = "reorg"
    <3>1. w.op = "delete" BY <1>8, <2>2 DEF Succeeds
    <3>2. e.BLOCKS = d.BLOCKS /\ ~InDeepReorg BY <1>9, <1>10, <3>1
    <3>3. z = y BY <1>1, <1>3, <3>2, SameRowsTip DEF z, y
    <3>4. HalfDone(todo) => HalfDone(t)
      <4>1. SUFFICES ASSUME NEW v \in Elements(todo), Written(v) \cap Invalid # {}
                     PROVE  \E u \in Elements(t) : Written(u) \cap Invalid # {}
        BY DEF HalfDone
      <4>2. PICK k \in 1 .. Len(todo) : v = todo[k] BY <1>1, InElements
      <4>3. k # 1 BY <1>4, <3>1, <4>1, <4>2 DEF Written
      <4>4. k - 1 \in 1 .. Len(t) /\ (k - 1) + 1 = k BY <1>4, <4>3
      <4>5. t[k - 1] = v BY <1>4, <4>2, <4>4
      <4>6. v \in Elements(t) BY <1>4, <4>4, <4>5, InElements
      <4> QED BY <4>1, <4>6
    <3> QED BY <1>7, <1>17, <3>2, <3>3, <3>4
  <2>3. t = <<>> \/ t[1].op \in {"checkpoint", "reorg"}
    <3>1. SUFFICES ASSUME t # <<>> PROVE t[1].op \in {"checkpoint", "reorg"} OBVIOUS
    <3> DEFINE v == t[1]
    <3>2. Succeeds(w, v) /\ v \in WriteTransactions /\ v.op \notin {"save", "rebuild"} BY <1>8, <1>17, <3>1
    <3> HIDE DEF v
    <3>3. v.op \in {"applied", "checkpoint", "delete", "reorg", "save", "rebuild"} BY <3>2, TransactionCases
    <3>4. v.op \in {"checkpoint", "reorg"} BY <3>2, <3>3 DEF Succeeds
    <3> QED BY <3>4 DEF v
  <2> QED BY <2>1, <2>2, <2>3
<1>18. /\ WritesLight(todo', Tip(chain'), stray')
       /\ ~torn' => RowsLight(db'.BLOCKS, todo', Tip(chain'), stray')
  BY <1>2, <1>13, <1>15, <1>16
<1>19. ~torn' /\ ~InDeepReorg' => RowsLight(db'.BLOCKS, <<>>, Tip(Loaded(db')), stray')
  BY <1>2, <1>12, <1>13, <1>17
<1>20. HalfDone(todo)' <=> HalfDone(t) BY <1>2 DEF HalfDone
<1>21. ~torn' /\ ~InDeepReorg' /\ ~HalfDone(todo)' /\ ~Tangled(stray')
       => PathWeight(Tip(Loaded(db'))) <= PathWeight(Tip(chain'))
  BY <1>2, <1>12, <1>13, <1>17, <1>20
<1> QED BY <1>18, <1>19, <1>21 DEF LightInv, HalfDone, Tangled

LEMMA LightCrash ==
    ASSUME LightInv, Crash
    PROVE  LightInv'
<1>1. up' = FALSE /\ db' = db /\ stray' = stray /\ (~torn' => ~torn /\ ~InDeepReorg) BY DEF Crash
<1> QED BY <1>1 DEF LightInv

LEMMA LightStartUp ==
    ASSUME NodeInv, PathInv, LightInv, StartUp, todo = <<>>, NodeInv', PathInv'
    PROVE  LightInv'
<1> DEFINE d == db
           e == TablesAfterStartup(db)
           y == Tip(Loaded(d))
           z == Tip(Loaded(e))
<1>1. db' = e /\ chain' = ChainAtStartup(d) /\ todo' = <<>> /\ torn' = torn /\ stray' = stray BY DEF StartUp
<1>2. Stored(d) /\ CheckpointRows(d) BY DEF NodeInv, PathInv, Placed
<1>3. Stored(e) /\ CheckpointRows(e) BY <1>1 DEF NodeInv, PathInv, Placed
<1>4. e.BLOCKS = d.BLOCKS
  <2>1. d \in Tables BY <1>2 DEF Stored
  <2> QED BY <2>1 DEF TablesAfterStartup, Tables
<1>5. Tip(chain') = y /\ Tip(Loaded(db')) = z BY <1>1, <1>2, ServedChain
<1>6. ~torn => RowsLight(d.BLOCKS, <<>>, y, stray) BY DEF LightInv, InDeepReorg
<1> HIDE DEF d, e
<1>7. z = y BY <1>2, <1>3, <1>4, SameRowsTip
<1>8. PathWeight(y) <= PathWeight(y)
  <2>1. Recovers(d, y) BY <1>2, Recovered
  <2> HIDE DEF y
  <2> QED BY <2>1, WeightFacts DEF Recovers
<1> HIDE DEF y, z
<1>9. WritesLight(todo', Tip(chain'), stray') BY <1>1, NothingWritten
<1>10. ~torn' => /\ RowsLight(db'.BLOCKS, todo', Tip(chain'), stray')
                 /\ RowsLight(db'.BLOCKS, <<>>, Tip(Loaded(db')), stray')
  BY <1>1, <1>4, <1>5, <1>6, <1>7
<1>11. PathWeight(Tip(Loaded(db'))) <= PathWeight(Tip(chain')) BY <1>5, <1>7, <1>8
<1> QED BY <1>9, <1>10, <1>11 DEF LightInv

LEMMA LightNext ==
    ASSUME NodeInv, PathInv, LightInv, [Next \/ NextRebooting]_vars, NodeInv', PathInv'
    PROVE  LightInv'
<1>1. CASE \E b \in Mined : Receive(b) BY <1>1, LightReceive
<1>2. CASE Write BY <1>2, LightWrite
<1>3. CASE Crash BY <1>3, LightCrash
<1>4. CASE Restart BY <1>4, LightStartUp DEF Restart, NodeInv
<1>5. CASE Reboot BY <1>5, LightStartUp DEF Reboot, Idle
<1>6. CASE UNCHANGED vars BY <1>6 DEF vars, LightInv, InDeepReorg, HalfDone
<1> QED BY <1>1, <1>2, <1>3, <1>4, <1>5, <1>6 DEF Next, NextRebooting, Running

LEMMA LightInvariance == (Spec \/ SpecRebooting) => [](NodeInv /\ PathInv /\ LightInv)
<1>1. NodeInv /\ PathInv /\ LightInv /\ ([Next]_vars \/ [NextRebooting]_vars) /\ NodeInv' /\ PathInv' => LightInv'
  BY LightNext DEF vars
<1>2. Init => LightInv BY LightInit
<1>3. Spec => [](NodeInv /\ PathInv /\ LightInv) BY <1>1, <1>2, PathInvariance, PTL DEF Spec
<1>4. SpecRebooting => [](NodeInv /\ PathInv /\ LightInv) BY <1>1, <1>2, PathInvariance, PTL DEF SpecRebooting
<1> QED BY <1>3, <1>4

\* What committing the next transaction recovers.
LEMMA NoLessRecovered ==
    ASSUME NodeInv, PathInv, LightInv
    PROVE  RecoveryNeverRegresses
<1> DEFINE x == Tip(chain)
           w == Head(todo)
           t == Tail(todo)
           e == Commit(db, w)
           y == Tip(Loaded(db))
           z == Tip(Loaded(e))
<1>1. SUFFICES ASSUME todo # <<>>, ~InDeepReorg, ~torn, ~HalfDone(todo), ~Tangled(stray)
               PROVE  RecoverableWork(e) >= RecoverableWork(db)
  BY DEF RecoveryNeverRegresses
<1>2. /\ Stored(db) /\ CheckpointRows(db) /\ Scheduled(db, todo) /\ up /\ x \in Blocks /\ Valid(x)
      /\ Placed(db, todo, x) /\ todo \in Seq(WriteTransactions) /\ w \in WriteTransactions
      /\ t \in Seq(WriteTransactions)
  BY <1>1, TipOnPath DEF NodeInv, PathInv, Placed, Scheduled
<1>3. w.op \notin {"save", "rebuild"} BY <1>1 DEF InDeepReorg
<1>4. PathWeight(y) <= PathWeight(x) BY <1>1, <1>2 DEF LightInv
<1> HIDE DEF x
<1>5. Stored(e) /\ Placed(e, t, x) BY <1>1, <1>2, QueueAdvances, PlacedAdvances
<1>6. Recovers(db, y) /\ Recovers(e, z) BY <1>2, <1>5, Recovered DEF Placed
<1> HIDE DEF y, z, e, w, t
<1>7. /\ RecoverableWork(db) = PathWeight(y) /\ PathWeight(y) \in Nat /\ y \in Blocks
      /\ RecoverableWork(e) = PathWeight(z) /\ PathWeight(z) \in Nat
  BY <1>6, WeightFacts DEF Recovers
<1>8. CASE w.op = "delete"
  <2>1. e.BLOCKS = db.BLOCKS BY <1>2, <1>8, DeleteKeepsRows DEF e
  <2>2. y = z BY <1>6, <2>1, SameRowsRecover
  <2> QED BY <1>7, <2>2
<1>9. CASE w.op \in {"applied", "reorg", "checkpoint"}
  <2>1. t = <<>> \/ t[1].op = "checkpoint" BY <1>1, <1>2, <1>9, AfterRows DEF w, t
  <2>2. HoldsPath(e.BLOCKS, x) BY <1>2, <1>5, <2>1, NothingComing
  <2>3. RecoverableWork(e) >= PathWeight(x) BY <1>2, <1>6, <2>2, RecoversHeld
  <2> QED BY <1>2, <1>4, <1>7, <2>3, WeightFacts
<1> QED BY <1>2, <1>3, <1>8, <1>9, TransactionCases

\* No write transaction, except those of a deep reorg and of a reorg that
\* stopped half-way, makes the chain that a restart would recover lighter: dying
\* between any two of them costs at most the block being applied (db.rs:285-368,
\* blockchain.rs:1150-1260).
THEOREM CrashCostsOneBlock == (Spec \/ SpecRebooting) => []RecoveryNeverRegresses
<1>1. NodeInv /\ PathInv /\ LightInv => RecoveryNeverRegresses BY NoLessRecovered
<1> QED BY <1>1, LightInvariance, PTL

\* Wherever the process died outside the block-by-block writes of a deep reorg, a
\* node at rest has the rows of its chain, and above the tip no row but those a
\* reorg is known to leave there (db.rs:366-368, blockchain.rs:1064-1075, 1255).
THEOREM RowsAboveAreStray == (Spec \/ SpecRebooting) => [](~torn => RowsAreChain)
<1>1. ASSUME NodeInv, PathInv, LightInv, ~torn, Idle, NEW i \in Heights
      PROVE  IF i < Len(Path) THEN db.BLOCKS[i] = Path[i + 1] ELSE db.BLOCKS[i] \in {NoBlock} \cup stray
  <2> DEFINE x == Tip(chain)
  <2>1. AtRest(db, x) /\ x \in Blocks /\ todo = <<>> /\ up /\ RowsPlaced(db.BLOCKS)
    BY <1>1, RestStarts DEF Idle, NodeInv, Stored
  <2>2. RowsLight(db.BLOCKS, todo, x, stray) BY <1>1, <2>1 DEF LightInv
  <2>3. i \in Nat /\ Index[x] \in Nat /\ Len(PathTo[x]) = Index[x] + 1 /\ Path = PathTo[x]
    BY <2>1, HeightsFacts, IndexFacts, PathFacts DEF Leads, Path
  <2>4. ~Coming(todo, i) BY <2>1, NothingWritten
  <2> HIDE DEF x
  <2>5. CASE i < Len(Path)
    <3>1. i \in 0 .. Index[x] BY <2>3, <2>5
    <3> QED BY <2>1, <2>3, <2>5, <3>1 DEF AtRest, HoldsPath, At
  <2>6. CASE ~(i < Len(Path)) /\ db.BLOCKS[i] # NoBlock
    <3>1. Index[db.BLOCKS[i]] = i /\ Light(db.BLOCKS[i], x, stray)
      BY <2>1, <2>2, <2>4, <2>6 DEF RowsPlaced, RowsLight
    <3> QED BY <2>3, <2>6, <3>1 DEF Light
  <2> QED BY <2>5, <2>6
<1>2. NodeInv /\ PathInv /\ LightInv => (~torn => RowsAreChain) BY <1>1 DEF RowsAreChain
<1> QED BY <1>2, LightInvariance, PTL

-----------------------------------------------------------------------------
\* Tickets of a path, block by block.
LEMMA PathTold ==
    ASSUME NEW x \in Blocks
    PROVE  /\ PathTo[x] \in Seq(Blocks) /\ Len(PathTo[x]) = Index[x] + 1 /\ Index[x] \in Nat
           /\ \A t : t \in TicketsOf(PathTo[x]) <=>
                       t \in Ticketed /\ t \in PathSet(x) /\ Index[t] + RevealBlocks >= Index[x] + 1
           /\ \A d : d \in DrawsOf(PathTo[x]) <=>
                       \E t \in Ticketed : /\ t \in PathSet(x) /\ Index[t] + RevealBlocks < Index[x] + 1
                                           /\ d = DrawOn(x, t)
           /\ \A t \in PathSet(x) : t \in Blocks /\ Index[t] \in 0 .. Index[x] /\ At(x, Index[t]) = t
<1>1. PathTo[x] \in Seq(Blocks) /\ Len(PathTo[x]) = Index[x] + 1 /\ Index[x] \in Nat
  BY PathFacts, IndexFacts DEF Leads
<1>2. Elements(PathTo[x]) = PathSet(x) BY PathSetFacts
<1>3. \A t : t \in TicketsOf(PathTo[x]) <=>
               t \in Ticketed /\ t \in PathSet(x) /\ Index[t] + RevealBlocks >= Index[x] + 1
  BY <1>1, <1>2 DEF TicketsOf
<1>4. \A d : d \in DrawsOf(PathTo[x]) <=>
               \E t \in Ticketed : /\ t \in PathSet(x) /\ Index[t] + RevealBlocks < Index[x] + 1
                                   /\ d = DrawOn(x, t)
  BY <1>1, <1>2 DEF DrawsOf, DrawOn
<1>5. \A t \in PathSet(x) : t \in Blocks /\ Index[t] \in 0 .. Index[x] /\ At(x, Index[t]) = t
  BY OwnPathFacts DEF OwnPath, PathSet
<1> QED BY <1>1, <1>3, <1>4, <1>5

LEMMA TicketsOneMore ==
    ASSUME NEW b \in Mined, NEW x \in Blocks, Parent[b] = x
    PROVE  TicketsOf(PathTo[b]) = (TicketsOf(PathTo[x]) \ MatureOn(x)) \cup ({b} \cap Ticketed)
<1>1. b \in Blocks /\ RevealBlocks \in Nat \ {0} BY NodeAssumption DEF Mined
<1>2. Index[b] = Index[x] + 1 /\ Index[x] \in Nat /\ PathSet(b) = PathSet(x) \cup {b} BY PathOneMore
<1>3. ASSUME NEW t
      PROVE  t \in TicketsOf(PathTo[b]) <=> (t \in TicketsOf(PathTo[x]) /\ t \notin MatureOn(x)) \/ t \in {b} \cap Ticketed
  <2> DEFINE s == Index[t] + RevealBlocks
  <2>1. t \in PathSet(x) => s \in Nat /\ t # b BY <1>1, <1>2, PathTold
  <2>2. t = b => s >= Index[b] + 1 BY <1>1, <1>2
  <2>3. t \in TicketsOf(PathTo[b]) <=> t \in Ticketed /\ (t \in PathSet(x) \/ t = b) /\ s >= Index[b] + 1
    BY <1>1, <1>2, PathTold
  <2>4. t \in TicketsOf(PathTo[x]) <=> t \in Ticketed /\ t \in PathSet(x) /\ s >= Index[b] BY <1>2, PathTold
  <2>5. t \in MatureOn(x) <=> t \in TicketsOf(PathTo[x]) /\ s = Index[b] BY <1>2 DEF MatureOn
  <2>6. t \in PathSet(x) => (s >= Index[b] + 1 <=> s >= Index[b] /\ s # Index[b]) BY <1>2, <2>1
  <2> HIDE DEF s
  <2> QED BY <2>2, <2>3, <2>4, <2>5, <2>6
<1> QED BY <1>3

LEMMA CutDrawsOneMore ==
    ASSUME NEW b \in Mined, NEW x \in Blocks, Parent[b] = x, NEW o \in 0 .. Index[x], NEW D
    PROVE  CutDraws(b, o, D) = CutDraws(x, o, D) \cup {CutDraw(x, t, o) : t \in MatureOn(x)}
<1>1. b \in Blocks /\ RevealBlocks \in Nat \ {0} BY NodeAssumption DEF Mined
<1>2. Index[b] = Index[x] + 1 /\ Index[x] \in Nat /\ PathSet(b) = PathSet(x) \cup {b}
      /\ PathTo[b] = Append(PathTo[x], b)
  BY PathOneMore
<1>3. ASSUME NEW t \in PathSet(x), Index[t] + RevealBlocks <= Index[x] + 1
      PROVE  CutDraw(b, t, o) = CutDraw(x, t, o)
  <2> DEFINE p == PathTo[x]
             m == Later(Index[t], o) + 1
             n == Index[t] + RevealBlocks
  <2>1. p \in Seq(Blocks) /\ m \in Nat /\ n \in Nat /\ m >= 1 /\ n <= Len(p)
    BY <1>1, <1>2, <1>3, PathTold DEF Later
  <2> HIDE DEF p, m, n
  <2>2. SubSeq(Append(p, b), m, n) = SubSeq(p, m, n) BY <1>1, <2>1
  <2> QED BY <1>2, <2>2 DEF CutDraw, p, m, n
<1>4. DrawnSince(b, o) = DrawnSince(x, o) \cup MatureOn(x)
  <2>1. ASSUME NEW t PROVE t \in DrawnSince(b, o) <=> t \in DrawnSince(x, o) \/ t \in MatureOn(x)
    <3> DEFINE s == Index[t] + RevealBlocks
    <3>1. t \in PathSet(x) => s \in Nat /\ t # b BY <1>1, <1>2, PathTold
    <3>2. t = b => ~(s < Index[b] + 1) BY <1>1, <1>2
    <3>3. t \in DrawnSince(b, o) <=> t \in Ticketed /\ (t \in PathSet(x) \/ t = b) /\ o < s /\ s < Index[b] + 1
      BY <1>2 DEF DrawnSince
    <3>4. t \in DrawnSince(x, o) <=> t \in Ticketed /\ t \in PathSet(x) /\ o < s /\ s < Index[b]
      BY <1>2 DEF DrawnSince
    <3>5. t \in MatureOn(x) <=> t \in Ticketed /\ t \in PathSet(x) /\ s = Index[b]
      <4>1. t \in TicketsOf(PathTo[x]) <=> t \in Ticketed /\ t \in PathSet(x) /\ s >= Index[b]
        BY <1>2, PathTold
      <4>2. s = Index[b] => s >= Index[b] BY <1>2
      <4> QED BY <1>2, <4>1, <4>2 DEF MatureOn
    <3>6. o < Index[b] /\ (t \in PathSet(x) => (s < Index[b] + 1 <=> s < Index[b] \/ s = Index[b]))
      BY <1>2, <3>1
    <3> HIDE DEF s
    <3> QED BY <3>2, <3>3, <3>4, <3>5, <3>6
  <2> QED BY <2>1
<1>5. \A t \in DrawnSince(x, o) \cup MatureOn(x) : CutDraw(b, t, o) = CutDraw(x, t, o)
  <2>1. \A t \in DrawnSince(x, o) : t \in PathSet(x) /\ Index[t] + RevealBlocks <= Index[x] + 1
    BY <1>1, <1>2, PathTold DEF DrawnSince
  <2>2. \A t \in MatureOn(x) : t \in PathSet(x) /\ Index[t] + RevealBlocks <= Index[x] + 1
    BY <1>1, <1>2, PathTold DEF MatureOn
  <2> QED BY <1>3, <2>1, <2>2
<1> QED BY <1>4, <1>5 DEF CutDraws

LEMMA WholeDraws ==
    ASSUME NEW x \in Blocks
    PROVE  /\ DrawsOf(PathTo[x]) = CutDraws(x, 0, {})
           /\ \A t \in PathSet(x) : \A o \in 0 .. Index[t] : CutDraw(x, t, o) = DrawOn(x, t)
<1>1. RevealBlocks \in Nat \ {0} BY NodeAssumption
<1>2. \A t \in PathSet(x) : Index[t] \in Nat BY PathTold
<1>3. ASSUME NEW t \in PathSet(x), NEW o \in 0 .. Index[t] PROVE CutDraw(x, t, o) = DrawOn(x, t)
  <2>1. Later(Index[t], o) = Index[t] BY <1>2 DEF Later
  <2> QED BY <2>1 DEF CutDraw, DrawOn
<1>4. \A t \in PathSet(x) : 0 \in 0 .. Index[t] /\ 0 < Index[t] + RevealBlocks BY <1>1, <1>2
<1>5. \A d : d \in DrawsOf(PathTo[x]) <=> \E t \in DrawnSince(x, 0) : d = DrawOn(x, t)
  BY <1>4, PathTold DEF DrawnSince
<1>6. \A t \in DrawnSince(x, 0) : CutDraw(x, t, 0) = DrawOn(x, t) BY <1>3, <1>4 DEF DrawnSince
<1> QED BY <1>3, <1>5, <1>6 DEF CutDraws

-----------------------------------------------------------------------------
\* compute_ticket_reward finds the hashes of the reveal window from the start
\* of the window in memory on.
LEMMA DrawIsCut ==
    ASSUME NEW c, NEW x \in Blocks, OnPath(c, x), NEW t \in MatureOn(x)
    PROVE  Draw(c, t) = CutDraw(x, t, c.blocks_offset)
<1> DEFINE p == PathTo[x]
           o == c.blocks_offset
           n == Index[x]
           i == Index[t] - o + 1
           from == IF i < 1 THEN 1 ELSE i
           w == c.blocks
           l == Len(w)
           s == SubSeq(w, from, l)
           m == Later(Index[t], o) + 1
           u == SubSeq(p, m, n + 1)
<1>1. /\ n \in Nat /\ o \in Nat /\ o <= n /\ w \in Seq(Blocks) /\ l = n - o + 1
      /\ \A k \in 1 .. l : w[k] = p[o + k]
  BY OnPathAligned DEF Aligned
<1>2. p \in Seq(Blocks) /\ Len(p) = n + 1 BY PathTold
<1>3. Index[t] + RevealBlocks = n + 1 /\ Index[t] \in 0 .. n BY PathTold DEF MatureOn
<1>4. RevealBlocks \in Nat /\ RevealBlocks >= 1 BY NodeAssumption
<1>5. Draw(c, t) = [ticket |-> t, at |-> Index[t] + RevealBlocks, entropy |-> s]
  <2>1. i + RevealBlocks - 1 = l BY <1>1, <1>3, <1>4
  <2>2. Draw(c, t) = [ticket |-> t, at |-> Index[t] + RevealBlocks,
                      entropy |-> SubSeq(w, from, i + RevealBlocks - 1)]
    BY DEF Draw
  <2> QED BY <2>1, <2>2
<1>6. CutDraw(x, t, o) = [ticket |-> t, at |-> Index[t] + RevealBlocks, entropy |-> u] BY <1>3 DEF CutDraw
<1>7. from \in Nat /\ from >= 1 /\ from <= l /\ m = o + from BY <1>1, <1>3, <1>4 DEF Later
<1>8. m \in Nat /\ m >= 1 /\ m <= n + 1 /\ l \in Nat BY <1>1, <1>7
<1> HIDE DEF m, from, i, o, l, w, p, n
<1>9. /\ s \in Seq(Blocks) /\ Len(s) = l - from + 1
      /\ \A k \in 1 .. l - from + 1 : s[k] = w[from + k - 1]
  <2>1. l <= Len(w) BY <1>8 DEF l
  <2> HIDE DEF s
  <2>2. s = SubSeq(w, from, l) BY DEF s
  <2> QED BY <1>1, <1>7, <1>8, <2>1, <2>2, SubSeqFacts
<1>10. /\ u \in Seq(Blocks) /\ Len(u) = (n + 1) - m + 1
       /\ \A k \in 1 .. (n + 1) - m + 1 : u[k] = p[m + k - 1]
  <2> DEFINE e == n + 1
  <2>1. e <= Len(p) /\ e \in Nat /\ m <= e BY <1>1, <1>2, <1>8
  <2> HIDE DEF u
  <2>2. u = SubSeq(p, m, e) BY DEF u
  <2> HIDE DEF e
  <2>3. /\ u \in Seq(Blocks) /\ Len(u) = e - m + 1
        /\ \A k \in 1 .. e - m + 1 : u[k] = p[m + k - 1]
    BY <1>2, <1>8, <2>1, <2>2, SubSeqFacts
  <2> QED BY <2>3 DEF e
<1> HIDE DEF s, u
<1>11. Len(s) = Len(u) BY <1>1, <1>7, <1>8, <1>9, <1>10
<1>12. ASSUME NEW k \in 1 .. Len(s) PROVE s[k] = u[k]
  <2>1. k \in 1 .. l - from + 1 /\ from + k - 1 \in 1 .. l /\ k \in 1 .. (n + 1) - m + 1
        /\ o + (from + k - 1) = m + k - 1
    BY <1>1, <1>7, <1>8, <1>9
  <2> QED BY <1>1, <1>9, <1>10, <2>1
<1>13. s = u BY <1>9, <1>10, <1>11, <1>12, SameSequence
<1>14. CutDraw(x, t, o) = Draw(c, t) BY <1>5, <1>6, <1>13
<1> QED BY <1>14 DEF o

LEMMA UpdateTells ==
    ASSUME NEW c \in TicketChains, WellFormed(c), NEW b \in Blocks, Accepts(c, b)
    PROVE  Told(c, b, UpdateState(c, b))
<1> DEFINE x == Tip(c)
           e == UpdateState(c, b)
<1>1. x \in Blocks /\ OnPath(c, x) /\ c \in Chains /\ c.pending_tickets = TicketsOf(PathTo[x])
  BY TipOnPath DEF TicketChains, WellFormed
<1>2. Aligned(c, x) BY <1>1, OnPathAligned
<1>3. Index[b] = Index[x] + 1 /\ Parent[b] = x /\ Index[x] \in Nat /\ Height(c) = Index[x] + 1
  BY <1>2 DEF Accepts, LinksToTip, Aligned
<1>4. b \in Mined BY <1>3, IndexFacts DEF Mined
<1>5. Mature(c) = MatureOn(x) BY <1>1, <1>3 DEF Mature, MatureOn
<1>6. Updated(e, c, b)
  <2>1. {Draw(c, t) : t \in Mature(c)} \subseteq Draws BY <1>1, DrawsTyped
  <2> QED BY <1>1, <1>4, <2>1, UpdateFields
<1>7. WellFormed(e) /\ OnPath(e, b) BY UpdateWellFormed
<1>8. Tip(e) = b BY <1>7, OnPathAligned DEF Aligned
<1> HIDE DEF e, x
<1>9. {Draw(c, t) : t \in Mature(c)} = {CutDraw(x, t, c.blocks_offset) : t \in MatureOn(x)}
  BY <1>1, <1>5, DrawIsCut
<1>10. /\ e \in Chains /\ e.blocks_offset = c.blocks_offset /\ e.blocks = Append(c.blocks, b)
       /\ e.pending_tickets = (c.pending_tickets \ Mature(c)) \cup ({b} \cap Ticketed)
       /\ e.ledger.drawn = c.ledger.drawn \cup {Draw(c, t) : t \in Mature(c)}
  BY <1>6 DEF Updated
<1>11. e.pending_tickets = TicketsOf(PathTo[b]) BY <1>1, <1>3, <1>4, <1>5, <1>10, TicketsOneMore
<1>12. Len(e.blocks) = Len(c.blocks) + 1 BY <1>1, <1>10 DEF Chains
<1>13. c.blocks_offset \in 0 .. Index[x] /\ Len(c.blocks) = Index[x] - c.blocks_offset + 1 BY <1>2 DEF Aligned
<1> QED BY <1>1, <1>3, <1>4, <1>8, <1>9, <1>10, <1>11, <1>12, <1>13 DEF Told, TicketChains, x, e

LEMMA PoolTells ==
    ASSUME NEW c \in Chains, NEW pool \in SUBSET Mined, NEW e, e = [c EXCEPT !.orphan_pool = pool]
    PROVE  /\ e \in Chains /\ Tip(e) = Tip(c) /\ e.pending_tickets = c.pending_tickets
           /\ e.ledger = c.ledger /\ e.blocks = c.blocks /\ e.blocks_offset = c.blocks_offset
<1>1. e \in Chains /\ e.pending_tickets = c.pending_tickets /\ e.ledger = c.ledger
      /\ e.blocks = c.blocks /\ e.blocks_offset = c.blocks_offset
  BY DEF Chains
<1> QED BY <1>1 DEF Tip

LEMMA TicketsHereditary == Hereditary(TicketChains)
<1>1. ASSUME NEW c \in TicketChains, NEW b \in Blocks, WellFormed(c) /\ Accepts(c, b)
      PROVE  UpdateState(c, b) \in TicketChains
  BY <1>1, UpdateTells DEF Told
<1>2. ASSUME NEW c \in TicketChains, NEW pool \in SUBSET Mined
      PROVE  [c EXCEPT !.orphan_pool = pool] \in TicketChains
  <2> DEFINE e == [c EXCEPT !.orphan_pool = pool]
  <2>1. c \in Chains /\ c.pending_tickets = TicketsOf(PathTo[Tip(c)]) BY DEF TicketChains
  <2>2. e \in Chains /\ Tip(e) = Tip(c) /\ e.pending_tickets = c.pending_tickets BY <2>1, PoolTells
  <2> HIDE DEF e
  <2>3. e \in TicketChains BY <2>1, <2>2 DEF TicketChains
  <2> QED BY <2>3 DEF e
<1> QED BY <1>1, <1>2 DEF Hereditary

LEMMA CutHereditary ==
    ASSUME NEW o, NEW D
    PROVE  Hereditary(CutChains(o, D))
<1>1. ASSUME NEW c \in CutChains(o, D), NEW b \in Blocks, WellFormed(c) /\ Accepts(c, b)
      PROVE  UpdateState(c, b) \in CutChains(o, D)
  <2> DEFINE e == UpdateState(c, b)
             x == Tip(c)
  <2>1. c \in TicketChains /\ c.blocks_offset = o /\ c.ledger.drawn = CutDraws(x, o, D) BY DEF CutChains
  <2>2. Told(c, b, e) BY <1>1, <2>1, UpdateTells
  <2> HIDE DEF e
  <2>3. /\ e \in TicketChains /\ Tip(e) = b /\ b \in Mined /\ Parent[b] = x /\ x \in Blocks
        /\ e.blocks_offset = o /\ o \in 0 .. Index[x]
        /\ e.ledger.drawn = c.ledger.drawn \cup {CutDraw(x, t, o) : t \in MatureOn(x)}
    BY <2>1, <2>2 DEF Told
  <2> HIDE DEF x
  <2>4. e.ledger.drawn = CutDraws(b, o, D) BY <2>1, <2>3, CutDrawsOneMore
  <2>5. e \in CutChains(o, D) BY <2>3, <2>4 DEF CutChains
  <2> QED BY <2>5 DEF e
<1>2. ASSUME NEW c \in CutChains(o, D), NEW pool \in SUBSET Mined
      PROVE  [c EXCEPT !.orphan_pool = pool] \in CutChains(o, D)
  <2> DEFINE e == [c EXCEPT !.orphan_pool = pool]
  <2>1. c \in Chains /\ c \in TicketChains /\ c.blocks_offset = o /\ c.ledger.drawn = CutDraws(Tip(c), o, D)
    BY DEF CutChains, TicketChains
  <2>2. e \in TicketChains BY <2>1, TicketsHereditary DEF Hereditary
  <2>3. Tip(e) = Tip(c) /\ e.ledger = c.ledger /\ e.blocks_offset = c.blocks_offset BY <2>1, PoolTells
  <2> HIDE DEF e
  <2>4. e \in CutChains(o, D) BY <2>1, <2>2, <2>3 DEF CutChains
  <2> QED BY <2>4 DEF e
<1> QED BY <1>1, <1>2 DEF Hereditary

\* A window of ReorgWindow blocks, or one that begins at genesis, holds every
\* block of the reveal window of a ticket that matures (blockchain.rs:9-16).
LEMMA DrawsHereditary == Hereditary(DrawChains)
<1>1. ASSUME NEW c \in DrawChains, NEW b \in Blocks, WellFormed(c) /\ Accepts(c, b)
      PROVE  UpdateState(c, b) \in DrawChains
  <2> DEFINE e == UpdateState(c, b)
             x == Tip(c)
             o == c.blocks_offset
  <2>1. c \in TicketChains /\ Windowed(c) /\ c.ledger.drawn = DrawsOf(PathTo[x]) BY DEF DrawChains
  <2>2. Told(c, b, e) BY <1>1, <2>1, UpdateTells
  <2> HIDE DEF e
  <2>3. /\ e \in TicketChains /\ Tip(e) = b /\ b \in Mined /\ Parent[b] = x /\ x \in Blocks
        /\ e.blocks_offset = o /\ o \in 0 .. Index[x] /\ Len(e.blocks) = Len(c.blocks) + 1
        /\ Len(c.blocks) = Index[x] - o + 1
        /\ e.ledger.drawn = c.ledger.drawn \cup {CutDraw(x, t, o) : t \in MatureOn(x)}
    BY <2>2 DEF Told
  <2> HIDE DEF x, o
  <2>4. Index[x] \in Nat /\ ReorgWindow \in Nat /\ RevealBlocks \in Nat /\ ReorgWindow >= RevealBlocks
    BY <2>3, IndexFacts, NodeAssumption
  <2>5. o = 0 \/ Len(c.blocks) >= ReorgWindow BY <2>1 DEF Windowed, o
  <2>6. ASSUME NEW t \in MatureOn(x) PROVE CutDraw(x, t, o) = CutDraw(x, t, 0)
    <3>1. t \in PathSet(x) /\ Index[t] + RevealBlocks = Index[x] + 1 /\ Index[t] \in Nat
      BY <2>3, PathTold DEF MatureOn
    <3>2. o \in 0 .. Index[t] /\ 0 \in 0 .. Index[t] BY <2>3, <2>4, <2>5, <3>1
    <3> QED BY <2>3, <3>1, <3>2, WholeDraws
  <2>7. e.ledger.drawn = CutDraws(x, 0, {}) \cup {CutDraw(x, t, 0) : t \in MatureOn(x)}
    BY <2>1, <2>3, <2>6, WholeDraws DEF x
  <2>8. e.ledger.drawn = CutDraws(b, 0, {})
    <3> DEFINE D == {}
               zero == 0
    <3>1. zero \in 0 .. Index[x] /\ b \in Mined /\ x \in Blocks /\ Parent[b] = x BY <2>3, <2>4
    <3> HIDE DEF D, zero, e
    <3>2. CutDraws(b, zero, D) = CutDraws(x, zero, D) \cup {CutDraw(x, t, zero) : t \in MatureOn(x)}
      BY <3>1, CutDrawsOneMore
    <3> QED BY <2>7, <3>2 DEF D, zero
  <2>9. e.ledger.drawn = DrawsOf(PathTo[b])
    <3>1. b \in Blocks BY <2>3 DEF Mined
    <3> QED BY <2>8, <3>1, WholeDraws
  <2>10. Windowed(e) BY <2>3, <2>4, <2>5 DEF Windowed
  <2>11. e \in DrawChains BY <2>3, <2>9, <2>10 DEF DrawChains
  <2> QED BY <2>11 DEF e
<1>2. ASSUME NEW c \in DrawChains, NEW pool \in SUBSET Mined
      PROVE  [c EXCEPT !.orphan_pool = pool] \in DrawChains
  <2> DEFINE e == [c EXCEPT !.orphan_pool = pool]
  <2>1. c \in Chains /\ c \in TicketChains /\ Windowed(c) /\ c.ledger.drawn = DrawsOf(PathTo[Tip(c)])
    BY DEF DrawChains, TicketChains
  <2>2. e \in TicketChains BY <2>1, TicketsHereditary DEF Hereditary
  <2>3. Tip(e) = Tip(c) /\ e.ledger = c.ledger /\ e.blocks_offset = c.blocks_offset /\ e.blocks = c.blocks
    BY <2>1, PoolTells
  <2> HIDE DEF e
  <2>4. e \in DrawChains BY <2>1, <2>2, <2>3 DEF DrawChains, Windowed
  <2> QED BY <2>4 DEF e
<1> QED BY <1>1, <1>2 DEF Hereditary

LEMMA GenesisTells ==
    /\ GenesisChain \in DrawChains /\ GenesisChain \in CutChains(0, {})
    /\ TicketsOf(PathTo[Genesis]) = {}
<1> DEFINE x == Genesis
           c == GenesisChain
<1>1. x \in Blocks /\ Index[x] = 0 /\ x \notin Ticketed BY IndexFacts, NodeAssumption DEF Mined
<1>2. WellFormed(c) /\ Tip(c) = x /\ c \in Chains
  BY <1>1, GenesisWellFormed, OnPathAligned DEF Aligned, WellFormed
<1>3. c.pending_tickets = {} /\ c.ledger.drawn = {} /\ c.blocks_offset = 0 BY DEF GenesisChain
<1> HIDE DEF c
<1>4. PathSet(x) = {x}
  <2>1. \A i : i \in 0 .. 0 <=> i = 0 OBVIOUS
  <2>2. At(x, 0) = x BY <1>1, OwnPathFacts DEF OwnPath
  <2> QED BY <1>1, <2>1, <2>2 DEF PathSet
<1> HIDE DEF x
<1>5. TicketsOf(PathTo[x]) = {} BY <1>1, <1>4, PathTold
<1>6. CutDraws(x, 0, {}) = {} BY <1>1, <1>4 DEF CutDraws, DrawnSince
<1>7. DrawsOf(PathTo[x]) = {} BY <1>1, <1>6, WholeDraws
<1>8. c \in TicketChains BY <1>2, <1>3, <1>5 DEF TicketChains
<1>9. c \in DrawChains /\ c \in CutChains(0, {})
  BY <1>2, <1>3, <1>6, <1>7, <1>8 DEF DrawChains, CutChains, Windowed
<1> QED BY <1>5, <1>9 DEF c, x

\* A checkpoint tells the tickets of its block.
LEMMA RestoreTells ==
    ASSUME NEW cp, Consistent(cp), cp.tickets = TicketsOf(PathTo[cp.block_hash])
    PROVE  RestoreFromCheckpoint(cp) \in CutChains(cp.height, cp.ledger.drawn)
<1> DEFINE c == RestoreFromCheckpoint(cp)
           x == cp.block_hash
           o == cp.height
           D == cp.ledger.drawn
<1>1. c \in SoundChains /\ c \in Chains /\ cp.height = Index[x] /\ x \in Blocks
  BY RestoreSound DEF SoundChains, WellFormed, Consistent, CheckpointStates
<1>2. c.blocks = <<x>> /\ c.blocks_offset = o /\ c.pending_tickets = cp.tickets /\ c.ledger.drawn = D
  BY DEF RestoreFromCheckpoint
<1>3. Tip(c) = x
  <2>1. Last(<<x>>) = x BY DEF Last
  <2> QED BY <1>2, <2>1 DEF Tip
<1> HIDE DEF c, x, o, D
<1>4. DrawnSince(x, o) = {}
  <2>1. o = Index[x] /\ o \in Nat BY <1>1, IndexFacts DEF o
  <2>2. \A t \in PathSet(x) : Index[t] + RevealBlocks \in Nat BY <1>1, PathTold, NodeAssumption
  <2> QED BY <2>1, <2>2 DEF DrawnSince
<1>5. CutDraws(x, o, D) = D BY <1>4 DEF CutDraws
<1>6. c \in TicketChains BY <1>1, <1>2, <1>3 DEF TicketChains, x
<1> QED BY <1>2, <1>3, <1>5, <1>6 DEF CutChains, c, o, D

-----------------------------------------------------------------------------
LEMMA NothingTold ==
    ASSUME NEW b
    PROVE  Tells(<<>>, b)
<1> DEFINE q == <<>>
<1>1. 1 .. Len(q) = {} OBVIOUS
<1> HIDE DEF q
<1>2. Tells(q, b) BY <1>1 DEF Tells
<1> QED BY <1>2 DEF q

LEMMA TwoTold ==
    ASSUME NEW v, NEW w, NEW b, WriteTells(v, b), WriteTells(w, b), v.op # "save", w.op # "save"
    PROVE  Tells(<<v>>, b) /\ Tells(<<v, w>>, b)
<1>1. Tells(<<v>>, b)
  <2> DEFINE q == <<v>>
  <2>1. q[1] = v /\ \A k \in 1 .. Len(q) : k = 1 OBVIOUS
  <2> HIDE DEF q
  <2>2. Tells(q, b) BY <2>1 DEF Tells
  <2> QED BY <2>2 DEF q
<1>2. Tells(<<v, w>>, b)
  <2> DEFINE q == <<v, w>>
  <2>1. q[1] = v /\ q[2] = w /\ \A k \in 1 .. Len(q) : k = 1 \/ k = 2 OBVIOUS
  <2> HIDE DEF q
  <2>2. Tells(q, b) BY <2>1 DEF Tells
  <2> QED BY <2>2 DEF q
<1> QED BY <1>1, <1>2

LEMMA AppliedTells ==
    ASSUME NEW c \in TicketChains
    PROVE  Tells(WritesApplied(c), Tip(c))
<1> DEFINE x == Tip(c)
           payouts == PayoutsAt(c.settled, Index[Tip(c)])
           v == [op |-> "applied", block |-> Tip(c), tickets |-> c.pending_tickets, payouts |-> payouts]
           w == [op |-> "checkpoint", state |-> Snapshot(c)]
<1>1. WritesApplied(c) = <<v, w>> \/ WritesApplied(c) = <<v>> BY DEF WritesApplied
<1>2. c.pending_tickets = TicketsOf(PathTo[x]) BY DEF TicketChains
<1>3. Snapshot(c).tickets = c.pending_tickets /\ Snapshot(c).block_hash = x BY DEF Snapshot
<1>4. v.op = "applied" /\ v.tickets = c.pending_tickets /\ w.op = "checkpoint" /\ w.state = Snapshot(c)
  OBVIOUS
<1> HIDE DEF v, w, x
<1>5. WriteTells(v, x) /\ WriteTells(w, x) /\ v.op # "save" /\ w.op # "save"
  BY <1>2, <1>3, <1>4 DEF WriteTells, CheckpointTells
<1> QED BY <1>1, <1>5, TwoTold DEF x

LEMMA ShallowTells ==
    ASSUME NEW c \in TicketChains, NEW old, NEW f
    PROVE  Tells(WritesShallow(c, old, f), Tip(c))
<1> DEFINE x == Tip(c)
           payouts == {r \in c.settled : \E b \in Elements(f) : r.at = Index[b]}
           v == [op |-> "delete", from |-> Index[old[1]]]
           w == [op |-> "reorg", old |-> old, new |-> f, tickets |-> c.pending_tickets,
                 payouts |-> payouts]
<1>1. WritesShallow(c, old, f) = <<v, w>> BY DEF WritesShallow
<1>2. c.pending_tickets = TicketsOf(PathTo[x]) BY DEF TicketChains
<1>3. v.op = "delete" /\ w.op = "reorg" /\ w.tickets = c.pending_tickets OBVIOUS
<1> HIDE DEF v, w, x
<1>4. WriteTells(v, x) /\ WriteTells(w, x) /\ v.op # "save" /\ w.op # "save" BY <1>2, <1>3 DEF WriteTells
<1> QED BY <1>1, <1>4, TwoTold DEF x

LEMMA DeepTells ==
    ASSUME NEW c \in TicketChains, NEW f \in Seq(Mined)
    PROVE  Tells(WritesDeep(c, f), Tip(c))
<1> DEFINE x == Tip(c)
           q == WritesDeep(c, f)
           l == Len(f)
           u == [op |-> "delete", from |-> 0]
           saves == [i \in DOMAIN f |-> [op |-> "save", block |-> f[i]]]
           w == [op |-> "rebuild", tickets |-> c.pending_tickets, payouts |-> c.settled]
           s == <<u>> \o saves
<1>1. /\ l \in Nat /\ Len(q) = l + 2 /\ q[1].op = "delete" /\ q[l + 2].op = "rebuild"
      /\ \A i \in 1 .. l : q[i + 1].op = "save"
  BY WritesDeepQueue DEF DeepQueue
<1>2. q = s \o <<w>> BY DEF WritesDeep
<1>3. s \in Seq({s[i] : i \in 1 .. Len(s)})
  <2>1. DOMAIN f = 1 .. l /\ l \in Nat OBVIOUS
  <2> DEFINE E == {u} \cup {saves[i] : i \in 1 .. l}
  <2>2. saves \in Seq(E)
    <3>1. saves \in [1 .. l -> E] BY <2>1
    <3> HIDE DEF saves, l, E
    <3> QED BY <2>1, <3>1
  <2>3. <<u>> \in Seq(E) OBVIOUS
  <2> HIDE DEF saves, u, E
  <2>4. s \in Seq(E) BY <2>2, <2>3
  <2> HIDE DEF s
  <2> QED BY <2>4
<1>4. q[l + 2] = w
  <2> DEFINE E == {s[i] : i \in 1 .. Len(s)} \cup {w}
             e == <<w>>
  <2>1. s \in Seq(E) /\ e \in Seq(E) /\ Len(e) = 1 /\ e[1] = w
    <3> HIDE DEF s, w
    <3>1. s \in Seq(E) BY <1>3
    <3>2. e \in Seq(E) OBVIOUS
    <3> QED BY <3>1, <3>2
  <2> HIDE DEF s, e, w, E, q, l
  <2>2. q = s \o e BY <1>2 DEF e
  <2>3. Len(q) = Len(s) + Len(e) /\ \A i \in 1 .. Len(s) + Len(e) : q[i] = IF i <= Len(s) THEN s[i] ELSE e[i - Len(s)]
    BY <2>1, <2>2, ConcatProperties
  <2>4. Len(s) \in Nat BY <2>1
  <2>5. Len(s) = l + 1 /\ l + 2 \in 1 .. Len(s) + Len(e) /\ ~(l + 2 <= Len(s)) /\ (l + 2) - Len(s) = 1
    BY <1>1, <2>1, <2>3, <2>4
  <2> QED BY <2>1, <2>3, <2>5
<1>5. c.pending_tickets = TicketsOf(PathTo[x]) /\ w.tickets = c.pending_tickets BY DEF TicketChains
<1> HIDE DEF x, q, l, w
<1>6. ASSUME NEW k \in 1 .. Len(q)
      PROVE  WriteTells(q[k], x) /\ (q[k].op = "save" => k # Len(q))
  <2>1. k = 1 \/ k = l + 2 \/ (k - 1 \in 1 .. l /\ (k - 1) + 1 = k) BY <1>1
  <2>2. CASE k = l + 2
    <3>1. q[k].op = "rebuild" /\ q[k].tickets = TicketsOf(PathTo[x]) BY <1>1, <1>4, <1>5, <2>2
    <3> QED BY <3>1 DEF WriteTells
  <2>3. ASSUME k = 1 \/ (k - 1 \in 1 .. l /\ (k - 1) + 1 = k) PROVE q[k].op \in {"delete", "save"} /\ k # Len(q)
    BY <1>1, <2>3
  <2> QED BY <2>1, <2>2, <2>3 DEF WriteTells
<1>7. Tells(q, x) BY <1>6 DEF Tells
<1> QED BY <1>7 DEF q, x

LEMMA WritesTell ==
    ASSUME NodeInv, NEW r, NEW b \in Mined, Answered(r, b, TicketChains)
    PROVE  chain' \in TicketChains /\ Tells(todo', Tip(chain'))
<1>1. WellFormed(chain) /\ todo' = Writes(r) /\ r.chain \in TicketChains /\ WellFormed(r.chain)
      /\ Changed(chain, Tip(chain), b, db.BLOCKS, r)
  BY DEF NodeInv, Answered
<1>2. r.kind \in {"Applied", "Reorged", "Rejected", "Orphaned"} /\ (r.kind = "Reorged" => r.new \in Seq(Mined))
  BY <1>1 DEF Changed, Extended, Untouched, Switched, Forks
<1>3. chain' \in TicketChains /\ Tip(chain') = Tip(r.chain)
  <2>1. CASE r.kind \in {"Applied", "Reorged"}
    <3>1. Trimmed(r.chain, chain') BY <2>1 DEF Answered
    <3>2. Tip(r.chain) \in Blocks /\ OnPath(r.chain, Tip(r.chain)) BY <1>1, TipOnPath
    <3>3. Tip(chain') = Tip(r.chain) /\ chain' \in Chains /\ chain'.pending_tickets = r.chain.pending_tickets
      BY <3>1, <3>2 DEF Trimmed, WellFormed
    <3> QED BY <1>1, <3>3 DEF TicketChains
  <2>2. CASE r.kind \notin {"Applied", "Reorged"} BY <1>1, <2>2 DEF Answered
  <2> QED BY <2>1, <2>2
<1>4. Tells(Writes(r), Tip(r.chain))
  <2>1. CASE r.kind = "Applied" BY <1>1, <2>1, AppliedTells DEF Writes
  <2>2. CASE r.kind = "Reorged" /\ r.old # <<>> BY <1>1, <2>2, ShallowTells DEF Writes
  <2>3. CASE r.kind = "Reorged" /\ r.old = <<>> BY <1>1, <1>2, <2>3, DeepTells DEF Writes
  <2>4. CASE r.kind \in {"Rejected", "Orphaned"}
    <3>1. Writes(r) = <<>> BY <2>4 DEF Writes
    <3> QED BY <3>1, NothingTold
  <2> QED BY <1>2, <2>1, <2>2, <2>3, <2>4
<1> QED BY <1>1, <1>3, <1>4

-----------------------------------------------------------------------------
\* Tickets in the tables.
LEMMA CommitTickets ==
    ASSUME NEW d, Stored(d), NEW w \in WriteTransactions
    PROVE  Commit(d, w).TICKETS =
               IF w.op \in {"applied", "reorg", "rebuild"} THEN w.tickets ELSE d.TICKETS
<1>1. d \in Tables BY DEF Stored
<1>2. CASE w.op = "applied"
  <2>1. Commit(d, w) = SaveAppliedBlock(d, w) BY <1>2 DEF Commit
  <2> QED BY <1>1, <1>2, <2>1 DEF SaveAppliedBlock, Tables
<1>3. CASE w.op = "checkpoint"
  <2>1. Commit(d, w) = SaveCheckpoint(d, w) BY <1>3 DEF Commit
  <2> QED BY <1>1, <1>3, <2>1 DEF SaveCheckpoint, Tables
<1>4. CASE w.op = "delete"
  <2>1. Commit(d, w) = DeleteCheckpointsFrom(d, w) BY <1>4 DEF Commit
  <2> QED BY <1>1, <1>4, <2>1 DEF DeleteCheckpointsFrom, Tables
<1>5. CASE w.op = "reorg"
  <2>1. Commit(d, w) = ApplyReorgIncremental(d, w) BY <1>5 DEF Commit
  <2>2. ApplyReorgIncremental(d, w).TICKETS = w.tickets BY <1>1 DEF ApplyReorgIncremental, Tables
  <2> QED BY <1>5, <2>1, <2>2
<1>6. CASE w.op = "save"
  <2>1. Commit(d, w) = SaveBlockIndexed(d, w) BY <1>6 DEF Commit
  <2> QED BY <1>1, <1>6, <2>1 DEF SaveBlockIndexed, Tables
<1>7. CASE w.op = "rebuild"
  <2>1. Commit(d, w) = RebuildIndicesWithTickets(d, w) BY <1>7 DEF Commit
  <2> QED BY <1>1, <1>7, <2>1 DEF RebuildIndicesWithTickets, Tables
<1> QED BY <1>2, <1>3, <1>4, <1>5, <1>6, <1>7, TransactionCases

LEMMA CommitCheckpoints ==
    ASSUME NEW d, Stored(d), NEW w \in WriteTransactions, NEW b, WriteTells(w, b),
           \A cp \in d.CHECKPOINTS : CheckpointTells(cp)
    PROVE  \A cp \in Commit(d, w).CHECKPOINTS : CheckpointTells(cp)
<1>1. CheckpointsWritten(d, Commit(d, w), w) BY CommitRows
<1>2. w.op = "checkpoint" => CheckpointTells(w.state) BY DEF WriteTells
<1> DEFINE e == Commit(d, w)
<1> HIDE DEF e
<1>3. \A cp \in e.CHECKPOINTS : cp \in d.CHECKPOINTS \/ (w.op = "checkpoint" /\ cp = w.state)
  BY <1>1 DEF CheckpointsWritten, e
<1> QED BY <1>2, <1>3 DEF e

LEMMA TellsAdvance ==
    ASSUME NEW q \in Seq(WriteTransactions), q # <<>>, NEW b, Tells(q, b)
    PROVE  WriteTells(Head(q), b) /\ Tells(Tail(q), b) /\ (Head(q).op = "save" => Tail(q) # <<>>)
<1> DEFINE t == Tail(q)
<1>1. /\ Len(q) \in Nat /\ Len(q) >= 1 /\ Head(q) = q[1] /\ t \in Seq(WriteTransactions)
      /\ Len(t) = Len(q) - 1 /\ \A k \in 1 .. Len(t) : t[k] = q[k + 1]
  OBVIOUS
<1> HIDE DEF t
<1>2. 1 \in 1 .. Len(q) /\ \A k \in 1 .. Len(t) : k + 1 \in 1 .. Len(q) /\ (k = Len(t) <=> k + 1 = Len(q))
  BY <1>1
<1>3. WriteTells(Head(q), b) /\ (Head(q).op = "save" => 1 # Len(q)) BY <1>1, <1>2 DEF Tells
<1>4. t = <<>> => Len(q) = 1
  <2>1. Len(t) = 0 => Len(q) = 1 BY <1>1
  <2>2. t = <<>> => Len(t) = 0 OBVIOUS
  <2> QED BY <2>1, <2>2
<1>5. Tells(t, b) BY <1>1, <1>2 DEF Tells
<1> QED BY <1>3, <1>4, <1>5 DEF t

\* After the block-by-block writes come more of them.
LEMMA AfterSave ==
    ASSUME NEW d, NEW q \in Seq(WriteTransactions), Scheduled(d, q), NEW b, Placed(d, q, b), q # <<>>,
           Tail(q) # <<>>, Head(q).op \in {"save", "rebuild"}
    PROVE  Tail(q)[1].op \in {"save", "rebuild"}
<1> DEFINE v == Tail(q)[1]
           w == Head(q)
<1>1. Succeeds(w, v) /\ v \in WriteTransactions BY NextInQueue
<1>2. Follows(w, v)
  <2>1. Len(q) \in Nat /\ Len(q) >= 2 /\ w = q[1] /\ v = q[1 + 1]
    <3> DEFINE t == Tail(q)
    <3>1. Len(q) \in Nat /\ Len(q) >= 1 /\ w = q[1] /\ t \in Seq(WriteTransactions) /\ Len(t) = Len(q) - 1
          /\ \A k \in 1 .. Len(t) : t[k] = q[k + 1]
      OBVIOUS
    <3>2. t # <<>> OBVIOUS
    <3> HIDE DEF t
    <3>3. Len(t) >= 1 BY <3>1, <3>2
    <3>4. 1 \in 1 .. Len(t) BY <3>1, <3>3
    <3>5. t[1] = q[1 + 1] BY <3>1, <3>4
    <3> QED BY <3>1, <3>3, <3>5 DEF t
  <2>2. 1 \in 1 .. Len(q) - 1 BY <2>1
  <2> HIDE DEF v, w
  <2> QED BY <2>1, <2>2 DEF Scheduled
<1> HIDE DEF v, w
<1>3. v.op \in {"applied", "checkpoint", "delete", "reorg", "save", "rebuild"} BY <1>1, TransactionCases
<1>4. w.op \in {"save", "rebuild"} BY DEF w
<1>5. v.op \in {"save", "rebuild"} BY <1>1, <1>2, <1>3, <1>4 DEF Succeeds, Follows
<1> QED BY <1>5 DEF v

LEMMA TicketInit ==
    ASSUME Init
    PROVE  TicketInv
<1>1. /\ chain = GenesisChain /\ todo = <<>> /\ db.CHECKPOINTS = {} /\ db.TICKETS = {} /\ up /\ ~torn
      /\ ~InDeepReorg
  BY DEF Init, InDeepReorg
<1>2. chain \in TicketChains /\ Tip(chain) = Genesis /\ TicketsOf(PathTo[Genesis]) = {}
  <2>1. Tip(GenesisChain) = Genesis BY GenesisWellFormed, NodeAssumption, OnPathAligned DEF Aligned
  <2> QED BY <1>1, <2>1, GenesisTells DEF DrawChains
<1>3. Stored(db) /\ CheckpointRows(db) /\ RowsLight(db.BLOCKS, <<>>, Genesis, stray)
      /\ HoldsPath(db.BLOCKS, Genesis) /\ Valid(Genesis) /\ Genesis \in Blocks
  <2>1. NodeInv /\ PathInv /\ LightInv BY InitInv, PathInit, LightInit
  <2>2. RowsLight(db.BLOCKS, <<>>, Genesis, stray) BY <1>1, <1>2, <2>1 DEF LightInv
  <2> QED BY <1>1, <1>2, <2>1, <2>2, RestStarts DEF NodeInv, AtRest
<1>4. ~Tangled(stray) => Tip(Loaded(db)) = Genesis BY <1>3, RestTip
<1>5. Tells(todo, Tip(chain)) BY <1>1, NothingTold
<1> QED BY <1>1, <1>2, <1>4, <1>5 DEF TicketInv, Sound

LEMMA TicketReceive ==
    ASSUME NodeInv, PathInv, TicketInv, NEW b \in Mined, Receive(b)
    PROVE  TicketInv'
<1>1. SUFFICES ASSUME Sound PROVE TicketInv' BY DEF TicketInv, Sound, Receive, Tangled
<1>2. chain \in TicketChains /\ GenesisChain \in TicketChains BY <1>1, GenesisTells DEF TicketInv, DrawChains
<1>3. PICK r : Answered(r, b, TicketChains) BY <1>2, TicketsHereditary, ReceiveAnswers
<1>4. chain' \in TicketChains /\ Tells(todo', Tip(chain')) BY <1>3, WritesTell
<1>5. todo = <<>> /\ db' = db BY DEF Receive
<1>6. ~InDeepReorg BY <1>5 DEF InDeepReorg
<1> QED BY <1>1, <1>4, <1>5, <1>6 DEF TicketInv

-----------------------------------------------------------------------------
\* The tickets of the chain a restart recovers, one committed write later.
LEMMA TicketsCommitted ==
    ASSUME NodeInv, PathInv, LightInv, TicketInv, Sound, Write, NodeInv', PathInv', LightInv', ~InDeepReorg'
    PROVE  Commit(db, Head(todo)).TICKETS = TicketsOf(PathTo[Tip(Loaded(Commit(db, Head(todo))))])
<1> DEFINE x == Tip(chain)
           d == db
           w == Head(todo)
           e == Commit(db, Head(todo))
           t == Tail(todo)
<1>1. /\ Stored(d) /\ Scheduled(d, todo) /\ todo \in Seq(WriteTransactions) /\ todo # <<>> /\ x \in Blocks /\ up
      /\ Placed(d, todo, x) /\ Valid(x) /\ CheckpointRows(d) /\ w \in WriteTransactions
  BY TipOnPath DEF NodeInv, PathInv, Write, Scheduled, Placed
<1>2. db' = e /\ todo' = t /\ chain' = chain /\ up' = up /\ torn' = torn /\ stray' = stray BY DEF Write
<1>3. Stored(e) /\ CheckpointRows(e) /\ Placed(e, t, x) BY <1>2 DEF NodeInv, PathInv, Placed
<1>4. RowsLight(e.BLOCKS, t, x, stray) /\ ~Tangled(stray) BY <1>1, <1>2 DEF LightInv, Sound
<1>5. WriteTells(w, x) /\ (w.op = "save" => t # <<>>) BY <1>1, TellsAdvance DEF TicketInv
<1>6. e.TICKETS = IF w.op \in {"applied", "reorg", "rebuild"} THEN w.tickets ELSE d.TICKETS
  BY <1>1, CommitTickets
<1>7. ~InDeepReorg => d.TICKETS = TicketsOf(PathTo[Tip(Loaded(d))]) BY DEF TicketInv
<1>8. InDeepReorg <=> w.op \in {"save", "rebuild"} BY <1>1 DEF InDeepReorg
<1>9. t # <<>> => t[1].op \notin {"save", "rebuild"}
  <2>1. t # <<>> => t[1] = Head(t) BY <1>1
  <2>2. t # <<>> => Head(t).op \notin {"save", "rebuild"} BY <1>2 DEF InDeepReorg
  <2> QED BY <2>1, <2>2
<1>10. w.op \in {"save", "rebuild"} => t = <<>> BY <1>1, <1>9, AfterSave
<1>11. w.op \in {"applied", "reorg", "checkpoint"} => t = <<>> \/ t[1].op = "checkpoint" BY <1>1, AfterRows
<1>12. t \in Seq(WriteTransactions) BY <1>1
<1>13. w.op = "delete" => e.BLOCKS = d.BLOCKS BY <1>1, DeleteKeepsRows
<1>14. w.op = "checkpoint" => e.BLOCKS = d.BLOCKS
  <2>1. ASSUME w.op = "checkpoint" PROVE e.BLOCKS = d.BLOCKS
    <3>1. e = SaveCheckpoint(d, w) BY <2>1 DEF Commit
    <3> QED BY <1>1, <3>1 DEF SaveCheckpoint, Stored, Tables
  <2> QED BY <2>1
<1>15. w.op \in {"applied", "checkpoint", "delete", "reorg", "save", "rebuild"} BY <1>1, TransactionCases
<1> HIDE DEF x, d, w, e, t
<1>16. CASE w.op \in {"applied", "reorg", "rebuild"}
  <2>1. t = <<>> \/ t[1].op = "checkpoint" BY <1>10, <1>11, <1>16
  <2>2. HoldsPath(e.BLOCKS, x) BY <1>3, <1>12, <2>1, NothingComing
  <2>3. Tip(Loaded(e)) = x
    <3>1. \A k \in 1 .. Len(t) : Written(t[k]) = {} /\ Cleared(t[k]) = {} BY <1>3, <1>12, <2>1, NothingToWrite
    <3>2. RowsLight(e.BLOCKS, <<>>, x, stray) BY <1>4, <3>1, NoneComing
    <3> QED BY <1>1, <1>3, <1>4, <2>2, <3>2, RestTip
  <2>4. e.TICKETS = TicketsOf(PathTo[x]) BY <1>5, <1>6, <1>16 DEF WriteTells
  <2>5. e.TICKETS = TicketsOf(PathTo[Tip(Loaded(e))]) BY <2>3, <2>4
  <2> QED BY <2>5 DEF e, w
<1>17. CASE w.op \in {"delete", "checkpoint"}
  <2>1. Tip(Loaded(e)) = Tip(Loaded(d)) BY <1>1, <1>3, <1>13, <1>14, <1>17, SameRowsTip
  <2>2. e.TICKETS = TicketsOf(PathTo[Tip(Loaded(e))]) BY <1>6, <1>7, <1>8, <1>17, <2>1
  <2> QED BY <2>2 DEF e, w
<1> QED BY <1>5, <1>10, <1>15, <1>16, <1>17

LEMMA TicketWrite ==
    ASSUME NodeInv, PathInv, LightInv, TicketInv, Write, NodeInv', PathInv', LightInv'
    PROVE  TicketInv'
<1>1. SUFFICES ASSUME Sound PROVE TicketInv' BY DEF TicketInv, Write, Sound
<1>2. chain' = chain /\ db' = Commit(db, Head(todo)) /\ todo' = Tail(todo) /\ todo # <<>> BY DEF Write
<1>3. Stored(db) /\ todo \in Seq(WriteTransactions) /\ Head(todo) \in WriteTransactions
  BY <1>2 DEF NodeInv, Scheduled
<1>4. /\ chain \in TicketChains /\ Tells(todo, Tip(chain))
      /\ \A cp \in db.CHECKPOINTS : CheckpointTells(cp)
  BY <1>1 DEF TicketInv
<1>5. WriteTells(Head(todo), Tip(chain)) /\ Tells(Tail(todo), Tip(chain)) BY <1>2, <1>3, <1>4, TellsAdvance
<1>6. \A cp \in Commit(db, Head(todo)).CHECKPOINTS : CheckpointTells(cp)
  BY <1>3, <1>4, <1>5, CommitCheckpoints
<1>7. ~InDeepReorg' => db'.TICKETS = TicketsOf(PathTo[Tip(Loaded(db'))]) BY <1>1, <1>2, TicketsCommitted
<1> QED BY <1>2, <1>4, <1>5, <1>6, <1>7 DEF TicketInv

LEMMA TicketCrash ==
    ASSUME NodeInv, TicketInv, Crash
    PROVE  TicketInv'
<1>1. SUFFICES ASSUME Sound, ~InDeepReorg PROVE TicketInv' BY DEF TicketInv, Crash, Sound
<1>2. chain' = GenesisChain /\ db' = db /\ todo' = <<>> BY DEF Crash
<1>3. chain' \in TicketChains /\ Tells(todo', Tip(chain')) BY <1>2, GenesisTells, NothingTold DEF DrawChains
<1> QED BY <1>1, <1>2, <1>3 DEF TicketInv

\* The chain startup serves: the tip the tables tell, and their tickets.
LEMMA ServedTells ==
    ASSUME NodeInv, PathInv, TicketInv, Sound, todo = <<>>
    PROVE  /\ ChainAtStartup(db) \in TicketChains
           /\ Tip(Loaded(TablesAfterStartup(db))) = Tip(Loaded(db))
           /\ Tip(ChainAtStartup(db)) = Tip(Loaded(db))
<1> DEFINE d == db
           e == TablesAfterStartup(db)
           y == Tip(Loaded(d))
           c == ChainAtStartup(d)
<1>1. Stored(d) /\ CheckpointRows(d) /\ d.TICKETS = TicketsOf(PathTo[y])
  BY DEF NodeInv, PathInv, Placed, TicketInv, InDeepReorg
<1>2. Stored(e) /\ CheckpointRows(e) /\ e.BLOCKS = d.BLOCKS
  <2>1. Stored(e) BY <1>1, StartupSound
  <2>2. e.BLOCKS = d.BLOCKS /\ e.CHECKPOINTS \subseteq d.CHECKPOINTS
    <3>1. d \in Tables BY <1>1 DEF Stored
    <3> QED BY <3>1 DEF TablesAfterStartup, Tables
  <2> HIDE DEF e
  <2> QED BY <1>1, <2>1, <2>2 DEF CheckpointRows
<1>3. Tip(Loaded(e)) = y BY <1>1, <1>2, SameRowsTip
<1>4. Tip(c) = y BY <1>1, ServedChain
<1>5. c \in Chains /\ c.pending_tickets = d.TICKETS
  <2> DEFINE p == PruneToWindow(Loaded(d))
             tickets == LoadTickets(d)
  <2>1. p \in Chains /\ tickets = d.TICKETS /\ d.TICKETS \in SUBSET Mined
    <3>1. WellFormed(Loaded(d)) BY <1>1, LoadedSound DEF SoundChains
    <3> QED BY <1>1, <3>1, PruneWellFormed DEF WellFormed, LoadTickets, Stored, Tables
  <2>2. c = [p EXCEPT !.settled = {}, !.pending_tickets = tickets] BY DEF ChainAtStartup
  <2> HIDE DEF c, p, tickets
  <2> QED BY <2>1, <2>2 DEF Chains
<1> HIDE DEF c, y
<1>6. c \in TicketChains BY <1>1, <1>4, <1>5 DEF TicketChains
<1> QED BY <1>3, <1>4, <1>6 DEF c, y

LEMMA TicketStartUp ==
    ASSUME NodeInv, PathInv, TicketInv, StartUp, todo = <<>>
    PROVE  TicketInv'
<1>1. SUFFICES ASSUME Sound PROVE TicketInv' BY DEF TicketInv, StartUp, Sound
<1>2. chain' = ChainAtStartup(db) /\ db' = TablesAfterStartup(db) /\ todo' = <<>> BY DEF StartUp
<1>3. chain' \in TicketChains /\ Tip(Loaded(db')) = Tip(Loaded(db)) BY <1>1, <1>2, ServedTells
<1>4. Tells(todo', Tip(chain')) BY <1>2, NothingTold
<1>5. db.TICKETS = TicketsOf(PathTo[Tip(Loaded(db))]) /\ \A cp \in db.CHECKPOINTS : CheckpointTells(cp)
  BY <1>1 DEF TicketInv, InDeepReorg
<1>6. db'.TICKETS = db.TICKETS /\ db'.CHECKPOINTS \subseteq db.CHECKPOINTS
  <2>1. db \in Tables BY DEF NodeInv, Stored
  <2> QED BY <1>2, <2>1 DEF TablesAfterStartup, Tables
<1> QED BY <1>3, <1>4, <1>5, <1>6 DEF TicketInv

LEMMA TicketNext ==
    ASSUME NodeInv, PathInv, LightInv, TicketInv, [Next \/ NextRebooting]_vars, NodeInv', PathInv', LightInv'
    PROVE  TicketInv'
<1>1. CASE \E b \in Mined : Receive(b) BY <1>1, TicketReceive
<1>2. CASE Write BY <1>2, TicketWrite
<1>3. CASE Crash BY <1>3, TicketCrash
<1>4. CASE Restart BY <1>4, TicketStartUp DEF Restart, NodeInv
<1>5. CASE Reboot BY <1>5, TicketStartUp DEF Reboot, Idle
<1>6. CASE UNCHANGED vars BY <1>6 DEF vars, TicketInv, InDeepReorg, Sound
<1> QED BY <1>1, <1>2, <1>3, <1>4, <1>5, <1>6 DEF Next, NextRebooting, Running

LEMMA TicketInvariance == (Spec \/ SpecRebooting) => [](NodeInv /\ PathInv /\ LightInv /\ TicketInv)
<1>1. NodeInv /\ PathInv /\ LightInv /\ TicketInv /\ ([Next]_vars \/ [NextRebooting]_vars)
      /\ NodeInv' /\ PathInv' /\ LightInv' => TicketInv'
  BY TicketNext DEF vars
<1>2. Init => TicketInv BY TicketInit
<1>3. Spec => [](NodeInv /\ PathInv /\ LightInv /\ TicketInv) BY <1>1, <1>2, LightInvariance, PTL DEF Spec
<1>4. SpecRebooting => [](NodeInv /\ PathInv /\ LightInv /\ TicketInv)
  BY <1>1, <1>2, LightInvariance, PTL DEF SpecRebooting
<1> QED BY <1>3, <1>4

\* No ticket is lost or revived: whatever blocks, reorgs, crashes and restarts
\* there were, half-done reorgs included, the tickets in memory are those of the
\* chain the node is on, unless it died inside the block-by-block writes of a
\* deep reorg or both kinds of stray row are there (blockchain.rs:1064-1260,
\* main.rs:640-700, WHITEPAPER.md:159).
THEOREM TicketsSurvive == (Spec \/ SpecRebooting) => [](~torn /\ ~Tangled(stray) => TicketsFollowChain)
<1>1. TicketInv => (~torn /\ ~Tangled(stray) => TicketsFollowChain)
  BY DEF TicketInv, Sound, TicketsFollowChain, TicketChains, Path
<1> QED BY <1>1, TicketInvariance, PTL

-----------------------------------------------------------------------------
\* Draws until a checkpoint is used.
LEMMA TrimmedDraws ==
    ASSUME NEW c \in DrawChains, WellFormed(c), NEW e, Trimmed(c, e)
    PROVE  e \in DrawChains
<1> DEFINE x == Tip(c)
<1>1. x \in Blocks /\ OnPath(c, x) BY TipOnPath
<1>2. c \in Chains /\ Windowed(c) /\ c.ledger.drawn = DrawsOf(PathTo[x]) /\ c.pending_tickets = TicketsOf(PathTo[x])
  BY DEF DrawChains, TicketChains
<1>3. /\ e \in Chains /\ e.ledger = c.ledger /\ e.pending_tickets = c.pending_tickets
      /\ e.blocks_offset = RW!PrunedOffset(c.blocks_offset, Len(c.blocks))
      /\ Len(e.blocks) = RW!PrunedLength(Len(c.blocks))
  BY DEF Trimmed, WellFormed
<1>4. Tip(e) = x BY <1>1 DEF Trimmed
<1>5. Windowed(e)
  <2> DEFINE l == Len(c.blocks)
             w == ReorgWindow
  <2>1. l \in Nat /\ w \in Nat /\ c.blocks_offset \in Nat BY <1>2, NodeAssumption DEF Chains
  <2>2. e.blocks_offset = (IF l > w THEN c.blocks_offset + (l - w) ELSE c.blocks_offset)
        /\ Len(e.blocks) = (IF l > w THEN w ELSE l)
    BY <1>3 DEF RW!PrunedOffset, RW!PrunedLength, RW!Kept
  <2>3. c.blocks_offset = 0 \/ l >= w BY <1>2 DEF Windowed
  <2> HIDE DEF l, w
  <2>4. e.blocks_offset = 0 \/ Len(e.blocks) >= w BY <2>1, <2>2, <2>3
  <2> QED BY <2>4 DEF Windowed, w
<1> HIDE DEF x
<1>6. e \in TicketChains BY <1>2, <1>3, <1>4 DEF TicketChains
<1> QED BY <1>2, <1>3, <1>4, <1>5, <1>6 DEF DrawChains

LEMMA DrawReceive ==
    ASSUME NodeInv, PathInv, DrawInv, NEW b \in Mined, Receive(b)
    PROVE  DrawInv'
<1>1. SUFFICES ASSUME Sound, restored = {} PROVE chain' \in DrawChains BY DEF DrawInv, Receive, Sound, Tangled
<1>2. chain \in DrawChains /\ GenesisChain \in DrawChains BY <1>1, GenesisTells DEF DrawInv
<1>3. PICK r : Answered(r, b, DrawChains) BY <1>2, DrawsHereditary, ReceiveAnswers
<1>4. CASE r.kind \in {"Applied", "Reorged"}
  <2>1. r.chain \in DrawChains /\ WellFormed(r.chain) /\ Trimmed(r.chain, chain') BY <1>3, <1>4 DEF Answered
  <2> QED BY <2>1, TrimmedDraws
<1>5. CASE r.kind \notin {"Applied", "Reorged"} BY <1>3, <1>5 DEF Answered
<1> QED BY <1>4, <1>5

\* The chain startup serves is the loaded one, trimmed, with its own tickets.
LEMMA ServedTrimmed ==
    ASSUME NEW d, Stored(d)
    PROVE  /\ ChainAtStartup(d) \in Chains
           /\ ChainAtStartup(d).ledger = Loaded(d).ledger
           /\ ChainAtStartup(d).blocks_offset = RW!PrunedOffset(Loaded(d).blocks_offset, Len(Loaded(d).blocks))
           /\ Len(ChainAtStartup(d).blocks) = RW!PrunedLength(Len(Loaded(d).blocks))
<1> DEFINE c == Loaded(d)
           p == PruneToWindow(c)
           tickets == LoadTickets(d)
           e == ChainAtStartup(d)
<1>1. WellFormed(c) /\ c \in Chains BY LoadedSound DEF SoundChains, WellFormed
<1>2. /\ p \in Chains /\ p.ledger = c.ledger
      /\ p.blocks_offset = RW!PrunedOffset(c.blocks_offset, Len(c.blocks))
      /\ Len(p.blocks) = RW!PrunedLength(Len(c.blocks))
  BY <1>1, PruneWellFormed, PruneKeeps DEF WellFormed
<1>3. tickets \in SUBSET Mined BY DEF LoadTickets, Stored, Tables
<1>4. e = [p EXCEPT !.settled = {}, !.pending_tickets = tickets] BY DEF ChainAtStartup
<1> HIDE DEF e, p, tickets, c
<1>5. e \in Chains /\ e.ledger = p.ledger /\ e.blocks = p.blocks /\ e.blocks_offset = p.blocks_offset
  BY <1>2, <1>3, <1>4 DEF Chains
<1> QED BY <1>2, <1>5 DEF e, c

LEMMA DrawStartUp ==
    ASSUME NodeInv, PathInv, TicketInv, DrawInv, StartUp, todo = <<>>
    PROVE  DrawInv'
<1> DEFINE c == Loaded(db)
           e == ChainAtStartup(db)
<1>1. SUFFICES ASSUME Sound, restored' = {} PROVE chain' \in DrawChains BY DEF DrawInv, StartUp, Sound
<1>2. ~UsesCheckpoint(db) /\ chain' = e
  <2>1. restored' = IF UsesCheckpoint(db) THEN restored \cup {LatestCheckpoint(db).height} ELSE restored
    BY DEF StartUp
  <2>2. restored \cup {LatestCheckpoint(db).height} # {} OBVIOUS
  <2> QED BY <1>1, <2>1, <2>2 DEF StartUp
<1>3. Stored(db) /\ CheckpointRows(db) BY <1>1 DEF NodeInv, PathInv, Placed
<1>4. c \in DrawChains /\ WellFormed(c) BY <1>2, <1>3, GenesisTells, DrawsHereditary, StartupReaches
<1>5. e \in TicketChains /\ Tip(e) = Tip(c) BY <1>1, ServedTells
<1>6. /\ e.ledger = c.ledger /\ e.blocks_offset = RW!PrunedOffset(c.blocks_offset, Len(c.blocks))
      /\ Len(e.blocks) = RW!PrunedLength(Len(c.blocks))
  BY <1>3, ServedTrimmed
<1> HIDE DEF c, e
<1>7. /\ Windowed(c) /\ c \in Chains /\ c.ledger.drawn = DrawsOf(PathTo[Tip(c)])
  BY <1>4 DEF DrawChains, TicketChains
<1>8. Windowed(e)
  <2> DEFINE l == Len(c.blocks)
             w == ReorgWindow
  <2>1. l \in Nat /\ w \in Nat /\ c.blocks_offset \in Nat BY <1>7, NodeAssumption DEF Chains
  <2>2. e.blocks_offset = (IF l > w THEN c.blocks_offset + (l - w) ELSE c.blocks_offset)
        /\ Len(e.blocks) = (IF l > w THEN w ELSE l)
    BY <1>6 DEF RW!PrunedOffset, RW!PrunedLength, RW!Kept
  <2>3. c.blocks_offset = 0 \/ l >= w BY <1>7 DEF Windowed
  <2> HIDE DEF l, w
  <2>4. e.blocks_offset = 0 \/ Len(e.blocks) >= w BY <2>1, <2>2, <2>3
  <2> QED BY <2>4 DEF Windowed, w
<1>9. e \in DrawChains BY <1>5, <1>6, <1>7, <1>8 DEF DrawChains
<1> QED BY <1>2, <1>9

LEMMA DrawNext ==
    ASSUME NodeInv, PathInv, TicketInv, DrawInv, [Next \/ NextRebooting]_vars
    PROVE  DrawInv'
<1>1. CASE \E b \in Mined : Receive(b) BY <1>1, DrawReceive
<1>2. CASE Write BY <1>2 DEF Write, DrawInv, Sound
<1>3. CASE Crash BY <1>3, GenesisTells DEF Crash, DrawInv
<1>4. CASE Restart BY <1>4, DrawStartUp DEF Restart, NodeInv
<1>5. CASE Reboot BY <1>5, DrawStartUp DEF Reboot, Idle
<1>6. CASE UNCHANGED vars BY <1>6 DEF vars, DrawInv, Sound
<1> QED BY <1>1, <1>2, <1>3, <1>4, <1>5, <1>6 DEF Next, NextRebooting, Running

LEMMA DrawInvariance == (Spec \/ SpecRebooting) => []DrawInv
<1>1. NodeInv /\ PathInv /\ TicketInv /\ DrawInv /\ ([Next]_vars \/ [NextRebooting]_vars) => DrawInv'
  BY DrawNext DEF vars
<1>2. Init => DrawInv BY GenesisTells DEF Init, DrawInv
<1>3. Spec => []DrawInv BY <1>1, <1>2, TicketInvariance, PTL DEF Spec
<1>4. SpecRebooting => []DrawInv BY <1>1, <1>2, TicketInvariance, PTL DEF SpecRebooting
<1> QED BY <1>3, <1>4

\* Every draw used every hash of its reveal window, whatever reorgs, crashes and
\* restarts there were, half-done reorgs included, as long as no restart began
\* from a checkpoint, the node did not die inside a deep reorg and not both kinds
\* of stray row are there: the window kept in memory is long enough
\* (blockchain.rs:9-16, 3097-3099).
THEOREM DrawsSurvive == (Spec \/ SpecRebooting) => [](~torn => DrawsUnlessRestored)
<1>1. DrawInv => (~torn => DrawsUnlessRestored)
  BY DEF DrawInv, Sound, DrawsUnlessRestored, DrawsComplete, DrawChains, Path
<1> QED BY <1>1, DrawInvariance, PTL

\* A node that is stopped only between blocks is never torn.
LEMMA NeverTorn == SpecRebooting => [](~torn)
<1>1. Init => ~torn BY DEF Init
<1>2. ~torn /\ [NextRebooting]_vars => ~torn'
  BY DEF NextRebooting, Running, Receive, Write, Reboot, StartUp, vars
<1> QED BY <1>1, <1>2, PTL DEF SpecRebooting

\* A node that is stopped only between blocks draws every ticket from its whole
\* reveal window until it is restored from a checkpoint, unless both kinds of
\* stray row are there.
THEOREM DrawsWholeUntilRestored == SpecRebooting => []DrawsUnlessRestored
BY DrawsSurvive, NeverTorn, PTL

-----------------------------------------------------------------------------
\* Paths by their heights.
LEMMA HeightFacts ==
    ASSUME NEW x \in Blocks
    PROVE  /\ Index[x] \in Nat /\ RevealBlocks \in Nat \ {0}
           /\ \A i : i \in TicketHeights(x) <=> i \in 0 .. Index[x] /\ At(x, i) \in Ticketed
           /\ \A i : i \in HeightsOf(TicketsOf(PathTo[x]))
                     <=> i \in TicketHeights(x) /\ i + RevealBlocks >= Index[x] + 1
           /\ \A o : \A i : i \in HeightsOf(DrawnSince(x, o))
                            <=> i \in TicketHeights(x) /\ o < i + RevealBlocks /\ i + RevealBlocks < Index[x] + 1
           /\ \A i : i \in HeightsOf(MatureOn(x))
                     <=> i \in TicketHeights(x) /\ i + RevealBlocks = Index[x] + 1
<1>1. Index[x] \in Nat /\ OwnPath(x) /\ RevealBlocks \in Nat \ {0} BY IndexFacts, OwnPathFacts, NodeAssumption
<1>2. /\ \A t \in PathSet(x) : t \in Blocks /\ Index[t] \in 0 .. Index[x] /\ At(x, Index[t]) = t
      /\ \A i \in 0 .. Index[x] : At(x, i) \in PathSet(x) /\ Index[At(x, i)] = i
  <2>1. \A i \in 0 .. Index[x] : At(x, i) \in PathSet(x) /\ Index[At(x, i)] = i BY <1>1 DEF OwnPath, PathSet
  <2> QED BY <2>1, PathTold
<1>3. \A i : i \in TicketHeights(x) <=> \E t \in Ticketed : t \in PathSet(x) /\ Index[t] = i
  BY DEF TicketHeights, HeightsOf
<1>4. \A i : i \in TicketHeights(x) <=> i \in 0 .. Index[x] /\ At(x, i) \in Ticketed BY <1>2, <1>3
<1>5. \A i : i \in HeightsOf(TicketsOf(PathTo[x])) <=> i \in TicketHeights(x) /\ i + RevealBlocks >= Index[x] + 1
  <2>1. \A i : i \in HeightsOf(TicketsOf(PathTo[x])) <=> \E t \in TicketsOf(PathTo[x]) : Index[t] = i
    BY DEF HeightsOf
  <2> QED BY <1>3, <2>1, PathTold
<1>6. \A o : \A i : i \in HeightsOf(DrawnSince(x, o))
                    <=> i \in TicketHeights(x) /\ o < i + RevealBlocks /\ i + RevealBlocks < Index[x] + 1
  <2>1. \A o : \A i : i \in HeightsOf(DrawnSince(x, o)) <=> \E t \in DrawnSince(x, o) : Index[t] = i
    BY DEF HeightsOf
  <2> QED BY <1>3, <2>1 DEF DrawnSince
<1>7. \A i : i \in HeightsOf(MatureOn(x)) <=> i \in TicketHeights(x) /\ i + RevealBlocks = Index[x] + 1
  <2>1. \A i : i \in HeightsOf(MatureOn(x)) <=> \E t \in TicketsOf(PathTo[x]) : Index[t] + RevealBlocks = Index[x] + 1 /\ Index[t] = i
    BY DEF HeightsOf, MatureOn
  <2>2. \A i : i \in HeightsOf(MatureOn(x)) <=> i \in HeightsOf(TicketsOf(PathTo[x])) /\ i + RevealBlocks = Index[x] + 1
    BY <2>1 DEF HeightsOf
  <2>3. \A i \in TicketHeights(x) : i \in Nat /\ (i + RevealBlocks = Index[x] + 1 => i + RevealBlocks >= Index[x] + 1)
    BY <1>1, <1>4
  <2> QED BY <1>5, <2>2, <2>3
<1> QED BY <1>1, <1>4, <1>5, <1>6, <1>7

LEMMA DrawCut ==
    ASSUME NEW x \in Blocks, NEW t \in PathSet(x), NEW o \in Nat, Index[t] + RevealBlocks <= Index[x] + 1
    PROVE  DrawByHeight(CutDraw(x, t, o)) = RW!Draw(Index[t], o)
<1> DEFINE p == PathTo[x]
           i == Index[t]
           m == Later(i, o) + 1
           n == i + RevealBlocks
           s == SubSeq(p, m, n)
<1>1. /\ p \in Seq(Blocks) /\ Len(p) = Index[x] + 1 /\ Index[x] \in Nat /\ i \in Nat
      /\ RevealBlocks \in Nat /\ OwnPath(x)
  BY PathTold, OwnPathFacts, NodeAssumption
<1>2. m \in Nat /\ m >= 1 /\ n \in Nat /\ n <= Len(p) /\ n <= Index[x] + 1 BY <1>1 DEF Later
<1>3. RW!Draw(i, o) = [created |-> i, entropy |-> (m - 1) .. (n - 1)]
  <2> DEFINE l == Later(i, o)
  <2>1. RW!MaxOf(i, o) = l /\ l \in Nat BY <1>1 DEF RW!MaxOf, Later
  <2>2. RW!Draw(i, o) = [created |-> i, entropy |-> l .. (i + RevealBlocks - 1)] BY <2>1 DEF RW!Draw
  <2> HIDE DEF l, i
  <2>3. m = l + 1 BY DEF l
  <2>4. m - 1 = l /\ n - 1 = i + RevealBlocks - 1 BY <1>1, <2>1, <2>3
  <2> QED BY <2>2, <2>4
<1>4. DrawByHeight(CutDraw(x, t, o)) = [created |-> i, entropy |-> HeightsOf(Elements(s))]
  BY DEF DrawByHeight, CutDraw
<1> HIDE DEF p, i, m, n
<1>5. /\ s \in Seq(Blocks) /\ Len(s) = IF m <= n THEN n - m + 1 ELSE 0
      /\ \A k \in 1 .. n - m + 1 : s[k] = p[m + k - 1]
  <2> HIDE DEF s
  <2>1. s = SubSeq(p, m, n) BY DEF s
  <2> QED BY <1>1, <1>2, <2>1, SubSeqFacts
<1> HIDE DEF s
<1>6. \A j \in 0 .. Index[x] : p[j + 1] = At(x, j) /\ Index[At(x, j)] = j BY <1>1 DEF OwnPath, At, p
<1>7. \A h : h \in HeightsOf(Elements(s)) <=> \E k \in 1 .. Len(s) : h = Index[s[k]]
  <2>1. \A u : u \in Elements(s) <=> \E k \in 1 .. Len(s) : u = s[k] BY <1>5, InElements
  <2> QED BY <2>1 DEF HeightsOf
<1>8. ASSUME NEW k \in 1 .. Len(s)
      PROVE  Index[s[k]] \in (m - 1) .. (n - 1)
  <2> DEFINE j == m + k - 2
  <2>1. k \in 1 .. n - m + 1 /\ j \in 0 .. Index[x] /\ j + 1 = m + k - 1 /\ j \in (m - 1) .. (n - 1)
    BY <1>1, <1>2, <1>5
  <2>2. s[k] = p[j + 1] BY <1>5, <2>1
  <2> HIDE DEF j
  <2> QED BY <1>6, <2>1, <2>2
<1>9. ASSUME NEW j \in (m - 1) .. (n - 1)
      PROVE  \E k \in 1 .. Len(s) : j = Index[s[k]]
  <2> DEFINE k == j - m + 2
  <2>1. k \in 1 .. n - m + 1 /\ k \in 1 .. Len(s) /\ j \in 0 .. Index[x] /\ m + k - 1 = j + 1
    BY <1>1, <1>2, <1>5
  <2>2. s[k] = p[j + 1] BY <1>5, <2>1
  <2> HIDE DEF k
  <2>3. j = Index[s[k]] BY <1>6, <2>1, <2>2
  <2> QED BY <2>1, <2>3
<1>10. HeightsOf(Elements(s)) = (m - 1) .. (n - 1) BY <1>7, <1>8, <1>9
<1> QED BY <1>3, <1>4, <1>10 DEF i

LEMMA DrawsByHeightFacts ==
    ASSUME NEW x \in Blocks, NEW o \in Nat
    PROVE  /\ \A D : DrawsByHeight(CutDraws(x, o, D))
                     = DrawsByHeight(D) \cup {RW!Draw(i, o) : i \in HeightsOf(DrawnSince(x, o))}
           /\ \A D : DrawsByHeight(D \cup {CutDraw(x, t, o) : t \in MatureOn(x)})
                     = DrawsByHeight(D) \cup {RW!Draw(i, o) : i \in HeightsOf(MatureOn(x))}
<1>1. \A S : DrawsByHeight(S) = {DrawByHeight(d) : d \in S} BY DEF DrawsByHeight, DrawByHeight
<1>2. Index[x] \in Nat /\ RevealBlocks \in Nat BY HeightFacts
<1>3. ASSUME NEW S, \A t \in S : t \in PathSet(x) /\ Index[t] + RevealBlocks <= Index[x] + 1, NEW D
      PROVE  DrawsByHeight(D \cup {CutDraw(x, t, o) : t \in S})
             = DrawsByHeight(D) \cup {RW!Draw(i, o) : i \in HeightsOf(S)}
  <2> DEFINE cut == {CutDraw(x, t, o) : t \in S}
             abstract == {RW!Draw(i, o) : i \in HeightsOf(S)}
  <2>1. \A t \in S : DrawByHeight(CutDraw(x, t, o)) = RW!Draw(Index[t], o) BY <1>3, DrawCut
  <2>2. {DrawByHeight(d) : d \in cut} = abstract BY <2>1 DEF HeightsOf
  <2> HIDE DEF cut, abstract
  <2>3. {DrawByHeight(d) : d \in D \cup cut} = {DrawByHeight(d) : d \in D} \cup abstract BY <2>2
  <2>4. DrawsByHeight(D \cup cut) = DrawsByHeight(D) \cup abstract BY <1>1, <2>3
  <2> QED BY <2>4 DEF cut, abstract
<1>4. \A t \in DrawnSince(x, o) : t \in PathSet(x) /\ Index[t] + RevealBlocks <= Index[x] + 1
  <2>1. \A t \in PathSet(x) : Index[t] + RevealBlocks \in Nat BY <1>2, PathTold
  <2> QED BY <1>2, <2>1 DEF DrawnSince
<1>5. \A t \in MatureOn(x) : t \in PathSet(x) /\ Index[t] + RevealBlocks <= Index[x] + 1
  <2>1. \A t \in MatureOn(x) : t \in PathSet(x) /\ Index[t] + RevealBlocks = Index[x] + 1
    BY PathTold DEF MatureOn
  <2> QED BY <1>2, <2>1
<1>6. \A D : DrawsByHeight(CutDraws(x, o, D))
             = DrawsByHeight(D) \cup {RW!Draw(i, o) : i \in HeightsOf(DrawnSince(x, o))}
  BY <1>3, <1>4 DEF CutDraws
<1> QED BY <1>3, <1>5, <1>6

\* The chain up to a block k of the path to x, by heights, and what lies above.
LEMMA SplitHeights ==
    ASSUME NEW x \in Blocks, NEW k \in Blocks, Index[k] <= Index[x], \A i \in 0 .. Index[k] : At(x, i) = At(k, i),
           NEW T, T = HeightsOf(TicketsOf(PathTo[k])) \cup {i \in TicketHeights(x) : i > Index[k]}
    PROVE  /\ RW!PendingAt(Index[x] + 1, T) = HeightsOf(TicketsOf(PathTo[x]))
           /\ RW!SettledAt(Index[x] + 1, T) = HeightsOf(DrawnSince(x, Index[k]))
<1> DEFINE n == Index[x]
           o == Index[k]
<1>1. n \in Nat /\ o \in Nat /\ RevealBlocks \in Nat \ {0} /\ o <= n BY HeightFacts
<1>2. \A i : i \in TicketHeights(x) => i \in 0 .. n BY HeightFacts
<1>3. \A i \in 0 .. o : i \in TicketHeights(k) <=> i \in TicketHeights(x)
  <2>1. \A i \in 0 .. o : i \in 0 .. n BY <1>1
  <2> QED BY <2>1, HeightFacts
<1>4. \A i : i \in T <=> i \in TicketHeights(x) /\ o < i + RevealBlocks
  <2>1. \A i : i \in HeightsOf(TicketsOf(PathTo[k])) <=> i \in TicketHeights(k) /\ i \in 0 .. o /\ i + RevealBlocks >= o + 1
    BY HeightFacts
  <2>2. \A i \in 0 .. n : (i > o => o < i + RevealBlocks) /\ (i + RevealBlocks >= o + 1 <=> o < i + RevealBlocks)
                          /\ (i > o \/ i \in 0 .. o)
    BY <1>1
  <2>3. \A i \in 0 .. o : i \in 0 .. n BY <1>1
  <2> HIDE DEF n, o
  <2>4. T = HeightsOf(TicketsOf(PathTo[k])) \cup {i \in TicketHeights(x) : i > o} BY DEF o
  <2> QED BY <1>2, <1>3, <2>1, <2>2, <2>3, <2>4
<1>5. \A i : i \in RW!PendingAt(n + 1, T) <=> i \in HeightsOf(TicketsOf(PathTo[x]))
  <2>1. \A i \in 0 .. n : i + RevealBlocks >= n + 1 => o < i + RevealBlocks BY <1>1
  <2>2. \A i : i \in HeightsOf(TicketsOf(PathTo[x])) <=> i \in TicketHeights(x) /\ i + RevealBlocks >= n + 1
    BY HeightFacts
  <2>3. \A i : i \in RW!PendingAt(n + 1, T) <=> i \in T /\ i + RevealBlocks >= n + 1 BY DEF RW!PendingAt
  <2> HIDE DEF n, o
  <2> QED BY <1>2, <1>4, <2>1, <2>2, <2>3
<1>6. \A i : i \in RW!SettledAt(n + 1, T) <=> i \in HeightsOf(DrawnSince(x, o))
  <2>2. \A i : i \in HeightsOf(DrawnSince(x, o)) <=> i \in TicketHeights(x) /\ o < i + RevealBlocks /\ i + RevealBlocks < n + 1
    BY HeightFacts
  <2>3. \A i : i \in RW!SettledAt(n + 1, T) <=> i \in T /\ i + RevealBlocks < n + 1 BY DEF RW!SettledAt
  <2> HIDE DEF n, o
  <2> QED BY <1>4, <2>2, <2>3
<1> QED BY <1>5, <1>6

LEMMA WholeHeights ==
    ASSUME NEW x \in Blocks
    PROVE  /\ HeightsOf(TicketsOf(PathTo[x])) = RW!PendingAt(Index[x] + 1, TicketHeights(x))
           /\ HeightsOf(DrawnSince(x, 0)) = RW!SettledAt(Index[x] + 1, TicketHeights(x))
<1>1. \A i : i \in HeightsOf(TicketsOf(PathTo[x])) <=> i \in RW!PendingAt(Index[x] + 1, TicketHeights(x))
  BY HeightFacts DEF RW!PendingAt
<1>2. \A i : i \in HeightsOf(DrawnSince(x, 0)) <=> i \in RW!SettledAt(Index[x] + 1, TicketHeights(x))
  <2> DEFINE o == 0
  <2>1. \A i \in 0 .. Index[x] : o < i + RevealBlocks BY HeightFacts
  <2>2. \A i : i \in TicketHeights(x) => i \in 0 .. Index[x] BY HeightFacts
  <2> HIDE DEF o
  <2>3. \A i : i \in HeightsOf(DrawnSince(x, o)) <=> i \in TicketHeights(x) /\ o < i + RevealBlocks /\ i + RevealBlocks < Index[x] + 1
    BY HeightFacts
  <2>4. \A i : i \in HeightsOf(DrawnSince(x, o)) <=> i \in RW!SettledAt(Index[x] + 1, TicketHeights(x))
    BY <2>1, <2>2, <2>3 DEF RW!SettledAt
  <2> QED BY <2>4 DEF o
<1> QED BY <1>1, <1>2

\* One more block, by heights.
LEMMA HeightsOneMore ==
    ASSUME NEW b \in Mined, NEW x \in Blocks, Parent[b] = x
    PROVE  /\ TicketHeights(b) = TicketHeights(x) \cup HeightsOf({b} \cap Ticketed)
           /\ HeightsOf(TicketsOf(PathTo[b]))
              = (HeightsOf(TicketsOf(PathTo[x])) \ HeightsOf(MatureOn(x))) \cup HeightsOf({b} \cap Ticketed)
           /\ HeightsOf({b} \cap Ticketed) = (IF b \in Ticketed THEN {Index[b]} ELSE {})
           /\ HeightsOf(MatureOn(x)) = {i \in HeightsOf(TicketsOf(PathTo[x])) : i + RevealBlocks = Index[x] + 1}
<1>1. b \in Blocks /\ Index[b] = Index[x] + 1 /\ Index[x] \in Nat /\ PathSet(b) = PathSet(x) \cup {b}
  BY PathOneMore DEF Mined
<1>2. HeightsOf({b} \cap Ticketed) = (IF b \in Ticketed THEN {Index[b]} ELSE {}) BY DEF HeightsOf
<1>3. TicketHeights(b) = TicketHeights(x) \cup HeightsOf({b} \cap Ticketed)
  BY <1>1 DEF TicketHeights, HeightsOf
<1>4. HeightsOf(MatureOn(x)) = {i \in HeightsOf(TicketsOf(PathTo[x])) : i + RevealBlocks = Index[x] + 1}
  BY DEF HeightsOf, MatureOn
<1>5. \A i : i \in TicketHeights(x) => i \in 0 .. Index[x] BY HeightFacts
<1>6. ASSUME NEW i
      PROVE  i \in HeightsOf(TicketsOf(PathTo[b]))
             <=> (i \in HeightsOf(TicketsOf(PathTo[x])) /\ i \notin HeightsOf(MatureOn(x))) \/ i \in HeightsOf({b} \cap Ticketed)
  <2> DEFINE s == i + RevealBlocks
             n == Index[x] + 1
  <2>1. RevealBlocks \in Nat \ {0} /\ n \in Nat BY <1>1, HeightFacts
  <2>2. i \in HeightsOf(TicketsOf(PathTo[b])) <=> (i \in TicketHeights(x) \/ i \in HeightsOf({b} \cap Ticketed)) /\ s >= n + 1
    BY <1>1, <1>3, HeightFacts
  <2>3. i \in HeightsOf(TicketsOf(PathTo[x])) <=> i \in TicketHeights(x) /\ s >= n BY HeightFacts
  <2>4. i \in HeightsOf(MatureOn(x)) <=> i \in TicketHeights(x) /\ s = n BY HeightFacts
  <2>5. i \in HeightsOf({b} \cap Ticketed) => s >= n + 1
    <3>1. i \in HeightsOf({b} \cap Ticketed) => i = n BY <1>1, <1>2
    <3> QED BY <2>1, <3>1
  <2>6. i \in TicketHeights(x) => s \in Nat /\ (s >= n + 1 <=> s >= n /\ s # n)
    <3>1. i \in TicketHeights(x) => i \in Nat BY <1>1, <1>5
    <3> QED BY <2>1, <3>1
  <2> HIDE DEF s, n
  <2> QED BY <2>2, <2>3, <2>4, <2>5, <2>6
<1> QED BY <1>2, <1>3, <1>4, <1>6

LEMMA HeightsCount ==
    ASSUME NEW x \in Blocks
    PROVE  Cardinality(Heights) \in Nat /\ Index[x] < Cardinality(Heights)
<1> DEFINE n == Index[x]
           S == 0 .. n
<1>1. n \in Nat /\ OwnPath(x) BY HeightFacts, OwnPathFacts
<1>2. IsFiniteSet(Heights)
  <2> DEFINE f == [b \in Blocks |-> Index[b]]
  <2>1. f \in Surjection(Blocks, Heights) BY DEF Surjection, Heights
  <2> HIDE DEF f
  <2> QED BY <2>1, NodeAssumption, FS_Surjection
<1>3. S \subseteq Heights
  <2>1. \A i \in S : At(x, i) \in Blocks /\ Index[At(x, i)] = i BY <1>1 DEF OwnPath
  <2> QED BY <2>1 DEF Heights
<1>4. Cardinality(S) = n + 1
  <2>1. 0 \in Int /\ n \in Int /\ ~(0 > n) BY <1>1
  <2> HIDE DEF n
  <2>2. Cardinality(0 .. n) = IF 0 > n THEN 0 ELSE n - 0 + 1 BY <2>1, FS_Interval
  <2> QED BY <1>1, <2>1, <2>2
<1> HIDE DEF S, n
<1>5. Cardinality(Heights) \in Nat /\ Cardinality(S) <= Cardinality(Heights)
  BY <1>2, <1>3, FS_Subset, FS_CardinalityType
<1>6. n < Cardinality(Heights) BY <1>1, <1>4, <1>5
<1> QED BY <1>5, <1>6 DEF n

-----------------------------------------------------------------------------
\* Fresh checkpoints.
LEMMA NoneFresh ==
    ASSUME NEW d, NEW q, \A k \in 1 .. Len(q) : q[k].op # "checkpoint"
    PROVE  Fresh(d, q)
BY DEF Fresh

LEMMA EmptyQueue ==
    ASSUME NEW d
    PROVE  Fresh(d, <<>>) /\ CheckpointsAt(d, <<>>) = d.CHECKPOINTS
<1> DEFINE q == <<>>
<1>1. 1 .. Len(q) = {} /\ DOMAIN q = {} OBVIOUS
<1> HIDE DEF q
<1>2. Elements(q) = {} BY <1>1 DEF Elements
<1>3. Fresh(d, q) /\ CheckpointsAt(d, q) = d.CHECKPOINTS BY <1>1, <1>2 DEF Fresh, CheckpointsAt
<1> QED BY <1>3 DEF q

LEMMA PairElements ==
    ASSUME NEW v, NEW w
    PROVE  Elements(<<v>>) = {v} /\ Elements(<<v, w>>) = {v, w}
<1>1. DOMAIN <<v>> = {1} /\ DOMAIN <<v, w>> = {1, 2} OBVIOUS
<1> QED BY <1>1 DEF Elements

LEMMA CheckpointsAdded ==
    ASSUME NEW c, NEW d,
           \A cp \in d.CHECKPOINTS : cp.height < Snapshot(c).height
    PROVE  /\ Fresh(d, WritesApplied(c))
           /\ CheckpointsAt(d, WritesApplied(c))
              = IF Index[Tip(c)] % CheckpointInterval = 0 THEN d.CHECKPOINTS \cup {Snapshot(c)} ELSE d.CHECKPOINTS
<1> DEFINE payouts == PayoutsAt(c.settled, Index[Tip(c)])
           v == [op |-> "applied", block |-> Tip(c), tickets |-> c.pending_tickets, payouts |-> payouts]
           s == Snapshot(c)
           w == [op |-> "checkpoint", state |-> s]
           due == Index[Tip(c)] % CheckpointInterval = 0
<1>1. WritesApplied(c) = IF due THEN <<v, w>> ELSE <<v>> BY DEF WritesApplied
<1>2. v.op = "applied" /\ w.op = "checkpoint" /\ w.state = s OBVIOUS
<1> HIDE DEF v, w, s, due
<1>3. Fresh(d, <<v>>) /\ CheckpointsAt(d, <<v>>) = d.CHECKPOINTS
  <2> DEFINE q == <<v>>
  <2>1. Elements(q) = {v} /\ \A k \in 1 .. Len(q) : q[k] = v
    <3>1. \A k \in 1 .. Len(q) : q[k] = v OBVIOUS
    <3> QED BY <3>1, PairElements
  <2> HIDE DEF q
  <2>2. Fresh(d, q) /\ CheckpointsAt(d, q) = d.CHECKPOINTS BY <1>2, <2>1 DEF Fresh, CheckpointsAt
  <2> QED BY <2>2 DEF q
<1>4. Fresh(d, <<v, w>>) /\ CheckpointsAt(d, <<v, w>>) = d.CHECKPOINTS \cup {s}
  <2> DEFINE q == <<v, w>>
  <2>1. Elements(q) = {v, w} /\ \A k \in 1 .. Len(q) : q[k] = v \/ q[k] = w
    <3>1. \A k \in 1 .. Len(q) : q[k] = v \/ q[k] = w OBVIOUS
    <3> QED BY <3>1, PairElements
  <2> HIDE DEF q
  <2>2. {u \in Elements(q) : u.op = "checkpoint"} = {w} BY <1>2, <2>1
  <2>3. CheckpointsAt(d, q) = d.CHECKPOINTS \cup {s} BY <1>2, <2>1, <2>2 DEF CheckpointsAt
  <2>4. Fresh(d, q) BY <1>2, <2>1 DEF Fresh, s
  <2> QED BY <2>3, <2>4 DEF q
<1> QED BY <1>1, <1>3, <1>4 DEF due, s

LEMMA CheckpointsCut ==
    ASSUME NEW c, NEW d, NEW old, NEW f
    PROVE  /\ Fresh(d, WritesShallow(c, old, f))
           /\ CheckpointsAt(d, WritesShallow(c, old, f)) = {cp \in d.CHECKPOINTS : cp.height < Index[old[1]]}
<1> DEFINE payouts == {r \in c.settled : \E b \in Elements(f) : r.at = Index[b]}
           n == Index[old[1]]
           v == [op |-> "delete", from |-> n]
           w == [op |-> "reorg", old |-> old, new |-> f, tickets |-> c.pending_tickets,
                 payouts |-> payouts]
           q == <<v, w>>
<1>1. WritesShallow(c, old, f) = q BY DEF WritesShallow
<1>2. v.op = "delete" /\ v.from = n /\ w.op = "reorg" OBVIOUS
<1> HIDE DEF v, w
<1>3. Elements(q) = {v, w} /\ \A k \in 1 .. Len(q) : q[k] = v \/ q[k] = w
  <2>1. \A k \in 1 .. Len(q) : q[k] = v \/ q[k] = w OBVIOUS
  <2> QED BY <2>1, PairElements
<1> HIDE DEF q, n
<1>4. Fresh(d, q) BY <1>2, <1>3, NoneFresh
<1>5. CheckpointsAt(d, q) = {cp \in d.CHECKPOINTS : cp.height < n} BY <1>2, <1>3 DEF CheckpointsAt
<1> QED BY <1>1, <1>4, <1>5 DEF n

LEMMA CheckpointsGone ==
    ASSUME NEW d, Stored(d), NEW f \in Seq(Mined), NEW q, q \in Seq(WriteTransactions), DeepQueue(q, f)
    PROVE  Fresh(d, q) /\ CheckpointsAt(d, q) = {}
<1>1. /\ Len(f) \in Nat /\ Len(q) = Len(f) + 2 /\ q[1].op = "delete" /\ q[1].from = 0 /\ q[Len(f) + 2].op = "rebuild"
      /\ \A i \in 1 .. Len(f) : q[i + 1].op = "save"
  BY DEF DeepQueue
<1>2. ASSUME NEW k \in 1 .. Len(q) PROVE q[k].op # "checkpoint"
  <2>1. k = 1 \/ k = Len(f) + 2 \/ (k - 1 \in 1 .. Len(f) /\ (k - 1) + 1 = k) BY <1>1
  <2> QED BY <1>1, <2>1
<1>3. \A w : w \in Elements(q) <=> \E k \in 1 .. Len(q) : w = q[k] BY InElements
<1>4. 1 \in 1 .. Len(q) BY <1>1
<1>5. q[1] \in Elements(q) /\ \A w \in Elements(q) : w.op # "checkpoint" BY <1>2, <1>3, <1>4
<1>6. \A cp \in d.CHECKPOINTS : ~(cp.height < 0)
  <2>1. \A cp \in d.CHECKPOINTS : cp.height \in Nat BY CheckpointHeights
  <2> QED BY <2>1
<1>7. CheckpointsAt(d, q) = {} BY <1>1, <1>5, <1>6 DEF CheckpointsAt
<1> QED BY <1>2, <1>7, NoneFresh

LEMMA FreshAdvances ==
    ASSUME NEW d, Stored(d), NEW q, Scheduled(d, q), q # <<>>, NEW b, Placed(d, q, b), Fresh(d, q)
    PROVE  /\ Fresh(Commit(d, Head(q)), Tail(q))
           /\ CheckpointsAt(Commit(d, Head(q)), Tail(q)) = CheckpointsAt(d, q)
<1> DEFINE w == Head(q)
           t == Tail(q)
           e == Commit(d, w)
<1>1. /\ q \in Seq(WriteTransactions) /\ Len(q) \in Nat /\ Len(q) >= 1 /\ w = q[1] /\ t \in Seq(WriteTransactions)
      /\ Len(t) = Len(q) - 1 /\ \A k \in 1 .. Len(t) : t[k] = q[k + 1]
  <2>1. q \in Seq(WriteTransactions) BY DEF Scheduled
  <2> QED BY <2>1
<1>2. w \in WriteTransactions BY <1>1
<1>3. CheckpointsWritten(d, e, w) BY <1>2, CommitRows
<1>4. w.op = "checkpoint" => t = <<>> /\ e.CHECKPOINTS = {c \in d.CHECKPOINTS : c.height # w.state.height} \cup {w.state}
  <2>1. ASSUME w.op = "checkpoint" PROVE t = <<>>
    <3>1. 1 \in 1 .. Len(q) BY <1>1
    <3>2. 1 = Len(q) BY <1>1, <2>1, <3>1 DEF Placed
    <3> HIDE DEF t, w, e
    <3>3. Len(t) = 0 BY <1>1, <3>2
    <3> QED BY <1>1, <3>3
  <2>2. ASSUME w.op = "checkpoint"
        PROVE  e.CHECKPOINTS = {c \in d.CHECKPOINTS : c.height # w.state.height} \cup {w.state}
    <3>1. e = SaveCheckpoint(d, w) BY <2>2 DEF Commit
    <3> QED BY <3>1 DEF SaveCheckpoint, Stored, Tables
  <2> QED BY <2>1, <2>2
<1> HIDE DEF w, t, e
<1>5. \A v : v \in Elements(q) <=> v = w \/ v \in Elements(t)
  <2>1. \A v : v \in Elements(q) <=> \E k \in 1 .. Len(q) : v = q[k] BY <1>1, InElements
  <2>2. \A v : v \in Elements(t) <=> \E k \in 1 .. Len(t) : v = t[k] BY <1>1, InElements
  <2>3. \A k \in 1 .. Len(q) : k = 1 \/ (k - 1 \in 1 .. Len(t) /\ (k - 1) + 1 = k) BY <1>1
  <2>4. 1 \in 1 .. Len(q) /\ \A k \in 1 .. Len(t) : k + 1 \in 1 .. Len(q) BY <1>1
  <2>5. w = q[1] /\ \A k \in 1 .. Len(t) : t[k] = q[k + 1] BY <1>1
  <2>6. ASSUME NEW k \in 1 .. Len(q) PROVE q[k] = w \/ q[k] \in Elements(t)
    <3>1. CASE k = 1 BY <2>5, <3>1
    <3>2. CASE k - 1 \in 1 .. Len(t) /\ (k - 1) + 1 = k
      <4> DEFINE j == k - 1
      <4>1. j \in 1 .. Len(t) /\ j + 1 = k BY <3>2
      <4> HIDE DEF j
      <4>2. t[j] = q[k] BY <2>5, <4>1
      <4> QED BY <2>2, <4>1, <4>2
    <3> QED BY <2>3, <3>1, <3>2
  <2>7. ASSUME NEW k \in 1 .. Len(t) PROVE t[k] \in Elements(q) BY <2>1, <2>4, <2>5
  <2>8. w \in Elements(q) BY <2>1, <2>4, <2>5
  <2> QED BY <2>1, <2>2, <2>6, <2>7, <2>8
<1>6. CASE w.op = "checkpoint"
  <2>1. t = <<>> /\ e.CHECKPOINTS = {c \in d.CHECKPOINTS : c.height # w.state.height} \cup {w.state}
    BY <1>4, <1>6
  <2>2. \A cp \in d.CHECKPOINTS : cp.height # w.state.height
    <3>1. 1 \in 1 .. Len(q) BY <1>1
    <3>2. \A cp \in d.CHECKPOINTS : cp.height < w.state.height BY <1>1, <1>6, <3>1 DEF Fresh
    <3>3. w.state.height \in Nat /\ \A cp \in d.CHECKPOINTS : cp.height \in Nat
      <4>1. Consistent(w.state) BY <1>2, <1>6, TransactionCases
      <4>2. w.state.height \in Nat BY <4>1, HeightFacts DEF Consistent, CheckpointStates
      <4> QED BY <4>2, CheckpointHeights
    <3> QED BY <3>2, <3>3
  <2>3. e.CHECKPOINTS = d.CHECKPOINTS \cup {w.state} BY <2>1, <2>2
  <2>4. Fresh(e, t) /\ CheckpointsAt(e, t) = e.CHECKPOINTS BY <2>1, EmptyQueue
  <2>5. \A v : v \in Elements(q) <=> v = w
    <3>1. DOMAIN t = {} BY <2>1
    <3>2. Elements(t) = {} BY <3>1 DEF Elements
    <3> QED BY <1>5, <3>2
  <2>6. CheckpointsAt(d, q) = d.CHECKPOINTS \cup {w.state} BY <1>6, <2>5 DEF CheckpointsAt
  <2>7. CheckpointsAt(e, t) = CheckpointsAt(d, q) BY <2>3, <2>4, <2>6
  <2> QED BY <2>4, <2>7 DEF e, t, w
<1>7. CASE w.op # "checkpoint"
  <2>1. e.CHECKPOINTS = {c \in d.CHECKPOINTS : w.op = "delete" => c.height < w.from}
    BY <1>3, <1>7 DEF CheckpointsWritten
  <2>2. Fresh(e, t)
    <3>1. \A k \in 1 .. Len(t) : k + 1 \in 1 .. Len(q) BY <1>1
    <3> QED BY <1>1, <2>1, <3>1 DEF Fresh
  <2>3. {v \in Elements(t) : v.op = "checkpoint"} = {v \in Elements(q) : v.op = "checkpoint"} BY <1>5, <1>7
  <2>4. CheckpointsAt(e, t) = CheckpointsAt(d, q) BY <1>5, <2>1, <2>3 DEF CheckpointsAt
  <2> QED BY <2>2, <2>4 DEF e, t, w
<1> QED BY <1>6, <1>7

-----------------------------------------------------------------------------
\* What RevealWindow sees of a chain.
LEMMA ChainHeights ==
    ASSUME NEW c \in TicketChains, WellFormed(c)
    PROVE  /\ Tip(c) \in Blocks /\ OnPath(c, Tip(c))
           /\ HeightsOf(c.pending_tickets) = HeightsOf(TicketsOf(PathTo[Tip(c)]))
           /\ HeightsOf(Elements(c.ledger.applied) \cap Ticketed) = TicketHeights(Tip(c))
           /\ c.blocks_offset + Len(c.blocks) = Index[Tip(c)] + 1
           /\ c.blocks_offset \in Nat /\ Len(c.blocks) \in Nat
<1> DEFINE x == Tip(c)
<1>1. x \in Blocks /\ OnPath(c, x) /\ c \in Chains BY TipOnPath DEF WellFormed
<1>2. Aligned(c, x) BY <1>1, OnPathAligned
<1> HIDE DEF x
<1>3. c.blocks_offset \in Nat /\ Index[x] \in Nat /\ Len(c.blocks) = Index[x] - c.blocks_offset + 1
  BY <1>1, <1>2, IndexFacts DEF Aligned, Chains
<1>4. c.ledger.applied = PathTo[x] BY <1>1 DEF OnPath
<1>5. HeightsOf(Elements(c.ledger.applied) \cap Ticketed) = TicketHeights(x)
  <2>1. Elements(PathTo[x]) = PathSet(x) BY <1>1, PathSetFacts
  <2> QED BY <1>4, <2>1 DEF TicketHeights
<1>6. c.pending_tickets = TicketsOf(PathTo[x]) BY DEF TicketChains, x
<1>7. c.blocks_offset + Len(c.blocks) = Index[x] + 1 /\ Len(c.blocks) \in Nat
  <2>1. Len(c.blocks) \in Nat BY <1>1 DEF Chains
  <2> QED BY <1>3, <2>1
<1> QED BY <1>1, <1>3, <1>5, <1>6, <1>7 DEF x

LEMMA TrimmedHeights ==
    ASSUME NEW c \in TicketChains, WellFormed(c), NEW e, Trimmed(c, e)
    PROVE  e \in TicketChains /\ WellFormed(e) /\ Tip(e) = Tip(c)
<1>1. Tip(c) \in Blocks /\ OnPath(c, Tip(c)) /\ c.pending_tickets = TicketsOf(PathTo[Tip(c)])
  BY TipOnPath DEF TicketChains
<1>2. Tip(e) = Tip(c) /\ e \in Chains /\ e.pending_tickets = c.pending_tickets /\ WellFormed(e)
  BY <1>1 DEF Trimmed, WellFormed
<1> QED BY <1>1, <1>2 DEF TicketChains

LEMMA ExtendedHeights ==
    ASSUME NEW c \in TicketChains, WellFormed(c), NEW b \in Mined, Parent[b] = Tip(c), b \notin Invalid,
           NEW e, e = UpdateState(c, b), NEW g, Trimmed(e, g),
           NEW h, h = c.blocks_offset + Len(c.blocks),
           NEW earned, earned = IF b \in Ticketed THEN {h} ELSE {},
           NEW mature, mature = {i \in HeightsOf(c.pending_tickets) : i + RevealBlocks = h}
    PROVE  ExtendedBy(c, b, e, g, h, earned, mature)
<1> DEFINE x == Tip(c)
           o == c.blocks_offset
<1>1. /\ x \in Blocks /\ OnPath(c, x) /\ HeightsOf(c.pending_tickets) = HeightsOf(TicketsOf(PathTo[x]))
      /\ HeightsOf(Elements(c.ledger.applied) \cap Ticketed) = TicketHeights(x)
      /\ h = Index[x] + 1 /\ o \in Nat
  BY ChainHeights
<1>2. b \in Blocks /\ Index[b] = Index[x] + 1 /\ Parent[b] = x BY IndexFacts DEF Mined
<1>3. Accepts(c, b) BY <1>1, <1>2 DEF Accepts, LinksToTip, Height
<1>4. Told(c, b, e) /\ WellFormed(e) BY <1>1, <1>2, <1>3, UpdateTells, UpdateWellFormed
<1>5. /\ e \in TicketChains /\ Tip(e) = b /\ e.blocks_offset = o /\ Len(e.blocks) = Len(c.blocks) + 1
      /\ e.ledger.drawn = c.ledger.drawn \cup {CutDraw(x, t, o) : t \in MatureOn(x)}
  BY <1>4 DEF Told
<1>6. g \in TicketChains /\ WellFormed(g) /\ Tip(g) = b BY <1>4, <1>5, TrimmedHeights
<1>7. /\ g.ledger = e.ledger /\ g.pending_tickets = e.pending_tickets
      /\ g.blocks_offset = RW!PrunedOffset(e.blocks_offset, Len(e.blocks))
      /\ Len(g.blocks) = RW!PrunedLength(Len(e.blocks))
  BY DEF Trimmed
<1>8. HeightsOf(g.pending_tickets) = HeightsOf(TicketsOf(PathTo[b]))
      /\ HeightsOf(Elements(g.ledger.applied) \cap Ticketed) = TicketHeights(b)
  BY <1>6, ChainHeights
<1>9. e.blocks_offset + Len(e.blocks) = Index[b] + 1 /\ e.blocks_offset \in Nat /\ Len(e.blocks) \in Nat
  BY <1>4, <1>5, ChainHeights
<1> HIDE DEF x, o
<1>0. /\ TicketHeights(b) = TicketHeights(x) \cup HeightsOf({b} \cap Ticketed)
      /\ HeightsOf(TicketsOf(PathTo[b]))
         = (HeightsOf(TicketsOf(PathTo[x])) \ HeightsOf(MatureOn(x))) \cup HeightsOf({b} \cap Ticketed)
      /\ HeightsOf({b} \cap Ticketed) = (IF b \in Ticketed THEN {Index[b]} ELSE {})
      /\ HeightsOf(MatureOn(x)) = {i \in HeightsOf(TicketsOf(PathTo[x])) : i + RevealBlocks = Index[x] + 1}
  BY <1>1, <1>2, HeightsOneMore
<1>10. mature = HeightsOf(MatureOn(x)) BY <1>0, <1>1
<1>18. earned = HeightsOf({b} \cap Ticketed) BY <1>0, <1>1, <1>2
<1>11. HeightsOf(g.pending_tickets) = (HeightsOf(c.pending_tickets) \ mature) \cup earned
  BY <1>0, <1>1, <1>8, <1>10, <1>18
<1>12. HeightsOf(Elements(g.ledger.applied) \cap Ticketed)
       = HeightsOf(Elements(c.ledger.applied) \cap Ticketed) \cup earned
  BY <1>0, <1>1, <1>8, <1>18
<1>13. DrawsByHeight(g.ledger.drawn) = DrawsByHeight(c.ledger.drawn) \cup {RW!Draw(i, o) : i \in mature}
  <2> DEFINE D == c.ledger.drawn
  <2>1. g.ledger.drawn = D \cup {CutDraw(x, t, o) : t \in MatureOn(x)} BY <1>5, <1>7
  <2> HIDE DEF D
  <2>2. DrawsByHeight(D \cup {CutDraw(x, t, o) : t \in MatureOn(x)})
        = DrawsByHeight(D) \cup {RW!Draw(i, o) : i \in HeightsOf(MatureOn(x))}
    BY <1>1, DrawsByHeightFacts
  <2> QED BY <1>10, <2>1, <2>2 DEF D
<1>14. h = Index[b] /\ h < Cardinality(Heights) BY <1>1, <1>2, HeightsCount
<1>15. Snapshot(e).height = h /\ Snapshot(e).tickets = g.pending_tickets /\ Snapshot(e).ledger = g.ledger
  <2>1. (e.blocks_offset + Len(e.blocks)) - 1 = h BY <1>1, <1>2, <1>9, IndexFacts
  <2> QED BY <1>7, <2>1 DEF Snapshot, Height
<1>16. CheckpointByHeight(Snapshot(e))
       = [height |-> h, tickets |-> HeightsOf(g.pending_tickets), settled |-> DrawsByHeight(g.ledger.drawn)]
  BY <1>15 DEF CheckpointByHeight
<1>17. g.blocks_offset = RW!PrunedOffset(o, Len(c.blocks) + 1) /\ Len(g.blocks) = RW!PrunedLength(Len(c.blocks) + 1)
  BY <1>5, <1>7
<1> QED BY <1>5, <1>6, <1>11, <1>12, <1>13, <1>14, <1>15, <1>16, <1>17 DEF o, ExtendedBy

\* A block that extends the chain is one ApplyBlock.
LEMMA ApplyImplemented ==
    ASSUME NodeInv, TicketInv, Sound, NEW r, NEW b \in Mined, Answered(r, b, TicketChains),
           Extended(chain, Tip(chain), b, r), todo = <<>>
    PROVE  RW!Next /\ Fresh(db', todo')
<1> DEFINE c == chain
           e == r.chain
           g == chain'
           h == c.blocks_offset + Len(c.blocks)
           real == b \in Ticketed
           earned == IF real THEN {h} ELSE {}
           mature == {i \in HeightsOf(c.pending_tickets) : i + RevealBlocks = h}
<1>1. c \in TicketChains /\ WellFormed(c) /\ Parent[b] = Tip(c) /\ b \notin Invalid /\ e = UpdateState(c, b)
      /\ r.kind = "Applied"
  BY DEF TicketInv, NodeInv, Extended, Extends
<1>2. Trimmed(e, g) /\ todo' = WritesApplied(e) /\ restored' = restored /\ db' = db
      /\ \A cp \in db.CHECKPOINTS : cp.height <= Index[Tip(c)]
  BY <1>1 DEF Answered, AtRest, Writes
<1> HIDE DEF c, e, g, h, earned, mature
<1>10. ExtendedBy(c, b, e, g, h, earned, mature)
  <2>1. h = c.blocks_offset + Len(c.blocks) /\ earned = (IF b \in Ticketed THEN {h} ELSE {})
        /\ mature = {i \in HeightsOf(c.pending_tickets) : i + RevealBlocks = h}
    BY DEF h, earned, mature
  <2> QED BY <1>1, <1>2, <2>1, ExtendedHeights
<1>3. h = Index[b] /\ h < Cardinality(Heights) /\ Tip(e) = b /\ Snapshot(e).height = h BY <1>10 DEF ExtendedBy
<1>4. \A cp \in db.CHECKPOINTS : cp.height < h
  <2>1. Index[b] = Index[Tip(c)] + 1 /\ Index[Tip(c)] \in Nat BY <1>1, TipOnPath, IndexFacts DEF Mined
  <2>2. \A cp \in db.CHECKPOINTS : cp.height \in Nat BY CheckpointHeights DEF NodeInv
  <2> QED BY <1>2, <1>3, <2>1, <2>2
<1>5. Fresh(db, WritesApplied(e))
      /\ CheckpointsAt(db, WritesApplied(e))
         = IF h % CheckpointInterval = 0 THEN db.CHECKPOINTS \cup {Snapshot(e)} ELSE db.CHECKPOINTS
  BY <1>3, <1>4, CheckpointsAdded
<1>6. CheckpointsNow = db.CHECKPOINTS /\ CheckpointsNow' = CheckpointsAt(db, WritesApplied(e))
  <2>1. CheckpointsNow = CheckpointsAt(db, todo) /\ CheckpointsNow' = CheckpointsAt(db', todo')
    BY DEF CheckpointsNow, Outstanding, CheckpointsAt
  <2> QED BY <1>2, <2>1, EmptyQueue
<1> DEFINE s == [height |-> h, tickets |-> HeightsOf(g.pending_tickets), settled |-> DrawsByHeight(g.ledger.drawn)]
<1>7. {CheckpointByHeight(cp) : cp \in CheckpointsNow'}
      = IF h % CheckpointInterval = 0
        THEN {CheckpointByHeight(cp) : cp \in CheckpointsNow} \cup {s}
        ELSE {CheckpointByHeight(cp) : cp \in CheckpointsNow}
  <2> DEFINE A == db.CHECKPOINTS
             w == Snapshot(e)
             B == CheckpointsNow'
  <2>1. CheckpointByHeight(w) = s BY <1>10 DEF ExtendedBy
  <2>2. CheckpointsNow = A /\ B = IF h % CheckpointInterval = 0 THEN A \cup {w} ELSE A BY <1>3, <1>5, <1>6
  <2> HIDE DEF A, w, s, B
  <2>3. {CheckpointByHeight(cp) : cp \in A \cup {w}} = {CheckpointByHeight(cp) : cp \in A} \cup {CheckpointByHeight(w)}
    OBVIOUS
  <2>4. CASE h % CheckpointInterval = 0 BY <2>1, <2>2, <2>3, <2>4 DEF B
  <2>5. CASE h % CheckpointInterval # 0 BY <2>2, <2>5 DEF B
  <2> QED BY <2>4, <2>5
<1>8. real \in BOOLEAN OBVIOUS
<1> HIDE DEF s
<1>9. RW!ApplyBlock(real)
  <2>1. /\ HeightsOf(chain'.pending_tickets) = (HeightsOf(chain.pending_tickets) \ mature) \cup earned
        /\ HeightsOf(Elements(chain'.ledger.applied) \cap Ticketed)
           = HeightsOf(Elements(chain.ledger.applied) \cap Ticketed) \cup earned
        /\ DrawsByHeight(chain'.ledger.drawn)
           = DrawsByHeight(chain.ledger.drawn) \cup {RW!Draw(i, chain.blocks_offset) : i \in mature}
        /\ chain'.blocks_offset = RW!PrunedOffset(chain.blocks_offset, Len(chain.blocks) + 1)
        /\ Len(chain'.blocks) = RW!PrunedLength(Len(chain.blocks) + 1)
    BY <1>10 DEF ExtendedBy, c, g
  <2>2. /\ h = chain.blocks_offset + Len(chain.blocks) /\ h < Cardinality(Heights)
        /\ earned = IF real THEN {h} ELSE {}
        /\ mature = {t \in HeightsOf(chain.pending_tickets) : t + RevealBlocks = h}
    BY <1>3 DEF earned, mature, h, c
  <2>3. s = [height |-> h, tickets |-> HeightsOf(chain'.pending_tickets), settled |-> DrawsByHeight(chain'.ledger.drawn)]
    BY DEF s, g
  <2> HIDE DEF real
  <2> QED
    BY <1>2, <1>7, <2>1, <2>2, <2>3 DEF RW!ApplyBlock, RW!Height, RW!Matures, CheckpointByHeight
<1> HIDE DEF real
<1> QED BY <1>2, <1>5, <1>8, <1>9 DEF RW!Next

-----------------------------------------------------------------------------
\* The checkpoints a reorg leaves.
LEMMA SwitchedCheckpoints ==
    ASSUME NEW d, Stored(d), NEW c, NEW x, NEW table, NEW r, NEW z, NEW y, Switched(c, x, table, r, z, y),
           NEW a, a = Ancestor(r.new), Index[x] \in Nat, Writes(r) \in Seq(WriteTransactions)
    PROVE  /\ Fresh(d, Writes(r))
           /\ CheckpointsAt(d, Writes(r))
              = IF a < c.blocks_offset \/ a = Index[x] THEN {} ELSE {cp \in d.CHECKPOINTS : cp.height <= a}
<1> DEFINE f == r.new
           old == r.old
<1>1. /\ r.kind = "Reorged" /\ f \in Seq(Mined) /\ a \in 0 .. Index[x]
      /\ old \in Seq(Blocks) /\ \A i \in 1 .. Len(old) : Index[old[i]] = a + i
      /\ old = <<>> <=> a < c.blocks_offset \/ a = Index[x]
  BY DEF Switched, Forks, DisplacedFrom
<1>2. CASE old = <<>>
  <2> DEFINE q == WritesDeep(r.chain, f)
  <2>1. Writes(r) = q BY <1>1, <1>2 DEF Writes
  <2>2. q \in Seq(WriteTransactions) /\ DeepQueue(q, f) BY <1>1, <2>1, WritesDeepQueue
  <2> HIDE DEF q, f
  <2>3. Fresh(d, q) /\ CheckpointsAt(d, q) = {} BY <1>1, <2>2, CheckpointsGone
  <2> QED BY <1>1, <1>2, <2>1, <2>3
<1>3. CASE old # <<>>
  <2>1. Writes(r) = WritesShallow(r.chain, old, f) BY <1>1, <1>3 DEF Writes
  <2>2. Index[old[1]] = a + 1
    <3>1. 1 \in 1 .. Len(old) BY <1>1, <1>3
    <3> QED BY <1>1, <3>1
  <2> HIDE DEF old, f
  <2>3. Fresh(d, Writes(r)) /\ CheckpointsAt(d, Writes(r)) = {cp \in d.CHECKPOINTS : cp.height < a + 1}
    BY <2>1, <2>2, CheckpointsCut
  <2>4. \A cp \in d.CHECKPOINTS : cp.height < a + 1 <=> cp.height <= a BY <1>1, CheckpointHeights
  <2>5. {cp \in d.CHECKPOINTS : cp.height < a + 1} = {cp \in d.CHECKPOINTS : cp.height <= a} BY <2>4
  <2> QED BY <1>1, <1>3, <2>3, <2>5
<1> QED BY <1>2, <1>3

LEMMA ReplacedHeights ==
    ASSUME NEW x \in Blocks, NEW z \in Blocks, NEW a \in 0 .. Index[x], a <= Index[z],
           \A i \in 0 .. a : At(z, i) = At(x, i),
           NEW e \in CutChains(0, {}), WellFormed(e), Tip(e) = z, NEW g, Trimmed(e, g),
           NEW n, n = Index[z] + 1, NEW earned, earned = {i \in TicketHeights(z) : i > a}
    PROVE  ReplacedBy(x, g, z, a, n, earned)
<1>1. e \in TicketChains /\ e.blocks_offset = 0 /\ e.ledger.drawn = CutDraws(z, 0, {}) BY DEF CutChains
<1>2. Len(e.blocks) = n
  <2>1. e.blocks_offset + Len(e.blocks) = Index[z] + 1 /\ Len(e.blocks) \in Nat BY <1>1, ChainHeights
  <2> QED BY <1>1, <2>1
<1>3. g \in TicketChains /\ WellFormed(g) /\ Tip(g) = z BY <1>1, TrimmedHeights
<1>4. g.ledger = e.ledger /\ g.blocks_offset = RW!PrunedOffset(0, n) /\ Len(g.blocks) = RW!PrunedLength(n)
  BY <1>1, <1>2 DEF Trimmed
<1>5. HeightsOf(g.pending_tickets) = HeightsOf(TicketsOf(PathTo[z]))
      /\ HeightsOf(Elements(g.ledger.applied) \cap Ticketed) = TicketHeights(z)
  BY <1>3, ChainHeights
<1>6. TicketHeights(z) = {t \in TicketHeights(x) : t <= a} \cup earned
  <2>1. Index[z] \in Nat /\ Index[x] \in Nat /\ a \in Nat BY HeightFacts
  <2>2. \A i : i \in TicketHeights(z) <=> i \in 0 .. Index[z] /\ At(z, i) \in Ticketed BY HeightFacts
  <2>3. \A i : i \in TicketHeights(x) <=> i \in 0 .. Index[x] /\ At(x, i) \in Ticketed BY HeightFacts
  <2>4. \A i \in 0 .. Index[z] : i > a \/ i \in 0 .. a BY <2>1
  <2>5. \A i \in 0 .. Index[x] : i <= a => i \in 0 .. a BY <2>1
  <2>6. \A i \in 0 .. a : i <= a /\ i \in 0 .. Index[x] /\ i \in 0 .. Index[z] BY <2>1
  <2> QED BY <2>2, <2>3, <2>4, <2>5, <2>6
<1>7. /\ HeightsOf(TicketsOf(PathTo[z])) = RW!PendingAt(n, TicketHeights(z))
      /\ HeightsOf(DrawnSince(z, 0)) = RW!SettledAt(n, TicketHeights(z))
  BY WholeHeights
<1>8. DrawsByHeight(g.ledger.drawn) = {RW!Draw(t, 0) : t \in HeightsOf(DrawnSince(z, 0))}
  <2> DEFINE o == 0
             D == {}
  <2>1. DrawsByHeight(D) = {} BY DEF DrawsByHeight
  <2>2. g.ledger.drawn = CutDraws(z, o, D) /\ o \in Nat BY <1>1, <1>4
  <2> HIDE DEF o, D
  <2>3. DrawsByHeight(CutDraws(z, o, D)) = DrawsByHeight(D) \cup {RW!Draw(i, o) : i \in HeightsOf(DrawnSince(z, o))}
    BY <2>2, DrawsByHeightFacts
  <2>4. DrawsByHeight(g.ledger.drawn) = {RW!Draw(i, o) : i \in HeightsOf(DrawnSince(z, o))}
    BY <2>1, <2>2, <2>3
  <2> QED BY <2>4 DEF o
<1> QED BY <1>4, <1>5, <1>6, <1>7, <1>8 DEF ReplacedBy

\* A block that switches the chain to a fork, or to the part of it below a block
\* with invalid content, is one Reorg.
LEMMA SwitchImplemented ==
    ASSUME NodeInv, NodeInv', TicketInv, Sound, NEW r, NEW b \in Mined, Answered(r, b, TicketChains),
           NEW z, NEW y, Switched(chain, Tip(chain), db.BLOCKS, r, z, y), todo = <<>>
    PROVE  RW!Next /\ Fresh(db', todo')
<1> DEFINE c == chain
           x == Tip(c)
           e == r.chain
           g == chain'
           a == Ancestor(r.new)
           n == Index[y] + 1
           earned == {i \in TicketHeights(y) : i > a}
<1>1. /\ c \in TicketChains /\ WellFormed(c) /\ x \in Blocks /\ OnPath(c, x) /\ Stored(db)
      /\ WellFormed(e) /\ AtRest(db, x) /\ todo' = Writes(r) /\ db' = db /\ restored' = restored
  BY TipOnPath DEF TicketInv, NodeInv, Answered
<1>2. /\ r.kind = "Reorged" /\ Forks(x, r.new, z) /\ OnPath(e, y)
      /\ \A Q : Hereditary(Q) /\ GenesisChain \in Q => e \in Q
  BY DEF Switched
<1>3. y \in Blocks /\ a <= Index[y] BY <1>1, SwitchEnds DEF Stored, AtRest
<1>4. a \in 0 .. Index[x] /\ \A i \in 0 .. a : At(y, i) = At(x, i)
  <2>1. a \in 0 .. Index[x] /\ \A i \in 0 .. a : At(z, i) = At(x, i) BY <1>2 DEF Forks
  <2>2. Index[y] \in Nat /\ \A i \in 0 .. Index[y] : At(y, i) = At(z, i)
    BY <1>3, IndexFacts DEF Switched, Taken
  <2>3. \A i \in 0 .. a : i \in 0 .. Index[y] BY <1>3, <2>1, <2>2
  <2> QED BY <2>1, <2>2, <2>3
<1>5. Tip(e) = y /\ Trimmed(e, g) BY <1>1, <1>2, <1>3, <1>4, OnPathAligned DEF Aligned, Answered
<1>6. e \in CutChains(0, {}) BY <1>2, CutHereditary, GenesisTells
<1>7. todo' \in Seq(WriteTransactions) BY DEF NodeInv, Scheduled
<1> HIDE DEF x, e, g, a
<1>8. Index[x] \in Nat /\ Index[y] \in Nat /\ a \in Nat /\ a <= Index[x] /\ a <= Index[y]
      /\ Index[y] < Cardinality(Heights) /\ Cardinality(Heights) \in Nat
  <2>1. Index[x] \in Nat /\ Index[y] \in Nat /\ Index[y] < Cardinality(Heights) /\ Cardinality(Heights) \in Nat
    BY <1>1, <1>3, HeightFacts, HeightsCount
  <2> QED BY <1>3, <1>4, <2>1
<1> HIDE DEF n, earned
<1>9. ReplacedBy(x, g, y, a, n, earned)
  <2>1. n = Index[y] + 1 /\ earned = {i \in TicketHeights(y) : i > a} /\ a <= Index[y] BY <1>8 DEF n, earned
  <2> QED BY <1>1, <1>3, <1>4, <1>5, <1>6, <2>1, ReplacedHeights
<1>10. /\ HeightsOf(Elements(c.ledger.applied) \cap Ticketed) = TicketHeights(x)
       /\ c.blocks_offset + Len(c.blocks) = Index[x] + 1
  BY <1>1, ChainHeights DEF x
<1>11. Fresh(db', todo')
       /\ CheckpointsAt(db', todo')
          = IF a < c.blocks_offset \/ a = Index[x] THEN {} ELSE {cp \in db.CHECKPOINTS : cp.height <= a}
  <2>1. Switched(c, x, db.BLOCKS, r, z, y) /\ a = Ancestor(r.new) BY DEF x, a
  <2> HIDE DEF c
  <2> QED BY <1>1, <1>7, <1>8, <2>1, SwitchedCheckpoints
<1>12. CheckpointsNow = db.CHECKPOINTS /\ CheckpointsNow' = CheckpointsAt(db', todo')
  <2>1. CheckpointsNow = CheckpointsAt(db, todo) /\ CheckpointsNow' = CheckpointsAt(db', todo')
    BY DEF CheckpointsNow, Outstanding, CheckpointsAt
  <2> QED BY <1>1, <2>1, EmptyQueue
<1>13. {CheckpointByHeight(cp) : cp \in CheckpointsNow'}
       = IF a < c.blocks_offset \/ a = Index[x]
         THEN {} ELSE {k \in {CheckpointByHeight(cp) : cp \in CheckpointsNow} : k.height <= a}
  <2> DEFINE A == db.CHECKPOINTS
             B == CheckpointsNow'
             none == a < c.blocks_offset \/ a = Index[x]
  <2>1. CheckpointsNow = A /\ B = IF none THEN {} ELSE {cp \in A : cp.height <= a} BY <1>11, <1>12
  <2>2. \A cp : CheckpointByHeight(cp).height = cp.height BY DEF CheckpointByHeight
  <2> HIDE DEF A, B, none
  <2>3. {CheckpointByHeight(cp) : cp \in {cp \in A : cp.height <= a}}
        = {k \in {CheckpointByHeight(cp) : cp \in A} : k.height <= a}
    BY <2>2
  <2>4. {CheckpointByHeight(cp) : cp \in B}
        = IF none THEN {} ELSE {k \in {CheckpointByHeight(cp) : cp \in A} : k.height <= a}
    BY <2>1, <2>3
  <2> QED BY <2>1, <2>4 DEF B, none
<1>14. RW!Height = Index[x] + 1 BY <1>10 DEF RW!Height
<1>15. RW!Reorg(a, n, earned)
  <2> DEFINE tickets == {t \in TicketHeights(x) : t <= a} \cup earned
  <2>1. /\ HeightsOf(Elements(chain'.ledger.applied) \cap Ticketed) = tickets
        /\ HeightsOf(chain'.pending_tickets) = RW!PendingAt(n, tickets)
        /\ DrawsByHeight(chain'.ledger.drawn) = {RW!Draw(t, 0) : t \in RW!SettledAt(n, tickets)}
        /\ chain'.blocks_offset = RW!PrunedOffset(0, n)
        /\ Len(chain'.blocks) = RW!PrunedLength(n)
    BY <1>9 DEF ReplacedBy, g
  <2>2. tickets = {t \in HeightsOf(Elements(chain.ledger.applied) \cap Ticketed) : t <= a} \cup earned
    BY <1>10
  <2>3. a = RW!Height - 1 <=> a = Index[x] BY <1>8, <1>14
  <2>4. {CheckpointByHeight(cp) : cp \in CheckpointsNow'} = RW!Surviving(a)
    BY <1>13, <2>3 DEF RW!Surviving, CheckpointByHeight
  <2> HIDE DEF tickets
  <2> QED BY <1>1, <2>1, <2>2, <2>4 DEF RW!Reorg, CheckpointByHeight
<1>16. a \in 0 .. (RW!Height - 1) /\ n \in 1 .. Cardinality(Heights) /\ n > a
       /\ earned \in SUBSET ((a + 1) .. (n - 1))
  <2>1. n = Index[y] + 1 BY DEF n
  <2>2. RW!Height - 1 = Index[x] BY <1>8, <1>14
  <2>3. \A i : i \in TicketHeights(y) => i \in 0 .. Index[y] BY <1>3, HeightFacts
  <2>4. \A i \in 0 .. Index[y] : i > a => i \in (a + 1) .. (n - 1) BY <1>8, <2>1
  <2>5. earned \subseteq (a + 1) .. (n - 1) BY <2>3, <2>4 DEF earned
  <2>6. n \in 1 .. Cardinality(Heights) /\ n > a /\ a \in 0 .. Index[x] BY <1>4, <1>8, <2>1
  <2> QED BY <2>2, <2>5, <2>6
<1> QED BY <1>11, <1>15, <1>16 DEF RW!Next, RW!ReorgStep

-----------------------------------------------------------------------------
\* The chain a restart from checkpoint cp, or from genesis, ends with.
LEMMA LoadedFromGenesis ==
    ASSUME NEW d, Stored(d), CheckpointRows(d), ~UsesCheckpoint(d), NEW x, x = Tip(Loaded(d))
    PROVE  /\ DrawsByHeight(Loaded(d).ledger.drawn)
              = {RW!Draw(t, 0) : t \in RW!SettledAt(Index[x] + 1, TicketHeights(x))}
           /\ Loaded(d).blocks_offset = 0 /\ Len(Loaded(d).blocks) = Index[x] + 1
<1> DEFINE l == Loaded(d)
<1>1. l \in CutChains(0, {}) /\ WellFormed(l) BY GenesisTells, CutHereditary, StartupReaches
<1> HIDE DEF l
<1>2. l \in TicketChains /\ l.blocks_offset = 0 /\ l.ledger.drawn = CutDraws(x, 0, {})
  BY <1>1 DEF CutChains, l
<1>3. x \in Blocks /\ Len(l.blocks) = Index[x] + 1
  <2>1. x \in Blocks /\ l.blocks_offset + Len(l.blocks) = Index[x] + 1 /\ Len(l.blocks) \in Nat
    BY <1>1, <1>2, ChainHeights DEF l
  <2> QED BY <1>2, <2>1
<1>4. DrawsByHeight(l.ledger.drawn) = {RW!Draw(t, 0) : t \in HeightsOf(DrawnSince(x, 0))}
  <2> DEFINE o == 0
             D == {}
  <2>1. DrawsByHeight(D) = {} /\ l.ledger.drawn = CutDraws(x, o, D) /\ o \in Nat BY <1>2 DEF DrawsByHeight
  <2> HIDE DEF o, D
  <2>2. DrawsByHeight(CutDraws(x, o, D)) = DrawsByHeight(D) \cup {RW!Draw(i, o) : i \in HeightsOf(DrawnSince(x, o))}
    BY <1>3, <2>1, DrawsByHeightFacts
  <2>3. DrawsByHeight(l.ledger.drawn) = {RW!Draw(i, o) : i \in HeightsOf(DrawnSince(x, o))} BY <2>1, <2>2
  <2> QED BY <2>3 DEF o
<1>5. HeightsOf(DrawnSince(x, 0)) = RW!SettledAt(Index[x] + 1, TicketHeights(x)) BY <1>3, WholeHeights
<1> QED BY <1>2, <1>3, <1>4, <1>5 DEF l

LEMMA LoadedFromCheckpoint ==
    ASSUME NEW d, Stored(d), CheckpointRows(d), UsesCheckpoint(d), NEW x \in Blocks, x = Tip(Loaded(d)),
           HoldsPath(d.BLOCKS, x), NEW cp, cp = LatestCheckpoint(d), CheckpointTells(cp), cp.height <= Index[x],
           NEW T, T = HeightsOf(cp.tickets) \cup {i \in TicketHeights(x) : i > cp.height}
    PROVE  LoadedAbove(Loaded(d), cp, x, T)
<1> DEFINE l == Loaded(d)
           k == cp.block_hash
           o == cp.height
           D == cp.ledger.drawn
<1>1. /\ Consistent(cp) /\ cp \in d.CHECKPOINTS /\ k \in Blocks /\ o = Index[k] /\ o \in Nat
      /\ cp.tickets = TicketsOf(PathTo[k])
  <2>1. cp \in d.CHECKPOINTS /\ Consistent(cp) BY LatestStored DEF Stored, UsesCheckpoint
  <2> QED BY <2>1, HeightFacts DEF Consistent, CheckpointStates, CheckpointTells
<1>2. l \in CutChains(o, D) /\ WellFormed(l) BY <1>1, RestoreTells, CutHereditary, StartupReaches
<1>3. HoldsPath(d.BLOCKS, k) BY <1>1 DEF CheckpointRows
<1> HIDE DEF l, k, o, D
<1>4. l \in TicketChains /\ l.blocks_offset = o /\ l.ledger.drawn = CutDraws(x, o, D) BY <1>2 DEF CutChains, l
<1>5. Len(l.blocks) = Index[x] + 1 - o
  <2>1. l.blocks_offset + Len(l.blocks) = Index[x] + 1 /\ Len(l.blocks) \in Nat /\ Index[x] \in Nat
    BY <1>2, <1>4, ChainHeights, HeightFacts DEF l
  <2> QED BY <1>1, <1>4, <2>1
<1>6. DrawsByHeight(l.ledger.drawn) = DrawsByHeight(D) \cup {RW!Draw(i, o) : i \in HeightsOf(DrawnSince(x, o))}
  BY <1>1, <1>4, DrawsByHeightFacts
<1>7. Index[k] <= Index[x] /\ \A i \in 0 .. Index[k] : At(x, i) = At(k, i)
  <2>1. Index[x] \in Nat /\ Index[k] <= Index[x] BY <1>1, HeightFacts DEF o
  <2>2. \A i \in 0 .. Index[k] : i \in 0 .. Index[x] BY <1>1, <2>1
  <2> QED BY <1>3, <2>1, <2>2 DEF HoldsPath
<1>8. T = HeightsOf(TicketsOf(PathTo[k])) \cup {i \in TicketHeights(x) : i > Index[k]} BY <1>1 DEF o
<1>9. /\ RW!PendingAt(Index[x] + 1, T) = HeightsOf(TicketsOf(PathTo[x]))
      /\ RW!SettledAt(Index[x] + 1, T) = HeightsOf(DrawnSince(x, Index[k]))
  BY <1>1, <1>7, <1>8, SplitHeights
<1> QED BY <1>1, <1>4, <1>5, <1>6, <1>9 DEF l, o, D, LoadedAbove

-----------------------------------------------------------------------------
\* A stop between two blocks and the start after it is one restart of RevealWindow.
LEMMA RebootImplemented ==
    ASSUME NodeInv, NodeInv', PathInv, LightInv, TicketInv, Sound, Reboot
    PROVE  RW!Next /\ Fresh(db', todo')
<1> DEFINE x == Tip(chain)
           l == Loaded(db)
           g == chain'
           pending == HeightsOf(chain.pending_tickets)
           ticketed == HeightsOf(Elements(chain.ledger.applied) \cap Ticketed)
<1>1. /\ up /\ todo = <<>> /\ todo' = <<>> /\ Stored(db) /\ CheckpointRows(db) /\ g = ChainAtStartup(db)
      /\ db' = TablesAfterStartup(db) /\ WellFormed(chain) /\ WellFormed(g) /\ chain \in TicketChains
      /\ restored' = IF UsesCheckpoint(db) THEN restored \cup {LatestCheckpoint(db).height} ELSE restored
  BY DEF NodeInv, PathInv, Placed, Reboot, Idle, StartUp, TicketInv
<1>2. x \in Blocks /\ AtRest(db, x)
  <2>1. Headed(db, <<>>, x) BY <1>1 DEF PathInv, Headed
  <2> HIDE DEF x
  <2>2. AtRest(db, x) BY <2>1, RestHeaded
  <2> QED BY <1>1, <2>2, TipOnPath DEF x
<1>3. Tip(l) = x
  <2>1. RowsLight(db.BLOCKS, <<>>, x, stray) /\ ~Tangled(stray) BY <1>1 DEF LightInv, Sound
  <2> QED BY <1>1, <1>2, <2>1, RestTip DEF AtRest
<1>4. g \in TicketChains /\ Tip(g) = x BY <1>1, <1>3, ServedTells
<1>5. /\ g.ledger = l.ledger /\ g.blocks_offset = RW!PrunedOffset(l.blocks_offset, Len(l.blocks))
      /\ Len(g.blocks) = RW!PrunedLength(Len(l.blocks))
  BY <1>1, ServedTrimmed
<1> HIDE DEF x, l, g
<1>6. /\ ticketed = TicketHeights(x) /\ chain.blocks_offset + Len(chain.blocks) = Index[x] + 1
      /\ Index[x] \in Nat
  BY <1>1, <1>2, ChainHeights, HeightFacts DEF x
<1>7. /\ HeightsOf(g.pending_tickets) = HeightsOf(TicketsOf(PathTo[x]))
      /\ HeightsOf(Elements(g.ledger.applied) \cap Ticketed) = ticketed
  BY <1>1, <1>4, <1>6, ChainHeights
<1>8. UsesCheckpoint(db) <=> db.CHECKPOINTS # {} BY <1>1, BaseHeld
<1>9. db'.CHECKPOINTS = db.CHECKPOINTS
  <2>1. db \in Tables BY <1>1 DEF Stored
  <2> QED BY <1>1, <1>8, <2>1 DEF TablesAfterStartup, Tables
<1>10. CheckpointsNow = db.CHECKPOINTS /\ CheckpointsNow' = db.CHECKPOINTS
  <2>1. CheckpointsNow = CheckpointsAt(db, todo) /\ CheckpointsNow' = CheckpointsAt(db', todo')
    BY DEF CheckpointsNow, Outstanding, CheckpointsAt
  <2> QED BY <1>1, <1>9, <2>1, EmptyQueue
<1>11. Fresh(db', todo') BY <1>1, EmptyQueue
<1>12. RW!Height = Index[x] + 1 BY <1>6 DEF RW!Height
<1>13. CASE ~UsesCheckpoint(db)
  <2>1. /\ DrawsByHeight(l.ledger.drawn) = {RW!Draw(t, 0) : t \in RW!SettledAt(Index[x] + 1, TicketHeights(x))}
        /\ l.blocks_offset = 0 /\ Len(l.blocks) = Index[x] + 1
    BY <1>1, <1>3, <1>13, LoadedFromGenesis DEF l
  <2>2. HeightsOf(TicketsOf(PathTo[x])) = RW!PendingAt(Index[x] + 1, TicketHeights(x)) BY <1>2, WholeHeights
  <2>3. CheckpointsNow = {} /\ CheckpointsNow' = {} /\ restored' = restored BY <1>1, <1>8, <1>10, <1>13
  <2>4. /\ HeightsOf(chain'.pending_tickets) = RW!PendingAt(RW!Height, ticketed)
        /\ DrawsByHeight(chain'.ledger.drawn) = {RW!Draw(t, 0) : t \in RW!SettledAt(RW!Height, ticketed)}
        /\ chain'.blocks_offset = RW!PrunedOffset(0, RW!Height)
        /\ Len(chain'.blocks) = RW!PrunedLength(RW!Height)
        /\ HeightsOf(Elements(chain'.ledger.applied) \cap Ticketed) = ticketed
    BY <1>5, <1>6, <1>7, <1>12, <2>1, <2>2 DEF g
  <2> QED BY <1>11, <2>3, <2>4 DEF RW!Next, RW!RestartFromGenesis
<1>14. CASE UsesCheckpoint(db)
  <2> DEFINE cp == LatestCheckpoint(db)
             o == cp.height
             T == HeightsOf(cp.tickets) \cup {i \in TicketHeights(x) : i > o}
             c == CheckpointByHeight(cp)
             stored == {CheckpointByHeight(d) : d \in CheckpointsNow}
  <2>1. cp \in db.CHECKPOINTS /\ (\A d \in db.CHECKPOINTS : d.height <= o) /\ CheckpointTells(cp) /\ o <= Index[x]
        /\ o \in Nat
    BY <1>1, <1>2, <1>14, LatestStored, CheckpointHeights DEF UsesCheckpoint, TicketInv, AtRest
  <2>2. /\ c.height = o /\ c.tickets = HeightsOf(cp.tickets) /\ c.settled = DrawsByHeight(cp.ledger.drawn)
        /\ \A d : CheckpointByHeight(d).height = d.height
    BY DEF CheckpointByHeight
  <2> HIDE DEF cp, c
  <2>3. /\ DrawsByHeight(l.ledger.drawn)
           = DrawsByHeight(cp.ledger.drawn) \cup {RW!Draw(t, o) : t \in RW!SettledAt(Index[x] + 1, T)}
        /\ HeightsOf(TicketsOf(PathTo[x])) = RW!PendingAt(Index[x] + 1, T)
        /\ l.blocks_offset = o /\ Len(l.blocks) = Index[x] + 1 - o
    <3>1. HoldsPath(db.BLOCKS, x) /\ x = Tip(Loaded(db)) /\ cp = LatestCheckpoint(db)
      BY <1>2, <1>3 DEF AtRest, l, cp
    <3> HIDE DEF T
    <3>2. T = HeightsOf(cp.tickets) \cup {i \in TicketHeights(x) : i > cp.height} BY DEF T
    <3>3. LoadedAbove(l, cp, x, T) BY <1>1, <1>2, <1>14, <2>1, <3>1, <3>2, LoadedFromCheckpoint DEF l
    <3> QED BY <3>3 DEF LoadedAbove
  <2>4. c \in stored /\ (\A d \in stored : d.height <= c.height) /\ CheckpointsNow' = CheckpointsNow
    BY <1>10, <2>1, <2>2 DEF c
  <2>5. T = c.tickets \cup {t \in ticketed : t > c.height} BY <1>6, <2>2
  <2>6. Len(l.blocks) = RW!Height - c.height BY <1>6, <1>12, <2>1, <2>2, <2>3
  <2> HIDE DEF T, stored
  <2>7. /\ HeightsOf(chain'.pending_tickets) = RW!PendingAt(RW!Height, T)
        /\ DrawsByHeight(chain'.ledger.drawn)
           = c.settled \cup {RW!Draw(t, c.height) : t \in RW!SettledAt(RW!Height, T)}
        /\ chain'.blocks_offset = RW!PrunedOffset(c.height, RW!Height - c.height)
        /\ Len(chain'.blocks) = RW!PrunedLength(RW!Height - c.height)
        /\ HeightsOf(Elements(chain'.ledger.applied) \cap Ticketed) = ticketed
    BY <1>5, <1>7, <1>12, <2>2, <2>3, <2>6 DEF g
  <2>8. restored' = restored \cup {c.height} BY <1>1, <1>14, <2>2 DEF cp
  <2>9. RW!RestartFromCheckpoint
    BY <2>4, <2>5, <2>7, <2>8 DEF RW!RestartFromCheckpoint, stored, CheckpointByHeight
  <2> QED BY <1>11, <2>9 DEF RW!Next
<1> QED BY <1>13, <1>14

-----------------------------------------------------------------------------
\* Every step of the node is one of RevealWindow, or none.
LEMMA StartImplemented ==
    ASSUME Init
    PROVE  RW!Init /\ Fresh(db, todo)
<1>1. chain = GenesisChain /\ db.CHECKPOINTS = {} /\ todo = <<>> /\ restored = {} BY DEF Init
<1>2. Fresh(db, todo) /\ CheckpointsNow = {}
  <2>1. CheckpointsNow = CheckpointsAt(db, todo) BY DEF CheckpointsNow, Outstanding, CheckpointsAt
  <2> QED BY <1>1, <2>1, EmptyQueue
<1>3. /\ chain.blocks_offset = 0 /\ Len(chain.blocks) = 1 /\ chain.pending_tickets = {}
      /\ chain.ledger.applied = <<Genesis>> /\ chain.ledger.drawn = {}
  BY <1>1 DEF GenesisChain
<1>4. Elements(chain.ledger.applied) \cap Ticketed = {}
  <2>1. Elements(<<Genesis>>) = {Genesis} BY PairElements
  <2> QED BY <1>3, <2>1, NodeAssumption DEF Mined
<1>5. HeightsOf({}) = {} /\ DrawsByHeight({}) = {} BY DEF HeightsOf, DrawsByHeight
<1> QED BY <1>1, <1>2, <1>3, <1>4, <1>5 DEF RW!Init

LEMMA SameForRevealWindow ==
    ASSUME chain'.blocks_offset = chain.blocks_offset, chain'.blocks = chain.blocks,
           chain'.pending_tickets = chain.pending_tickets, chain'.ledger = chain.ledger,
           CheckpointsNow' = CheckpointsNow, restored' = restored
    PROVE  RW!vars' = RW!vars
BY DEF RW!vars

LEMMA ReceiveImplemented ==
    ASSUME NodeInv, NodeInv', PathInv, TicketInv, Sound, NEW b \in Mined, Receive(b)
    PROVE  (RW!Next \/ RW!vars' = RW!vars) /\ Fresh(db', todo')
<1>1. todo = <<>> /\ chain \in TicketChains BY DEF Receive, TicketInv
<1>2. PICK r : Answered(r, b, TicketChains)
  BY <1>1, GenesisTells, TicketsHereditary, ReceiveAnswers DEF DrawChains
<1> DEFINE x == Tip(chain)
<1>3. Changed(chain, x, b, db.BLOCKS, r) BY <1>2 DEF Answered
<1>4. CASE Extended(chain, x, b, r) BY <1>1, <1>2, <1>4, ApplyImplemented
<1>5. ASSUME NEW z, NEW y, Switched(chain, x, db.BLOCKS, r, z, y)
      PROVE  RW!Next /\ Fresh(db', todo')
  BY <1>1, <1>2, <1>5, SwitchImplemented
<1> HIDE DEF x
<1>6. CASE Untouched(chain, x, b, r)
  <2>1. Writes(r) = <<>> /\ r.kind \notin {"Applied", "Reorged"} BY <1>6 DEF Untouched, Writes
  <2>2. todo' = <<>> /\ db' = db /\ restored' = restored /\ chain' = r.chain BY <1>2, <2>1 DEF Answered
  <2>3. chain \in Chains BY <1>1 DEF TicketChains
  <2>4. /\ chain'.blocks_offset = chain.blocks_offset /\ chain'.blocks = chain.blocks
        /\ chain'.pending_tickets = chain.pending_tickets /\ chain'.ledger = chain.ledger
    <3>1. CASE r.chain = chain BY <2>2, <3>1
    <3>2. CASE Pools(chain, b, r.chain) BY <2>2, <2>3, <3>2, PoolTells DEF Pools
    <3> QED BY <1>6, <3>1, <3>2 DEF Untouched
  <2>5. CheckpointsNow' = CheckpointsNow /\ Fresh(db', todo')
    <3>1. CheckpointsNow = CheckpointsAt(db, todo) /\ CheckpointsNow' = CheckpointsAt(db', todo')
      BY DEF CheckpointsNow, Outstanding, CheckpointsAt
    <3> QED BY <1>1, <2>2, <3>1, EmptyQueue
  <2> QED BY <2>2, <2>4, <2>5, SameForRevealWindow
<1> QED BY <1>3, <1>4, <1>5, <1>6 DEF Changed

LEMMA StepImplemented ==
    ASSUME NodeInv, NodeInv', PathInv, LightInv, TicketInv, Sound, Fresh(db, todo), [NextRebooting]_vars
    PROVE  (RW!Next \/ RW!vars' = RW!vars) /\ Fresh(db', todo')
<1>1. ASSUME NEW b \in Mined, Receive(b) PROVE (RW!Next \/ RW!vars' = RW!vars) /\ Fresh(db', todo')
  BY <1>1, ReceiveImplemented
<1>2. CASE Write
  <2>1. /\ todo # <<>> /\ db' = Commit(db, Head(todo)) /\ todo' = Tail(todo) /\ chain' = chain /\ restored' = restored
        /\ Stored(db) /\ Scheduled(db, todo) /\ Placed(db, todo, Tip(chain))
    BY <1>2 DEF Write, NodeInv, PathInv
  <2>2. Fresh(db', todo') /\ CheckpointsAt(db', todo') = CheckpointsAt(db, todo) BY <2>1, FreshAdvances
  <2>3. CheckpointsNow = CheckpointsAt(db, todo) /\ CheckpointsNow' = CheckpointsAt(db', todo')
    BY DEF CheckpointsNow, Outstanding, CheckpointsAt
  <2> QED BY <2>1, <2>2, <2>3, SameForRevealWindow
<1>3. CASE Reboot BY <1>3, RebootImplemented
<1>4. CASE UNCHANGED vars
  <2>1. chain' = chain /\ db' = db /\ todo' = todo /\ restored' = restored BY <1>4 DEF vars
  <2>2. CheckpointsNow' = CheckpointsNow /\ Fresh(db', todo') BY <2>1 DEF CheckpointsNow, Outstanding
  <2> QED BY <2>1, <2>2, SameForRevealWindow
<1> QED BY <1>1, <1>2, <1>3, <1>4 DEF NextRebooting, Running

\* The node implements RevealWindow, however it is stopped between two blocks: every
\* block applied, reorg, half-done or not, and restart is one of its steps, and the
\* writes between are stutters, until both kinds of stray row are there.  With the
\* theorems on RevealWindow, no ticket is lost or drawn twice, and entropy is cut by
\* nothing but a checkpoint restart (blockchain.rs:9-16).
THEOREM NodeImplementsRevealWindow == SpecRebooting => ImplementsRevealWindow
<1> DEFINE Inv == NodeInv /\ PathInv /\ LightInv /\ TicketInv
           F == ~Tangled(stray) => Fresh(db, todo)
           Step == [RW!Next \/ Tangled(stray)]_(RW!vars)
<1>1. Init => RW!Init /\ F BY StartImplemented
<1>2. ASSUME Inv, Inv', ~torn, F, [NextRebooting]_vars
      PROVE  Step /\ F'
  <2>1. CASE Tangled(stray)
    <3>1. stray \subseteq stray' BY <1>2 DEF NextRebooting, Running, Receive, Write, Reboot, StartUp, vars
    <3>2. Tangled(stray') BY <2>1, <3>1 DEF Tangled
    <3>3. Tangled(stray)' <=> Tangled(stray') BY DEF Tangled
    <3> QED BY <2>1, <3>2, <3>3
  <2>2. CASE ~Tangled(stray)
    <3>1. (RW!Next \/ RW!vars' = RW!vars) /\ Fresh(db', todo') BY <1>2, <2>2, StepImplemented DEF Sound
    <3>2. Fresh(db', todo') <=> Fresh(db, todo)' BY DEF Fresh
    <3> QED BY <3>1, <3>2
  <2> QED BY <2>1, <2>2
<1>3. SpecRebooting => []Inv BY TicketInvariance
<1>4. SpecRebooting => [](~torn) BY NeverTorn
<1> HIDE DEF Inv, F
<1>5. SpecRebooting => RW!Init /\ [][RW!Next \/ Tangled(stray)]_(RW!vars)
  BY <1>1, <1>2, <1>3, <1>4, PTL DEF SpecRebooting
<1> QED BY <1>5 DEF ImplementsRevealWindow

-----------------------------------------------------------------------------
\* A client that pages through the history of an address.
\* The newest key has rank 0, and no rank is left out or taken twice.
LEMMA RanksNumber ==
    ASSUME NEW K \in SUBSET Nat, IsFiniteSet(K)
    PROVE  Cardinality(K) \in Nat /\ Numbers([i \in K |-> Rank(K, i)], K, Cardinality(K))
<1> DEFINE n == Cardinality(K)
           f == [i \in K |-> Rank(K, i)]
           T == 0 .. n - 1
<1>1. n \in Nat BY FS_CardinalityType
<1>2. ASSUME NEW i \in K PROVE IsFiniteSet(Newer(K, i)) /\ Rank(K, i) \in T
  <2>1. Newer(K, i) \in SUBSET (K \ {i}) BY DEF Newer
  <2>2. IsFiniteSet(K \ {i}) /\ Cardinality(K \ {i}) = n - 1 BY FS_RemoveElement
  <2>3. IsFiniteSet(Newer(K, i)) /\ Cardinality(Newer(K, i)) <= n - 1 BY <2>1, <2>2, FS_Subset
  <2>4. Cardinality(Newer(K, i)) \in Nat BY <2>3, FS_CardinalityType
  <2> QED BY <1>1, <2>3, <2>4 DEF Rank
<1>3. ASSUME NEW i \in K, NEW j \in K, i < j PROVE Rank(K, i) # Rank(K, j)
  <2> HIDE DEF f, T, n
  <2>0. i \in Nat /\ j \in Nat /\ j > i /\ ~(j > j) /\ \A k \in K : k > j => k > i BY <1>3
  <2>1. Newer(K, j) \in SUBSET Newer(K, i) /\ j \in Newer(K, i) /\ j \notin Newer(K, j) BY <2>0 DEF Newer
  <2>2. Newer(K, j) # Newer(K, i) BY <2>1
  <2> QED BY <1>2, <2>1, <2>2, FS_Subset DEF Rank
<1>4. \A i, j \in K : i # j => Rank(K, i) # Rank(K, j)
  <2>1. \A i, j \in K : i # j => i < j \/ j < i OBVIOUS
  <2> QED BY <1>3, <2>1
<1>5. f \in [K -> T] /\ \A i, j \in K : f[i] = f[j] => i = j
  <2> HIDE DEF T
  <2> QED BY <1>2, <1>4
<1>6. f \in Injection(K, T)
  <2> HIDE DEF f, T
  <2> QED BY <1>5 DEF Injection, IsInjective
<1>7. IsFiniteSet(T) /\ Cardinality(T) = n
  <2>1. 0 \in Int /\ n - 1 \in Int /\ IsFiniteSet(T) /\ Cardinality(T) = IF 0 > n - 1 THEN 0 ELSE (n - 1) - 0 + 1
    BY <1>1, FS_Interval
  <2> HIDE DEF T
  <2> QED BY <1>1, <2>1
<1>8. f \in Surjection(K, T)
  <2>1. Cardinality(K) = Cardinality(T) BY <1>7
  <2> HIDE DEF f, T
  <2> QED BY <1>6, <1>7, <2>1, FS_Injection
<1> QED BY <1>1, <1>6, <1>8 DEF Numbers

LEMMA PageFacts ==
    ASSUME NEW K \in SUBSET Nat, IsFiniteSet(K), NEW o \in Nat, NEW l \in Nat
    PROVE  /\ Cardinality(Page(K, o, l)) \in 0 .. l
           /\ \A i \in K : Rank(K, i) \in o .. o + Cardinality(Page(K, o, l)) - 1 => i \in Page(K, o, l)
           /\ Cardinality(Page(K, o, l)) < l => \A i \in K : Rank(K, i) >= o => i \in Page(K, o, l)
<1> DEFINE n == Cardinality(K)
           f == [i \in K |-> Rank(K, i)]
           T == 0 .. n - 1
           P == Page(K, o, l)
           m == Cardinality(P)
           I == o .. o + l - 1
           h == [i \in P |-> Rank(K, i)]
<1>1. n \in Nat /\ Numbers(f, K, n)
  <2> HIDE DEF f
  <2> QED BY RanksNumber DEF f
<1>2. /\ \A i \in K : Rank(K, i) \in T
      /\ \A i, j \in K : Rank(K, i) = Rank(K, j) => i = j
      /\ \A t \in T : \E i \in K : Rank(K, i) = t
  <2>1. f \in Injection(K, T) /\ f \in Surjection(K, T) BY <1>1 DEF Numbers
  <2>2. \A i \in K : f[i] = Rank(K, i) OBVIOUS
  <2> HIDE DEF f, T
  <2> QED BY <2>1, <2>2 DEF Injection, Surjection, IsInjective
<1>3. P \subseteq K /\ IsFiniteSet(P) /\ m \in Nat
      /\ \A i \in P : h[i] = Rank(K, i) /\ Rank(K, i) \in I
  <2>1. P \in SUBSET K /\ \A i \in P : Rank(K, i) \in I BY DEF Page
  <2> HIDE DEF P, I
  <2>2. IsFiniteSet(P) BY <2>1, FS_Subset
  <2> QED BY <2>1, <2>2, FS_CardinalityType
<1>4. IsFiniteSet(I) /\ Cardinality(I) = l
  <2>1. o \in Int /\ o + l - 1 \in Int OBVIOUS
  <2>2. IsFiniteSet(I) /\ Cardinality(I) = IF o > o + l - 1 THEN 0 ELSE (o + l - 1) - o + 1
    BY <2>1, FS_Interval
  <2> HIDE DEF I
  <2> QED BY <2>2
<1>5. m <= l
  <2>1. h \in Injection(P, I)
    <3>1. h \in [P -> I] /\ \A i, j \in P : h[i] = h[j] => i = j
      <4> HIDE DEF P, I, T
      <4> QED BY <1>2, <1>3
    <3> HIDE DEF h, P, I
    <3> QED BY <3>1 DEF Injection, IsInjective
  <2> HIDE DEF h, P, I
  <2> QED BY <1>4, <2>1, FS_Injection
<1>6. \A i \in K : Rank(K, i) \in I => i \in P BY DEF Page
<1>7. \A i \in K : Rank(K, i) \in o .. o + m - 1 => i \in P
  <2> HIDE DEF P, T
  <2>1. \A r \in o .. o + m - 1 : r \in I BY <1>3, <1>5
  <2> HIDE DEF I
  <2> QED BY <1>6, <2>1
<1>8. ASSUME m < l, NEW i \in K, Rank(K, i) >= o PROVE i \in P
  <2>1. SUFFICES ASSUME i \notin P PROVE FALSE OBVIOUS
  <2>2. Rank(K, i) \in Nat /\ Rank(K, i) < n BY <1>1, <1>2
  <2>3. Rank(K, i) > o + l - 1
    <3>1. Rank(K, i) \notin I BY <1>6, <2>1
    <3> QED BY <1>8, <2>2, <3>1
  <2>4. \A r \in I : r \in T BY <1>1, <2>2, <2>3
  <2>5. \A r \in I : \E j \in P : h[j] = r
    <3> HIDE DEF I, T, P, h
    <3> QED BY <1>2, <1>3, <1>6, <2>4
  <2>6. h \in Surjection(P, I)
    <3>1. h \in [P -> I]
      <4> HIDE DEF P, I, T
      <4> QED BY <1>3
    <3> HIDE DEF h, P, I
    <3> QED BY <2>5, <3>1 DEF Surjection
  <2>7. l <= m
    <3> HIDE DEF h, P, I
    <3> QED BY <1>3, <1>4, <2>6, FS_Surjection
  <2> QED BY <1>3, <1>8, <2>7
<1> HIDE DEF P, m
<1>9. m \in 0 .. l BY <1>3, <1>5
<1>10. \A i \in K : m < l /\ Rank(K, i) >= o => i \in P BY <1>8
<1> QED BY <1>7, <1>9, <1>10 DEF P, m

LEMMA KeysFacts ==
    ASSUME NodeInv PROVE Keys(db) \in SUBSET Nat /\ IsFiniteSet(Keys(db))
<1>1. db.TX_INDEX \subseteq Blocks BY DEF NodeInv, Stored, Tables
<1>2. Keys(db) \subseteq Heights /\ MaxIndex \in Nat /\ Heights = 0 .. MaxIndex BY <1>1, HeightsFacts DEF Keys
<1>3. IsFiniteSet(0 .. MaxIndex) BY <1>2, FS_Interval
<1>4. Heights \subseteq Nat BY <1>2
<1> QED BY <1>2, <1>3, <1>4, FS_Subset

\* New records can only push what is not yet shown further back.
LEMMA ListOvertaken ==
    ASSUME NEW K \in SUBSET Nat, IsFiniteSet(K), NEW J \in SUBSET Nat, IsFiniteSet(J),
           NEW c, ReadingHistory(c, K),
           NEW e, e = [c EXCEPT !.kept = @ \cap J, !.removed = @ \/ ~(K \subseteq J)]
    PROVE  ReadingHistory(e, J)
<1>1. c \in Lists /\ Shows(c, K) BY DEF ReadingHistory
<1>2. /\ e \in Lists /\ e.kept = c.kept \cap J /\ e.offset = c.offset /\ e.shown = c.shown
      /\ e.all = c.all /\ e.removed = (c.removed \/ ~(K \subseteq J))
  BY <1>1 DEF Lists
<1>3. ASSUME K \subseteq J, NEW i \in K PROVE Rank(K, i) <= Rank(J, i)
  <2>1. Newer(K, i) \in SUBSET Newer(J, i) /\ Newer(J, i) \in SUBSET J BY <1>3 DEF Newer
  <2> QED BY <2>1, FS_Subset DEF Rank
<1>4. ASSUME NEW i \in K PROVE Rank(K, i) \in Nat
  <2>1. Newer(K, i) \in SUBSET K BY DEF Newer
  <2> QED BY <2>1, FS_Subset, FS_CardinalityType DEF Rank
<1>5. ASSUME NEW i \in J PROVE Rank(J, i) \in Nat
  <2>1. Newer(J, i) \in SUBSET J BY DEF Newer
  <2> QED BY <2>1, FS_Subset, FS_CardinalityType DEF Rank
<1>6. c.offset \in Nat /\ c.kept \subseteq K BY <1>1 DEF Lists, Shows
<1>7. ASSUME ~e.removed, NEW i \in e.kept, Rank(J, i) < e.offset PROVE i \in e.shown
  <2>1. i \in c.kept /\ i \in K /\ i \in J /\ K \subseteq J /\ ~c.removed BY <1>2, <1>6, <1>7
  <2>2. Rank(K, i) < c.offset BY <1>2, <1>3, <1>4, <1>5, <1>6, <1>7, <2>1
  <2> QED BY <1>1, <1>2, <2>1, <2>2 DEF Shows
<1>8. e.all /\ ~e.removed => e.kept \subseteq e.shown BY <1>1, <1>2 DEF Shows
<1>9. e.kept \subseteq J BY <1>2
<1>10. Shows(e, J) BY <1>7, <1>8, <1>9 DEF Shows
<1> QED BY <1>2, <1>10 DEF ReadingHistory

LEMMA NodeStepSound ==
    ASSUME QueryInv, NodeInv', client' = Overtaken PROVE ClientSound(client', Keys(db)')
<1>1. Keys(db) \in SUBSET Nat /\ IsFiniteSet(Keys(db)) BY KeysFacts DEF QueryInv
<1>2. Keys(db)' \in SUBSET Nat /\ IsFiniteSet(Keys(db)')
  <2>1. (NodeInv => Keys(db) \in SUBSET Nat /\ IsFiniteSet(Keys(db)))' BY KeysFacts, PTL
  <2> QED BY <2>1
<1>3. CASE client.at \in {"closed", "page"} BY <1>3 DEF Overtaken, ClientSound
<1>4. CASE ReadingBlocks(client)
  <2>1. PICK from, untouched, blocks :
          client = [at |-> "blocks", from |-> from, untouched |-> untouched, blocks |-> blocks]
    BY <1>4 DEF ReadingBlocks
  <2> DEFINE u == untouched /\ ~Rewrites
  <2>2. client' = [client EXCEPT !.untouched = u] BY <2>1 DEF Overtaken
  <2> HIDE DEF u
  <2>3. client' = [at |-> "blocks", from |-> from, untouched |-> u, blocks |-> blocks] BY <2>1, <2>2
  <2> QED BY <2>3 DEF ReadingBlocks, ClientSound
<1>5. CASE ReadingHistory(client, Keys(db))
  <2>1. client.at = "history" BY <1>5 DEF ReadingHistory, Lists
  <2> DEFINE K == Keys(db)
             J == Keys(db)'
  <2>2. client' = [client EXCEPT !.kept = @ \cap J, !.removed = @ \/ ~(K \subseteq J)] BY <2>1 DEF Overtaken
  <2> HIDE DEF K, J
  <2>3. ReadingHistory(client', J) BY <1>1, <1>2, <1>5, <2>2, ListOvertaken DEF K, J
  <2> QED BY <2>3 DEF ClientSound, J
<1> QED BY <1>3, <1>4, <1>5 DEF QueryInv, ClientSound

LEMMA ListGrows ==
    ASSUME NEW c \in Lists, NEW m \in Nat, NEW P \in SUBSET Nat, NEW all \in BOOLEAN,
           NEW e, e = [c EXCEPT !.offset = @ + m, !.shown = @ \cup P, !.all = all]
    PROVE  Grown(e, c, m, P, all)
<1>1. PICK o \in Nat, s \in SUBSET Nat, d \in BOOLEAN, k \in SUBSET Nat, r \in BOOLEAN :
        c = [at |-> "history", offset |-> o, shown |-> s, all |-> d, kept |-> k, removed |-> r]
  <2>1. /\ c.offset \in Nat /\ c.shown \in SUBSET Nat /\ c.all \in BOOLEAN
        /\ c.kept \in SUBSET Nat /\ c.removed \in BOOLEAN
        /\ c = [at |-> "history", offset |-> c.offset, shown |-> c.shown, all |-> c.all,
                kept |-> c.kept, removed |-> c.removed]
    BY DEF Lists
  <2> QED BY <2>1
<1>2. e = [at |-> "history", offset |-> o + m, shown |-> s \cup P, all |-> all, kept |-> k,
           removed |-> r]
  BY <1>1
<1>3. o + m \in Nat /\ s \cup P \in SUBSET Nat OBVIOUS
<1>4. e \in Lists BY <1>2, <1>3 DEF Lists
<1> QED BY <1>1, <1>2, <1>4 DEF Grown

LEMMA LoadMoreSound ==
    ASSUME NodeInv, ClientSound(client, Keys(db)), LoadMore PROVE ClientSound(client', Keys(db))
<1> DEFINE K == Keys(db)
           o == client.offset
           P == Page(K, o, TxBatch)
           m == Cardinality(P)
           e == client'
<1>1. K \in SUBSET Nat /\ IsFiniteSet(K) /\ TxBatch \in Nat BY KeysFacts, QueriesAssumption
<1>2. client.at = "history" /\ ReadingHistory(client, K)
  <2>1. client.at = "history" BY DEF LoadMore, Asking
  <2>2. ~ReadingBlocks(client) BY <2>1 DEF ReadingBlocks
  <2> QED BY <2>1, <2>2 DEF ClientSound
<1>3. client \in Lists /\ Shows(client, K) /\ o \in Nat BY <1>2 DEF ReadingHistory, Lists
<1>4. Transactions(o, TxBatch) = P BY DEF Transactions, Page, Rank
<1> DEFINE all == m < TxBatch
<1>5. e = [client EXCEPT !.offset = @ + m, !.shown = @ \cup P, !.all = all]
  <2> HIDE DEF P
  <2> QED BY <1>4 DEF LoadMore, Ask
<1>6. /\ m \in 0 .. TxBatch
      /\ \A i \in K : Rank(K, i) \in o .. o + m - 1 => i \in P
      /\ all => \A i \in K : Rank(K, i) >= o => i \in P
  <2> HIDE DEF K, o
  <2> QED BY <1>1, <1>3, PageFacts DEF P, m, all
<1>7. P \subseteq K BY DEF Page
<1>8. \A i \in K : Rank(K, i) \in Nat
  <2>1. \A i \in K : Newer(K, i) \in SUBSET K BY DEF Newer
  <2> HIDE DEF K
  <2> QED BY <1>1, <2>1, FS_Subset, FS_CardinalityType DEF Rank
<1>9. all \in BOOLEAN OBVIOUS
<1> HIDE DEF K, P, m, all, e
<1>10. e \in Lists /\ e.offset = o + m /\ e.shown = client.shown \cup P /\ e.all = all
       /\ e.kept = client.kept /\ e.removed = client.removed
  <2>1. m \in Nat /\ P \subseteq Nat BY <1>1, <1>6, <1>7
  <2> QED
    <3>1. Grown(e, client, m, P, all)
      <4> HIDE DEF o
      <4> QED BY <1>3, <1>5, <1>9, <2>1, ListGrows
    <3> QED BY <3>1 DEF Grown
<1>11. client.kept \subseteq K BY <1>3 DEF Shows
<1>12. ASSUME ~e.removed, NEW i \in e.kept, Rank(K, i) < e.offset PROVE i \in e.shown
  <2>1. i \in client.kept /\ i \in K /\ Rank(K, i) \in Nat /\ Rank(K, i) < o + m /\ ~client.removed
    BY <1>8, <1>10, <1>11, <1>12
  <2>2. CASE Rank(K, i) < o BY <1>3, <1>10, <2>1, <2>2 DEF Shows
  <2>3. CASE ~(Rank(K, i) < o)
    <3>1. Rank(K, i) \in o .. o + m - 1 BY <1>3, <1>6, <2>1, <2>3
    <3> QED BY <1>6, <1>10, <2>1, <3>1
  <2> QED BY <2>2, <2>3
<1>13. ASSUME e.all, ~e.removed, NEW i \in e.kept PROVE i \in e.shown
  <2>1. i \in client.kept /\ i \in K /\ Rank(K, i) \in Nat /\ ~client.removed /\ all
    BY <1>8, <1>10, <1>11, <1>13
  <2>2. CASE Rank(K, i) < o BY <1>3, <1>10, <2>1, <2>2 DEF Shows
  <2>3. CASE ~(Rank(K, i) < o) BY <1>3, <1>6, <1>10, <2>1, <2>3
  <2> QED BY <2>2, <2>3
<1>14. Shows(e, K) BY <1>10, <1>11, <1>12, <1>13 DEF Shows
<1> QED BY <1>10, <1>14 DEF ClientSound, ReadingHistory, K, e

LEMMA OpenAddressSound ==
    ASSUME NodeInv, OpenAddress PROVE ClientSound(client', Keys(db))
<1> DEFINE K == Keys(db)
           e == client'
<1>1. e = [at |-> "history", offset |-> 0, shown |-> {}, all |-> FALSE, kept |-> K, removed |-> FALSE]
  BY DEF OpenAddress, Ask
<1>2. K \in SUBSET Nat /\ IsFiniteSet(K) BY KeysFacts
<1>3. \A i \in K : ~(Rank(K, i) < 0)
  <2>1. \A i \in K : Newer(K, i) \in SUBSET K BY DEF Newer
  <2> HIDE DEF K
  <2>2. \A i \in K : Rank(K, i) \in Nat BY <1>2, <2>1, FS_Subset, FS_CardinalityType DEF Rank
  <2> QED BY <2>2
<1> HIDE DEF K, e
<1>4. e \in Lists /\ Shows(e, K) BY <1>1, <1>2, <1>3 DEF Lists, Shows
<1> QED BY <1>4 DEF ClientSound, ReadingHistory, K, e

LEMMA QuerySteps ==
    ASSUME QueryInv, [NextServing]_queryVars PROVE QueryInv'
<1>1. NodeInv /\ ClientSound(client, Keys(db)) BY DEF QueryInv
<1>2. NodeInv'
  <2>1. [Next \/ NextRebooting]_vars
    BY DEF NextServing, Next, Query, queryVars, vars, Ask, ReadBlocks, ReadPayouts, OpenAddress,
           LoadMore, CloseQuery
  <2> QED BY <1>1, <2>1, NextInv
<1>3. CASE client' = Overtaken BY <1>2, <1>3, NodeStepSound DEF QueryInv
<1>4. CASE client' = Closed
  <2>1. client'.at = "closed" BY <1>4 DEF Closed
  <2> QED BY <1>2, <2>1 DEF QueryInv, ClientSound
<1>5. CASE Query
  <2>1. db' = db BY <1>5 DEF Query, Ask, vars, ReadBlocks, ReadPayouts, OpenAddress, LoadMore, CloseQuery
  <2>2. ASSUME NEW from \in PageStarts, ReadBlocks(from) PROVE ClientSound(client', Keys(db))
    <3>1. ReadingBlocks(client') BY <2>2 DEF ReadBlocks, Ask, ReadingBlocks
    <3> QED BY <3>1 DEF ClientSound
  <2>3. ASSUME ReadPayouts PROVE ClientSound(client', Keys(db))
    <3>1. client'.at = "page" BY <2>3 DEF ReadPayouts, Ask
    <3> QED BY <3>1 DEF ClientSound
  <2>4. ASSUME OpenAddress PROVE ClientSound(client', Keys(db)) BY <1>1, <2>4, OpenAddressSound
  <2>5. ASSUME LoadMore PROVE ClientSound(client', Keys(db)) BY <1>1, <2>5, LoadMoreSound
  <2>6. ASSUME CloseQuery PROVE ClientSound(client', Keys(db))
    <3>1. client'.at = "closed" BY <2>6 DEF CloseQuery, Ask, Closed
    <3> QED BY <3>1 DEF ClientSound
  <2>7. ClientSound(client', Keys(db)) BY <1>5, <2>2, <2>3, <2>4, <2>5, <2>6 DEF Query
  <2> QED BY <1>2, <2>1, <2>7 DEF QueryInv, Keys
<1>6. CASE UNCHANGED queryVars BY <1>1, <1>2, <1>6 DEF queryVars, vars, QueryInv, Keys
<1> QED BY <1>3, <1>4, <1>5, <1>6 DEF NextServing

\* Blocks that arrive between the pages of a history push no record that was
\* there all along past the list, whatever the page size and through restarts of
\* the node: when the list is complete it holds them all, unless a reorg took
\* records out (db.rs:246-283, explorer.js loadMoreTxs).
THEOREM PagesSkipNothing == SpecServing => []HistoryHasNoGap
<1>1. Init /\ client = Closed => QueryInv BY InitInv DEF QueryInv, ClientSound, Closed
<1>2. QueryInv => HistoryHasNoGap
  <2> SUFFICES ASSUME QueryInv, client.at = "history", client.all, ~client.removed
               PROVE  client.kept \subseteq client.shown
    BY DEF HistoryHasNoGap
  <2>1. ~ReadingBlocks(client) BY DEF ReadingBlocks
  <2>2. ReadingHistory(client, Keys(db)) BY <2>1 DEF QueryInv, ClientSound
  <2> QED BY <2>2 DEF ReadingHistory, Shows
<1> QED BY <1>1, <1>2, QuerySteps, PTL DEF SpecServing

=============================================================================
