--------------------------- MODULE DifficultyProofs ---------------------------
(***************************************************************************)
(* What module Difficulty promises, for every target, window, limit and    *)
(* checkpoint interval, and blocks in any order: the difficulty depends on *)
(* the chain alone, a block mined by the rules is only refused where the   *)
(* property says so, a reorg whose blocks are in time completes, and a     *)
(* restart of an ascending chain keeps it.                                 *)
(***************************************************************************)
EXTENDS Difficulty, FoldTheorems, SequenceTheorems

-----------------------------------------------------------------------------
\* Prefixes of blocks.
LEMMA UptoFacts ==
    ASSUME NEW b \in Seq(Nat), NEW n \in 1 .. Len(b)
    PROVE  /\ Upto(b, n) \in Seq(Nat) /\ Len(Upto(b, n)) = n
           /\ \A i \in 1 .. n : Upto(b, n)[i] = b[i]
<1>1. n \in Nat /\ Len(b) \in Nat /\ \A i \in 1 .. n : b[i] \in Nat
  OBVIOUS
<1> QED
  BY <1>1, SubSeqProperties DEF Upto

LEMMA UptoWhole == ASSUME NEW b \in Seq(Nat) PROVE Upto(b, Len(b)) = b
  BY SubSeqFull DEF Upto

\* Two sequences with the same elements up to a position agree up to there.
LEMMA UptoSame ==
    ASSUME NEW b \in Seq(Nat), NEW d \in Seq(Nat), NEW n \in 1 .. Len(b), n <= Len(d),
           \A i \in 1 .. n : b[i] = d[i]
    PROVE  Upto(b, n) = Upto(d, n)
<1> DEFINE p == Upto(b, n)
           q == Upto(d, n)
<1>1. n \in 1 .. Len(d)
  OBVIOUS
<1>2. p \in Seq(Nat) /\ Len(p) = n /\ \A i \in 1 .. n : p[i] = b[i]
  BY UptoFacts
<1>3. q \in Seq(Nat) /\ Len(q) = n /\ \A i \in 1 .. n : q[i] = d[i]
  BY <1>1, UptoFacts
<1> HIDE DEF p, q
<1>4. Len(p) = Len(q) /\ \A i \in 1 .. Len(p) : p[i] = q[i]
  BY <1>2, <1>3
<1>5. p = q
  BY <1>2, <1>3, <1>4, SeqEqual
<1> QED
  BY <1>5 DEF p, q

LEMMA UptoUpto ==
    ASSUME NEW b \in Seq(Nat), NEW n \in 1 .. Len(b), NEW m \in 1 .. n
    PROVE  Upto(Upto(b, n), m) = Upto(b, m)
<1> DEFINE d == Upto(b, n)
<1>1. d \in Seq(Nat) /\ Len(d) = n /\ \A i \in 1 .. n : d[i] = b[i]
  BY UptoFacts
<1>2. m \in 1 .. Len(d) /\ m <= Len(b) /\ \A i \in 1 .. m : d[i] = b[i]
  BY <1>1
<1> HIDE DEF d
<1> QED
  BY <1>1, <1>2, UptoSame DEF d

\* The parent of a block is the block without its last timestamp.
LEMMA ParentFacts ==
    ASSUME NEW b \in Seq(Nat), Len(b) >= 2
    PROVE  /\ Parent(b) = Upto(b, Len(b) - 1) /\ Len(b) - 1 \in 1 .. Len(b)
           /\ Parent(b) \in Seq(Nat) /\ Len(Parent(b)) = Len(b) - 1
           /\ Timestamp(b) = b[Len(b)] /\ Index(b) = Len(b) - 1
<1>1. Len(b) - 1 \in 1 .. Len(b)
  OBVIOUS
<1>2. Parent(b) = Upto(b, Len(b) - 1)
  BY DEF Parent, Front, Upto
<1> QED
  BY <1>1, <1>2, UptoFacts DEF Timestamp, Last, Index

\* Blocks mined by the rules, within the bound of the model.
Mined(b) == b \in Seq(Nat) /\ Len(b) >= 1 /\ Len(b) <= MaxHeight + 1 /\ b[1] = 0 /\ Valid(b)
Blocks == {b \in Seq(Nat) : Mined(b)}

LEMMA BlockFacts ==
    ASSUME NEW b \in Blocks
    PROVE  /\ b \in Seq(Nat) /\ Len(b) \in Nat /\ Len(b) >= 1 /\ Len(b) <= MaxHeight + 1
           /\ b[1] = 0 /\ Valid(b) /\ MaxHeight \in Nat
           /\ \A i \in 1 .. Len(b) : b[i] \in Nat
  BY DifficultyAssumption, SMTT(30) DEF Blocks, Mined

LEMMA UptoBlock ==
    ASSUME NEW b \in Blocks, NEW n \in 1 .. Len(b)
    PROVE  Upto(b, n) \in Blocks /\ Len(Upto(b, n)) = n
<1> DEFINE d == Upto(b, n)
<1>1. d \in Seq(Nat) /\ Len(d) = n /\ \A i \in 1 .. n : d[i] = b[i]
  BY BlockFacts, UptoFacts
<1>2. Len(b) \in Nat /\ n \in Nat /\ n >= 1 /\ n <= MaxHeight + 1 /\ d[1] = 0
  BY <1>1, BlockFacts
<1>3. Valid(d)
  <2>1. SUFFICES ASSUME NEW i \in 2 .. n
                 PROVE  d[i] > Median(LastOf(Upto(d, i - 1), MtpWindow))
    BY <1>1 DEF Valid
  <2>2. i \in 2 .. Len(b) /\ i - 1 \in 1 .. n /\ i \in 1 .. n
    BY <1>2
  <2>3. Upto(d, i - 1) = Upto(b, i - 1)
    BY <2>2, BlockFacts, UptoUpto
  <2>4. b[i] > Median(LastOf(Upto(b, i - 1), MtpWindow))
    BY <2>2, BlockFacts DEF Valid
  <2> HIDE DEF d
  <2> QED
    BY <1>1, <2>2, <2>3, <2>4
<1> HIDE DEF d
<1> QED
  BY <1>1, <1>2, <1>3 DEF Blocks, Mined, d

\* The blocks that arrive are such blocks.
LEMMA ValidBlocksFacts == \A b \in ValidBlocks : b \in Blocks /\ Len(b) >= 2
<1> SUFFICES ASSUME NEW b \in ValidBlocks PROVE b \in Blocks /\ Len(b) >= 2
  OBVIOUS
<1>1. PICK n \in 2 .. MaxHeight + 1 : b \in [1 .. n -> 0 .. MaxTime]
  BY DEF ValidBlocks
<1>2. MaxHeight \in Nat /\ MaxTime \in Nat
  BY DifficultyAssumption
<1>3. b \in Seq(Nat) /\ Len(b) = n
  BY <1>1, <1>2
<1> QED
  BY <1>1, <1>2, <1>3 DEF ValidBlocks, Blocks, Mined

-----------------------------------------------------------------------------
\* What the chain in memory is worth: its difficulty and anchor are those that
\* its path alone determines.
Anchors == [height : Nat, timestamp : Nat, difficulty : Nat]
States ==
    [path : Blocks, offset : Nat, known : Nat, anchor : Anchors, difficulty : Int,
     orphans : SUBSET Blocks]
AnchorOn(p) ==
    IF Len(p) < 2 THEN NoAnchor
    ELSE [height |-> 1, timestamp |-> p[2], difficulty |-> InitialDifficulty]
Sane(c) ==
    /\ c.difficulty = RequiredOn(c.path) /\ c.anchor = AnchorOn(c.path)
    /\ c.offset < Len(c.path)
    /\ \A o \in c.orphans : Len(o) >= 2
Chains == {c \in States : Sane(c)}

LEMMA ClampFacts ==
    /\ \A d \in Int : Clamp(d) \in Int
    /\ InitialDifficulty >= MinDifficulty => Clamp(InitialDifficulty) = InitialDifficulty
  BY DifficultyAssumption DEF Clamp, MaxOf

\* The formula of update_state, from the anchor the path determines, is what the
\* path requires of the next block.
LEMMA FormulaFacts ==
    ASSUME NEW p \in Blocks
    PROVE  /\ RequiredOn(p) \in Int
           /\ Len(p) <= 2 \/ InitialDifficulty < MinDifficulty =>
                RequiredOn(p) = InitialDifficulty
           /\ Len(p) >= 2 /\ InitialDifficulty >= MinDifficulty =>
                RequiredOn(p) = Asert(AnchorOn(p), Index(p), Timestamp(p))
<1>1. /\ Len(p) \in Nat /\ Len(p) >= 1 /\ \A i \in 1 .. Len(p) : p[i] \in Nat
      /\ InitialDifficulty \in Nat /\ TargetBlockTime \in Nat
  BY BlockFacts, DifficultyAssumption
<1>2. Last(p) = p[Len(p)] /\ p[Len(p)] \in Nat /\ Timestamp(p) = Last(p) /\ Index(p) = Len(p) - 1
  BY <1>1 DEF Last, Timestamp, Index
<1> DEFINE base == (Len(p) - 2) * TargetBlockTime
<1>3. base \in Int
  <2>1. Len(p) - 2 \in Int
    BY <1>1
  <2> QED
    BY <1>1, <2>1
<1> DEFINE low == InitialDifficulty < MinDifficulty
           short == Len(p) < 2
<1>l. MinDifficulty \in Nat /\ (~low <=> InitialDifficulty >= MinDifficulty)
      /\ (~short <=> Len(p) >= 2) /\ (short => Len(p) <= 2)
  BY <1>1, DifficultyAssumption
<1>r. /\ short \/ low => RequiredOn(p) = InitialDifficulty
      /\ ~short /\ ~low => RequiredOn(p) = Clamp(InitialDifficulty + (base - Since(Last(p), p[2])))
  BY Zenon DEF RequiredOn
<1> HIDE DEF low, base, short
<1>4. CASE short \/ low
  <2>1. RequiredOn(p) = InitialDifficulty
    BY <1>4, <1>r
  <2>2. ~(Len(p) >= 2 /\ InitialDifficulty >= MinDifficulty)
    BY <1>4, <1>l
  <2> QED
    BY <1>1, <2>1, <2>2
<1>5. CASE ~short /\ ~low
  <2>0. Len(p) >= 2 /\ 2 \in 1 .. Len(p)
    BY <1>1, <1>5, <1>l
  <2>1. p[2] \in Nat /\ RequiredOn(p) = Clamp(InitialDifficulty + (base - Since(Last(p), p[2])))
    BY <1>1, <1>5, <1>r, <2>0
  <2>2. Since(Last(p), p[2]) \in Int
    BY <1>2, <2>1 DEF Since, MaxOf
  <2>3. InitialDifficulty + (base - Since(Last(p), p[2])) \in Int
    BY <1>1, <1>3, <2>2
  <2>4. RequiredOn(p) \in Int
    BY <2>1, <2>3, ClampFacts
  <2>5. ASSUME Len(p) <= 2 PROVE RequiredOn(p) = InitialDifficulty
    <3>1. Len(p) = 2
      <4> DEFINE n == Len(p)
      <4>1. n \in Nat /\ n >= 2 /\ n <= 2
        BY <1>1, <2>0, <2>5
      <4> HIDE DEF n
      <4>2. n = 2
        BY <4>1
      <4> QED
        BY <4>2 DEF n
    <3>2. base = 0 /\ Since(Last(p), p[2]) = 0
      <4>1. (Len(p) - 2) * TargetBlockTime = 0
        BY <1>1, <3>1
      <4> QED
        BY <1>1, <1>2, <2>1, <3>1, <4>1 DEF Since, MaxOf, base
    <3>3. InitialDifficulty + (base - Since(Last(p), p[2])) = InitialDifficulty
      BY <1>1, <3>2
    <3> QED
      BY <1>5, <1>l, <2>1, <3>3, ClampFacts
  <2>6. RequiredOn(p) = Asert(AnchorOn(p), Index(p), Timestamp(p))
    <3>1. AnchorOn(p) = [height |-> 1, timestamp |-> p[2], difficulty |-> InitialDifficulty]
      BY <1>1, <2>0 DEF AnchorOn
    <3>2. Index(p) - 1 = Len(p) - 2
      BY <1>1, <1>2
    <3>3. Asert(AnchorOn(p), Index(p), Timestamp(p))
            = Clamp(InitialDifficulty + ((Index(p) - 1) * TargetBlockTime - Since(Timestamp(p), p[2])))
      BY <3>1 DEF Asert
    <3>4. (Index(p) - 1) * TargetBlockTime = base
      BY <3>2 DEF base
    <3>5. Asert(AnchorOn(p), Index(p), Timestamp(p)) = Clamp(InitialDifficulty + (base - Since(Last(p), p[2])))
      BY Zenon, <1>2, <3>3, <3>4
    <3> QED
      BY Zenon, <2>1, <3>5
  <2>7. ~(Len(p) <= 2 \/ low) \/ Len(p) <= 2
    BY <1>5
  <2> QED
    BY <1>5, <2>4, <2>5, <2>6 DEF low
<1> QED
  BY <1>4, <1>5

LEMMA GenesisFacts ==
    /\ GenesisChain \in Chains /\ GenesisChain.path = <<0>> /\ GenesisChain.offset = 0
    /\ GenesisChain.known = 0 /\ GenesisChain.orphans = {}
    /\ <<0>> \in Blocks /\ Len(<<0>>) = 1
<1>1. <<0>> \in Blocks
  <2>1. <<0>> \in Seq(Nat) /\ Len(<<0>>) = 1 /\ <<0>>[1] = 0 /\ 2 .. 1 = {}
    OBVIOUS
  <2>2. Valid(<<0>>)
    BY <2>1 DEF Valid
  <2>3. Len(<<0>>) <= MaxHeight + 1
    BY <2>1, DifficultyAssumption
  <2> QED
    BY <2>1, <2>2, <2>3 DEF Blocks, Mined
<1>2. Len(<<0>>) = 1 /\ RequiredOn(<<0>>) = InitialDifficulty
  BY DEF RequiredOn
<1>3. NoAnchor \in Anchors /\ AnchorOn(<<0>>) = NoAnchor /\ InitialDifficulty \in Int
  BY DifficultyAssumption DEF NoAnchor, Anchors, AnchorOn
<1>4. GenesisChain \in States
  BY <1>1, <1>3 DEF GenesisChain, States
<1>5. /\ GenesisChain.path = <<0>> /\ GenesisChain.offset = 0 /\ GenesisChain.known = 0
      /\ GenesisChain.orphans = {} /\ GenesisChain.anchor = NoAnchor
      /\ GenesisChain.difficulty = InitialDifficulty
  BY DEF GenesisChain
<1>6. Sane(GenesisChain)
  BY <1>2, <1>3, <1>5 DEF Sane
<1> QED
  BY <1>1, <1>2, <1>4, <1>5, <1>6 DEF Chains

LEMMA ChainFacts ==
    ASSUME NEW c \in Chains
    PROVE  /\ c.path \in Blocks /\ c.offset \in Nat /\ c.known \in Nat
           /\ c.orphans \in SUBSET Blocks /\ \A o \in c.orphans : Len(o) >= 2
           /\ c.difficulty = RequiredOn(c.path) /\ c.anchor = AnchorOn(c.path)
           /\ c.offset < Len(c.path)
  BY DEF Chains, States, Sane

\* A block on top of the path.
LEMMA UpdateFacts ==
    ASSUME NEW c \in Chains, NEW b \in Blocks, Len(b) >= 2, Parent(b) = c.path
    PROVE  /\ UpdateState(c, b) \in Chains
           /\ UpdateState(c, b).path = b /\ UpdateState(c, b).offset = c.offset
           /\ UpdateState(c, b).known = c.known /\ UpdateState(c, b).orphans = c.orphans
<1> DEFINE p == c.path
           d == UpdateState(c, b)
           first == Index(b) = 1
           fixed == c.anchor = NoAnchor \/ c.anchor.difficulty < MinDifficulty
           anchor == IF first THEN [height |-> 1, timestamp |-> Timestamp(b),
                                    difficulty |-> c.difficulty] ELSE c.anchor
           difficulty == IF first \/ fixed THEN c.difficulty
                         ELSE Asert(c.anchor, Index(b), Timestamp(b))
<1>1. c \in States /\ p \in Blocks /\ c.difficulty = RequiredOn(p) /\ c.anchor = AnchorOn(p)
      /\ c.offset \in Nat /\ c.offset < Len(p)
  BY ChainFacts DEF Chains
<1>2. /\ Index(b) = Len(b) - 1 /\ Timestamp(b) = b[Len(b)] /\ p = Upto(b, Len(b) - 1)
      /\ Len(p) = Len(b) - 1 /\ Len(b) \in Nat /\ Len(p) \in Nat /\ b \in Seq(Nat)
      /\ \A i \in 1 .. Len(b) : b[i] \in Nat
  BY BlockFacts, ParentFacts
<1>3. d = [c EXCEPT !.path = b, !.anchor = anchor, !.difficulty = difficulty]
  BY DEF UpdateState
<1>f. /\ first <=> Len(b) = 2
      /\ first => Len(p) = 1 /\ Len(p) <= 2
      /\ ~first => Len(p) >= 2 /\ 2 \in 1 .. (Len(b) - 1) /\ ~(Len(b) <= 2)
  <2> DEFINE m == Len(b)
             n == Len(p)
  <2>1. m \in Nat /\ n \in Nat /\ m >= 2 /\ n = m - 1 /\ Index(b) = m - 1
    BY <1>2
  <2> HIDE DEF m, n
  <2>2. (first <=> m - 1 = 1)
    BY <2>1
  <2> HIDE DEF first
  <2>3. /\ first <=> m = 2
        /\ first => n = 1 /\ n <= 2
        /\ ~first => n >= 2 /\ 2 \in 1 .. (m - 1) /\ ~(m <= 2)
    BY <2>1, <2>2
  <2> QED
    BY <2>3 DEF m, n
<1> HIDE DEF first
<1>4. InitialDifficulty \in Nat /\ MinDifficulty \in Nat
  BY DifficultyAssumption
<1>5. anchor = AnchorOn(b) /\ AnchorOn(b) \in Anchors
  <2>1. b[2] \in Nat /\ 2 \in 1 .. Len(b)
    BY <1>2
  <2>2. AnchorOn(b) = [height |-> 1, timestamp |-> b[2], difficulty |-> InitialDifficulty]
    BY <1>2 DEF AnchorOn
  <2>3. CASE first
    <3>1. Len(b) = 2 /\ Len(p) = 1
      BY <1>f, <2>3
    <3>2. c.difficulty = InitialDifficulty
      BY <1>1, <1>f, <2>3, FormulaFacts
    <3> QED
      BY <1>2, <1>4, <2>1, <2>2, <2>3, <3>1, <3>2 DEF Anchors
  <2>4. CASE ~first
    <3>1. Len(p) >= 2 /\ 2 \in 1 .. (Len(b) - 1)
      BY <1>f, <2>4
    <3>2. p[2] = b[2]
      <4>1. Len(b) - 1 \in 1 .. Len(b)
        BY <1>2
      <4>2. \A i \in 1 .. (Len(b) - 1) : Upto(b, Len(b) - 1)[i] = b[i]
        BY <1>2, <4>1, UptoFacts
      <4> QED
        BY <1>2, <3>1, <4>2
    <3> QED
      BY <1>1, <1>4, <2>1, <2>2, <2>4, <3>1, <3>2 DEF AnchorOn, Anchors
  <2> QED
    BY <2>3, <2>4
<1>6. difficulty = RequiredOn(b) /\ RequiredOn(b) \in Int
  <2>1. RequiredOn(b) \in Int
    BY FormulaFacts
  <2>2. CASE first
    <3>1. Len(b) <= 2 /\ Len(p) <= 2
      BY <1>2, <1>f, <2>2
    <3>2. RequiredOn(b) = InitialDifficulty /\ RequiredOn(p) = InitialDifficulty
      BY <1>1, <3>1, FormulaFacts
    <3>3. difficulty = c.difficulty
      BY <2>2
    <3> HIDE DEF difficulty
    <3> QED
      BY <1>1, <2>1, <3>2, <3>3
  <2>3. CASE ~first
    <3>1. Len(p) >= 2 /\ c.anchor = AnchorOn(b)
      BY <1>f, <1>5, <2>3
    <3>2. AnchorOn(b) # NoAnchor /\ AnchorOn(b).difficulty = InitialDifficulty
      <4>1. AnchorOn(b) = [height |-> 1, timestamp |-> b[2], difficulty |-> InitialDifficulty]
        BY <1>2 DEF AnchorOn
      <4>2. AnchorOn(b).height = 1 /\ NoAnchor.height = 0
        BY <4>1 DEF NoAnchor
      <4> QED
        BY <4>1, <4>2
    <3>3. fixed <=> InitialDifficulty < MinDifficulty
      BY <3>1, <3>2
    <3>4. CASE InitialDifficulty < MinDifficulty
      <4>1. RequiredOn(p) = InitialDifficulty /\ RequiredOn(b) = InitialDifficulty
        BY <1>1, <3>4, FormulaFacts
      <4> QED
        BY <1>1, <2>1, <3>3, <3>4, <4>1
    <3>5. CASE InitialDifficulty >= MinDifficulty
      <4>1. RequiredOn(b) = Asert(AnchorOn(b), Index(b), Timestamp(b))
        BY <3>5, FormulaFacts
      <4>2. ~fixed
        BY <1>4, <3>3, <3>5
      <4>3. difficulty = Asert(c.anchor, Index(b), Timestamp(b))
        BY <2>3, <4>2
      <4> HIDE DEF difficulty, fixed, first
      <4> QED
        BY <2>1, <3>1, <4>1, <4>3
    <3> QED
      BY <1>4, <3>4, <3>5
  <2> QED
    BY <2>2, <2>3
<1> HIDE DEF anchor, difficulty, d
<1>7. /\ d.path = b /\ d.offset = c.offset /\ d.known = c.known /\ d.orphans = c.orphans
      /\ d.anchor = anchor /\ d.difficulty = difficulty /\ d \in States
  BY <1>1, <1>3, <1>5, <1>6 DEF States
<1>8. d.offset < Len(b) /\ \A o \in d.orphans : Len(o) >= 2
  BY <1>1, <1>2, <1>7, ChainFacts
<1>9. d \in Chains
  BY <1>5, <1>6, <1>7, <1>8 DEF Chains, Sane
<1> QED
  BY <1>7, <1>9 DEF d

-----------------------------------------------------------------------------
\* When the window covers what the median is taken over, the checks of
\* update_state refuse a block on top only for being ahead of the clock.
LEMMA TailOfWindow ==
    ASSUME NEW p \in Seq(Nat), NEW n \in Nat, n = Len(p), NEW w \in Nat, w < n,
           NEW M \in Nat, M >= 1
    PROVE  /\ SubSeq(p, w + 1, n) \in Seq(Nat) /\ Len(SubSeq(p, w + 1, n)) = n - w
           /\ n - w >= M => LastOf(SubSeq(p, w + 1, n), M) = LastOf(p, M)
<1> DEFINE W == SubSeq(p, w + 1, n)
<1>1. w + 1 \in Int /\ w + 1 <= n /\ n - (w + 1) + 1 = n - w /\ \A i \in w + 1 .. n : p[i] \in Nat
  OBVIOUS
<1>2. W \in Seq(Nat) /\ Len(W) = n - w
  <2>1. /\ SubSeq(p, w + 1, n) \in Seq(Nat)
        /\ Len(SubSeq(p, w + 1, n)) = IF w + 1 <= n THEN n - (w + 1) + 1 ELSE 0
    BY <1>1, SubSeqProperties
  <2> QED
    BY <1>1, <2>1
<1>3. ASSUME n - w >= M PROVE LastOf(W, M) = LastOf(p, M)
  <2> DEFINE d == n - w - M
  <2>1. /\ d + 1 \in 1 .. (n - w) /\ n - w \in 1 .. (n - w) /\ d >= 0 /\ n - M >= 0
        /\ w + 1 \in 1 .. n /\ n \in 1 .. n
        /\ (w + 1) + (d + 1) - 1 = n - M + 1 /\ (w + 1) + (n - w) - 1 = n
    BY <1>3
  <2>2. MaxOf(n - w - M, 0) = d /\ MaxOf(n - M, 0) = n - M
    BY <2>1 DEF MaxOf
  <2>3. LastOf(W, M) = SubSeq(SubSeq(p, w + 1, n), d + 1, n - w) /\ LastOf(p, M) = SubSeq(p, n - M + 1, n)
    BY <1>2, <2>2 DEF LastOf
  <2> HIDE DEF d
  <2>4. SubSeq(SubSeq(p, w + 1, n), d + 1, n - w)
          = SubSeq(p, (w + 1) + (d + 1) - 1, (w + 1) + (n - w) - 1)
    <3>1. d + 1 \in 1 .. (n - (w + 1) + 1) /\ n - w \in 1 .. (n - (w + 1) + 1)
      BY <1>1, <2>1
    <3>2. w + 1 \in 1 .. Len(p) /\ n \in 1 .. Len(p)
      BY <2>1
    <3> DEFINE i == w + 1
               x == d + 1
               y == n - w
    <3>3. i \in 1 .. Len(p) /\ x \in 1 .. (n - i + 1) /\ y \in 1 .. (n - i + 1)
      BY <3>1, <3>2
    <3> HIDE DEF i, x, y
    <3>4. SubSeq(SubSeq(p, i, n), x, y) = SubSeq(p, i + x - 1, i + y - 1)
      BY <3>2, <3>3, SubSeqOfSubSeq
    <3> QED
      BY <3>4 DEF i, x, y
  <2> QED
    BY <2>1, <2>3, <2>4
<1> QED
  BY <1>2, <1>3

LEMMA WindowTail ==
    ASSUME NEW c \in Chains, c.offset = 0 \/ Len(Window(c)) >= MtpWindow
    PROVE  LastOf(Window(c), MtpWindow) = LastOf(c.path, MtpWindow)
<1> DEFINE p == c.path
           n == Len(c.path)
           w == c.offset
           M == MtpWindow
<1>1. p \in Seq(Nat) /\ n \in Nat /\ w \in Nat /\ w < n /\ M \in Nat /\ M >= 1 /\ n = Len(p)
  BY ChainFacts, BlockFacts, DifficultyAssumption
<1>2. Window(c) = SubSeq(p, w + 1, n)
  BY DEF Window
<1>3. CASE w = 0
  <2>1. Window(c) = p
    BY <1>1, <1>3, SubSeqFull DEF Window
  <2> QED
    BY <2>1
<1>4. CASE w # 0
  <2>1. Len(Window(c)) >= M
    BY <1>4
  <2> HIDE DEF p, n, w, M
  <2>2. n - w >= M
    BY <1>1, <1>2, <2>1, TailOfWindow
  <2>3. LastOf(Window(c), M) = LastOf(p, M)
    BY <1>1, <1>2, <2>2, TailOfWindow
  <2> QED
    BY <2>3 DEF p, M
<1> QED
  BY <1>3, <1>4

LEMMA AcceptedOnTop ==
    ASSUME NEW c \in Chains, c.offset = 0 \/ Len(Window(c)) >= MtpWindow,
           NEW b \in Blocks, Len(b) >= 2, Parent(b) = c.path, InTime(b)
    PROVE  Accepts(c, b)
<1>1. c.path = Upto(b, Len(b) - 1) /\ Timestamp(b) = b[Len(b)] /\ Len(b) \in 2 .. Len(b)
  BY BlockFacts, ParentFacts
<1>2. b[Len(b)] > Median(LastOf(Upto(b, Len(b) - 1), MtpWindow))
  BY <1>1, BlockFacts DEF Valid
<1>3. Timestamp(b) > Median(LastOf(Window(c), MtpWindow))
  BY <1>1, <1>2, WindowTail
<1>4. Met(b) = c.difficulty /\ c.difficulty \in Int
  BY ChainFacts, FormulaFacts DEF Met
<1>5. Met(b) >= c.difficulty
  BY <1>4
<1> QED
  BY <1>3, <1>5 DEF Accepts

\* A step of the replay of a reorg.
LEMMA TryType ==
    ASSUME NEW c \in Chains, NEW b \in Blocks, Len(b) >= 2
    PROVE  TryBlock(c, b) \in Chains
<1>1. CASE Accepts(c, b)
  <2>1. Parent(b) = c.path
    BY <1>1 DEF Accepts
  <2> QED
    BY <1>1, <2>1, UpdateFacts DEF TryBlock
<1> QED
  BY <1>1 DEF TryBlock

-----------------------------------------------------------------------------
\* Sequences of mined blocks above genesis, which the replays run over.
Runs == {t \in Seq(Blocks) : \A i \in 1 .. Len(t) : Len(t[i]) >= 2}

\* The replay of a reorg, block by block.
LEMMA TryRun ==
    ASSUME NEW t \in Runs
    PROVE  \E h \in [0 .. Len(t) -> Chains] :
              /\ h[0] = GenesisChain /\ h[Len(t)] = FoldLeft(TryBlock, GenesisChain, t)
              /\ \A i \in 1 .. Len(t) : h[i] = TryBlock(h[i - 1], t[i])
<1> DEFINE n == Len(t)
           op == [p \in (1 .. n) \X Chains |-> TryBlock(p[2], t[p[1]])]
           eq(f) == f = [U \in SUBSET (1 .. n) |->
                           IF U = {} THEN GenesisChain ELSE TryBlock(f[U \ {Max(U)}], t[Max(U)])]
           k == CHOOSE f : eq(f)
<1>1. n \in Nat /\ DOMAIN t = 1 .. n /\ \A i \in 1 .. n : t[i] \in Blocks /\ Len(t[i]) >= 2
  BY DEF Runs
<1>2. FoldLeft(TryBlock, GenesisChain, t) = k[1 .. n]
  BY <1>1 DEF FoldLeft, MapThenFoldSet
<1>3. GenesisChain \in Chains
  BY GenesisFacts
<1>4. op \in [(1 .. n) \X Chains -> Chains] /\ \A i \in 1 .. n, m \in Chains : op[<<i, m>>] = TryBlock(m, t[i])
  BY <1>1, TryType
<1>5. \A U \in (SUBSET (1 .. n)) \ {{}} : Max(U) \in 1 .. n
  BY <1>1, MaxIsMember
<1>6. eq(k)
  <2> HIDE DEF n, op
  <2>1. PICK g \in [SUBSET (1 .. n) -> Chains] : MaxFold(g, n, GenesisChain, op)
    BY <1>1, <1>3, <1>4, LeftFoldExists
  <2>2. \A U \in SUBSET (1 .. n) :
            g[U] = IF U = {} THEN GenesisChain ELSE TryBlock(g[U \ {Max(U)}], t[Max(U)])
    BY <1>4, <1>5, <2>1 DEF MaxFold
  <2>3. eq(g)
    BY <2>2
  <2> HIDE DEF eq
  <2> QED
    BY <2>3
<1>7. Computes(k, n, Chains, GenesisChain, op)
  <2> HIDE DEF k, op
  <2>1. \A U \in SUBSET (1 .. n) :
            k[U] = IF U = {} THEN GenesisChain ELSE TryBlock(k[U \ {Max(U)}], t[Max(U)])
    BY <1>6
  <2> QED
    BY <1>4, <1>5, <2>1 DEF Computes
<1>8. PICK h : Run(h, n, Chains, GenesisChain, k[1 .. n], op)
  <2> HIDE DEF n, op, k
  <2> QED
    BY <1>1, <1>3, <1>4, <1>7, LeftFoldRun
<1> HIDE DEF op, k
<1>9. /\ h \in [0 .. n -> Chains] /\ h[0] = GenesisChain /\ h[n] = k[1 .. n]
      /\ \A i \in 1 .. n : h[i] = TryBlock(h[i - 1], t[i])
  <2>1. \A i \in 1 .. n : i - 1 \in 0 .. n
    BY <1>1
  <2> HIDE DEF n
  <2> QED
    BY <1>4, <1>8, <2>1 DEF Run
<1> QED
  BY <1>2, <1>9

-----------------------------------------------------------------------------
\* No timestamp of a block or of those below it is too far ahead of the clock.
Timely(b) == \A i \in 1 .. Len(b) : b[i] <= now + FutureLimit

LEMMA TimelyPrefix ==
    ASSUME NEW b \in Blocks, NEW m \in 1 .. Len(b), NEW n \in 1 .. m, Timely(Upto(b, m))
    PROVE  Timely(Upto(b, n))
<1>1. b \in Seq(Nat) /\ n \in 1 .. Len(b) /\ Len(b) \in Nat
  BY BlockFacts
<1>2. /\ Len(Upto(b, m)) = m /\ \A i \in 1 .. m : Upto(b, m)[i] = b[i]
      /\ Len(Upto(b, n)) = n /\ \A i \in 1 .. n : Upto(b, n)[i] = b[i]
  BY <1>1, UptoFacts
<1>3. \A i \in 1 .. n : i \in 1 .. m
  OBVIOUS
<1> QED
  BY <1>2, <1>3 DEF Timely

\* One more block in time.
LEMMA TimelyNext ==
    ASSUME NEW b \in Blocks, Len(b) >= 2
    PROVE  Timely(b) <=> Timely(Parent(b)) /\ InTime(b)
<1>1. /\ Parent(b) = Upto(b, Len(b) - 1) /\ Len(Parent(b)) = Len(b) - 1 /\ Timestamp(b) = b[Len(b)]
      /\ Len(b) \in Nat /\ Len(b) - 1 \in 1 .. Len(b) /\ b \in Seq(Nat)
  BY BlockFacts, ParentFacts
<1>2. \A i \in 1 .. (Len(b) - 1) : Parent(b)[i] = b[i]
  BY <1>1, UptoFacts
<1>3. \A i \in 1 .. Len(b) : i \in 1 .. (Len(b) - 1) \/ i = Len(b)
  BY <1>1
<1>4. Len(b) \in 1 .. Len(b) /\ \A i \in 1 .. (Len(b) - 1) : i \in 1 .. Len(b)
  BY <1>1
<1> QED
  BY <1>1, <1>2, <1>3, <1>4 DEF Timely, InTime

\* How far a replay from genesis is after the first m blocks of a fork: to the
\* last of them that is in time, with all below it.
Reached(d, o, m) ==
    /\ d \in Chains /\ d.offset = 0 /\ d.known = 0 /\ d.orphans = {}
    /\ \E k \in 1 .. m :
        /\ d.path = Upto(o, k) /\ Timely(Upto(o, k))
        /\ \A j \in 1 .. m : Timely(Upto(o, j)) => j <= k

LEMMA ReachedStart ==
    ASSUME now \in Nat, NEW o \in Blocks
    PROVE  Reached(GenesisChain, o, 1)
<1>1. Len(o) \in Nat /\ 1 \in 1 .. Len(o) /\ o[1] = 0 /\ o \in Seq(Nat)
  BY BlockFacts
<1>2. Upto(o, 1) = <<0>> /\ Timely(<<0>>)
  <2>1. <<0>> \in Seq(Nat) /\ 1 <= Len(<<0>>) /\ \A i \in 1 .. 1 : o[i] = <<0>>[i]
    BY <1>1
  <2>2. Upto(o, 1) = Upto(<<0>>, 1)
    BY <1>1, <2>1, UptoSame
  <2>3. Upto(<<0>>, 1) = <<0>>
    BY <2>1, UptoWhole, GenesisFacts
  <2>4. 0 <= now + FutureLimit
    BY DifficultyAssumption
  <2> QED
    BY <2>2, <2>3, <2>4 DEF Timely
<1> QED
  BY <1>2, GenesisFacts DEF Reached

LEMMA ReachedNext ==
    ASSUME now \in Nat, NEW o \in Blocks, NEW m \in 1 .. Len(o), m + 1 <= Len(o),
           NEW n, n = m + 1, NEW d, Reached(d, o, m)
    PROVE  Reached(TryBlock(d, Upto(o, n)), o, n)
<1> DEFINE b == Upto(o, n)
<1>1. /\ Len(o) \in Nat /\ m \in Nat /\ n \in Nat /\ n \in 1 .. Len(o) /\ m \in 1 .. n
      /\ n - 1 = m /\ n >= 2 /\ o \in Seq(Nat) /\ m >= 1
  BY BlockFacts
<1>2. b \in Blocks /\ Len(b) = n
  BY <1>1, UptoBlock
<1>3. Parent(b) = Upto(o, m)
  <2>1. Parent(b) = Upto(b, n - 1)
    BY <1>1, <1>2, ParentFacts, BlockFacts
  <2> QED
    BY <1>1, <2>1, UptoUpto
<1>4. PICK k \in 1 .. m : /\ d.path = Upto(o, k) /\ Timely(Upto(o, k))
                          /\ \A j \in 1 .. m : Timely(Upto(o, j)) => j <= k
  BY DEF Reached
<1>5. d \in Chains /\ d.offset = 0 /\ d.known = 0 /\ d.orphans = {}
  BY DEF Reached
<1> HIDE DEF b
<1>6. CASE Accepts(d, b)
  <2>1. Parent(b) = d.path /\ InTime(b) /\ TryBlock(d, b) = UpdateState(d, b)
    BY <1>6 DEF Accepts, TryBlock
  <2>2. Timely(b)
    BY <1>1, <1>2, <1>4, <2>1, TimelyNext
  <2>3. /\ UpdateState(d, b) \in Chains /\ UpdateState(d, b).path = b
        /\ UpdateState(d, b).offset = 0 /\ UpdateState(d, b).known = 0
        /\ UpdateState(d, b).orphans = {}
    BY <1>1, <1>2, <1>5, <2>1, UpdateFacts
  <2>4. n \in 1 .. n /\ \A j \in 1 .. n : j <= n
    BY <1>1
  <2>5. Upto(o, n) = b
    BY DEF b
  <2>6. Reached(UpdateState(d, b), o, n)
    BY <2>2, <2>3, <2>4, <2>5 DEF Reached
  <2> QED
    BY <2>1, <2>5, <2>6
<1>7. CASE ~Accepts(d, b)
  <2>1. TryBlock(d, b) = d
    BY <1>7 DEF TryBlock
  <2>2. ~Timely(b)
    <3>1. SUFFICES ASSUME Timely(b) PROVE FALSE
      OBVIOUS
    <3>2. Timely(Upto(o, m)) /\ InTime(b)
      BY <1>1, <1>2, <1>3, <3>1, TimelyNext
    <3>3. m \in 1 .. m
      BY <1>1
    <3>4. m <= k
      BY <1>4, <3>2, <3>3
    <3>5. k = m
      BY <1>1, <1>4, <3>4
    <3>6. Parent(b) = d.path
      BY <1>3, <1>4, <3>5
    <3> QED
      BY <1>1, <1>2, <1>5, <1>7, <3>2, <3>6, AcceptedOnTop
  <2>3. \A j \in 1 .. n : Timely(Upto(o, j)) => j <= k
    <3>1. SUFFICES ASSUME NEW j \in 1 .. n, Timely(Upto(o, j)) PROVE j <= k
      OBVIOUS
    <3>2. j # n
      BY <2>2, <3>1 DEF b
    <3>3. j \in 1 .. m
      BY <1>1, <3>2
    <3> QED
      BY <1>4, <3>1, <3>3
  <2>4. k \in 1 .. n
    BY <1>1
  <2>5. Reached(d, o, n)
    BY <1>4, <1>5, <2>3, <2>4 DEF Reached
  <2> QED
    BY <2>1, <2>5 DEF b
<1> QED
  BY <1>6, <1>7

\* What a reorg leaves: the fork it chose, up to the last block that is in time.
LEMMA ReorgFacts ==
    ASSUME now \in Nat, NEW c, NEW o \in Blocks
    PROVE  Reached(ReorgTo(c, o), o, Len(o))
<1> DEFINE t == Tail(BlocksOf(o))
           n == Len(o)
<1>1. n \in Nat /\ n >= 1
  BY BlockFacts
<1>2. /\ Len(t) = n - 1 /\ t \in Runs
      /\ \A i \in 1 .. (n - 1) : t[i] = Upto(o, i + 1)
  <2> DEFINE s == BlocksOf(o)
  <2>1. \A i \in 1 .. n : Upto(o, i) \in Blocks /\ Len(Upto(o, i)) = i
    BY UptoBlock
  <2>2. s \in Seq(Blocks) /\ Len(s) = n /\ \A i \in 1 .. n : s[i] = Upto(o, i)
    BY <1>1, <2>1 DEF BlocksOf
  <2>3. s # <<>>
    BY <1>1, <2>2
  <2> HIDE DEF s
  <2>4. /\ Tail(s) \in Seq(Blocks) /\ Len(Tail(s)) = n - 1
        /\ \A i \in 1 .. (n - 1) : Tail(s)[i] = s[i + 1]
    BY <2>2, <2>3, HeadTailProperties
  <2>5. \A i \in 1 .. (n - 1) : i + 1 \in 1 .. n /\ i + 1 >= 2
    BY <1>1
  <2>6. \A i \in 1 .. (n - 1) : Tail(s)[i] = Upto(o, i + 1) /\ Len(Upto(o, i + 1)) >= 2
    BY <2>1, <2>2, <2>4, <2>5
  <2> QED
    BY <2>4, <2>6 DEF Runs, s
<1> HIDE DEF t
<1>3. PICK h \in [0 .. Len(t) -> Chains] :
          /\ h[0] = GenesisChain /\ h[Len(t)] = FoldLeft(TryBlock, GenesisChain, t)
          /\ \A i \in 1 .. Len(t) : h[i] = TryBlock(h[i - 1], t[i])
  BY <1>2, TryRun
<1> DEFINE Q == {i \in Nat : i <= n - 1 => Reached(h[i], o, i + 1)}
<1>4. Nat \subseteq Q
  <2>1. 0 \in Q
    BY <1>3, ReachedStart
  <2>2. ASSUME NEW i \in Nat, i \in Q PROVE i + 1 \in Q
    <3>1. SUFFICES ASSUME i + 1 <= n - 1 PROVE Reached(h[i + 1], o, (i + 1) + 1)
      OBVIOUS
    <3> DEFINE m == i + 1
               e == m + 1
    <3>2. /\ i <= n - 1 /\ m \in 1 .. (n - 1) /\ m - 1 = i /\ m \in 1 .. n /\ e = m + 1 /\ e <= n
          /\ m + 1 <= n
      BY <1>1, <3>1
    <3>3. Reached(h[i], o, m)
      BY <2>2, <3>2
    <3>4. h[m] = TryBlock(h[i], Upto(o, e))
      BY <1>2, <1>3, <3>2
    <3> HIDE DEF m, e
    <3>5. Reached(TryBlock(h[i], Upto(o, e)), o, e)
      BY <3>2, <3>3, ReachedNext
    <3>6. Reached(h[m], o, e)
      BY <3>4, <3>5
    <3> QED
      BY <3>6 DEF m, e
  <2> HIDE DEF Q
  <2> QED
    BY <2>1, <2>2, NatSetInduction
<1>5. Reached(h[n - 1], o, n)
  <2>1. n - 1 \in Nat /\ (n - 1) + 1 = n /\ n - 1 <= n - 1
    BY <1>1
  <2>2. n - 1 \in Q
    BY <1>4, <2>1
  <2> HIDE DEF n
  <2>3. Reached(h[n - 1], o, (n - 1) + 1)
    BY <2>1, <2>2
  <2> QED
    BY <2>1, <2>3
<1>6. h[n - 1] = ReorgTo(c, o)
  BY <1>2, <1>3 DEF ReorgTo, t
<1> QED
  BY <1>5, <1>6

-----------------------------------------------------------------------------
\* Where a fork leaves the pool on the way down.
Leaves(o, pool, n) ==
    /\ Upto(o, n) \notin pool
    /\ \A i \in n + 1 .. Len(o) - 1 : Upto(o, i) \in pool

LEMMA AncestorFacts ==
    ASSUME NEW c, NEW pool \in SUBSET Blocks, \A q \in pool : Len(q) >= 2,
           NEW o \in Blocks, Len(o) >= 2
    PROVE  \E n \in 1 .. Len(o) - 1 : Leaves(o, pool, n) /\ Ancestor(c, pool, o) = Upto(o, n)
<1> DEFINE L == Len(o) - 1
           N == {n \in 1 .. L : Upto(o, n) \notin pool}
           top == Max(N)
           n0 == CHOOSE n \in 1 .. L : Leaves(o, pool, n)
<1>1. Len(o) \in Nat /\ L \in Nat /\ L >= 1 /\ 1 \in 1 .. L /\ 1 \in 1 .. Len(o)
  BY BlockFacts
<1>2. 1 \in N
  <2>1. Len(Upto(o, 1)) = 1
    BY <1>1, UptoBlock
  <2>2. ~(1 >= 2)
    OBVIOUS
  <2>3. Upto(o, 1) \notin pool
    BY <2>1, <2>2
  <2> HIDE DEF L
  <2> QED
    BY <1>1, <2>3
<1>3. N \in SUBSET (1 .. L) /\ N # {}
  BY <1>2
<1>4. top \in N /\ \A n \in N : n <= top
  <2> HIDE DEF N, L
  <2> QED
    BY <1>1, <1>3, MaxIsMember
<1>5. Leaves(o, pool, top)
  <2> HIDE DEF top
  <2>1. SUFFICES ASSUME NEW i \in top + 1 .. L PROVE Upto(o, i) \in pool
    BY <1>4 DEF Leaves
  <2>2. i \in 1 .. L /\ ~(i <= top)
    BY <1>1, <1>4
  <2> QED
    BY <1>4, <2>2
<1>6. n0 \in 1 .. L /\ Leaves(o, pool, n0)
  <2>1. top \in 1 .. L
    BY <1>4
  <2> HIDE DEF top, L
  <2> QED
    BY <1>5, <2>1
<1>7. Ancestor(c, pool, o) = Upto(o, n0)
  BY DEF Ancestor, Leaves
<1> HIDE DEF n0
<1> QED
  BY <1>6, <1>7

\* A fork that a node may move to.
Candidate(c, o, database) ==
    /\ o \in c.orphans /\ o \in Blocks /\ Len(o) > Len(c.path) /\ Len(o) >= 2
    /\ \E n \in 1 .. Len(o) - 1 : Leaves(o, c.orphans, n) /\ Rooted(c, Upto(o, n), database)

BestFork(c, database) ==
    CHOOSE o \in HeavierForks(c, database) :
        \A p \in HeavierForks(c, database) : ForkLength(c, p) <= ForkLength(c, o)

LEMMA BestForkFacts ==
    ASSUME NEW c \in Chains, NEW database \in BOOLEAN, HeavierForks(c, database) # {}
    PROVE  Candidate(c, BestFork(c, database), database)
<1> DEFINE F == HeavierForks(c, database)
           S == {ForkLength(c, o) : o \in F}
           B == MaxHeight + 1
           best == BestFork(c, database)
<1>1. /\ c.orphans \in SUBSET Blocks /\ \A q \in c.orphans : Len(q) >= 2
      /\ B \in Nat
  BY ChainFacts, DifficultyAssumption
<1>2. ASSUME NEW o \in F PROVE Candidate(c, o, database) /\ ForkLength(c, o) \in 1 .. B
  <2>1. o \in c.orphans /\ Rooted(c, Ancestor(c, c.orphans, o), database) /\ Len(o) > Len(c.path)
    BY <1>2 DEF HeavierForks
  <2>2. o \in Blocks /\ Len(o) >= 2 /\ Len(o) \in Nat /\ Len(o) <= B
    BY <1>1, <2>1, BlockFacts
  <2>3. PICK n \in 1 .. Len(o) - 1 :
            Leaves(o, c.orphans, n) /\ Ancestor(c, c.orphans, o) = Upto(o, n)
    BY <1>1, <2>2, AncestorFacts
  <2>4. Candidate(c, o, database)
    BY <2>1, <2>2, <2>3 DEF Candidate
  <2>5. Len(Upto(o, n)) = n
    <3>1. n \in 1 .. Len(o)
      BY <2>2
    <3> QED
      BY <2>2, <3>1, UptoBlock
  <2>6. ForkLength(c, o) = Len(o) - n
    BY <2>3, <2>5 DEF ForkLength
  <2> HIDE DEF B, F
  <2>7. Len(o) - n \in 1 .. B
    BY <1>1, <2>2, <2>3
  <2> QED
    BY <2>4, <2>6, <2>7
<1>3. S \in SUBSET (1 .. B) /\ S # {}
  <2> HIDE DEF F, B
  <2> QED
    BY <1>2 DEF F
<1>4. Max(S) \in S /\ \A x \in S : x <= Max(S)
  <2> HIDE DEF S, B
  <2> QED
    BY <1>1, <1>3, MaxIsMember
<1>5. \E o \in F : \A p \in F : ForkLength(c, p) <= ForkLength(c, o)
  <2>1. PICK o \in F : Max(S) = ForkLength(c, o)
    BY <1>4
  <2>2. \A p \in F : ForkLength(c, p) \in S
    OBVIOUS
  <2> HIDE DEF S
  <2> QED
    BY <1>4, <2>1, <2>2
<1>6. best \in F
  <2> HIDE DEF F
  <2>1. best = CHOOSE o \in F : \A p \in F : ForkLength(c, p) <= ForkLength(c, o)
    BY DEF BestFork, F
  <2> QED
    BY <1>5, <2>1
<1> HIDE DEF best, F
<1> QED
  BY <1>2, <1>6 DEF best

\* What apply_in_memory may do with a block.
Pooled(c, b) == [c EXCEPT !.orphans = @ \cup {b}]
Refused(c, b) == ~Accepts(c, b) /\ (Parent(b) = c.path \/ ~ValidateBlockStandalone(c, b))
Applied(c, b, r) == Accepts(c, b) /\ r = [kind |-> "Applied", tip |-> b, chain |-> UpdateState(c, b)]
Rejected(c, b, r) == Refused(c, b) /\ r = [kind |-> "Rejected", tip |-> c.path, chain |-> c]
Orphaned(c, b, r) ==
    /\ ~Accepts(c, b) /\ ~Refused(c, b)
    /\ r = [kind |-> "Orphaned", tip |-> c.path, chain |-> Pooled(c, b)]
Reorged(c, b, r, database) ==
    /\ ~Accepts(c, b) /\ ~Refused(c, b)
    /\ \E o : /\ Candidate(Pooled(c, b), o, database)
              /\ r = [kind |-> "Reorged", tip |-> o, chain |-> ReorgTo(c, o)]

LEMMA PooledFacts ==
    ASSUME NEW c \in Chains, NEW b \in Blocks, Len(b) >= 2
    PROVE  /\ Pooled(c, b) \in Chains
           /\ Pooled(c, b).path = c.path /\ Pooled(c, b).offset = c.offset
           /\ Pooled(c, b).known = c.known /\ Pooled(c, b).orphans = c.orphans \cup {b}
           /\ Pooled(c, b).anchor = c.anchor /\ Pooled(c, b).difficulty = c.difficulty
<1> DEFINE d == Pooled(c, b)
<1>1. c \in States /\ c.orphans \in SUBSET Blocks /\ \A o \in c.orphans : Len(o) >= 2
  BY ChainFacts DEF Chains
<1>2. /\ d \in States /\ d.path = c.path /\ d.offset = c.offset /\ d.known = c.known
      /\ d.anchor = c.anchor /\ d.difficulty = c.difficulty /\ d.orphans = c.orphans \cup {b}
  BY <1>1 DEF Pooled, States
<1> HIDE DEF d
<1>3. Sane(d)
  BY <1>1, <1>2, ChainFacts DEF Sane
<1>4. d \in Chains
  BY <1>2, <1>3 DEF Chains
<1> QED
  BY <1>2, <1>4 DEF d

LEMMA ApplyFacts ==
    ASSUME NEW c \in Chains, NEW b \in Blocks, Len(b) >= 2, NEW database \in BOOLEAN
    PROVE  \/ Applied(c, b, ApplyInMemory(c, b, database))
           \/ Rejected(c, b, ApplyInMemory(c, b, database))
           \/ Orphaned(c, b, ApplyInMemory(c, b, database))
           \/ Reorged(c, b, ApplyInMemory(c, b, database), database)
<1> DEFINE d == Pooled(c, b)
           F == HeavierForks(d, database)
           o == BestFork(d, database)
           r == ApplyInMemory(c, b, database)
<1>1. r = CASE Accepts(c, b) -> [kind |-> "Applied", tip |-> b, chain |-> UpdateState(c, b)]
            [] Refused(c, b) -> [kind |-> "Rejected", tip |-> c.path, chain |-> c]
            [] OTHER -> IF F = {} THEN [kind |-> "Orphaned", tip |-> c.path, chain |-> d]
                        ELSE [kind |-> "Reorged", tip |-> o, chain |-> ReorgTo(c, o)]
  BY Zenon DEF ApplyInMemory, Pooled, BestFork, Refused
<1>2. F # {} => Candidate(d, o, database)
  BY PooledFacts, BestForkFacts
<1> HIDE DEF r, F, o
<1>3. CASE Accepts(c, b)
  <2>1. ~Refused(c, b)
    BY <1>3 DEF Refused
  <2>2. r = [kind |-> "Applied", tip |-> b, chain |-> UpdateState(c, b)]
    BY <1>1, <1>3, <2>1
  <2> QED
    BY <1>3, <2>2 DEF Applied, r
<1>4. CASE ~Accepts(c, b) /\ Refused(c, b)
  <2>1. r = [kind |-> "Rejected", tip |-> c.path, chain |-> c]
    BY <1>1, <1>4
  <2> QED
    BY <1>4, <2>1 DEF Rejected, r
<1>5. CASE ~Accepts(c, b) /\ ~Refused(c, b)
  <2>1. CASE F = {}
    <3>1. r = [kind |-> "Orphaned", tip |-> c.path, chain |-> d]
      BY <1>1, <1>5, <2>1
    <3> QED
      BY <1>5, <3>1 DEF Orphaned, r
  <2>2. CASE F # {}
    <3>1. r = [kind |-> "Reorged", tip |-> o, chain |-> ReorgTo(c, o)]
      BY <1>1, <1>5, <2>2
    <3> QED
      BY <1>2, <1>5, <2>2, <3>1 DEF Reorged, r
  <2> QED
    BY <2>1, <2>2
<1> QED
  BY <1>3, <1>4, <1>5

-----------------------------------------------------------------------------
\* Blocks on a chain, and on the path of another one.
LEMMA OnChain ==
    ASSUME NEW c \in Chains, NEW m \in 1 .. Len(c.path)
    PROVE  IsOn(c, Upto(c.path, m))
<1>1. Len(Upto(c.path, m)) = m /\ Len(c.path) \in Nat
  BY ChainFacts, UptoBlock, BlockFacts
<1> QED
  BY <1>1 DEF IsOn

\* What is below a block of the chain is on the chain.
LEMMA BelowOn ==
    ASSUME NEW c \in Chains, NEW o \in Blocks, NEW n \in 1 .. Len(o), IsOn(c, Upto(o, n)),
           NEW m \in 1 .. n
    PROVE  Upto(o, m) = Upto(c.path, m) /\ m \in 1 .. Len(c.path) /\ n <= Len(c.path)
<1>1. o \in Seq(Nat) /\ c.path \in Seq(Nat) /\ Len(o) \in Nat /\ Len(c.path) \in Nat
  BY ChainFacts, BlockFacts
<1>2. Len(Upto(o, n)) = n
  BY UptoBlock
<1>3. n <= Len(c.path) /\ Upto(c.path, n) = Upto(o, n)
  BY <1>2 DEF IsOn
<1>4. n \in 1 .. Len(c.path) /\ m \in 1 .. Len(c.path)
  BY <1>1, <1>3
<1>5. Upto(Upto(o, n), m) = Upto(o, m) /\ Upto(Upto(c.path, n), m) = Upto(c.path, m)
  BY <1>1, <1>4, UptoUpto
<1> QED
  BY <1>3, <1>4, <1>5

\* What a reorg to a fork keeps: everything it shares with the fork.
LEMMA ReorgKeeps ==
    ASSUME now \in Nat, NEW c \in Chains, Timely(c.path), NEW o \in Blocks, NEW d, d = ReorgTo(c, o)
    PROVE  /\ d \in Chains /\ d.offset = 0 /\ d.known = 0 /\ d.orphans = {} /\ Timely(d.path)
           /\ Len(d.path) \in 1 .. Len(o) /\ d.path = Upto(o, Len(d.path))
           /\ \A m \in 1 .. Len(o) : IsOn(c, Upto(o, m)) => m <= Len(d.path)
           /\ Timely(o) => d.path = o
<1>1. Reached(d, o, Len(o))
  BY ReorgFacts
<1>2. PICK k \in 1 .. Len(o) : /\ d.path = Upto(o, k) /\ Timely(Upto(o, k))
                               /\ \A j \in 1 .. Len(o) : Timely(Upto(o, j)) => j <= k
  BY <1>1 DEF Reached
<1>3. d \in Chains /\ d.offset = 0 /\ d.known = 0 /\ d.orphans = {}
  BY <1>1 DEF Reached
<1>4. Len(d.path) = k
  BY <1>2, UptoBlock
<1>5. ASSUME NEW m \in 1 .. Len(o), IsOn(c, Upto(o, m)) PROVE m <= k
  <2>1. Len(o) \in Nat /\ m \in 1 .. m /\ c.path \in Seq(Nat) /\ c.path \in Blocks
    BY BlockFacts, ChainFacts
  <2>2. Upto(o, m) = Upto(c.path, m) /\ m \in 1 .. Len(c.path)
    BY <1>5, <2>1, BelowOn
  <2>3. Len(c.path) \in 1 .. Len(c.path) /\ Timely(Upto(c.path, Len(c.path)))
    BY <2>1, <2>2, UptoWhole, BlockFacts
  <2>4. Timely(Upto(c.path, m))
    BY <2>1, <2>2, <2>3, TimelyPrefix
  <2> QED
    BY <1>2, <2>2, <2>4
<1>6. ASSUME Timely(o) PROVE d.path = o
  <2>1. o \in Seq(Nat) /\ Len(o) \in Nat /\ Len(o) \in 1 .. Len(o)
    BY BlockFacts
  <2>2. Upto(o, Len(o)) = o
    BY <2>1, UptoWhole
  <2>3. Len(o) <= k
    BY <1>2, <1>6, <2>1, <2>2
  <2>4. k = Len(o)
    BY <2>1, <2>3
  <2> QED
    BY <1>2, <2>2, <2>4
<1> QED
  BY <1>2, <1>3, <1>4, <1>5, <1>6

-----------------------------------------------------------------------------
\* The BLOCKS table, and chains whose blocks are all in it.
RowsOK(rs) == rs \in Seq(Blocks) /\ \A i \in 1 .. Len(rs) : Len(rs[i]) = i
InRows(b, rs) == Len(b) \in 1 .. Len(rs) /\ rs[Len(b)] = b
OnRows(p, rs) == Len(p) <= Len(rs) /\ \A i \in 1 .. Len(p) : rs[i] = Upto(p, i)

\* A fork that grows from a block of the chain.
LEMMA ForkHolds ==
    ASSUME now \in Nat, NEW c \in Chains, Timely(c.path), NEW o \in Blocks, NEW pool, o \in pool,
           NEW n \in 1 .. Len(o) - 1, Leaves(o, pool, n), IsOn(c, Upto(o, n)),
           NEW d, d = ReorgTo(c, o)
    PROVE  /\ \A P \in Blocks : IsOn(c, P) /\ (\A q \in pool : Len(q) > Len(P)) => IsOn(d, P)
           /\ \A rs : /\ RowsOK(rs) /\ OnRows(c.path, rs)
                      /\ \A q \in pool : InRows(q, rs)
                      => OnRows(d.path, rs)
<1> DEFINE k == Len(d.path)
<1>1. /\ d \in Chains /\ k \in 1 .. Len(o) /\ d.path = Upto(o, k)
      /\ \A m \in 1 .. Len(o) : IsOn(c, Upto(o, m)) => m <= k
  BY ReorgKeeps
<1>2. /\ Len(o) \in Nat /\ n \in 1 .. Len(o) /\ n + 1 \in 1 .. Len(o) /\ o \in Seq(Nat) /\ n <= k
      /\ n \in Nat /\ k \in Nat
  <2>1. Len(o) \in Nat /\ o \in Seq(Nat)
    BY BlockFacts
  <2>2. n \in 1 .. Len(o) /\ n + 1 \in 1 .. Len(o) /\ n \in Nat
    BY <2>1
  <2> QED
    BY <1>1, <2>1, <2>2
<1>3. \A i \in 1 .. Len(o) : i <= n \/ Upto(o, i) \in pool
  <2>1. SUFFICES ASSUME NEW i \in 1 .. Len(o), ~(i <= n) PROVE Upto(o, i) \in pool
    OBVIOUS
  <2>2. CASE i = Len(o)
    BY <1>2, <2>2, UptoWhole
  <2>3. CASE i # Len(o)
    <3>1. i \in n + 1 .. Len(o) - 1
      BY <1>2, <2>1, <2>3
    <3> QED
      BY <3>1 DEF Leaves
  <2> QED
    BY <2>2, <2>3
<1>4. \A m \in 1 .. n : Upto(o, m) = Upto(c.path, m) /\ m \in 1 .. Len(c.path)
  BY <1>2, BelowOn
<1>5. \A m \in 1 .. k : Upto(d.path, m) = Upto(o, m)
  BY <1>1, <1>2, UptoUpto
<1>6. \A i \in 1 .. Len(o) : Len(Upto(o, i)) = i
  BY UptoBlock
<1> HIDE DEF k
<1>7. ASSUME NEW P \in Blocks, IsOn(c, P), \A q \in pool : Len(q) > Len(P) PROVE IsOn(d, P)
  <2>1. Len(P) \in Nat /\ Len(P) >= 1 /\ Len(P) <= Len(c.path) /\ Upto(c.path, Len(P)) = P
    BY <1>7, BlockFacts DEF IsOn
  <2>2. Len(P) <= n
    <3>1. Upto(o, n + 1) \in pool
      BY <1>2, <1>3
    <3>2. n + 1 > Len(P)
      BY <1>2, <1>6, <1>7, <3>1
    <3> QED
      BY <1>2, <2>1, <3>2
  <2>3. Len(P) \in 1 .. n /\ Len(P) \in 1 .. k
    BY <1>2, <2>1, <2>2
  <2>4. Upto(d.path, Len(P)) = P /\ Len(P) <= k
    BY <1>2, <1>4, <1>5, <2>1, <2>3
  <2> QED
    BY <2>4 DEF IsOn, k
<1>8. ASSUME NEW rs, RowsOK(rs), OnRows(c.path, rs), \A q \in pool : InRows(q, rs)
      PROVE  OnRows(d.path, rs)
  <2>1. Len(o) <= Len(rs) /\ Len(rs) \in Nat
    <3>1. InRows(o, rs)
      BY <1>8
    <3> QED
      BY <1>2, <1>8, <3>1 DEF InRows, RowsOK
  <2>2. k <= Len(rs)
    BY <1>1, <1>2, <2>1 DEF k
  <2>3. ASSUME NEW i \in 1 .. k PROVE rs[i] = Upto(d.path, i)
    <3>1. i \in 1 .. Len(o)
      BY <1>1, <1>2 DEF k
    <3>2. CASE i <= n
      <4>1. i \in 1 .. n
        BY <3>1, <3>2
      <4> QED
        BY <1>4, <1>5, <1>8, <2>3, <4>1 DEF OnRows
    <3>3. CASE ~(i <= n)
      <4>1. Upto(o, i) \in pool
        BY <1>3, <3>1, <3>3
      <4>2. rs[i] = Upto(o, i)
        BY <1>6, <1>8, <3>1, <4>1 DEF InRows
      <4> QED
        BY <1>5, <2>3, <4>2
    <3> QED
      BY <3>2, <3>3
  <2> QED
    BY <2>2, <2>3 DEF OnRows, k
<1> QED
  BY <1>7, <1>8

-----------------------------------------------------------------------------
\* The replay at startup, block by block.
LEMMA RejectedOrPooled ==
    ASSUME now \in Nat, NEW c \in Chains, NEW b \in Blocks, Len(b) >= 2, NEW database \in BOOLEAN,
           NEW d, d = ApplyInMemory(c, b, database).chain
    PROVE  /\ d \in Chains /\ d.orphans \subseteq c.orphans \cup {b}
           /\ Accepts(c, b) => d = UpdateState(c, b)
           /\ \/ Accepts(c, b) \/ d.path = c.path
              \/ \E o : Candidate(Pooled(c, b), o, database) /\ d = ReorgTo(c, o)
<1> DEFINE r == ApplyInMemory(c, b, database)
<1>1. \/ Applied(c, b, r) \/ Rejected(c, b, r) \/ Orphaned(c, b, r) \/ Reorged(c, b, r, database)
  BY ApplyFacts
<1> HIDE DEF r
<1>2. d = r.chain
  BY DEF r
<1>3. CASE Applied(c, b, r)
  <2>1. Accepts(c, b) /\ d = UpdateState(c, b) /\ Parent(b) = c.path
    BY <1>2, <1>3 DEF Applied, Accepts
  <2> QED
    BY <2>1, UpdateFacts
<1>4. CASE Rejected(c, b, r)
  BY <1>2, <1>4 DEF Rejected, Refused
<1>5. CASE Orphaned(c, b, r)
  <2>1. d = Pooled(c, b) /\ ~Accepts(c, b)
    BY <1>2, <1>5 DEF Orphaned
  <2> QED
    BY <2>1, PooledFacts
<1>6. CASE Reorged(c, b, r, database)
  <2>1. PICK o : Candidate(Pooled(c, b), o, database) /\ d = ReorgTo(c, o) /\ ~Accepts(c, b)
    BY <1>2, <1>6 DEF Reorged
  <2>2. o \in Blocks
    BY <2>1 DEF Candidate
  <2>3. d \in Chains /\ d.orphans = {}
    BY <2>1, <2>2, ReorgFacts DEF Reached
  <2> QED
    BY <2>1, <2>3
<1> QED
  BY <1>1, <1>3, <1>4, <1>5, <1>6

\* A replayed block made the node move to a fork, which grows from memory.
Forked(c, b, d) == \E o : Candidate(Pooled(c, b), o, FALSE) /\ d = ReorgTo(c, o)

LEMMA ReplayedBlock ==
    ASSUME now \in Nat, NEW c \in Chains, NEW b \in Blocks, Len(b) >= 2,
           NEW d, d = ReplayBlock(c, b)
    PROVE  /\ d \in Chains /\ d.orphans \subseteq c.orphans \cup {b}
           /\ Accepts(c, b) => d = UpdateState(c, b)
           /\ \/ Accepts(c, b) \/ d.path = c.path
              \/ Forked(c, b, d)
<1> DEFINE database == FALSE
<1>1. database \in BOOLEAN /\ d = ApplyInMemory(c, b, database).chain
  BY DEF ReplayBlock
<1> HIDE DEF database
<1>2. /\ d \in Chains /\ d.orphans \subseteq c.orphans \cup {b}
      /\ Accepts(c, b) => d = UpdateState(c, b)
      /\ \/ Accepts(c, b) \/ d.path = c.path
         \/ \E o : Candidate(Pooled(c, b), o, database) /\ d = ReorgTo(c, o)
  BY <1>1, RejectedOrPooled
<1> QED
  BY <1>2 DEF database, Forked

\* A step keeps what lies below all the blocks at hand, and the rows.
Keeps(c, b, d) ==
    /\ \A P \in Blocks : IsOn(c, P) /\ (\A q \in c.orphans \cup {b} : Len(q) > Len(P)) => IsOn(d, P)
    /\ \A rs : /\ RowsOK(rs) /\ OnRows(c.path, rs)
               /\ \A q \in c.orphans \cup {b} : InRows(q, rs)
               => OnRows(d.path, rs)

LEMMA ReplayStep ==
    ASSUME now \in Nat, NEW c \in Chains, Timely(c.path), NEW b \in Blocks, Len(b) >= 2,
           NEW d, d = ReplayBlock(c, b)
    PROVE  /\ d \in Chains /\ Timely(d.path) /\ Keeps(c, b, d)
           /\ d.orphans \subseteq c.orphans \cup {b}
<1> DEFINE pool == c.orphans \cup {b}
<1>1. /\ d \in Chains /\ d.orphans \subseteq c.orphans \cup {b}
      /\ Accepts(c, b) => d = UpdateState(c, b)
      /\ \/ Accepts(c, b) \/ d.path = c.path
         \/ Forked(c, b, d)
  BY ReplayedBlock
<1>2. CASE Accepts(c, b)
  <2>1. Parent(b) = c.path /\ InTime(b) /\ d = UpdateState(c, b)
    BY <1>1, <1>2 DEF Accepts
  <2>2. d.path = b
    BY <2>1, UpdateFacts
  <2>3. Timely(b)
    BY <2>1, TimelyNext
  <2>4. /\ c.path = Upto(b, Len(b) - 1) /\ Len(b) - 1 \in 1 .. Len(b) /\ Len(c.path) = Len(b) - 1
        /\ Len(b) \in Nat /\ b \in Seq(Nat)
    BY <2>1, BlockFacts, ParentFacts
  <2>5. \A m \in 1 .. (Len(b) - 1) : Upto(b, m) = Upto(c.path, m)
    BY <2>4, UptoUpto
  <2>6. ASSUME NEW P \in Blocks, IsOn(c, P) PROVE IsOn(d, P)
    <3>1. Len(P) \in Nat /\ Len(P) >= 1 /\ Len(P) <= Len(b) - 1 /\ Upto(c.path, Len(P)) = P
      BY <2>4, <2>6, BlockFacts DEF IsOn
    <3>2. Len(P) \in 1 .. (Len(b) - 1) /\ Len(P) <= Len(b)
      BY <2>4, <3>1
    <3> QED
      BY <2>2, <2>5, <3>1, <3>2 DEF IsOn
  <2>7. ASSUME NEW rs, RowsOK(rs), OnRows(c.path, rs), \A q \in pool : InRows(q, rs)
        PROVE  OnRows(d.path, rs)
    <3>1. Len(b) \in 1 .. Len(rs) /\ rs[Len(b)] = b /\ Len(rs) \in Nat
      BY <2>7 DEF InRows, RowsOK
    <3>2. ASSUME NEW i \in 1 .. Len(b) PROVE rs[i] = Upto(b, i)
      <4>1. CASE i = Len(b)
        BY <2>4, <3>1, <4>1, UptoWhole
      <4>2. CASE i # Len(b)
        <5>1. i \in 1 .. (Len(b) - 1)
          BY <2>4, <4>2
        <5> QED
          BY <2>4, <2>5, <2>7, <5>1 DEF OnRows
      <4> QED
        BY <4>1, <4>2
    <3>3. Len(b) <= Len(rs)
      BY <3>1
    <3> QED
      BY <2>2, <3>2, <3>3 DEF OnRows
  <2> QED
    BY <1>1, <2>2, <2>3, <2>6, <2>7 DEF Keeps
<1>3. CASE d.path = c.path
  <2>1. \A P : IsOn(c, P) => IsOn(d, P)
    BY <1>3 DEF IsOn
  <2> QED
    BY <1>1, <1>3, <2>1 DEF Keeps
<1>4. ASSUME NEW o, Candidate(Pooled(c, b), o, FALSE), d = ReorgTo(c, o)
      PROVE  Timely(d.path) /\ Keeps(c, b, d)
  <2> DEFINE e == Pooled(c, b)
  <2>1. e.orphans = pool /\ e.path = c.path
    BY PooledFacts
  <2>2. o \in pool /\ o \in Blocks
    BY <1>4, <2>1 DEF Candidate
  <2>3. PICK n \in 1 .. Len(o) - 1 : Leaves(o, pool, n) /\ Rooted(e, Upto(o, n), FALSE)
    BY <1>4, <2>1 DEF Candidate
  <2>4. IsOn(c, Upto(o, n))
    BY <2>1, <2>3 DEF Rooted, IsOn
  <2>5. Timely(d.path)
    BY <1>4, <2>2, ReorgKeeps
  <2> HIDE DEF pool
  <2>6. /\ \A P \in Blocks : IsOn(c, P) /\ (\A q \in pool : Len(q) > Len(P)) => IsOn(d, P)
        /\ \A rs : /\ RowsOK(rs) /\ OnRows(c.path, rs)
                   /\ \A q \in pool : InRows(q, rs)
                   => OnRows(d.path, rs)
    BY <1>4, <2>2, <2>3, <2>4, ForkHolds
  <2> QED
    BY <2>5, <2>6 DEF Keeps, pool
<1> QED
  BY <1>1, <1>2, <1>3, <1>4 DEF Forked

LEMMA ReplayRun ==
    ASSUME now \in Nat, NEW c \in Chains, NEW t \in Runs
    PROVE  \E h \in [0 .. Len(t) -> Chains] :
              /\ h[0] = c /\ h[Len(t)] = Replay(c, t)
              /\ \A i \in 1 .. Len(t) : h[i] = ReplayBlock(h[i - 1], t[i])
<1> DEFINE n == Len(t)
           op == [p \in (1 .. n) \X Chains |-> ReplayBlock(p[2], t[p[1]])]
           eq(f) == f = [U \in SUBSET (1 .. n) |->
                           IF U = {} THEN c ELSE ReplayBlock(f[U \ {Max(U)}], t[Max(U)])]
           k == CHOOSE f : eq(f)
<1>1. n \in Nat /\ DOMAIN t = 1 .. n /\ \A i \in 1 .. n : t[i] \in Blocks /\ Len(t[i]) >= 2
  BY DEF Runs
<1>2. Replay(c, t) = k[1 .. n]
  BY <1>1 DEF Replay, FoldLeft, MapThenFoldSet
<1>4. op \in [(1 .. n) \X Chains -> Chains] /\ \A i \in 1 .. n, m \in Chains : op[<<i, m>>] = ReplayBlock(m, t[i])
  <2>1. ASSUME NEW i \in 1 .. n, NEW m \in Chains PROVE ReplayBlock(m, t[i]) \in Chains
    <3> DEFINE x == t[i]
               d == ReplayBlock(m, x)
    <3>1. x \in Blocks /\ Len(x) >= 2 /\ d = ReplayBlock(m, x)
      BY <1>1
    <3> HIDE DEF x, d
    <3>2. d \in Chains
      BY <3>1, ReplayedBlock
    <3> QED
      BY <3>2 DEF x, d
  <2> QED
    BY <2>1
<1>5. \A U \in (SUBSET (1 .. n)) \ {{}} : Max(U) \in 1 .. n
  BY <1>1, MaxIsMember
<1>6. eq(k)
  <2> HIDE DEF n, op
  <2>1. PICK g \in [SUBSET (1 .. n) -> Chains] : MaxFold(g, n, c, op)
    BY <1>1, <1>4, LeftFoldExists
  <2>2. \A U \in SUBSET (1 .. n) :
            g[U] = IF U = {} THEN c ELSE ReplayBlock(g[U \ {Max(U)}], t[Max(U)])
    BY <1>4, <1>5, <2>1 DEF MaxFold
  <2>3. eq(g)
    BY <2>2
  <2> HIDE DEF eq
  <2> QED
    BY <2>3
<1>7. Computes(k, n, Chains, c, op)
  <2> HIDE DEF k, op
  <2>1. \A U \in SUBSET (1 .. n) :
            k[U] = IF U = {} THEN c ELSE ReplayBlock(k[U \ {Max(U)}], t[Max(U)])
    BY <1>6
  <2> QED
    BY <1>4, <1>5, <2>1 DEF Computes
<1>8. PICK h : Run(h, n, Chains, c, k[1 .. n], op)
  <2> HIDE DEF n, op, k
  <2> QED
    BY <1>1, <1>4, <1>7, LeftFoldRun
<1> HIDE DEF op, k
<1>9. /\ h \in [0 .. n -> Chains] /\ h[0] = c /\ h[n] = k[1 .. n]
      /\ \A i \in 1 .. n : h[i] = ReplayBlock(h[i - 1], t[i])
  <2>1. \A i \in 1 .. n : i - 1 \in 0 .. n
    BY <1>1
  <2> HIDE DEF n
  <2> QED
    BY <1>4, <1>8, <2>1 DEF Run
<1> QED
  BY <1>2, <1>9

-----------------------------------------------------------------------------
\* A replay that is at or above P: it stays there, and on the rows.
Settled(d, rs, P) ==
    /\ Timely(d.path) /\ OnRows(d.path, rs) /\ IsOn(d, P)
    /\ \A q \in d.orphans : InRows(q, rs) /\ Len(q) > Len(P)

\* The replay of the rows in t, seen block by block.
Replays(h, t, rs) ==
    /\ h \in [0 .. Len(t) -> Chains]
    /\ \A i \in 1 .. Len(t) : h[i] = ReplayBlock(h[i - 1], t[i]) /\ InRows(t[i], rs)

LEMMA SettledStep ==
    ASSUME now \in Nat, NEW c \in Chains, NEW rs, RowsOK(rs), NEW P \in Blocks, Settled(c, rs, P),
           NEW b \in Blocks, Len(b) >= 2, InRows(b, rs), Len(b) > Len(P),
           NEW d, d = ReplayBlock(c, b)
    PROVE  Settled(d, rs, P)
<1>1. /\ Timely(c.path) /\ OnRows(c.path, rs) /\ IsOn(c, P)
      /\ \A q \in c.orphans \cup {b} : InRows(q, rs) /\ Len(q) > Len(P)
  BY DEF Settled
<1>2. /\ d \in Chains /\ Timely(d.path) /\ Keeps(c, b, d)
      /\ d.orphans \subseteq c.orphans \cup {b}
  BY <1>1, ReplayStep
<1>3. IsOn(d, P) /\ OnRows(d.path, rs)
  BY <1>1, <1>2 DEF Keeps
<1> QED
  BY <1>1, <1>2, <1>3 DEF Settled

LEMMA SettledRun ==
    ASSUME now \in Nat, NEW rs, RowsOK(rs), NEW t \in Runs, NEW h, Replays(h, t, rs),
           NEW P \in Blocks, NEW s \in 0 .. Len(t), Settled(h[s], rs, P),
           \A i \in s + 1 .. Len(t) : Len(t[i]) > Len(P)
    PROVE  Settled(h[Len(t)], rs, P)
<1> DEFINE n == Len(t)
           Q == {i \in Nat : s + i <= n => Settled(h[s + i], rs, P)}
<1>1. /\ n \in Nat /\ s \in Nat /\ s <= n
      /\ \A i \in 1 .. n : t[i] \in Blocks /\ Len(t[i]) >= 2
  BY DEF Runs
<1>2. Nat \subseteq Q
  <2>1. 0 \in Q
    <3>1. s + 0 = s
      BY <1>1
    <3> QED
      BY <3>1
  <2>2. ASSUME NEW i \in Nat, i \in Q PROVE i + 1 \in Q
    <3> DEFINE j == s + i
               m == s + (i + 1)
    <3>1. j \in Nat /\ m \in Nat /\ m - 1 = j /\ j >= s
      BY <1>1
    <3>2. i \in Q <=> (i \in Nat /\ (j <= n => Settled(h[j], rs, P)))
      OBVIOUS
    <3>3. i + 1 \in Q <=> (i + 1 \in Nat /\ (m <= n => Settled(h[m], rs, P)))
      OBVIOUS
    <3> HIDE DEF j, m, Q
    <3>4. ASSUME m <= n PROVE Settled(h[m], rs, P)
      <4>1. j <= n /\ j \in 0 .. n /\ m \in 1 .. n /\ m \in s + 1 .. n
        BY <1>1, <3>1, <3>4
      <4> DEFINE b == t[m]
                 c == h[j]
                 d == h[m]
      <4>2. c \in Chains /\ d = ReplayBlock(c, b) /\ InRows(b, rs)
        BY <3>1, <4>1 DEF Replays
      <4>3. b \in Blocks /\ Len(b) >= 2 /\ Len(b) > Len(P)
        BY <1>1, <4>1
      <4>4. Settled(c, rs, P)
        BY <2>2, <3>2, <4>1
      <4> HIDE DEF b, c, d
      <4>5. Settled(d, rs, P)
        BY <4>2, <4>3, <4>4, SettledStep
      <4> QED
        BY <4>5 DEF d
    <3> QED
      BY <3>3, <3>4
  <2> HIDE DEF Q
  <2> QED
    BY <2>1, <2>2, NatSetInduction
<1>3. n - s \in Nat /\ s + (n - s) = n
  BY <1>1
<1>4. n - s \in Q
  BY <1>2, <1>3
<1>5. s + (n - s) <= n => Settled(h[s + (n - s)], rs, P)
  BY <1>4
<1> HIDE DEF n, Q
<1>6. Settled(h[n], rs, P)
  BY <1>1, <1>3, <1>5
<1> QED
  BY <1>6 DEF n

\* Every block of P above L is later than the median over the window from w.
Fits(P, w, L) ==
    \A j \in L + 1 .. Len(P) :
        P[j] > Median(LastOf(SubSeq(Upto(P, j - 1), w + 1, j - 1), MtpWindow))

\* One more block of P on a chain that is below P.
LEMMA FitStep ==
    ASSUME now \in Nat, NEW P \in Blocks, Timely(P), NEW c \in Chains, c.orphans = {},
           NEW L \in Nat, Fits(P, c.offset, L),
           NEW m \in 1 .. Len(P), L <= m, m + 1 <= Len(P), c.path = Upto(P, m),
           NEW n, n = m + 1, NEW b, b = Upto(P, n), NEW d, d = ReplayBlock(c, b)
    PROVE  d \in Chains /\ d.path = b /\ d.offset = c.offset /\ d.orphans = {}
<1>1. /\ P \in Seq(Nat) /\ Len(P) \in Nat /\ m \in Nat /\ n \in 1 .. Len(P) /\ n - 1 = m /\ n >= 2
      /\ m \in 1 .. n /\ n \in L + 1 .. Len(P) /\ m >= 1
      /\ \A i \in 1 .. Len(P) : P[i] \in Nat
  BY BlockFacts
<1>2. b \in Blocks /\ Len(b) = n /\ b \in Seq(Nat) /\ \A i \in 1 .. n : b[i] = P[i]
  BY <1>1, UptoBlock, UptoFacts
<1>3. Parent(b) = c.path /\ Timestamp(b) = P[n] /\ Len(c.path) = m
  <2>1. Parent(b) = Upto(b, n - 1) /\ Timestamp(b) = b[n] /\ Len(Parent(b)) = n - 1
    BY <1>1, <1>2, ParentFacts
  <2>2. Upto(b, m) = Upto(P, m) /\ n \in 1 .. n
    BY <1>1, UptoUpto
  <2> QED
    BY <1>1, <1>2, <2>1, <2>2
<1>4. InTime(b)
  BY <1>1, <1>3 DEF Timely, InTime
<1>5. Window(c) = SubSeq(Upto(P, n - 1), c.offset + 1, n - 1)
  BY <1>1, <1>3 DEF Window
<1>6. Timestamp(b) > Median(LastOf(Window(c), MtpWindow))
  BY <1>1, <1>3, <1>5 DEF Fits
<1>7. Met(b) = c.difficulty /\ c.difficulty \in Int
  BY <1>3, ChainFacts, FormulaFacts DEF Met
<1>8. Met(b) >= c.difficulty
  BY <1>7
<1>9. Accepts(c, b)
  BY <1>3, <1>4, <1>6, <1>8 DEF Accepts
<1>10. Len(b) >= 2
  BY <1>1, <1>2
<1>11. d = UpdateState(c, b)
  BY <1>2, <1>9, <1>10, ReplayedBlock
<1> QED
  BY <1>2, <1>3, <1>10, <1>11, UpdateFacts

\* What load_blocks_from hands to the replay.
LEMMA RowsAbove ==
    ASSUME NEW rs, RowsOK(rs), NEW L \in 1 .. Len(rs), NEW t, t = SubSeq(rs, L + 1, Len(rs))
    PROVE  /\ t \in Runs /\ Len(t) = Len(rs) - L
           /\ \A i \in 1 .. Len(t) : t[i] = rs[L + i] /\ Len(t[i]) = L + i /\ InRows(t[i], rs)
<1> DEFINE n == Len(rs)
           m == L + 1
<1>1. /\ rs \in Seq(Blocks) /\ n \in Nat /\ L \in Nat /\ L >= 1 /\ L <= n /\ m \in Int /\ m = L + 1
      /\ \A i \in 1 .. n : Len(rs[i]) = i /\ rs[i] \in Blocks
  BY DEF RowsOK
<1> HIDE DEF m
<1>2. t = SubSeq(rs, m, n)
  BY DEF m
<1>3. \A i \in m .. n : rs[i] \in Blocks
  BY <1>1
<1>4. t \in Seq(Blocks) /\ Len(t) = n - L /\ \A i \in 1 .. n - L : t[i] = rs[L + i]
  <2>1. /\ SubSeq(rs, m, n) \in Seq(Blocks)
        /\ Len(SubSeq(rs, m, n)) = IF m <= n THEN n - m + 1 ELSE 0
        /\ \A i \in 1 .. n - m + 1 : SubSeq(rs, m, n)[i] = rs[m + i - 1]
    BY <1>1, <1>3, SubSeqProperties
  <2>2. (IF m <= n THEN n - m + 1 ELSE 0) = n - L /\ n - m + 1 = n - L
    BY <1>1
  <2>3. \A i \in 1 .. n - L : m + i - 1 = L + i
    BY <1>1
  <2> QED
    BY <1>2, <2>1, <2>2, <2>3
<1>5. ASSUME NEW i \in 1 .. Len(t)
      PROVE  t[i] = rs[L + i] /\ Len(t[i]) = L + i /\ InRows(t[i], rs) /\ Len(t[i]) >= 2
  <2>1. i \in 1 .. n - L /\ L + i \in 1 .. n /\ L + i >= 2
    BY <1>1, <1>4
  <2>2. t[i] = rs[L + i] /\ Len(t[i]) = L + i
    BY <1>1, <1>4, <2>1
  <2> QED
    BY <2>1, <2>2 DEF InRows
<1> QED
  BY <1>4, <1>5 DEF Runs

\* A replay from a chain without a pool ends on the rows, above that chain.
LEMMA ReplaySound ==
    ASSUME now \in Nat, NEW rs, RowsOK(rs), NEW c \in Chains, c.orphans = {}, Timely(c.path),
           OnRows(c.path, rs), NEW L, L = Len(c.path),
           NEW d, d = Replay(c, SubSeq(rs, L + 1, Len(rs)))
    PROVE  d \in Chains /\ Timely(d.path) /\ OnRows(d.path, rs) /\ IsOn(d, c.path)
<1> DEFINE t == SubSeq(rs, L + 1, Len(rs))
           n == Len(t)
           P == c.path
<1>1. L \in 1 .. Len(rs) /\ P \in Blocks /\ P \in Seq(Nat) /\ L \in Nat /\ L = Len(P) /\ Len(rs) \in Nat
  BY ChainFacts, BlockFacts DEF OnRows, RowsOK
<1> HIDE DEF t
<1>2. /\ t \in Runs /\ n \in Nat
      /\ \A i \in 1 .. n : Len(t[i]) = L + i /\ InRows(t[i], rs)
  <2>1. /\ t \in Runs /\ Len(t) = Len(rs) - L
        /\ \A i \in 1 .. Len(t) : t[i] = rs[L + i] /\ Len(t[i]) = L + i /\ InRows(t[i], rs)
    BY <1>1, RowsAbove DEF t
  <2> QED
    BY <2>1 DEF Runs
<1>3. PICK h \in [0 .. n -> Chains] : /\ h[0] = c /\ h[n] = Replay(c, t)
                                      /\ \A i \in 1 .. n : h[i] = ReplayBlock(h[i - 1], t[i])
  BY <1>2, ReplayRun
<1>4. Replays(h, t, rs)
  BY <1>2, <1>3 DEF Replays
<1>5. Settled(h[0], rs, P)
  BY <1>1, <1>3, UptoWhole DEF Settled, IsOn
<1>6. 0 \in 0 .. n /\ \A i \in 0 + 1 .. n : Len(t[i]) > Len(P)
  BY <1>1, <1>2
<1> HIDE DEF P
<1>7. Settled(h[Len(t)], rs, P)
  BY <1>1, <1>2, <1>4, <1>5, <1>6, SettledRun
<1>8. d = h[n] /\ h[n] \in Chains
  <2>1. n \in 0 .. n
    BY <1>2
  <2> HIDE DEF n
  <2> QED
    BY <1>3, <2>1 DEF t
<1> QED
  BY <1>7, <1>8 DEF Settled, P

\* A replay from a chain below P, in which every further block of P fits, ends
\* above P.
LEMMA ReplayWhole ==
    ASSUME now \in Nat, NEW rs, RowsOK(rs), NEW c \in Chains, c.orphans = {},
           NEW P \in Blocks, Timely(P), OnRows(P, rs),
           NEW L \in 1 .. Len(P), c.path = Upto(P, L), Fits(P, c.offset, L),
           NEW d, d = Replay(c, SubSeq(rs, L + 1, Len(rs)))
    PROVE  IsOn(d, P)
<1> DEFINE t == SubSeq(rs, L + 1, Len(rs))
           n == Len(t)
           K == Len(P) - L
           w == c.offset
<1>1. /\ L \in 1 .. Len(rs) /\ P \in Seq(Nat) /\ L \in Nat /\ L >= 1 /\ Len(P) \in Nat
      /\ Len(rs) \in Nat /\ Len(P) <= Len(rs) /\ \A i \in 1 .. Len(P) : rs[i] = Upto(P, i)
  BY BlockFacts, SMTT(30) DEF OnRows, RowsOK
<1> HIDE DEF t
<1>2. /\ t \in Runs /\ n \in Nat /\ n = Len(rs) - L /\ K \in 0 .. n
      /\ \A i \in 1 .. n : t[i] = rs[L + i] /\ Len(t[i]) = L + i /\ InRows(t[i], rs)
  <2>1. /\ t \in Runs /\ Len(t) = Len(rs) - L
        /\ \A i \in 1 .. Len(t) : t[i] = rs[L + i] /\ Len(t[i]) = L + i /\ InRows(t[i], rs)
    BY <1>1, RowsAbove DEF t
  <2>2. n \in Nat
    BY <2>1 DEF Runs
  <2>3. K \in 0 .. n
    BY <1>1, <2>1
  <2> QED
    BY <2>1, <2>2, <2>3
<1>3. PICK h \in [0 .. n -> Chains] : /\ h[0] = c /\ h[n] = Replay(c, t)
                                      /\ \A i \in 1 .. n : h[i] = ReplayBlock(h[i - 1], t[i])
  BY <1>2, ReplayRun
<1> DEFINE Below(i) == h[i].path = Upto(P, L + i) /\ h[i].offset = w /\ h[i].orphans = {}
           Q == {i \in Nat : i <= K => Below(i)}
<1>4. Nat \subseteq Q
  <2>1. 0 \in Q
    <3>1. L + 0 = L
      BY <1>1
    <3> QED
      BY <1>3, <3>1
  <2>2. ASSUME NEW i \in Nat, i \in Q PROVE i + 1 \in Q
    <3>1. SUFFICES ASSUME i + 1 <= K PROVE Below(i + 1)
      OBVIOUS
    <3> DEFINE j == i + 1
               m == L + i
               e == L + j
               b == t[j]
               x == h[i]
               y == h[j]
    <3>2. /\ i <= K /\ j \in 1 .. n /\ m \in 1 .. Len(P) /\ L <= m /\ m + 1 <= Len(P) /\ e = m + 1
          /\ e \in 1 .. Len(P) /\ j - 1 = i /\ i \in 0 .. n /\ j \in 0 .. n
      BY <1>1, <1>2, <3>1
    <3>3. x.path = Upto(P, m) /\ x.offset = w /\ x.orphans = {}
      BY <2>2, <3>2
    <3>4. x \in Chains /\ b = Upto(P, e) /\ y = ReplayBlock(x, b)
      BY <1>1, <1>2, <1>3, <3>2
    <3> HIDE DEF j, m, e, b, x, y, Q, w, n, K, Below
    <3>5. Fits(P, x.offset, L)
      BY <3>3 DEF w
    <3>6. y.path = b /\ y.offset = x.offset /\ y.orphans = {}
      <4>1. L \in Nat /\ m \in 1 .. Len(P) /\ L <= m /\ m + 1 <= Len(P) /\ e = m + 1
        BY <1>1, <3>2
      <4> QED
        BY <3>3, <3>4, <3>5, <4>1, FitStep
    <3>7. y.path = Upto(P, e) /\ y.offset = w /\ y.orphans = {}
      BY <3>3, <3>4, <3>6
    <3> QED
      BY <3>7 DEF Below, y, e, j
  <2> HIDE DEF Q
  <2> QED
    BY <2>1, <2>2, NatSetInduction
<1>5. Below(K)
  <2>1. K \in Nat /\ K <= K
    BY <1>2
  <2>2. K \in Q
    BY <1>4, <2>1
  <2> HIDE DEF Below
  <2> QED
    BY <2>1, <2>2
<1>6. h[K].path = P /\ h[K].orphans = {}
  <2>1. L + K = Len(P)
    BY <1>1
  <2> HIDE DEF K
  <2> QED
    BY <1>1, <1>5, <2>1, UptoWhole
<1>7. Replays(h, t, rs)
  BY <1>2, <1>3 DEF Replays
<1>8. Settled(h[K], rs, P)
  <2> HIDE DEF K
  <2> QED
    BY <1>1, <1>6, UptoWhole DEF Settled, IsOn
<1>9. \A i \in K + 1 .. n : Len(t[i]) > Len(P)
  <2>1. SUFFICES ASSUME NEW i \in K + 1 .. n PROVE Len(t[i]) > Len(P)
    OBVIOUS
  <2>2. i \in 1 .. n /\ L + i > Len(P)
    BY <1>1, <1>2
  <2> QED
    BY <1>2, <2>2
<1> HIDE DEF K
<1>10. Settled(h[Len(t)], rs, P)
  BY <1>1, <1>2, <1>7, <1>8, <1>9, SettledRun
<1>11. d = h[n]
  BY <1>2, <1>3 DEF t
<1> QED
  BY <1>10, <1>11 DEF Settled

-----------------------------------------------------------------------------
\* The median of an ascending sequence is one of its elements.
Rising(s) == \A i, j \in 1 .. Len(s) : i < j => s[i] < s[j]

LEMMA MedianRising ==
    ASSUME NEW s \in Seq(Nat), Len(s) >= 1, Rising(s)
    PROVE  \E i \in 1 .. Len(s) : Median(s) = s[i]
<1> DEFINE n == Len(s)
           h == n \div 2
           k == h + 1
           v == s[k]
           Under(x) == {i \in 1 .. n : s[i] < x}
           AtMost(x) == {i \in 1 .. n : s[i] <= x}
<1>1. n \in Nat /\ n >= 1 /\ DOMAIN s = 1 .. n
  OBVIOUS
<1>2. h \in Nat /\ k \in 1 .. n /\ k \in Nat /\ k - 1 = h /\ k > h
  BY <1>1
<1> HIDE DEF h, k
<1>3. \A i \in 1 .. n : s[i] \in Nat
  OBVIOUS
<1>4. Under(v) = 1 .. (k - 1) /\ AtMost(v) = 1 .. k
  <2>1. \A i \in 1 .. n : i < k => s[i] < v
    BY <1>2 DEF Rising
  <2>2. \A i \in 1 .. n : k < i => v < s[i]
    BY <1>2 DEF Rising
  <2>3. v \in Nat
    BY <1>2, <1>3
  <2> HIDE DEF n, v
  <2>4. \A i \in 1 .. n : (s[i] < v <=> i <= k - 1) /\ (s[i] <= v <=> i <= k)
    <3>1. SUFFICES ASSUME NEW i \in 1 .. n
                   PROVE  (s[i] < v <=> i <= k - 1) /\ (s[i] <= v <=> i <= k)
      OBVIOUS
    <3>2. s[i] \in Nat /\ (i < k => s[i] < v) /\ (k < i => v < s[i]) /\ (i = k => s[i] = v)
      BY <1>3, <2>1, <2>2 DEF v
    <3> QED
      BY <1>2, <2>3, <3>2
  <2>5. \A i \in 1 .. k : i \in 1 .. n
    BY <1>1, <1>2
  <2> QED
    BY <1>1, <1>2, <2>4, <2>5
<1>5. Cardinality(Under(v)) = h /\ Cardinality(AtMost(v)) = k
  <2>1. Cardinality(1 .. (k - 1)) = k - 1 /\ Cardinality(1 .. k) = k
    BY <1>2, FS_Interval
  <2> QED
    BY <1>2, <1>4, <2>1
<1> HIDE DEF Under, AtMost
<1>6. v \in ToSet(s) /\ Cardinality(Under(v)) <= h /\ Cardinality(AtMost(v)) > h
  BY <1>1, <1>2, <1>5 DEF ToSet
<1>7. Median(s) = CHOOSE x \in ToSet(s) : Cardinality(Under(x)) <= h /\ Cardinality(AtMost(x)) > h
  BY <1>1 DEF Median, Under, AtMost, h
<1> HIDE DEF v
<1>8. Median(s) \in ToSet(s)
  BY <1>6, <1>7
<1> QED
  BY <1>1, <1>8 DEF ToSet

\* The last elements of a sequence.
LEMMA LastOfFacts ==
    ASSUME NEW s \in Seq(Nat), Len(s) >= 1, NEW M \in Nat, M >= 1
    PROVE  \E d \in Nat : /\ LastOf(s, M) \in Seq(Nat) /\ Len(LastOf(s, M)) >= 1
                          /\ d + Len(LastOf(s, M)) = Len(s)
                          /\ \A i \in 1 .. Len(LastOf(s, M)) : LastOf(s, M)[i] = s[d + i]
<1> DEFINE n == Len(s)
           d == MaxOf(n - M, 0)
           m == d + 1
<1>1. n \in Nat /\ n >= 1 /\ \A i \in 1 .. n : s[i] \in Nat
  OBVIOUS
<1>2. d \in Nat /\ d < n /\ m = d + 1
  BY <1>1 DEF MaxOf
<1> HIDE DEF d, m
<1>3. m \in Int /\ m >= 1 /\ m <= n
  BY <1>1, <1>2
<1>4. \A i \in m .. n : s[i] \in Nat
  BY <1>1, <1>3
<1>5. /\ SubSeq(s, m, n) \in Seq(Nat)
      /\ Len(SubSeq(s, m, n)) = IF m <= n THEN n - m + 1 ELSE 0
      /\ \A i \in 1 .. n - m + 1 : SubSeq(s, m, n)[i] = s[m + i - 1]
  BY <1>1, <1>3, <1>4, SubSeqProperties
<1>6. (IF m <= n THEN n - m + 1 ELSE 0) = n - d /\ n - m + 1 = n - d
  BY <1>1, <1>2, <1>3
<1>7. \A i \in 1 .. n - d : m + i - 1 = d + i
  BY <1>2
<1>8. LastOf(s, M) = SubSeq(s, m, n)
  BY DEF LastOf, m, d
<1>9. n - d >= 1 /\ d + (n - d) = n
  BY <1>1, <1>2
<1> HIDE DEF n
<1>10. /\ LastOf(s, M) \in Seq(Nat) /\ Len(LastOf(s, M)) = n - d
       /\ \A i \in 1 .. n - d : LastOf(s, M)[i] = s[d + i]
  BY <1>5, <1>6, <1>7, <1>8
<1> QED
  BY <1>2, <1>9, <1>10 DEF n

\* Above a checkpoint, an ascending chain passes the median of the short window.
Ascends(P, L) == \A i \in L .. Len(P) - 1 : P[i] < P[i + 1]

LEMMA AscendsFar ==
    ASSUME NEW P \in Seq(Nat), NEW L \in 1 .. Len(P), Ascends(P, L),
           NEW i \in L .. Len(P), NEW j \in L .. Len(P), i < j
    PROVE  P[i] < P[j]
<1> DEFINE n == Len(P)
           Q == {k \in Nat : i + k + 1 <= n => P[i] < P[i + k + 1]}
<1>1. /\ n \in Nat /\ L \in Nat /\ L >= 1 /\ i \in Nat /\ i >= 1 /\ i >= L /\ i <= n /\ j \in Nat /\ j <= n
      /\ \A k \in 1 .. n : P[k] \in Nat
  OBVIOUS
<1>2. Nat \subseteq Q
  <2>1. 0 \in Q
    <3>1. i + 0 + 1 = i + 1
      BY <1>1
    <3>2. ASSUME i + 1 <= n PROVE P[i] < P[i + 1]
      <4>1. i \in L .. n - 1
        BY <1>1, <3>2
      <4> QED
        BY <4>1 DEF Ascends
    <3> QED
      BY <3>1, <3>2
  <2>2. ASSUME NEW k \in Nat, k \in Q PROVE k + 1 \in Q
    <3> DEFINE m == i + k + 1
               e == i + (k + 1) + 1
    <3>1. m \in Nat /\ e \in Nat /\ e = m + 1 /\ m >= L /\ m >= 1
      BY <1>1
    <3>2. k \in Q <=> (k \in Nat /\ (m <= n => P[i] < P[m]))
      OBVIOUS
    <3>3. k + 1 \in Q <=> (k + 1 \in Nat /\ (e <= n => P[i] < P[e]))
      OBVIOUS
    <3> HIDE DEF m, e, Q
    <3>4. ASSUME e <= n PROVE P[i] < P[e]
      <4>1. m \in L .. n - 1 /\ m <= n /\ m \in 1 .. n /\ e \in 1 .. n /\ i \in 1 .. n
        BY <1>1, <3>1, <3>4
      <4>2. P[m] < P[e]
        BY <3>1, <4>1 DEF Ascends
      <4>3. P[i] < P[m] /\ P[i] \in Nat /\ P[m] \in Nat /\ P[e] \in Nat
        BY <1>1, <2>2, <3>2, <4>1
      <4> QED
        BY <4>2, <4>3
    <3> QED
      BY <3>3, <3>4
  <2> HIDE DEF Q
  <2> QED
    BY <2>1, <2>2, NatSetInduction
<1> DEFINE k == j - i - 1
<1>3. k \in Nat /\ i + k + 1 = j
  <2>1. j - i - 1 \in Nat /\ i + (j - i - 1) + 1 = j
    BY <1>1
  <2> QED
    BY <2>1
<1> HIDE DEF k
<1>4. k \in Q
  BY <1>2, <1>3
<1> QED
  BY <1>1, <1>3, <1>4

LEMMA AscendingFits ==
    ASSUME NEW P \in Blocks, NEW L \in 1 .. Len(P), Ascends(P, L), NEW w, w = L - 1
    PROVE  Fits(P, w, L)
<1>1. P \in Seq(Nat) /\ Len(P) \in Nat /\ L \in Nat /\ L >= 1 /\ \A k \in 1 .. Len(P) : P[k] \in Nat
  BY BlockFacts
<1>2. SUFFICES ASSUME NEW j \in L + 1 .. Len(P)
               PROVE  P[j] > Median(LastOf(SubSeq(Upto(P, j - 1), w + 1, j - 1), MtpWindow))
  BY DEF Fits
<1> DEFINE e == j - 1
           p == Upto(P, e)
           W == SubSeq(p, L, e)
           T == LastOf(W, MtpWindow)
<1>3. w + 1 = L /\ e \in 1 .. Len(P) /\ e \in Nat /\ e >= L /\ j \in L .. Len(P) /\ j \in 1 .. Len(P) /\ e < j
  BY <1>1
<1>4. p \in Seq(Nat) /\ Len(p) = e /\ \A i \in 1 .. e : p[i] = P[i]
  BY <1>1, <1>3, UptoFacts
<1> HIDE DEF e, p
<1>5. W \in Seq(Nat) /\ Len(W) = e - L + 1 /\ \A i \in 1 .. e - L + 1 : W[i] = P[L + i - 1]
  <2>1. \A i \in L .. e : p[i] \in Nat
    BY <1>1, <1>3, <1>4
  <2>2. /\ SubSeq(p, L, e) \in Seq(Nat)
        /\ Len(SubSeq(p, L, e)) = IF L <= e THEN e - L + 1 ELSE 0
        /\ \A i \in 1 .. e - L + 1 : SubSeq(p, L, e)[i] = p[L + i - 1]
    BY <1>1, <1>3, <1>4, <2>1, SubSeqProperties
  <2>3. \A i \in 1 .. e - L + 1 : L + i - 1 \in 1 .. e
    BY <1>1, <1>3
  <2> QED
    BY <1>3, <1>4, <2>2, <2>3
<1>6. Len(W) \in Nat /\ Len(W) >= 1
  BY <1>1, <1>3, <1>5
<1> HIDE DEF W
<1>7. PICK d \in Nat : /\ T \in Seq(Nat) /\ Len(T) >= 1 /\ d + Len(T) = Len(W)
                       /\ \A i \in 1 .. Len(T) : T[i] = W[d + i]
  <2>1. MtpWindow \in Nat /\ MtpWindow >= 1
    BY DifficultyAssumption
  <2> QED
    BY <1>5, <1>6, <2>1, LastOfFacts
<1> HIDE DEF T
<1>8. \A i \in 1 .. Len(T) : L + (d + i) - 1 \in L .. e /\ T[i] = P[L + (d + i) - 1]
  <2>1. SUFFICES ASSUME NEW i \in 1 .. Len(T)
                 PROVE  L + (d + i) - 1 \in L .. e /\ T[i] = P[L + (d + i) - 1]
    OBVIOUS
  <2> DEFINE m == d + i
             l == Len(T)
  <2>2. l \in Nat /\ i \in 1 .. l /\ T[i] = W[m] /\ d + l = e - L + 1
    BY <1>5, <1>7, SMTT(30)
  <2>3. m \in 1 .. e - L + 1
    BY <1>1, <1>3, <2>2
  <2> HIDE DEF m
  <2>4. L + m - 1 \in L .. e /\ W[m] = P[L + m - 1]
    BY <1>1, <1>3, <1>5, <2>3
  <2> QED
    BY <2>2, <2>4 DEF m
<1>9. \A i \in 1 .. Len(T) : T[i] < P[j]
  <2>1. \A i \in L .. e : P[i] < P[j]
    <3>1. SUFFICES ASSUME NEW i \in L .. e PROVE P[i] < P[j]
      OBVIOUS
    <3>2. i \in L .. Len(P) /\ i < j
      BY <1>1, <1>3
    <3> QED
      BY <1>1, <1>3, <3>2, AscendsFar
  <2> QED
    BY <1>8, <2>1
<1>10. Rising(T)
  <2>1. SUFFICES ASSUME NEW i \in 1 .. Len(T), NEW k \in 1 .. Len(T), i < k PROVE T[i] < T[k]
    BY DEF Rising
  <2> DEFINE x == L + (d + i) - 1
             y == L + (d + k) - 1
  <2>2. x \in L .. e /\ y \in L .. e /\ T[i] = P[x] /\ T[k] = P[y]
    BY <1>8
  <2>3. x < y
    BY <1>1, <1>7, <2>1
  <2> HIDE DEF x, y
  <2>4. x \in L .. Len(P) /\ y \in L .. Len(P)
    BY <1>1, <1>3, <2>2, SMTT(30)
  <2>5. P[x] < P[y]
    BY <1>1, <2>3, <2>4, AscendsFar
  <2> QED
    BY <2>2, <2>5
<1>11. \E i \in 1 .. Len(T) : Median(T) = T[i]
  BY <1>7, <1>10, MedianRising
<1>12. Median(T) < P[j] /\ Median(T) \in Nat
  BY <1>7, <1>9, <1>11
<1>13. P[j] > Median(T)
  BY <1>1, <1>3, <1>12
<1> QED
  BY <1>3, <1>13 DEF T, W, p, e

\* Above genesis, every chain mined by the rules does.
LEMMA GenesisFits == ASSUME NEW P \in Blocks PROVE Fits(P, 0, 1)
<1>1. SUFFICES ASSUME NEW j \in 1 + 1 .. Len(P)
               PROVE  P[j] > Median(LastOf(SubSeq(Upto(P, j - 1), 0 + 1, j - 1), MtpWindow))
  BY DEF Fits
<1>2. P \in Seq(Nat) /\ Len(P) \in Nat /\ j - 1 \in 1 .. Len(P) /\ j \in 2 .. Len(P) /\ 0 + 1 = 1
  BY BlockFacts
<1> DEFINE p == Upto(P, j - 1)
<1>3. p \in Seq(Nat) /\ Len(p) = j - 1
  BY <1>2, UptoFacts
<1>4. SubSeq(p, 1, Len(p)) = p
  BY <1>3, UptoWhole DEF Upto
<1>5. P[j] > Median(LastOf(p, MtpWindow))
  BY <1>2, BlockFacts DEF Valid
<1> QED
  BY <1>2, <1>3, <1>4, <1>5

-----------------------------------------------------------------------------
\* A block of the chain below another block of the chain is on every chain that
\* has the other one.
LEMMA OnBelow ==
    ASSUME NEW c \in Chains, NEW d \in Chains, NEW P \in Blocks, NEW R \in Blocks,
           IsOn(c, P), IsOn(c, R), Len(P) <= Len(R), IsOn(d, R)
    PROVE  IsOn(d, P)
<1>1. /\ Len(P) \in Nat /\ Len(R) \in Nat /\ Len(P) >= 1 /\ c.path \in Seq(Nat) /\ d.path \in Seq(Nat)
      /\ Len(c.path) \in Nat /\ Len(d.path) \in Nat
  BY BlockFacts, ChainFacts
<1>2. /\ Len(R) <= Len(c.path) /\ Upto(c.path, Len(R)) = R /\ Upto(c.path, Len(P)) = P
      /\ Len(R) <= Len(d.path) /\ Upto(d.path, Len(R)) = R
  BY DEF IsOn
<1> DEFINE m == Len(P)
           n == Len(R)
<1>3. m \in 1 .. n /\ n \in 1 .. Len(c.path) /\ n \in 1 .. Len(d.path) /\ m <= Len(d.path)
  BY <1>1, <1>2
<1> HIDE DEF m, n
<1>4. Upto(Upto(c.path, n), m) = Upto(c.path, m) /\ Upto(Upto(d.path, n), m) = Upto(d.path, m)
  BY <1>1, <1>3, UptoUpto
<1>5. Upto(d.path, m) = P
  BY <1>2, <1>4 DEF m, n
<1> QED
  BY <1>3, <1>5 DEF IsOn, m

\* ... and on the chain that one more block makes.
LEMMA OnNext ==
    ASSUME NEW c \in Chains, NEW b \in Blocks, Len(b) >= 2, Parent(b) = c.path,
           NEW P \in Blocks, IsOn(c, P), NEW d, d.path = b
    PROVE  IsOn(d, P)
<1>1. /\ c.path = Upto(b, Len(b) - 1) /\ Len(b) - 1 \in 1 .. Len(b) /\ Len(c.path) = Len(b) - 1
      /\ Len(b) \in Nat /\ b \in Seq(Nat)
  BY BlockFacts, ParentFacts
<1>2. Len(P) \in Nat /\ Len(P) >= 1 /\ Len(P) <= Len(b) - 1 /\ Upto(c.path, Len(P)) = P
  BY <1>1, BlockFacts DEF IsOn
<1>3. Len(P) \in 1 .. (Len(b) - 1) /\ Len(P) <= Len(b)
  BY <1>1, <1>2
<1>4. Upto(b, Len(P)) = Upto(c.path, Len(P))
  BY <1>1, <1>3, UptoUpto
<1> QED
  BY <1>2, <1>3, <1>4 DEF IsOn

LEMMA OnRowsPrefix ==
    ASSUME NEW P \in Blocks, NEW rs, RowsOK(rs), OnRows(P, rs), NEW m \in 1 .. Len(P)
    PROVE  OnRows(Upto(P, m), rs)
<1>1. /\ P \in Seq(Nat) /\ Len(P) \in Nat /\ Len(P) <= Len(rs) /\ \A i \in 1 .. Len(P) : rs[i] = Upto(P, i)
      /\ Len(Upto(P, m)) = m /\ Len(rs) \in Nat
  BY BlockFacts, UptoBlock DEF OnRows, RowsOK
<1>2. \A i \in 1 .. m : i \in 1 .. Len(P) /\ Upto(Upto(P, m), i) = Upto(P, i)
  BY <1>1, UptoUpto
<1>3. m <= Len(rs)
  BY <1>1
<1> QED
  BY <1>1, <1>2, <1>3 DEF OnRows

\* The window is cut, and all else stays.
LEMMA PruneFacts ==
    ASSUME NEW c \in Chains
    PROVE  /\ PruneToWindow(c) \in Chains
           /\ PruneToWindow(c).path = c.path /\ PruneToWindow(c).orphans = c.orphans
<1> DEFINE n == Len(c.path)
           w == MaxOf(c.offset, n - ReorgWindow)
           k == MaxOf(c.known, w)
           d == PruneToWindow(c)
<1>1. /\ n \in Nat /\ n >= 1 /\ c.offset \in Nat /\ c.offset < n /\ c.known \in Nat
      /\ ReorgWindow \in Nat /\ ReorgWindow >= 1
  BY ChainFacts, BlockFacts, DifficultyAssumption
<1>2. w \in Nat /\ w < n
  <2> HIDE DEF n
  <2> QED
    BY <1>1 DEF MaxOf
<1>3. k \in Nat
  <2> HIDE DEF n, w
  <2> QED
    BY <1>1, <1>2 DEF MaxOf
<1>4. c \in States /\ Sane(c)
  BY DEF Chains
<1>5. d = [c EXCEPT !.offset = w, !.known = k]
  BY DEF PruneToWindow
<1> HIDE DEF n, w, k, d
<1>6. /\ d.path = c.path /\ d.orphans = c.orphans /\ d.offset = w /\ d.anchor = c.anchor
      /\ d.difficulty = c.difficulty /\ d \in States
  BY <1>2, <1>3, <1>4, <1>5 DEF States
<1>7. Sane(d)
  BY <1>2, <1>4, <1>6 DEF Sane, n
<1> QED
  BY <1>6, <1>7 DEF Chains, d

\* The BLOCKS table after blocks of tip above `from` were stored.
LEMMA StoredFacts ==
    ASSUME NEW rs, RowsOK(rs), NEW tip \in Blocks, NEW from \in Nat, from <= Len(tip), from <= Len(rs),
           \A i \in 1 .. from : rs[i] = Upto(tip, i), NEW keep,
           NEW new, new = Stored(rs, tip, from, keep)
    PROVE  RowsOK(new) /\ OnRows(tip, new)
<1> DEFINE n == Len(tip)
           m == Len(rs)
           l == IF keep THEN MaxOf(m, n) ELSE n
<1>1. /\ n \in Nat /\ m \in Nat /\ rs \in Seq(Blocks)
      /\ \A i \in 1 .. m : rs[i] \in Blocks /\ Len(rs[i]) = i
      /\ \A i \in 1 .. n : Upto(tip, i) \in Blocks /\ Len(Upto(tip, i)) = i
  <2>1. n \in Nat /\ \A i \in 1 .. n : Upto(tip, i) \in Blocks /\ Len(Upto(tip, i)) = i
    BY BlockFacts, UptoBlock
  <2>2. rs \in Seq(Blocks) /\ m \in Nat /\ \A i \in 1 .. m : rs[i] \in Blocks /\ Len(rs[i]) = i
    BY DEF RowsOK
  <2> QED
    BY <2>1, <2>2
<1>2. l \in Nat /\ n <= l /\ (l = n \/ l = MaxOf(m, n))
  BY <1>1 DEF MaxOf
<1>3. new = [i \in 1 .. l |-> IF i > from /\ i <= n THEN Upto(tip, i) ELSE rs[i]]
  BY DEF Stored
<1>4. \A i \in 1 .. l : i \in 1 .. n \/ (i > n /\ i \in 1 .. m)
  <2> HIDE DEF l, n, m
  <2> QED
    BY <1>1, <1>2 DEF MaxOf
<1> HIDE DEF l
<1>5. ASSUME NEW i \in 1 .. l PROVE new[i] \in Blocks /\ Len(new[i]) = i /\ (i <= n => new[i] = Upto(tip, i))
  <2>1. CASE i \in 1 .. n /\ i > from
    BY <1>1, <1>3, <1>5, <2>1
  <2>2. CASE i \in 1 .. n /\ ~(i > from)
    <3>1. i \in 1 .. from /\ i \in 1 .. m
      BY <1>1, <2>2
    <3> QED
      BY <1>1, <1>3, <1>5, <2>2, <3>1
  <2>3. CASE i > n /\ i \in 1 .. m
    BY <1>1, <1>3, <1>5, <2>3
  <2> QED
    BY <1>4, <1>5, <2>1, <2>2, <2>3
<1>6. new \in Seq(Blocks) /\ Len(new) = l
  BY <1>2, <1>3, <1>5
<1>7. \A i \in 1 .. n : i \in 1 .. l /\ i <= n
  BY <1>1, <1>2
<1> QED
  BY <1>2, <1>5, <1>6, <1>7 DEF RowsOK, OnRows

-----------------------------------------------------------------------------
\* The inductive invariant.  The chain in memory is worth what its path says, in
\* time and on the rows, and every checkpoint is one of a block of the chain.
Checkpointed(cp) ==
    /\ cp.path \in Blocks /\ cp.anchor = AnchorOn(cp.path) /\ cp.anchor \in Anchors
    /\ cp.difficulty = RequiredOn(cp.path) /\ cp.difficulty \in Int
Held(c, sv) == \A cp \in sv : Checkpointed(cp) /\ IsOn(c, cp.path)

OnDisk(c, rs, sv) == RowsOK(rs) /\ OnRows(c.path, rs) /\ Held(c, sv)

DifficultyInv ==
    /\ now \in Nat
    /\ chain \in Chains /\ Timely(chain.path)
    /\ OnDisk(chain, rows, saved)
    /\ ReorgCompletesInTime

LEMMA SnapshotFacts ==
    ASSUME NEW c \in Chains
    PROVE  Checkpointed(Snapshot(c)) /\ Snapshot(c).path = c.path
<1>1. c \in States /\ Sane(c)
  BY DEF Chains
<1>2. c.anchor \in Anchors /\ c.difficulty \in Int /\ c.path \in Blocks
  BY <1>1 DEF States
<1> QED
  BY <1>1, <1>2 DEF Sane, Snapshot, Checkpointed

LEMMA RestoreFacts ==
    ASSUME NEW cp, Checkpointed(cp), NEW c, c = RestoreFromCheckpoint(cp)
    PROVE  c \in Chains /\ c.path = cp.path /\ c.orphans = {} /\ c.offset = Len(cp.path) - 1
<1>1. cp.path \in Blocks /\ Len(cp.path) \in Nat /\ Len(cp.path) >= 1
  BY BlockFacts DEF Checkpointed
<1>2. /\ c.path = cp.path /\ c.offset = Len(cp.path) - 1 /\ c.known = Len(cp.path) /\ c.anchor = cp.anchor
      /\ c.difficulty = cp.difficulty /\ c.orphans = {}
  BY DEF RestoreFromCheckpoint, Index
<1>3. c \in States
  BY <1>1 DEF RestoreFromCheckpoint, Index, States, Checkpointed
<1>4. Sane(c)
  BY <1>1, <1>2 DEF Sane, Checkpointed
<1> QED
  BY <1>2, <1>3, <1>4 DEF Chains

\* The latest checkpoint is one.
LEMMA LatestFacts ==
    ASSUME Held(chain, saved), saved # {}
    PROVE  Latest \in saved /\ \A cp \in saved : Len(cp.path) <= Len(Latest.path)
<1> DEFINE B == MaxHeight + 1
           S == {Len(cp.path) : cp \in saved}
<1>1. B \in Nat
  BY DifficultyAssumption
<1>2. \A cp \in saved : Len(cp.path) \in 1 .. B
  <2>1. SUFFICES ASSUME NEW cp \in saved PROVE Len(cp.path) \in 1 .. B
    OBVIOUS
  <2> DEFINE p == cp.path
  <2>2. p \in Blocks
    BY DEF Held, Checkpointed
  <2> HIDE DEF p
  <2>3. Len(p) \in 1 .. B
    BY <1>1, <2>2, BlockFacts
  <2> QED
    BY <2>3 DEF p
<1> HIDE DEF B
<1>3. S \in SUBSET (1 .. B) /\ S # {}
  BY <1>2
<1> HIDE DEF S
<1>4. Max(S) \in S /\ \A s \in S : s <= Max(S)
  BY <1>1, <1>3, MaxIsMember
<1>5. PICK m \in saved : Len(m.path) = Max(S)
  BY <1>4 DEF S
<1>6. \A cp \in saved : Len(cp.path) <= Len(m.path)
  BY <1>4, <1>5 DEF S
<1> QED
  BY <1>5, <1>6 DEF Latest

\* Where a reorg leaves the displaced chain.
LEMMA DisplacesFacts ==
    ASSUME chain \in Chains, NEW r, r.tip \in Blocks, NEW n, n = Displaces(r).from
    PROVE  n \in 1 .. Len(r.tip) /\ IsOn(chain, Upto(r.tip, n))
<1> DEFINE o == r.tip
           N == {i \in 1 .. Len(o) : IsOn(chain, Upto(o, i))}
           top == Max(N)
           Last1(i) == IsOn(chain, Upto(o, i)) /\ \A j \in i + 1 .. Len(o) : ~IsOn(chain, Upto(o, j))
<1>1. /\ o \in Blocks /\ o \in Seq(Nat) /\ Len(o) \in Nat /\ Len(o) >= 1 /\ o[1] = 0
      /\ chain.path \in Blocks /\ chain.path \in Seq(Nat) /\ Len(chain.path) \in Nat
      /\ Len(chain.path) >= 1 /\ chain.path[1] = 0
  BY BlockFacts, ChainFacts
<1> HIDE DEF o
<1>2. 1 \in N
  <2>1. 1 \in 1 .. Len(o) /\ 1 <= Len(chain.path) /\ \A i \in 1 .. 1 : o[i] = chain.path[i]
    BY <1>1
  <2>2. Upto(o, 1) = Upto(chain.path, 1) /\ Len(Upto(o, 1)) = 1
    BY <1>1, <2>1, UptoSame, UptoBlock
  <2> QED
    BY <2>1, <2>2 DEF IsOn
<1>3. N \in SUBSET (1 .. Len(o)) /\ N # {}
  BY <1>2
<1>4. top \in N /\ \A i \in N : i <= top
  <2> HIDE DEF N
  <2> QED
    BY <1>1, <1>3, MaxIsMember
<1>5. top \in 1 .. Len(o) /\ Last1(top)
  <2> HIDE DEF top
  <2>1. ASSUME NEW j \in top + 1 .. Len(o) PROVE ~IsOn(chain, Upto(o, j))
    <3>1. j \in 1 .. Len(o) /\ ~(j <= top)
      BY <1>1, <1>4
    <3> QED
      BY <1>4, <3>1
  <2> QED
    BY <1>4, <2>1
<1>6. n = CHOOSE i \in 1 .. Len(o) : Last1(i)
  BY Zenon DEF Displaces, o
<1> HIDE DEF top, Last1
<1>7. n \in 1 .. Len(o) /\ Last1(n)
  BY <1>5, <1>6
<1> QED
  BY <1>7 DEF Last1, o

\* The steps of a node, seen from the chain they leave.
LEMMA AfterApplied ==
    ASSUME DifficultyInv, NEW b \in Blocks, Len(b) >= 2, Accepts(chain, b),
           NEW keep, NEW rs, rs = Stored(rows, b, Index(b), keep),
           NEW c, c = UpdateState(chain, b),
           NEW sv, sv \subseteq saved \cup {Snapshot(c)}
    PROVE  c \in Chains /\ Timely(c.path) /\ OnDisk(c, rs, sv)
<1>1. /\ now \in Nat /\ chain \in Chains /\ Timely(chain.path) /\ RowsOK(rows) /\ OnRows(chain.path, rows)
      /\ Held(chain, saved)
  BY DEF DifficultyInv, OnDisk
<1>2. Parent(b) = chain.path /\ InTime(b)
  BY DEF Accepts
<1>3. c \in Chains /\ c.path = b
  BY <1>1, <1>2, UpdateFacts
<1>4. Timely(b)
  BY <1>1, <1>2, TimelyNext
<1>5. /\ chain.path = Upto(b, Len(b) - 1) /\ Len(b) - 1 \in 1 .. Len(b) /\ Len(chain.path) = Len(b) - 1
      /\ Len(b) \in Nat /\ b \in Seq(Nat) /\ Index(b) = Len(b) - 1
  BY <1>2, BlockFacts, ParentFacts
<1>6. \A i \in 1 .. Index(b) : rows[i] = Upto(b, i)
  <2>1. \A i \in 1 .. (Len(b) - 1) : Upto(chain.path, i) = Upto(b, i)
    BY <1>5, UptoUpto
  <2> QED
    BY <1>1, <1>5, <2>1 DEF OnRows
<1>7. RowsOK(rs) /\ OnRows(b, rs)
  <2> DEFINE n == Index(b)
  <2>1. n \in Nat /\ n <= Len(b) /\ n <= Len(rows)
    BY <1>1, <1>5 DEF OnRows
  <2>2. rs = Stored(rows, b, n, keep) /\ \A i \in 1 .. n : rows[i] = Upto(b, i)
    BY <1>6
  <2> HIDE DEF n
  <2> QED
    BY <1>1, <2>1, <2>2, StoredFacts
<1>8. Held(c, sv)
  <2>1. SUFFICES ASSUME NEW cp \in sv PROVE Checkpointed(cp) /\ IsOn(c, cp.path)
    BY DEF Held
  <2>2. CASE cp \in saved
    <3> DEFINE P == cp.path
    <3>1. Checkpointed(cp) /\ P \in Blocks /\ IsOn(chain, P)
      BY <1>1, <2>2 DEF Held, Checkpointed
    <3> HIDE DEF P
    <3>2. IsOn(c, P)
      BY <1>1, <1>2, <1>3, <3>1, OnNext
    <3> QED
      BY <3>1, <3>2 DEF P
  <2>3. CASE cp = Snapshot(c)
    <3>1. Checkpointed(cp) /\ cp.path = b
      BY <1>3, <2>3, SnapshotFacts
    <3> QED
      BY <1>3, <1>5, <3>1, UptoWhole DEF IsOn
  <2> QED
    BY <2>1, <2>2, <2>3
<1> QED
  BY <1>3, <1>4, <1>7, <1>8 DEF OnDisk

LEMMA AfterReorged ==
    ASSUME DifficultyInv, NEW o \in Blocks, NEW n \in 1 .. Len(o), IsOn(chain, Upto(o, n)),
           NEW keep, NEW rs, rs = Stored(rows, o, n, keep),
           NEW c, c = ReorgTo(chain, o),
           NEW sv, sv \subseteq {cp \in saved : Len(cp.path) <= n}
    PROVE  c \in Chains /\ Timely(c.path) /\ OnDisk(c, rs, sv)
<1>1. /\ now \in Nat /\ chain \in Chains /\ Timely(chain.path) /\ RowsOK(rows) /\ OnRows(chain.path, rows)
      /\ Held(chain, saved)
  BY DEF DifficultyInv, OnDisk
<1> DEFINE k == Len(c.path)
<1>2. /\ c \in Chains /\ Timely(c.path) /\ k \in 1 .. Len(o) /\ c.path = Upto(o, k)
      /\ n <= k
  BY <1>1, ReorgKeeps
<1> HIDE DEF k
<1>3. /\ Len(o) \in Nat /\ o \in Seq(Nat) /\ \A m \in 1 .. n : Upto(o, m) = Upto(chain.path, m)
      /\ n <= Len(chain.path) /\ Len(chain.path) \in Nat /\ n \in 1 .. n
  <2>1. Len(o) \in Nat /\ o \in Seq(Nat) /\ chain.path \in Blocks
    BY <1>1, BlockFacts, ChainFacts
  <2>2. Len(chain.path) \in Nat /\ n \in 1 .. n
    BY <2>1, BlockFacts
  <2>3. \A m \in 1 .. n : Upto(o, m) = Upto(chain.path, m) /\ n <= Len(chain.path)
    BY <1>1, BelowOn
  <2> QED
    BY <2>1, <2>2, <2>3
<1>4. n \in Nat /\ n <= Len(o) /\ n <= Len(rows) /\ \A i \in 1 .. n : rows[i] = Upto(o, i)
  BY <1>1, <1>3 DEF OnRows, RowsOK
<1>5. RowsOK(rs) /\ OnRows(o, rs)
  BY <1>1, <1>4, StoredFacts
<1>6. OnRows(c.path, rs)
  BY <1>2, <1>5, OnRowsPrefix
<1>7. Held(c, sv)
  <2>1. SUFFICES ASSUME NEW cp \in sv PROVE Checkpointed(cp) /\ IsOn(c, cp.path)
    BY DEF Held
  <2> DEFINE P == cp.path
             R == Upto(o, n)
  <2>2. Checkpointed(cp) /\ P \in Blocks /\ IsOn(chain, P) /\ Len(P) <= n
    BY <1>1, <2>1 DEF Held, Checkpointed
  <2>3. R \in Blocks /\ Len(R) = n /\ IsOn(chain, R)
    BY UptoBlock
  <2>4. IsOn(c, R)
    <3>1. Upto(Upto(o, k), n) = Upto(o, n)
      BY <1>2, <1>3, UptoUpto
    <3> QED
      BY <1>2, <2>3, <3>1 DEF IsOn, k
  <2> HIDE DEF P, R
  <2>5. IsOn(c, P)
    BY <1>1, <1>2, <2>2, <2>3, <2>4, OnBelow
  <2> QED
    BY <2>2, <2>5 DEF P
<1> QED
  BY <1>2, <1>5, <1>6, <1>7 DEF OnDisk

\* What apply_block did, told by what apply_in_memory returned.
Stays(r) == r.kind \in {"Rejected", "Orphaned"} /\ r.chain.path = chain.path /\ r.chain \in Chains

LEMMA ReceiveCases ==
    ASSUME DifficultyInv, NEW b \in ValidBlocks, Receive(b)
    PROVE  \E r : /\ now' = now /\ chain' = PruneToWindow(r.chain)
                  /\ outcome' = [kind |-> r.kind, tip |-> r.tip]
                  /\ \/ /\ Applied(chain, b, r)
                        /\ \E keep : rows' = Stored(rows, b, Index(b), keep)
                        /\ saved' \subseteq saved \cup {Snapshot(r.chain)}
                     \/ /\ r.kind = "Reorged" /\ r.tip \in Blocks /\ r.chain = ReorgTo(chain, r.tip)
                        /\ \E keep : rows' = Stored(rows, r.tip, Displaces(r).from, keep)
                        /\ saved' \subseteq {cp \in saved : Len(cp.path) <= Displaces(r).from}
                     \/ Stays(r) /\ rows' = rows /\ saved' = saved
<1> DEFINE database == TRUE
           keepA == TRUE
           r == ApplyInMemory(chain, b, database)
           d == Displaces(r)
           keepR == ~d.shallow
           shallow == d.shallow
           aligned == Index(b) % CheckpointInterval = 0
<1>1. b \in Blocks /\ Len(b) >= 2 /\ database \in BOOLEAN /\ chain \in Chains
  BY ValidBlocksFacts DEF DifficultyInv
<1>2. /\ now' = now /\ chain' = PruneToWindow(r.chain) /\ outcome' = [kind |-> r.kind, tip |-> r.tip]
      /\ rows' = CASE r.kind = "Applied" -> Stored(rows, b, Index(b), keepA)
                   [] r.kind = "Reorged" -> Stored(rows, r.tip, d.from, keepR)
                   [] OTHER -> rows
      /\ saved' = CASE r.kind = "Applied" /\ aligned
                                -> {cp \in saved : Len(cp.path) # Len(b)} \cup {Snapshot(r.chain)}
                    [] r.kind = "Reorged"
                                -> {cp \in saved : shallow /\ Len(cp.path) <= d.from}
                    [] OTHER -> saved
  BY Zenon DEF Receive
<1> HIDE DEF database
<1>3. \/ Applied(chain, b, r) \/ Rejected(chain, b, r) \/ Orphaned(chain, b, r)
      \/ Reorged(chain, b, r, database)
  BY <1>1, ApplyFacts
<1> HIDE DEF r, d, keepA, keepR, shallow, aligned
<1>4. CASE Applied(chain, b, r)
  <2>1. r.kind = "Applied" /\ r.kind # "Reorged"
    BY <1>4 DEF Applied
  <2>2. rows' = Stored(rows, b, Index(b), keepA)
    BY <1>2, <2>1
  <2>3. saved' \subseteq saved \cup {Snapshot(r.chain)}
    BY <1>2, <2>1
  <2> QED
    BY <1>2, <1>4, <2>2, <2>3
<1>5. CASE Rejected(chain, b, r) \/ Orphaned(chain, b, r)
  <2>1. Stays(r) /\ r.kind # "Applied" /\ r.kind # "Reorged"
    <3>1. CASE Rejected(chain, b, r)
      BY <1>1, <3>1 DEF Rejected, Stays
    <3>2. CASE Orphaned(chain, b, r)
      BY <1>1, <3>2, PooledFacts DEF Orphaned, Stays
    <3> QED
      BY <1>5, <3>1, <3>2
  <2>2. rows' = rows /\ saved' = saved
    BY <1>2, <2>1
  <2> QED
    BY <1>2, <2>1, <2>2
<1>6. CASE Reorged(chain, b, r, database)
  <2>1. PICK o : Candidate(Pooled(chain, b), o, database)
                 /\ r = [kind |-> "Reorged", tip |-> o, chain |-> ReorgTo(chain, o)]
    BY <1>6 DEF Reorged
  <2>2. /\ r.kind = "Reorged" /\ r.kind # "Applied" /\ r.tip = o /\ o \in Blocks
        /\ r.chain = ReorgTo(chain, r.tip)
    BY <2>1 DEF Candidate
  <2>3. rows' = Stored(rows, r.tip, d.from, keepR)
    BY <1>2, <2>2
  <2>4. saved' \subseteq {cp \in saved : Len(cp.path) <= d.from}
    BY <1>2, <2>2
  <2> QED
    BY <1>2, <2>2, <2>3, <2>4 DEF d
<1> QED
  BY <1>3, <1>4, <1>5, <1>6

LEMMA ReceiveStep ==
    ASSUME DifficultyInv, NEW b \in ValidBlocks, Receive(b)
    PROVE  DifficultyInv' /\ outcome'.kind # "Started"
<1>1. b \in Blocks /\ Len(b) >= 2
  BY ValidBlocksFacts
<1>2. PICK r : /\ now' = now /\ chain' = PruneToWindow(r.chain)
               /\ outcome' = [kind |-> r.kind, tip |-> r.tip]
               /\ \/ /\ Applied(chain, b, r)
                     /\ \E keep : rows' = Stored(rows, b, Index(b), keep)
                     /\ saved' \subseteq saved \cup {Snapshot(r.chain)}
                  \/ /\ r.kind = "Reorged" /\ r.tip \in Blocks /\ r.chain = ReorgTo(chain, r.tip)
                     /\ \E keep : rows' = Stored(rows, r.tip, Displaces(r).from, keep)
                     /\ saved' \subseteq {cp \in saved : Len(cp.path) <= Displaces(r).from}
                  \/ Stays(r) /\ rows' = rows /\ saved' = saved
  BY ReceiveCases
<1> DEFINE c == r.chain
           rs == rows'
           sv == saved'
<1>3. /\ now \in Nat /\ chain \in Chains /\ Timely(chain.path) /\ RowsOK(rows) /\ OnRows(chain.path, rows)
      /\ Held(chain, saved)
  BY DEF DifficultyInv, OnDisk
<1>4. /\ c \in Chains /\ Timely(c.path) /\ OnDisk(c, rs, sv) /\ r.kind # "Started"
      /\ r.kind = "Reorged" => r.tip \in Blocks /\ (Timely(r.tip) => c.path = r.tip)
  <2>1. CASE /\ Applied(chain, b, r)
             /\ \E keep : rows' = Stored(rows, b, Index(b), keep)
             /\ saved' \subseteq saved \cup {Snapshot(r.chain)}
    <3>1. PICK keep : rs = Stored(rows, b, Index(b), keep)
      BY <2>1
    <3>2. Accepts(chain, b) /\ c = UpdateState(chain, b) /\ r.kind = "Applied"
      BY <2>1 DEF Applied
    <3>3. sv \subseteq saved \cup {Snapshot(c)}
      BY <2>1
    <3> HIDE DEF c, rs, sv
    <3>4. c \in Chains /\ Timely(c.path) /\ OnDisk(c, rs, sv)
      BY <1>1, <3>1, <3>2, <3>3, AfterApplied
    <3> QED
      BY <3>2, <3>4
  <2>2. CASE /\ r.kind = "Reorged" /\ r.tip \in Blocks /\ r.chain = ReorgTo(chain, r.tip)
             /\ \E keep : rows' = Stored(rows, r.tip, Displaces(r).from, keep)
             /\ saved' \subseteq {cp \in saved : Len(cp.path) <= Displaces(r).from}
    <3> DEFINE n == Displaces(r).from
               o == r.tip
    <3>1. PICK keep : rs = Stored(rows, o, n, keep)
      BY <2>2
    <3>2. sv \subseteq {cp \in saved : Len(cp.path) <= n} /\ o \in Blocks /\ c = ReorgTo(chain, o)
      BY <2>2
    <3>3. n \in 1 .. Len(o) /\ IsOn(chain, Upto(o, n))
      BY <1>3, <2>2, DisplacesFacts
    <3> HIDE DEF c, rs, sv, n, o
    <3>4. c \in Chains /\ Timely(c.path) /\ OnDisk(c, rs, sv)
      BY <3>1, <3>2, <3>3, AfterReorged
    <3>5. Timely(o) => c.path = o
      BY <1>3, <3>2, ReorgKeeps
    <3> QED
      BY <2>2, <3>2, <3>4, <3>5 DEF o
  <2>3. CASE Stays(r) /\ rows' = rows /\ saved' = saved
    <3>1. c.path = chain.path /\ c \in Chains /\ r.kind # "Started" /\ r.kind # "Reorged"
      BY <2>3 DEF Stays
    <3>2. OnDisk(c, rows, saved)
      BY <1>3, <3>1 DEF OnDisk, Held, IsOn
    <3> QED
      BY <1>3, <2>3, <3>1, <3>2
  <2> QED
    BY <1>2, <2>1, <2>2, <2>3
<1>5. /\ chain' \in Chains /\ chain'.path = c.path
  BY <1>2, <1>4, PruneFacts
<1> HIDE DEF c, rs, sv
<1>6. /\ now' \in Nat /\ chain' \in Chains /\ Timely(chain.path)'
  BY <1>2, <1>3, <1>4, <1>5 DEF Timely
<1>7. OnDisk(chain, rows, saved)'
  BY <1>4, <1>5 DEF OnDisk, Held, IsOn, rs, sv
<1>8. ReorgCompletesInTime'
  <2>1. SUFFICES ASSUME \A i \in DOMAIN outcome'.tip : outcome'.tip[i] <= now' + FutureLimit,
                        outcome'.kind = "Reorged"
                 PROVE  chain'.path = outcome'.tip
    BY DEF ReorgCompletesInTime, ReorgCompletes
  <2>2. r.tip \in Blocks /\ r.kind = "Reorged" /\ outcome'.tip = r.tip
    BY <1>2, <1>4, <2>1
  <2>3. r.tip \in Seq(Nat) /\ DOMAIN r.tip = 1 .. Len(r.tip)
    BY <2>2, BlockFacts
  <2>4. Timely(r.tip)
    BY <1>2, <2>1, <2>2, <2>3 DEF Timely
  <2> QED
    BY <1>4, <1>5, <2>2, <2>4
<1> QED
  BY <1>2, <1>4, <1>6, <1>7, <1>8 DEF DifficultyInv

\* Time passes: what was in time stays in time.
LEMMA TickStep ==
    ASSUME DifficultyInv, Tick
    PROVE  DifficultyInv' /\ outcome'.kind # "Started"
<1>1. /\ now \in Nat /\ now' = now + 1 /\ chain' = chain /\ rows' = rows /\ saved' = saved
      /\ outcome'.kind = "Waited" /\ chain \in Chains /\ Timely(chain.path)
      /\ OnDisk(chain, rows, saved) /\ FutureLimit \in Nat
  BY DifficultyAssumption DEF DifficultyInv, Tick
<1>2. chain.path \in Blocks /\ \A i \in 1 .. Len(chain.path) : chain.path[i] \in Nat
  BY <1>1, ChainFacts, BlockFacts
<1>3. Timely(chain.path)'
  <2>1. \A i \in 1 .. Len(chain.path) : chain.path[i] <= now + FutureLimit
    BY <1>1 DEF Timely
  <2>2. \A i \in 1 .. Len(chain.path) : chain.path[i] <= (now + 1) + FutureLimit
    BY <1>1, <1>2, <2>1
  <2> QED
    BY <1>1, <2>2 DEF Timely
<1>4. OnDisk(chain, rows, saved)'
  BY <1>1 DEF OnDisk, Held, IsOn
<1>5. ReorgCompletesInTime'
  BY <1>1 DEF ReorgCompletesInTime, ReorgCompletes
<1> QED
  BY <1>1, <1>3, <1>4, <1>5 DEF DifficultyInv

\* Both kinds of start replay the rows above a block of the chain.
LEMMA AfterReplay ==
    ASSUME DifficultyInv, NEW c \in Chains, c.orphans = {}, NEW L \in 1 .. Len(chain.path),
           c.path = Upto(chain.path, L),
           NEW d, d = Replay(c, SubSeq(rows, L + 1, Len(rows)))
    PROVE  /\ d \in Chains /\ Timely(d.path) /\ OnRows(d.path, rows) /\ IsOn(d, c.path)
           /\ Fits(chain.path, c.offset, L) => IsOn(d, chain.path)
<1> DEFINE P == chain.path
<1>1. /\ now \in Nat /\ chain \in Chains /\ Timely(P) /\ RowsOK(rows) /\ OnRows(P, rows)
      /\ P \in Blocks
  BY ChainFacts DEF DifficultyInv, OnDisk
<1>a. L \in 1 .. Len(P)
  OBVIOUS
<1> HIDE DEF P
<1>2. P \in Seq(Nat) /\ Len(P) \in Nat /\ Len(P) \in 1 .. Len(P) /\ Len(Upto(P, L)) = L
  <2>1. P \in Seq(Nat) /\ Len(P) \in Nat /\ Len(P) >= 1
    BY <1>1, BlockFacts
  <2>2. Len(Upto(P, L)) = L
    BY <1>1, <1>a, UptoBlock
  <2> QED
    BY <2>1, <2>2
<1>3. c.path = Upto(P, L) /\ L \in 1 .. Len(P) /\ Len(c.path) = L
  BY <1>2 DEF P
<1>4. Timely(c.path)
  BY <1>1, <1>2, <1>3, UptoWhole, TimelyPrefix
<1>5. OnRows(c.path, rows)
  BY <1>1, <1>3, OnRowsPrefix
<1>6. d \in Chains /\ Timely(d.path) /\ OnRows(d.path, rows) /\ IsOn(d, c.path)
  BY <1>1, <1>3, <1>4, <1>5, ReplaySound
<1>7. Fits(P, c.offset, L) => IsOn(d, P)
  BY <1>1, <1>3, ReplayWhole
<1> QED
  BY <1>6, <1>7 DEF P

LEMMA TailOfRows ==
    ASSUME NEW rs, RowsOK(rs), Len(rs) >= 1
    PROVE  Tail(rs) = SubSeq(rs, 2, Len(rs))
<1> DEFINE n == Len(rs)
           s == Tail(rs)
           t == SubSeq(rs, 2, n)
<1>1. n \in Nat /\ rs \in Seq(Blocks) /\ \A i \in 2 .. n : rs[i] \in Blocks
  BY DEF RowsOK
<1>2. s \in Seq(Blocks) /\ Len(s) = n - 1 /\ \A i \in 1 .. n - 1 : s[i] = rs[i + 1]
  <2>1. rs # <<>>
    BY <1>1
  <2> QED
    BY <1>1, <2>1, HeadTailProperties
<1>3. t \in Seq(Blocks) /\ Len(t) = n - 1 /\ \A i \in 1 .. n - 1 : t[i] = rs[i + 1]
  <2>1. /\ t \in Seq(Blocks) /\ Len(t) = IF 2 <= n THEN n - 2 + 1 ELSE 0
        /\ \A i \in 1 .. n - 2 + 1 : t[i] = rs[2 + i - 1]
    BY <1>1, SubSeqProperties
  <2>2. (IF 2 <= n THEN n - 2 + 1 ELSE 0) = n - 1 /\ n - 2 + 1 = n - 1
    <3>1. n \in Nat /\ n >= 1
      BY <1>1
    <3> HIDE DEF n
    <3> QED
      BY <3>1
  <2>3. \A i \in 1 .. n - 1 : 2 + i - 1 = i + 1
    BY <1>1
  <2> HIDE DEF t
  <2> QED
    BY <2>1, <2>2, <2>3
<1> HIDE DEF s, t
<1>4. Len(s) = Len(t) /\ \A i \in 1 .. Len(s) : s[i] = t[i]
  BY <1>2, <1>3
<1>5. s = t
  BY <1>2, <1>3, <1>4, SeqEqual
<1> QED
  BY <1>5 DEF s, t

\* The chain that a start leaves is on the table, and its checkpoints are below it.
LEMMA RestartCases ==
    ASSUME DifficultyInv, Restart
    PROVE  \E d : /\ d \in Chains /\ Timely(d.path) /\ OnDisk(d, rows, saved')
                  /\ chain' = PruneToWindow(d)
                  /\ (UsesCheckpoint => Ascending) => IsOn(d, chain.path)
<1>1. /\ now \in Nat /\ chain \in Chains /\ RowsOK(rows) /\ OnRows(chain.path, rows)
      /\ Held(chain, saved) /\ chain.path \in Blocks
  BY ChainFacts DEF DifficultyInv, OnDisk
<1>2. /\ Len(chain.path) \in Nat /\ Len(chain.path) >= 1 /\ Len(chain.path) <= Len(rows)
      /\ chain.path[1] = 0 /\ chain.path \in Seq(Nat)
  BY <1>1, BlockFacts DEF OnRows
<1>3. CASE UsesCheckpoint
  <2> DEFINE cp == Latest
             L == Len(cp.path)
             c == RestoreFromCheckpoint(cp)
             d == Replay(c, SubSeq(rows, L + 1, Len(rows)))
  <2>1. chain' = PruneToWindow(d) /\ saved' = saved
    BY <1>3 DEF Restart, LoadBlocksFrom
  <2>2. cp \in saved /\ \A x \in saved : Len(x.path) <= Len(cp.path)
    BY <1>1, <1>3, LatestFacts DEF UsesCheckpoint
  <2>a. Ascending <=> Ascends(chain.path, L)
    BY DEF Ascending, Ascends
  <2> HIDE DEF cp
  <2>3. Checkpointed(cp) /\ cp.path \in Blocks /\ IsOn(chain, cp.path)
    BY <1>1, <2>2 DEF Held, Checkpointed
  <2>4. L \in 1 .. Len(chain.path) /\ cp.path = Upto(chain.path, L)
    BY <1>2, <2>3, BlockFacts DEF IsOn
  <2>5. c \in Chains /\ c.path = cp.path /\ c.orphans = {} /\ c.offset = L - 1
    BY <2>3, RestoreFacts
  <2> HIDE DEF L, c, d
  <2>6. d = Replay(c, SubSeq(rows, L + 1, Len(rows)))
    BY DEF d
  <2>7. /\ d \in Chains /\ Timely(d.path) /\ OnRows(d.path, rows) /\ IsOn(d, c.path)
        /\ Fits(chain.path, c.offset, L) => IsOn(d, chain.path)
    BY <2>4, <2>5, <2>6, AfterReplay
  <2>8. Ascending => Fits(chain.path, c.offset, L)
    BY <1>1, <2>a, <2>4, <2>5, AscendingFits
  <2>9. Held(d, saved)
    <3>1. SUFFICES ASSUME NEW x \in saved PROVE Checkpointed(x) /\ IsOn(d, x.path)
      BY DEF Held
    <3> DEFINE P == x.path
               R == cp.path
    <3>2. Checkpointed(x) /\ P \in Blocks /\ IsOn(chain, P) /\ Len(P) <= Len(R)
      BY <1>1, <2>2 DEF Held, Checkpointed
    <3>3. R \in Blocks /\ IsOn(chain, R) /\ IsOn(d, R)
      BY <2>3, <2>5, <2>7
    <3> HIDE DEF P, R
    <3>4. IsOn(d, P)
      BY <1>1, <2>7, <3>2, <3>3, OnBelow
    <3> QED
      BY <3>2, <3>4 DEF P
  <2> QED
    BY <1>1, <1>3, <2>1, <2>7, <2>8, <2>9 DEF OnDisk
<1>4. CASE ~UsesCheckpoint
  <2> DEFINE c == GenesisChain
             L == 1
             d == Replay(c, SubSeq(rows, L + 1, Len(rows)))
  <2>1. chain' = PruneToWindow(d) /\ saved' = {}
    <3>1. Tail(rows) = SubSeq(rows, 1 + 1, Len(rows))
      <4>1. Tail(rows) = SubSeq(rows, 2, Len(rows))
        BY <1>1, <1>2, TailOfRows DEF RowsOK
      <4> QED
        BY <4>1
    <3> QED
      BY <1>4, <3>1 DEF Restart
  <2>2. L \in 1 .. Len(chain.path)
    BY <1>2
  <2>3. c \in Chains /\ c.orphans = {} /\ c.offset = 0 /\ c.path = <<0>> /\ <<0>> \in Blocks
    BY GenesisFacts
  <2>4. c.path = Upto(chain.path, L)
    <3>1. 1 \in 1 .. Len(chain.path) /\ 1 <= Len(<<0>>) /\ \A i \in 1 .. 1 : chain.path[i] = <<0>>[i]
      BY <1>2
    <3>2. <<0>> \in Seq(Nat) /\ Len(<<0>>) = 1
      OBVIOUS
    <3>3. Upto(chain.path, 1) = Upto(<<0>>, 1)
      BY <1>2, <3>1, <3>2, UptoSame
    <3>4. Upto(<<0>>, 1) = <<0>>
      BY <3>2, UptoWhole
    <3> QED
      BY <2>3, <3>3, <3>4
  <2>5. Fits(chain.path, c.offset, L)
    BY <1>1, <2>3, GenesisFits
  <2> HIDE DEF c, L, d
  <2>6. d = Replay(c, SubSeq(rows, L + 1, Len(rows)))
    BY DEF d
  <2>7. /\ d \in Chains /\ Timely(d.path) /\ OnRows(d.path, rows) /\ IsOn(d, c.path)
        /\ Fits(chain.path, c.offset, L) => IsOn(d, chain.path)
    BY <2>2, <2>3, <2>4, <2>6, AfterReplay
  <2>8. Held(d, {})
    BY DEF Held
  <2> QED
    BY <1>1, <2>1, <2>5, <2>7, <2>8 DEF OnDisk
<1> QED
  BY <1>3, <1>4

LEMMA RestartStep ==
    ASSUME DifficultyInv, Restart
    PROVE  DifficultyInv' /\ ((UsesCheckpoint => Ascending) => IsPrefix(chain.path, chain'.path))
<1>1. PICK d : /\ d \in Chains /\ Timely(d.path) /\ OnDisk(d, rows, saved')
               /\ chain' = PruneToWindow(d)
               /\ (UsesCheckpoint => Ascending) => IsOn(d, chain.path)
  BY RestartCases
<1>2. chain' \in Chains /\ chain'.path = d.path
  BY <1>1, PruneFacts
<1>3. now' = now /\ rows' = rows /\ outcome'.kind = "Started" /\ now \in Nat
  BY DEF Restart, DifficultyInv
<1>4. Timely(chain.path)' /\ OnDisk(chain, rows, saved)'
  BY <1>1, <1>2, <1>3 DEF Timely, OnDisk, Held, IsOn
<1>5. ReorgCompletesInTime'
  BY <1>3 DEF ReorgCompletesInTime, ReorgCompletes
<1>6. ASSUME UsesCheckpoint => Ascending PROVE IsPrefix(chain.path, chain'.path)
  <2> DEFINE P == chain.path
  <2>1. IsOn(d, P) /\ P \in Seq(Nat)
    BY <1>1, <1>6, ChainFacts, BlockFacts DEF DifficultyInv
  <2> HIDE DEF P
  <2>2. Len(P) <= Len(d.path) /\ SubSeq(d.path, 1, Len(P)) = P /\ SubSeq(P, 1, Len(P)) = P
    BY <2>1, UptoWhole DEF IsOn, Upto
  <2>3. IsPrefix(P, d.path)
    BY <2>2 DEF IsPrefix
  <2> QED
    BY <1>2, <2>3 DEF P
<1> QED
  BY <1>2, <1>3, <1>4, <1>5, <1>6 DEF DifficultyInv

-----------------------------------------------------------------------------
LEMMA DifficultyInit == Init => DifficultyInv
<1>1. SUFFICES ASSUME Init PROVE DifficultyInv
  OBVIOUS
<1>2. now = 0 /\ chain = GenesisChain /\ rows = <<chain.path>> /\ saved = {} /\ outcome.kind = "Started"
  BY <1>1 DEF Init
<1>3. chain \in Chains /\ chain.path = <<0>> /\ <<0>> \in Blocks
  BY <1>2, GenesisFacts
<1>4. Timely(chain.path)
  <2>1. Len(<<0>>) = 1 /\ <<0>>[1] = 0 /\ 0 <= now + FutureLimit
    BY <1>2, DifficultyAssumption
  <2> QED
    BY <1>3, <2>1 DEF Timely
<1>5. OnDisk(chain, rows, saved)
  <2> DEFINE g == <<0>>
  <2>1. g \in Blocks /\ Len(g) = 1 /\ rows = <<g>> /\ chain.path = g
    BY <1>2, <1>3
  <2> HIDE DEF g
  <2>a. <<g>> \in Seq(Blocks) /\ Len(<<g>>) = 1 /\ <<g>>[1] = g
    BY <2>1
  <2>b. /\ rows \in Seq(Blocks) /\ Len(rows) = 1 /\ Len(g) = 1
        /\ \A i \in 1 .. 1 : rows[i] = g /\ i = 1
    BY <2>1, <2>a
  <2>2. RowsOK(rows)
    BY <2>b DEF RowsOK
  <2>3. Upto(g, 1) = g
    BY <2>1, UptoWhole, BlockFacts
  <2>4. OnRows(chain.path, rows)
    <3>1. \A i \in 1 .. 1 : rows[i] = Upto(g, i)
      BY <2>b, <2>3
    <3>2. OnRows(g, rows)
      BY <2>b, <3>1 DEF OnRows
    <3> QED
      BY <2>1, <3>2
  <2> QED
    BY <1>2, <2>2, <2>4 DEF OnDisk, Held
<1>6. ReorgCompletesInTime
  BY <1>2 DEF ReorgCompletesInTime, ReorgCompletes
<1> QED
  BY <1>2, <1>3, <1>4, <1>5, <1>6 DEF DifficultyInv

LEMMA DifficultyStep ==
    ASSUME DifficultyInv, [Next]_vars
    PROVE  DifficultyInv' /\ [(UsesCheckpoint => Ascending) => Lossless]_vars
<1>1. CASE Tick
  BY <1>1, TickStep DEF Lossless
<1>2. CASE Restart
  BY <1>2, RestartStep DEF Lossless
<1>3. ASSUME NEW b \in ValidBlocks, Receive(b)
      PROVE  DifficultyInv' /\ [(UsesCheckpoint => Ascending) => Lossless]_vars
  BY <1>3, ReceiveStep DEF Lossless
<1>4. CASE UNCHANGED vars
  <2>1. now' = now /\ chain' = chain /\ rows' = rows /\ saved' = saved /\ outcome' = outcome
    BY <1>4 DEF vars
  <2>2. DifficultyInv'
    <3>1. Timely(chain.path)' /\ OnDisk(chain, rows, saved)'
      BY <2>1 DEF DifficultyInv, Timely, OnDisk, Held, IsOn
    <3>2. ReorgCompletesInTime'
      BY <2>1 DEF DifficultyInv, ReorgCompletesInTime, ReorgCompletes
    <3> QED
      BY <2>1, <3>1, <3>2 DEF DifficultyInv
  <2> QED
    BY <1>4, <2>2
<1> QED
  BY <1>1, <1>2, <1>3, <1>4 DEF Next

LEMMA Inductive == Spec => []DifficultyInv
<1>1. DifficultyInv /\ [Next]_vars => DifficultyInv'
  BY DifficultyStep
<1> QED
  BY <1>1, DifficultyInit, PTL DEF Spec

\* Whatever forks, reorgs and restarts led to a chain, its difficulty is the one
\* its blocks determine (update_state, reorg_to, restore_from_checkpoint).
THEOREM DifficultyOfChain == Spec => []DifficultyFollowsChain
<1>1. DifficultyInv => DifficultyFollowsChain
  BY ChainFacts DEF DifficultyInv, DifficultyFollowsChain
<1> QED
  BY <1>1, Inductive, PTL

\* A reorg to a fork whose blocks are all in time never stops half way
\* (reorg_to, apply_in_memory).
THEOREM ReorgsComplete == Spec => []ReorgCompletesInTime
<1>1. DifficultyInv => ReorgCompletesInTime
  BY DEF DifficultyInv
<1> QED
  BY <1>1, Inductive, PTL

\* A start keeps the whole chain when it is ascending above the checkpoint, or
\* when there is no checkpoint to use (the replay loop of main.rs).
THEOREM RestartsKeepChain == Spec => RestartKeepsAscending
<1>1. DifficultyInv /\ [Next]_vars => [(UsesCheckpoint => Ascending) => Lossless]_vars
  BY DifficultyStep
<1> QED
  BY <1>1, Inductive, PTL DEF Spec, RestartKeepsAscending

\* The difficulty that a comparable block is held to is the one that its own
\* chain asks for.
LEMMA ComparableFacts ==
    ASSUME chain \in Chains, NEW b \in Blocks, Len(b) >= 2, Comparable(b), ~IsOn(chain, b)
    PROVE  ValidateBlockStandalone(chain, b)
<1> DEFINE p == chain.path
           q == Parent(b)
<1>1. /\ p \in Blocks /\ p \in Seq(Nat) /\ Len(p) \in Nat /\ chain.difficulty = RequiredOn(p)
      /\ chain.anchor = AnchorOn(p) /\ Len(p) >= 2
  BY ChainFacts, BlockFacts DEF Comparable
<1>2. /\ q = Upto(b, Len(b) - 1) /\ Len(q) = Len(b) - 1 /\ Len(b) - 1 \in 1 .. Len(b)
      /\ b \in Seq(Nat) /\ Len(b) \in Nat /\ b[1] = 0 /\ p[1] = 0 /\ b[2] = p[2]
      /\ Index(q) = Len(q) - 1
  BY <1>1, ParentFacts, BlockFacts DEF Comparable, Index
<1>3. q \in Blocks /\ Met(b) = RequiredOn(q) /\ RequiredOn(q) \in Int
  BY <1>2, UptoBlock, FormulaFacts DEF Met
<1>4. Len(b) > 2
  <2>1. SUFFICES ASSUME Len(b) = 2 PROVE FALSE
    BY <1>2
  <2>2. \A i \in 1 .. 2 : b[i] = p[i]
    BY <1>2
  <2>3. 2 \in 1 .. Len(b) /\ 2 <= Len(p)
    BY <1>1, <2>1
  <2> HIDE DEF p, q
  <2>4. Upto(b, 2) = Upto(p, 2)
    BY <1>1, <1>2, <2>2, <2>3, UptoSame
  <2>5. Upto(p, 2) = b
    BY <1>2, <2>1, <2>4, UptoWhole
  <2>6. IsOn(chain, b)
    BY <2>1, <2>3, <2>5 DEF IsOn, p
  <2> QED
    BY <2>6
<1>5. Len(q) >= 2 /\ q[2] = b[2]
  <2>1. Len(b) - 1 >= 2 /\ 2 \in 1 .. (Len(b) - 1)
    BY <1>2, <1>4
  <2>2. \A i \in 1 .. (Len(b) - 1) : Upto(b, Len(b) - 1)[i] = b[i]
    BY <1>2, UptoFacts
  <2> HIDE DEF q
  <2> QED
    BY <1>2, <2>1, <2>2
<1> HIDE DEF p, q
<1>6. /\ AnchorOn(p) = AnchorOn(q) /\ AnchorOn(p).height = 1 /\ AnchorOn(p).difficulty = InitialDifficulty
      /\ AnchorOn(p) # NoAnchor
  <2>1. /\ AnchorOn(p) = [height |-> 1, timestamp |-> p[2], difficulty |-> InitialDifficulty]
        /\ AnchorOn(q) = [height |-> 1, timestamp |-> q[2], difficulty |-> InitialDifficulty]
    BY <1>1, <1>2, <1>5 DEF AnchorOn
  <2>2. NoAnchor.height = 0 /\ AnchorOn(p).height = 1
    BY <2>1 DEF NoAnchor
  <2> QED
    BY <1>2, <1>5, <2>1, <2>2
<1>7. Found(chain, q) /\ ~(Index(q) < chain.anchor.height)
  <2>1. Found(chain, q)
    BY DEF Comparable, q
  <2>2. Index(q) >= 1 /\ Index(q) \in Nat
    BY <1>2, <1>5
  <2> QED
    BY <1>1, <1>6, <2>1, <2>2
<1>8. ExpectedDifficultyFor(chain, b) = RequiredOn(q)
  <2>1. CASE InitialDifficulty < MinDifficulty
    <3>1. ExpectedDifficultyFor(chain, b) = chain.difficulty
      BY <1>1, <1>6, <2>1 DEF ExpectedDifficultyFor
    <3>2. RequiredOn(p) = InitialDifficulty /\ RequiredOn(q) = InitialDifficulty
      BY <1>1, <1>3, <2>1, FormulaFacts
    <3> QED
      BY <1>1, <3>1, <3>2
  <2>2. CASE InitialDifficulty >= MinDifficulty
    <3>1. ~(InitialDifficulty < MinDifficulty)
      BY <2>2, DifficultyAssumption
    <3>2. ~(\/ chain.anchor = NoAnchor \/ chain.anchor.difficulty < MinDifficulty
            \/ ~Found(chain, q) \/ Index(q) < chain.anchor.height)
      BY <1>1, <1>6, <1>7, <3>1
    <3>3. ExpectedDifficultyFor(chain, b) = Asert(chain.anchor, Index(q), Timestamp(q))
      BY <3>2 DEF ExpectedDifficultyFor, q
    <3>4. RequiredOn(q) = Asert(AnchorOn(q), Index(q), Timestamp(q))
      BY <1>3, <1>5, <2>2, FormulaFacts
    <3> QED
      BY <1>1, <1>6, <3>3, <3>4
  <2> QED
    BY <2>1, <2>2, DifficultyAssumption
<1>9. Met(b) >= ExpectedDifficultyFor(chain, b)
  BY <1>3, <1>8
<1>10. Index(b) <= Len(chain.path) + MaxOrphanDepth
  BY DEF Comparable
<1> QED
  BY <1>9, <1>10 DEF ValidateBlockStandalone

\* A block mined by the rules and in time is not refused, on the tip or on any
\* fork whose parent is in memory and whose first block is the chain's
\* (update_state, expected_difficulty_for, validate_block_standalone).
THEOREM ValidBlocksEnter == Spec => []ValidNeverRefused
<1>1. ASSUME DifficultyInv PROVE ValidNeverRefused
  <2>1. SUFFICES ASSUME NEW b \in ValidBlocks, ~IsOn(chain, b), InTime(b),
                        IF Parent(b) = chain.path THEN MedianIsExact ELSE Comparable(b)
                 PROVE  ApplyInMemory(chain, b, TRUE).kind # "Rejected"
    BY DEF ValidNeverRefused
  <2> DEFINE database == TRUE
             r == ApplyInMemory(chain, b, database)
  <2>2. b \in Blocks /\ Len(b) >= 2 /\ database \in BOOLEAN /\ chain \in Chains
    BY <1>1, ValidBlocksFacts DEF DifficultyInv
  <2> HIDE DEF database
  <2>3. ~Refused(chain, b)
    <3>1. CASE Parent(b) = chain.path
      <4>1. chain.offset = 0 \/ Len(Window(chain)) >= MtpWindow
        BY <2>1, <3>1 DEF MedianIsExact
      <4>2. Accepts(chain, b)
        BY <2>1, <2>2, <3>1, <4>1, AcceptedOnTop
      <4> QED
        BY <4>2 DEF Refused
    <3>2. CASE Parent(b) # chain.path
      <4>1. ValidateBlockStandalone(chain, b)
        BY <2>1, <2>2, <3>2, ComparableFacts
      <4> QED
        BY <3>2, <4>1 DEF Refused
    <3> QED
      BY <3>1, <3>2
  <2>4. \/ Applied(chain, b, r) \/ Rejected(chain, b, r) \/ Orphaned(chain, b, r)
        \/ Reorged(chain, b, r, database)
    BY <2>2, ApplyFacts
  <2> HIDE DEF r
  <2>5. r.kind # "Rejected"
    BY <2>3, <2>4 DEF Applied, Rejected, Orphaned, Reorged
  <2> QED
    BY <2>5 DEF r, database
<1> QED
  BY <1>1, Inductive, PTL

=============================================================================
