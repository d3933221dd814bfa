---------------------------- MODULE FoldTheorems ----------------------------
(***************************************************************************)
(* Facts about the folds the models compute totals with: FoldFunction(+, b,*)
(* f), the sum of a function over its finite domain, and FoldLeft, which   *)
(* runs a block body transaction by transaction.  The community modules    *)
(* define both through MapThenFoldSet, a CHOOSE of a recursive function;   *)
(* what such a function computes is proved here by minimal counterexample  *)
(* over subsets, so that no operator has to be passed as an argument.      *)
(***************************************************************************)
EXTENDS Integers, FiniteSets, SequencesExt, FiniteSetTheorems, WellFoundedInduction, TLAPS

\* Induction over the naturals, for a set instead of a predicate.
LEMMA NatSetInduction ==
    ASSUME NEW Q, 0 \in Q, \A n \in Nat : n \in Q => n + 1 \in Q
    PROVE  Nat \subseteq Q
<1>1. SUFFICES ASSUME Nat \ Q # {} PROVE FALSE
  OBVIOUS
<1>2. PICK m \in Nat \ Q : \A k \in Nat \ Q : ~(<<k, m>> \in OpToRel(<, Nat))
  BY <1>1, WFMin, NatLessThanWellFounded
<1>3. m \in Nat /\ m # 0 /\ m \notin Q
  OBVIOUS
<1>4. m - 1 \in Nat /\ <<m - 1, m>> \in OpToRel(<, Nat)
  BY <1>3 DEF OpToRel
<1>5. (m - 1) + 1 = m
  BY <1>3
<1> QED
  BY <1>2, <1>3, <1>4, <1>5

\* Course-of-values: a set of subsets of S that holds a set whenever it holds all
\* its proper subsets holds S.
LEMMA FiniteSetInduction ==
    ASSUME NEW S, IsFiniteSet(S), NEW Q,
           ASSUME NEW T \in SUBSET S, \A U \in SUBSET T : U # T => U \in Q PROVE T \in Q
    PROVE  \A T \in SUBSET S : T \in Q
<1> DEFINE Bad == {T \in SUBSET S : T \notin Q}
<1>1. SUFFICES ASSUME Bad # {} PROVE FALSE
  OBVIOUS
<1>2. Bad \subseteq FiniteSubsetsOf(S)
  BY FS_Subset DEF FiniteSubsetsOf
<1>3. PICK T \in Bad : \A U \in Bad : ~(<<U, T>> \in StrictSubsetOrdering(S))
  <2>1. IsWellFoundedOn(StrictSubsetOrdering(S), FiniteSubsetsOf(S))
    BY FS_StrictSubsetOrderingWellFounded
  <2> HIDE DEF Bad
  <2> QED
    BY <1>1, <1>2, <2>1, WFMin
<1>4. ASSUME NEW U \in SUBSET T, U # T PROVE U \in Q
  BY <1>3, <1>4 DEF StrictSubsetOrdering
<1> QED
  BY <1>4

-----------------------------------------------------------------------------
\* g holds the fold of every subset of S, its elements taken in the order pick
\* gives.  (An operator of its own, so that lemmas can be instantiated with it.)
FoldsAs(g, S, base, pick, op) ==
    \A U \in SUBSET S : g[U] = IF U = {} THEN base ELSE op[<<pick[U], g[U \ {pick[U]}]>>]

\* The orders of taking elements: a member of each nonempty subset.
Picks(S) == {p \in [(SUBSET S) \ {{}} -> S] : \A U \in (SUBSET S) \ {{}} : p[U] \in U}

\* Two folds agree wherever both are defined.
LEMMA FoldUnique ==
    ASSUME NEW S, NEW A \in SUBSET S, NEW B \in SUBSET S, IsFiniteSet(S), NEW base, NEW pick \in Picks(S), NEW op,
           NEW g, NEW h, FoldsAs(g, A, base, pick, op), FoldsAs(h, B, base, pick, op)
    PROVE  \A U \in SUBSET (A \cap B) : g[U] = h[U]
<1> DEFINE Q == {U \in SUBSET (A \cap B) : g[U] = h[U]}
<1>1. ASSUME NEW T \in SUBSET (A \cap B), \A U \in SUBSET T : U # T => U \in Q PROVE T \in Q
  <2>1. CASE T = {}
    BY <2>1 DEF FoldsAs
  <2>2. CASE T # {}
    <3>1. pick[T] \in T
      BY <2>2 DEF Picks
    <3>2. T \ {pick[T]} \in Q
      BY <3>1, <1>1
    <3> QED
      BY <2>2, <3>2 DEF FoldsAs
  <2> QED
    BY <2>1, <2>2
<1>2. IsFiniteSet(A \cap B)
  BY FS_Subset
<1>3. \A T \in SUBSET (A \cap B) : T \in Q
  <2> HIDE DEF Q
  <2> QED
    BY <1>1, <1>2, FiniteSetInduction
<1> QED
  BY <1>3

\* The recursion a fold is defined by has a solution on every finite set.
LEMMA FoldExists ==
    ASSUME NEW S, IsFiniteSet(S), NEW Vals, NEW base \in Vals, NEW pick \in Picks(S),
           NEW op \in [S \X Vals -> Vals]
    PROVE  \E g \in [SUBSET S -> Vals] : FoldsAs(g, S, base, pick, op)
<1> DEFINE Is(g, T) == g \in [SUBSET T -> Vals] /\ FoldsAs(g, T, base, pick, op)
           Q == {T \in SUBSET S : \E g : Is(g, T)}
<1>1. ASSUME NEW T \in SUBSET S, \A U \in SUBSET T : U # T => U \in Q PROVE T \in Q
  <2> DEFINE G(U) == CHOOSE g : Is(g, U)
             Rest(U) == U \ {pick[U]}
             g == [U \in SUBSET T |-> IF U = {} THEN base ELSE op[<<pick[U], G(Rest(U))[Rest(U)]>>]]
  <2>1. \A U \in SUBSET T : U # T => Is(G(U), U)
    BY <1>1
  <2>2. \A U \in SUBSET T : U # {} => pick[U] \in U /\ Rest(U) \in SUBSET T /\ Rest(U) # T /\ Rest(U) \in SUBSET Rest(U)
    BY DEF Picks
  <2>3. \A U \in SUBSET T : U # {} => G(Rest(U))[Rest(U)] \in Vals
    <3>1. ASSUME NEW U \in SUBSET T, U # {} PROVE G(Rest(U))[Rest(U)] \in Vals
      <4>1. Is(G(Rest(U)), Rest(U)) /\ Rest(U) \in SUBSET Rest(U)
        <5> HIDE DEF G, Rest, Is
        <5> QED BY <2>1, <2>2, <3>1
      <4> HIDE DEF G, Rest
      <4> QED BY <4>1
    <3> HIDE DEF G, Rest
    <3> QED BY <3>1
  <2>4. g \in [SUBSET T -> Vals]
    <3>1. \A U \in SUBSET T : U # {} => op[<<pick[U], G(Rest(U))[Rest(U)]>>] \in Vals
      <4> HIDE DEF G, Rest
      <4> QED BY <2>2, <2>3
    <3> HIDE DEF G, Rest
    <3> QED BY <3>1
  <2>5. ASSUME NEW W \in SUBSET T, W # T PROVE g[W] = G(W)[W]
    <3>1. CASE W = {}
      <4>1. G(W)[W] = base
        <5> HIDE DEF G
        <5> QED BY <2>1, <2>5, <3>1 DEF FoldsAs
      <4> HIDE DEF G, Rest
      <4> QED BY <4>1, <3>1
    <3>2. CASE W # {}
      <4>1. /\ Is(G(W), W) /\ Rest(W) # T /\ Rest(W) \in SUBSET T
            /\ Is(G(Rest(W)), Rest(W))
        <5> HIDE DEF G, Rest, Is
        <5> QED BY <2>1, <2>2, <2>5, <3>2
      <4>2. Rest(W) \in SUBSET (W \cap Rest(W)) /\ W \in SUBSET S /\ Rest(W) \in SUBSET S
        OBVIOUS
      <4>3. G(W)[Rest(W)] = G(Rest(W))[Rest(W)]
        <5> HIDE DEF G, Rest
        <5> QED BY <4>1, <4>2, FoldUnique
      <4>4. G(W)[W] = op[<<pick[W], G(W)[Rest(W)]>>]
        <5> HIDE DEF G
        <5> QED BY <4>1, <3>2 DEF FoldsAs
      <4> HIDE DEF G, Rest
      <4> QED BY <4>3, <4>4, <3>2
    <3> QED BY <3>1, <3>2
  <2>6. FoldsAs(g, T, base, pick, op)
    <3>1. ASSUME NEW U \in SUBSET T, U # {} PROVE g[U] = op[<<pick[U], g[U \ {pick[U]}]>>]
      <4>1. g[Rest(U)] = G(Rest(U))[Rest(U)]
        <5> HIDE DEF G, Rest, g
        <5> QED BY <2>2, <2>5, <3>1
      <4>2. g[U] = op[<<pick[U], G(Rest(U))[Rest(U)]>>]
        <5> HIDE DEF G, Rest
        <5> QED BY <3>1
      <4> HIDE DEF G, g
      <4> QED BY <4>1, <4>2
    <3>2. g[{}] = base
      <4> HIDE DEF G, Rest
      <4> QED OBVIOUS
    <3> HIDE DEF g
    <3> QED BY <3>1, <3>2 DEF FoldsAs
  <2> HIDE DEF g
  <2> QED BY <2>4, <2>6
<1>2. S \in Q
  <2> HIDE DEF Q
  <2> QED BY <1>1, FiniteSetInduction
<1> QED
  BY <1>2

-----------------------------------------------------------------------------
\* A base plus the values of a function, as the models write it.
SumOf(b, f) == FoldFunction(+, b, f)

\* The sums over all subsets of a finite domain.
Sums(g, F, S, b) ==
    /\ g \in [SUBSET S -> Int]
    /\ g[{}] = b
    /\ \A T \in SUBSET S, x \in S : x \in T => g[T] = F[x] + g[T \ {x}]
    /\ \A T \in SUBSET S : SumOf(b, [x \in T |-> F[x]]) = g[T]

\* FoldFunction(+, b, f) is such a sum, and any element can be split off.
LEMMA SumsExist ==
    ASSUME NEW S, IsFiniteSet(S), NEW F \in [S -> Int], NEW b \in Int
    PROVE  \E g : Sums(g, F, S, b)
<1> DEFINE c(U) == CHOOSE x \in U : TRUE
           pick == [U \in (SUBSET S) \ {{}} |-> c(U)]
           op == [p \in S \X Int |-> F[p[1]] + p[2]]
<1>1. \A U \in (SUBSET S) \ {{}} : c(U) \in U
  OBVIOUS
<1>2. pick \in Picks(S) /\ op \in [S \X Int -> Int]
  <2> HIDE DEF c
  <2> QED BY <1>1 DEF Picks
<1>3. PICK g \in [SUBSET S -> Int] : FoldsAs(g, S, b, pick, op)
  <2> HIDE DEF pick, op
  <2> QED BY <1>2, FoldExists
<1>4. g[{}] = b
  BY <1>3 DEF FoldsAs
<1>5. \A U \in SUBSET S : U # {} => /\ c(U) \in U /\ U \ {c(U)} \in SUBSET S
                                      /\ g[U] = F[c(U)] + g[U \ {c(U)}]
  <2>1. SUFFICES ASSUME NEW U \in SUBSET S, U # {}
                 PROVE  /\ c(U) \in U /\ U \ {c(U)} \in SUBSET S
                        /\ g[U] = F[c(U)] + g[U \ {c(U)}]
    OBVIOUS
  <2>2. pick[U] = c(U) /\ c(U) \in S /\ U \ {c(U)} \in SUBSET S
    BY <1>1, <2>1
  <2>3. g[U] = op[<<c(U), g[U \ {c(U)}]>>]
    <3> HIDE DEF c, op, pick
    <3> QED BY <1>3, <2>1, <2>2 DEF FoldsAs
  <2>4. g[U \ {c(U)}] \in Int
    BY <2>2
  <2> HIDE DEF c
  <2> QED BY <2>2, <2>3, <2>4, <1>1, <2>1
<1>6. \A T \in SUBSET S, x \in S : x \in T => g[T] = F[x] + g[T \ {x}]
  <2> DEFINE Q == {T \in SUBSET S : \A x \in S : x \in T => g[T] = F[x] + g[T \ {x}]}
  <2>1. ASSUME NEW T \in SUBSET S, \A U \in SUBSET T : U # T => U \in Q
        PROVE  T \in Q
    <3> SUFFICES ASSUME NEW x \in S, x \in T
                 PROVE  g[T] = F[x] + g[T \ {x}]
      OBVIOUS
    <3>1. CASE x = c(T)
      <4> HIDE DEF c
      <4> QED BY <3>1, <1>5
    <3>2. CASE x # c(T)
      <4>1. c(T) \in T /\ c(T) \in S /\ g[T] = F[c(T)] + g[T \ {c(T)}]
        BY <1>5
      <4>2. g[T \ {c(T)}] = F[x] + g[(T \ {c(T)}) \ {x}]
        <5>1. T \ {c(T)} \in Q /\ x \in T \ {c(T)}
          <6> HIDE DEF c
          <6> QED BY <2>1, <3>2, <4>1
        <5> HIDE DEF c
        <5> QED BY <5>1
      <4>3. g[T \ {x}] = F[c(T)] + g[(T \ {x}) \ {c(T)}]
        <5>1. T \ {x} \in Q /\ c(T) \in T \ {x}
          <6> HIDE DEF c
          <6> QED BY <2>1, <3>2, <4>1
        <5> HIDE DEF c
        <5> QED BY <5>1, <4>1
      <4>4. (T \ {c(T)}) \ {x} = (T \ {x}) \ {c(T)} /\ (T \ {x}) \ {c(T)} \in SUBSET S
        OBVIOUS
      <4>5. F[x] \in Int /\ F[c(T)] \in Int /\ g[(T \ {x}) \ {c(T)}] \in Int
        <5> HIDE DEF c
        <5> QED BY <4>1, <4>4
      <4>6. g[(T \ {c(T)}) \ {x}] = g[(T \ {x}) \ {c(T)}]
        <5> HIDE DEF c
        <5> QED BY <4>4
      <4>7. \A p, q, r, u, v, w \in Int : u = p + v /\ v = q + r /\ w = p + r => u = q + w
        OBVIOUS
      <4>8. g[T] \in Int /\ g[T \ {c(T)}] \in Int /\ g[T \ {x}] \in Int
        <5> HIDE DEF c
        <5> QED BY <4>1
      <4> HIDE DEF c
      <4> QED BY <4>1, <4>2, <4>3, <4>5, <4>6, <4>7, <4>8
    <3> QED BY <3>1, <3>2
  <2>2. \A T \in SUBSET S : T \in Q
    <3> HIDE DEF Q
    <3> QED BY <2>1, FiniteSetInduction
  <2> QED BY <2>2
<1>7. ASSUME NEW T \in SUBSET S PROVE SumOf(b, [x \in T |-> F[x]]) = g[T]
  <2> DEFINE f == [x \in T |-> F[x]]
             eq(h) == h = [s \in SUBSET T |-> IF s = {} THEN b ELSE f[c(s)] + h[s \ {c(s)}]]
             k == CHOOSE h : eq(h)
  <2>1. SumOf(b, f) = k[T]
    BY DEF SumOf, FoldFunction, FoldFunctionOnSet, MapThenFoldSet
  <2>2. eq(k)
    <3> DEFINE r == [s \in SUBSET T |-> g[s]]
    <3>1. \A s \in SUBSET T : r[s] = IF s = {} THEN b ELSE f[c(s)] + r[s \ {c(s)}]
      <4>1. \A s \in SUBSET T : s # {} => c(s) \in T /\ s \ {c(s)} \in SUBSET T
        BY <1>5
      <4> HIDE DEF c
      <4> QED BY <4>1, <1>4, <1>5
    <3>2. eq(r)
      <4> HIDE DEF c, f
      <4> QED BY <3>1
    <3> HIDE DEF eq
    <3> QED BY <3>2
  <2>3. \A s \in SUBSET T : k[s] = IF s = {} THEN b ELSE f[c(s)] + k[s \ {c(s)}]
    <3> HIDE DEF c, f, k
    <3> QED BY <2>2
  <2> DEFINE Q == {U \in SUBSET T : k[U] = g[U]}
  <2>4. ASSUME NEW U \in SUBSET T, \A V \in SUBSET U : V # U => V \in Q
        PROVE  U \in Q
    <3>1. CASE U = {}
      <4> HIDE DEF k
      <4> QED BY <3>1, <2>3, <1>4
    <3>2. CASE U # {}
      <4>1. c(U) \in U /\ g[U] = F[c(U)] + g[U \ {c(U)}]
        BY <1>5, <3>2
      <4>2. U \ {c(U)} \in Q
        <5> HIDE DEF c, k, Q
        <5> QED BY <4>1, <2>4
      <4>3. k[U] = f[c(U)] + k[U \ {c(U)}]
        <5> HIDE DEF c, k, f
        <5> QED BY <2>3, <3>2
      <4>4. f[c(U)] = F[c(U)]
        <5> HIDE DEF c
        <5> QED BY <4>1
      <4> HIDE DEF c, k, f
      <4> QED BY <4>1, <4>2, <4>3, <4>4
    <3> QED BY <3>1, <3>2
  <2>5. T \in Q
    <3>1. IsFiniteSet(T)
      BY FS_Subset
    <3> HIDE DEF Q
    <3> QED BY <2>4, <3>1, FiniteSetInduction
  <2> HIDE DEF k
  <2> QED BY <2>1, <2>5
<1> QED
  BY <1>4, <1>6, <1>7 DEF Sums

\* A function is rebuilt from its values.
LEMMA AsSums ==
    ASSUME NEW S, NEW F \in [S -> Int]
    PROVE  F = [x \in S |-> F[x]]
  OBVIOUS

\* A sum of integers over a finite set is an integer.
LEMMA SumType ==
    ASSUME NEW S, IsFiniteSet(S), NEW F \in [S -> Int], NEW b \in Int
    PROVE  SumOf(b, F) \in Int
<1>1. PICK g : Sums(g, F, S, b)
  BY SumsExist
<1> QED
  BY <1>1, AsSums DEF Sums

\* The sum over no element is the base.
LEMMA SumEmpty ==
    ASSUME NEW F \in [{} -> Int], NEW b \in Int
    PROVE  SumOf(b, F) = b
<1>1. PICK g : Sums(g, F, {}, b)
  BY SumsExist, FS_EmptySet
<1> QED
  BY <1>1, AsSums DEF Sums

\* f and g have the same values on S.
Agree(f, g, S) == \A x \in S : f[x] = g[x]

\* Any element can be split off a sum.
LEMMA SumRemove ==
    ASSUME NEW S, IsFiniteSet(S), NEW F \in [S -> Int], NEW b \in Int, NEW x \in S,
           NEW R \in [S \ {x} -> Int], Agree(R, F, S \ {x})
    PROVE  SumOf(b, F) = F[x] + SumOf(b, R)
<1>1. PICK g : Sums(g, F, S, b)
  BY SumsExist
<1>2. R = [y \in S \ {x} |-> F[y]]
  BY DEF Agree
<1>3. SumOf(b, F) = g[S] /\ SumOf(b, R) = g[S \ {x}]
  BY <1>1, <1>2, AsSums DEF Sums
<1> QED
  BY <1>1, <1>3 DEF Sums

\* The same, one index more.
LEMMA SumExtend ==
    ASSUME NEW S, IsFiniteSet(S), NEW x, x \notin S, NEW b \in Int,
           NEW F \in [S -> Int], NEW G \in [S \cup {x} -> Int], Agree(F, G, S)
    PROVE  SumOf(b, G) = G[x] + SumOf(b, F)
<1>1. IsFiniteSet(S \cup {x}) /\ x \in S \cup {x} /\ (S \cup {x}) \ {x} = S
  BY FS_AddElement
<1>2. F \in [(S \cup {x}) \ {x} -> Int] /\ Agree(F, G, (S \cup {x}) \ {x})
  BY <1>1
<1> QED
  BY <1>1, <1>2, SumRemove

\* Two functions that differ in at most one place.
LEMMA SumUpdate ==
    ASSUME NEW S, IsFiniteSet(S), NEW F \in [S -> Int], NEW G \in [S -> Int], NEW b \in Int,
           NEW x \in S, Agree(F, G, S \ {x})
    PROVE  SumOf(b, G) = SumOf(b, F) - F[x] + G[x]
<1> DEFINE R == [y \in S \ {x} |-> F[y]]
<1>1. R \in [S \ {x} -> Int] /\ Agree(R, F, S \ {x}) /\ Agree(R, G, S \ {x})
  BY DEF Agree
<1>2. SumOf(b, F) = F[x] + SumOf(b, R)
  <2> HIDE DEF R
  <2> QED
    BY <1>1, SumRemove
<1>3. SumOf(b, G) = G[x] + SumOf(b, R)
  <2> HIDE DEF R
  <2> QED
    BY <1>1, SumRemove
<1>4. SumOf(b, R) \in Int
  <2>1. IsFiniteSet(S \ {x})
    BY FS_Subset
  <2> HIDE DEF R
  <2> QED BY <1>1, <2>1, SumType
<1> HIDE DEF R
<1> QED
  BY <1>2, <1>3, <1>4

\* The base counts once.
LEMMA SumBase ==
    ASSUME NEW S, IsFiniteSet(S), NEW F \in [S -> Int], NEW b \in Int, NEW d \in Int
    PROVE  SumOf(d, F) = SumOf(b, F) - b + d
<1>1. PICK g : Sums(g, F, S, b)
  BY SumsExist
<1>2. PICK h : Sums(h, F, S, d)
  BY SumsExist
<1> DEFINE Q == {T \in SUBSET S : h[T] = g[T] - b + d}
<1>3. ASSUME NEW T \in SUBSET S, \A U \in SUBSET T : U # T => U \in Q PROVE T \in Q
  <2>1. CASE T = {}
    BY <2>1, <1>1, <1>2 DEF Sums
  <2>2. CASE T # {}
    <3>1. PICK x \in T : TRUE
      BY <2>2
    <3>2. T \ {x} \in Q
      BY <1>3
    <3>3. g[T] = F[x] + g[T \ {x}] /\ h[T] = F[x] + h[T \ {x}] /\ g[T \ {x}] \in Int /\ h[T \ {x}] \in Int
      BY <1>1, <1>2 DEF Sums
    <3>4. F[x] \in Int
      OBVIOUS
    <3>5. h[T] = g[T] - b + d
      BY <3>2, <3>3, <3>4
    <3> QED BY <3>5
  <2> QED BY <2>1, <2>2
<1>4. S \in Q
  <2> HIDE DEF Q
  <2> QED BY <1>3, FiniteSetInduction
<1>5. SumOf(b, F) = g[S] /\ SumOf(d, F) = h[S]
  BY <1>1, <1>2, AsSums DEF Sums
<1> QED
  BY <1>4, <1>5

\* A sum of naturals is one, and at least each of them.
LEMMA SumOfNats ==
    ASSUME NEW S, IsFiniteSet(S), NEW F \in [S -> Nat], NEW b \in Nat
    PROVE  SumOf(b, F) \in Nat /\ b <= SumOf(b, F) /\ \A x \in S : b + F[x] <= SumOf(b, F)
<1>1. F \in [S -> Int] /\ b \in Int
  OBVIOUS
<1>2. PICK g : Sums(g, F, S, b)
  BY <1>1, SumsExist
<1> DEFINE Q == {T \in SUBSET S : g[T] >= b}
<1>3. ASSUME NEW T \in SUBSET S, \A U \in SUBSET T : U # T => U \in Q PROVE T \in Q
  <2>1. CASE T = {}
    BY <2>1, <1>2 DEF Sums
  <2>2. CASE T # {}
    <3>1. PICK x \in T : TRUE
      BY <2>2
    <3>2. T \ {x} \in Q
      BY <1>3
    <3>3. g[T] = F[x] + g[T \ {x}] /\ g[T \ {x}] \in Int /\ F[x] \in Nat
      BY <1>2 DEF Sums
    <3> QED BY <3>2, <3>3
  <2> QED BY <2>1, <2>2
<1>4. \A T \in SUBSET S : T \in Q
  <2> HIDE DEF Q
  <2> QED BY <1>3, FiniteSetInduction
<1>5. SumOf(b, F) = g[S] /\ g[S] \in Int
  BY <1>1, <1>2, AsSums DEF Sums
<1>6. ASSUME NEW x \in S PROVE b + F[x] <= g[S]
  <2>1. g[S] = F[x] + g[S \ {x}] /\ g[S \ {x}] \in Int /\ F[x] \in Nat
    BY <1>2 DEF Sums
  <2>2. g[S \ {x}] >= b
    BY <1>4
  <2> QED BY <2>1, <2>2
<1> QED
  BY <1>4, <1>5, <1>6

\* The sum of w over S.
SumOn(w, S) == SumOf(0, [x \in S |-> w[x]])

\* Two sums are that of the union and that of what the sets share.
LEMMA SumUnion ==
    ASSUME NEW X, IsFiniteSet(X), NEW w \in [X -> Nat], NEW A \in SUBSET X, NEW B \in SUBSET X
    PROVE  SumOn(w, A \cup B) + SumOn(w, A \cap B) = SumOn(w, A) + SumOn(w, B)
<1>1. w \in [X -> Int] /\ 0 \in Int
  OBVIOUS
<1>2. PICK g : Sums(g, w, X, 0)
  BY <1>1, SumsExist
<1>3. /\ g \in [SUBSET X -> Int] /\ g[{}] = 0
      /\ \A T \in SUBSET X, x \in X : x \in T => g[T] = w[x] + g[T \ {x}]
      /\ \A T \in SUBSET X : SumOn(w, T) = g[T]
  BY <1>2 DEF Sums, SumOn
<1> DEFINE Q == {T \in SUBSET X : g[A \cup T] + g[A \cap T] = g[A] + g[T]}
<1>4. ASSUME NEW T \in SUBSET X, \A U \in SUBSET T : U # T => U \in Q PROVE T \in Q
  <2>1. CASE T = {}
    <3>1. A \cup T = A /\ A \cap T = {}
      BY <2>1
    <3> QED
      BY <1>3, <2>1, <3>1
  <2>2. CASE T # {}
    <3>1. PICK x \in T : TRUE
      BY <2>2
    <3> DEFINE U == T \ {x}
    <3>2. U \in SUBSET X /\ U \in Q
      BY <1>4
    <3>3. g[A \cup U] + g[A \cap U] = g[A] + g[U]
      BY <3>2
    <3>4. /\ A \cup T \in SUBSET X /\ A \cap T \in SUBSET X /\ x \in X
          /\ A \cup U \in SUBSET X /\ A \cap U \in SUBSET X
      OBVIOUS
    <3>5. /\ g[A] \in Int /\ g[U] \in Int /\ g[T] \in Int /\ w[x] \in Int
          /\ g[A \cup U] \in Int /\ g[A \cap U] \in Int
      BY <1>1, <1>3, <3>2, <3>4
    <3>6. g[T] = w[x] + g[U]
      BY <1>3, <3>4
    <3>7. CASE x \in A
      <4>1. A \cup T = A \cup U /\ (A \cap T) \ {x} = A \cap U /\ x \in A \cap T
        BY <3>7
      <4>2. g[A \cap T] = w[x] + g[A \cap U]
        BY <1>3, <3>4, <4>1
      <4>3. g[A \cup T] = g[A \cup U]
        BY <4>1
      <4>4. g[A \cup T] + g[A \cap T] = g[A] + g[T]
        <5> HIDE DEF U
        <5> QED
          BY <3>3, <3>5, <3>6, <4>2, <4>3
      <4> QED
        BY <4>4
    <3>8. CASE x \notin A
      <4>1. A \cap T = A \cap U /\ (A \cup T) \ {x} = A \cup U /\ x \in A \cup T
        BY <3>8
      <4>2. g[A \cup T] = w[x] + g[A \cup U]
        BY <1>3, <3>4, <4>1
      <4>3. g[A \cap T] = g[A \cap U]
        BY <4>1
      <4>4. g[A \cup T] + g[A \cap T] = g[A] + g[T]
        <5> HIDE DEF U
        <5> QED
          BY <3>3, <3>5, <3>6, <4>2, <4>3
      <4> QED
        BY <4>4
    <3> QED
      BY <3>7, <3>8
  <2> QED
    BY <2>1, <2>2
<1>5. B \in Q
  <2> HIDE DEF Q
  <2>1. \A T \in SUBSET X : T \in Q
    BY <1>4, FiniteSetInduction
  <2> QED
    BY <2>1
<1> QED
  BY <1>3, <1>5

\* The sums over nothing and over one element.
LEMMA SumSmall ==
    ASSUME NEW X, IsFiniteSet(X), NEW w \in [X -> Nat]
    PROVE  SumOn(w, {}) = 0 /\ \A x \in X : SumOn(w, {x}) = w[x]
<1>1. w \in [X -> Int] /\ 0 \in Int
  OBVIOUS
<1>2. PICK g : Sums(g, w, X, 0)
  BY <1>1, SumsExist
<1>3. /\ g[{}] = 0
      /\ \A T \in SUBSET X, x \in X : x \in T => g[T] = w[x] + g[T \ {x}]
      /\ \A T \in SUBSET X : SumOn(w, T) = g[T]
  BY <1>2 DEF Sums, SumOn
<1>4. ASSUME NEW x \in X PROVE g[{x}] = w[x]
  <2>1. {x} \in SUBSET X /\ x \in {x} /\ {x} \ {x} = {}
    OBVIOUS
  <2>2. g[{x}] = w[x] + g[{}]
    BY <1>3, <2>1
  <2> QED
    BY <1>1, <1>3, <2>2
<1> QED
  BY <1>3, <1>4

\* A sum of naturals grows with the set it is taken over.
LEMMA SumMonotone ==
    ASSUME NEW X, IsFiniteSet(X), NEW w \in [X -> Nat], NEW B \in SUBSET X, NEW A \in SUBSET B
    PROVE  SumOn(w, A) \in Nat /\ SumOn(w, B) \in Nat /\ SumOn(w, A) <= SumOn(w, B)
<1>1. ASSUME NEW T \in SUBSET X PROVE SumOn(w, T) \in Nat
  <2>1. IsFiniteSet(T) /\ [x \in T |-> w[x]] \in [T -> Nat] /\ 0 \in Nat
    BY FS_Subset
  <2> QED
    BY <2>1, SumOfNats DEF SumOn
<1>2. SumOn(w, {}) = 0
  BY SumSmall
<1>3. A \cup (B \ A) = B /\ A \cap (B \ A) = {} /\ A \in SUBSET X /\ B \ A \in SUBSET X
  OBVIOUS
<1>4. SumOn(w, B) + SumOn(w, {}) = SumOn(w, A) + SumOn(w, B \ A)
  BY <1>3, SumUnion
<1>5. SumOn(w, A) \in Nat /\ SumOn(w, B) \in Nat /\ SumOn(w, B \ A) \in Nat
  BY <1>1, <1>3
<1> QED
  BY <1>2, <1>4, <1>5

\* The sum of f over the positions of P that are at most i.
UpTo(f, P, i) == SumOf(0, [j \in {p \in P : p <= i} |-> f[j]])

\* The sum of f over P accumulates from position to position.
Accumulates(f, P, n) ==
    /\ \A i \in 0 .. n : UpTo(f, P, i) \in Nat
    /\ UpTo(f, P, 0) = 0
    /\ UpTo(f, P, n) = SumOf(0, [j \in P |-> f[j]])
    /\ \A i \in 1 .. n : UpTo(f, P, i) = UpTo(f, P, i - 1) + (IF i \in P THEN f[i] ELSE 0)

\* A sum over positions, taken position by position.
LEMMA UpToFacts ==
    ASSUME NEW n \in Nat, NEW P \in SUBSET (1 .. n), NEW f \in [1 .. n -> Nat]
    PROVE  Accumulates(f, P, n)
<1> DEFINE S(i) == {p \in P : p <= i}
           F(i) == [j \in S(i) |-> f[j]]
<1>0. \A p \in P : p \in Int /\ 1 <= p /\ p <= n
  OBVIOUS
<1>1. \A i \in 0 .. n : IsFiniteSet(S(i)) /\ F(i) \in [S(i) -> Nat]
  <2>1. IsFiniteSet(1 .. n)
    BY FS_Interval
  <2> QED
    BY <2>1, FS_Subset
<1>2. \A i \in 0 .. n : UpTo(f, P, i) = SumOf(0, F(i))
  BY DEF UpTo
<1>3. \A i \in 0 .. n : UpTo(f, P, i) \in Nat
  <2> HIDE DEF S, F
  <2> QED
    BY <1>1, <1>2, SumOfNats
<1>4. UpTo(f, P, 0) = 0
  <2>1. S(0) = {}
    <3>1. \A p \in P : ~(p <= 0)
      BY <1>0
    <3> QED
      BY <3>1
  <2>2. F(0) \in [{} -> Int] /\ 0 \in 0 .. n
    BY <2>1
  <2> HIDE DEF S, F
  <2> QED
    BY <1>2, <2>2, SumEmpty
<1>5. UpTo(f, P, n) = SumOf(0, [j \in P |-> f[j]])
  <2>1. S(n) = P
    BY <1>0
  <2> QED
    BY <2>1 DEF UpTo
<1>6. ASSUME NEW i \in 1 .. n
      PROVE  UpTo(f, P, i) = UpTo(f, P, i - 1) + (IF i \in P THEN f[i] ELSE 0)
  <2>1. i - 1 \in 0 .. n /\ i \in 0 .. n
    OBVIOUS
  <2>2. CASE i \notin P
    <3>1. S(i) = S(i - 1)
      <4>1. \A p \in P : p \in Int /\ (p <= i <=> p <= i - 1)
        BY <2>2
      <4> QED
        BY <4>1
    <3>2. F(i) = F(i - 1)
      BY <3>1
    <3>3. SumOf(0, F(i)) = SumOf(0, F(i - 1))
      <4> HIDE DEF F
      <4> QED
        BY <3>2
    <3>4. UpTo(f, P, i) = UpTo(f, P, i - 1) /\ UpTo(f, P, i - 1) \in Nat
      <4> HIDE DEF F
      <4> QED
        BY <1>2, <1>3, <2>1, <3>3
    <3> QED
      BY <2>2, <3>4
  <2>3. CASE i \in P
    <3>1. S(i - 1) = S(i) \ {i} /\ i \in S(i)
      <4>1. \A p \in P : p <= i - 1 <=> p <= i /\ p # i
        BY <1>0
      <4>2. i <= i
        OBVIOUS
      <4> QED
        BY <2>3, <4>1, <4>2
    <3>2. F(i - 1) \in [S(i) \ {i} -> Int] /\ F(i) \in [S(i) -> Int] /\ F(i)[i] = f[i]
      <4>1. F(i - 1) \in [S(i - 1) -> Nat] /\ F(i) \in [S(i) -> Nat]
        <5> HIDE DEF S, F
        <5> QED
          BY <1>1, <2>1
      <4>2. F(i)[i] = f[i]
        BY <3>1
      <4>3. Nat \subseteq Int
        OBVIOUS
      <4>4. F(i - 1) \in [S(i) \ {i} -> Nat]
        <5> HIDE DEF S, F
        <5> QED
          BY <3>1, <4>1
      <4> HIDE DEF S, F
      <4> QED
        BY <4>1, <4>2, <4>3, <4>4
    <3>3. Agree(F(i - 1), F(i), S(i) \ {i})
      <4>1. \A j \in S(i) \ {i} : F(i - 1)[j] = f[j] /\ F(i)[j] = f[j]
        BY <3>1
      <4> HIDE DEF F
      <4> QED
        BY <4>1 DEF Agree
    <3>4. IsFiniteSet(S(i))
      BY <1>1, <2>1
    <3>5. SumOf(0, F(i)) = F(i)[i] + SumOf(0, F(i - 1))
      <4> DEFINE x == i
                 T == S(i)
                 R == F(i - 1)
                 H == F(i)
                 z == 0
      <4>1. /\ IsFiniteSet(T) /\ x \in T /\ R \in [T \ {x} -> Int] /\ H \in [T -> Int]
            /\ Agree(R, H, T \ {x}) /\ z \in Int
        BY <3>1, <3>2, <3>3, <3>4
      <4> HIDE DEF T, R, H, x, z
      <4>2. SumOf(z, H) = H[x] + SumOf(z, R)
        BY <4>1, SumRemove
      <4> QED
        BY <4>2 DEF R, H, x, z
    <3> HIDE DEF S, F
    <3> QED
      BY <1>2, <1>3, <2>1, <2>3, <3>2, <3>5
  <2> QED
    BY <2>2, <2>3
<1> QED
  BY <1>3, <1>4, <1>5, <1>6 DEF Accumulates

-----------------------------------------------------------------------------
\* The maximum of a nonempty set of positions is one of them.
LEMMA MaxIsMember ==
    ASSUME NEW n \in Nat, NEW U \in SUBSET (1 .. n), U # {}
    PROVE  Max(U) \in U /\ \A u \in U : u <= Max(U)
<1> DEFINE T == {k \in Nat : \A u \in U : u <= k}
<1>1. T \subseteq Nat /\ n \in T
  OBVIOUS
<1>2. IsWellFoundedOn(OpToRel(<, Nat), Nat)
  BY NatLessThanWellFounded
<1>3. PICK m \in T : \A k \in T : ~(<<k, m>> \in OpToRel(<, Nat))
  <2> HIDE DEF T
  <2> QED
    BY <1>1, <1>2, WFMin
<1>4. \A k \in T : ~(k < m)
  BY <1>3 DEF OpToRel
<1>5. m \in U
  <2>1. SUFFICES ASSUME m \notin U PROVE FALSE
    OBVIOUS
  <2>2. PICK u \in U : TRUE
    OBVIOUS
  <2>3. u \in Nat /\ u >= 1 /\ u <= m /\ m \in Nat
    OBVIOUS
  <2>4. \A v \in U : v <= m /\ v # m /\ v \in Nat
    BY <2>1
  <2>5. \A v \in U : v <= m - 1
    BY <2>3, <2>4
  <2>6. m - 1 \in T /\ m - 1 < m
    BY <2>3, <2>5
  <2> QED BY <2>6, <1>4
<1>6. \A u \in U : m >= u
  OBVIOUS
<1>7. \E x \in U : \A y \in U : x >= y
  BY <1>5, <1>6
<1>8. Max(U) \in U /\ \A u \in U : Max(U) >= u
  BY <1>7 DEF Max
<1> QED
  BY <1>8

\* The last position of a sequence, and the positions before it.
LEMMA MaxOfInterval ==
    ASSUME NEW n \in Nat, n # 0
    PROVE  Max(1 .. n) = n /\ (1 .. n) \ {n} = 1 .. (n - 1)
<1>1. 1 .. n \in SUBSET (1 .. n) /\ n \in 1 .. n /\ 1 .. n # {}
  OBVIOUS
<1>2. Max(1 .. n) \in 1 .. n /\ n <= Max(1 .. n)
  BY <1>1, MaxIsMember
<1>3. Max(1 .. n) = n
  BY <1>2
<1>4. (1 .. n) \ {n} = 1 .. (n - 1)
  OBVIOUS
<1> QED
  BY <1>3, <1>4

\* g holds the fold of every set of positions, the last one taken first.
MaxFold(g, n, base, op) ==
    \A U \in SUBSET (1 .. n) :
        g[U] = IF U = {} THEN base ELSE op[<<Max(U), g[U \ {Max(U)}]>>]

\* The recursion of FoldLeft has a solution: positions are taken from the last.
LEMMA LeftFoldExists ==
    ASSUME NEW n \in Nat, NEW Vals, NEW base \in Vals, NEW op \in [(1 .. n) \X Vals -> Vals]
    PROVE  \E g \in [SUBSET (1 .. n) -> Vals] : MaxFold(g, n, base, op)
<1> DEFINE pick == [U \in (SUBSET (1 .. n)) \ {{}} |-> Max(U)]
<1>1. pick \in Picks(1 .. n) /\ IsFiniteSet(1 .. n)
  <2>1. \A U \in (SUBSET (1 .. n)) \ {{}} : Max(U) \in U
    BY MaxIsMember
  <2>2. IsFiniteSet(1 .. n)
    BY FS_Interval
  <2> QED
    BY <2>1, <2>2 DEF Picks
<1>2. \A U \in (SUBSET (1 .. n)) \ {{}} : pick[U] = Max(U)
  OBVIOUS
<1>3. PICK g \in [SUBSET (1 .. n) -> Vals] : FoldsAs(g, 1 .. n, base, pick, op)
  <2> HIDE DEF pick
  <2> QED
    BY <1>1, FoldExists
<1> HIDE DEF pick
<1> QED
  BY <1>2, <1>3 DEF FoldsAs, MaxFold

\* k runs op over the positions 1 .. n, from base, as long as it stays in Vals.
Computes(k, n, Vals, base, op) ==
    /\ k[{}] = base
    /\ \A U \in SUBSET (1 .. n) :
        U # {} /\ k[U \ {Max(U)}] \in Vals => k[U] = op[<<Max(U), k[U \ {Max(U)}]>>]

\* h is the run of op over the positions 1 .. n: from base to last.
Run(h, n, Vals, base, last, op) ==
    /\ h \in [0 .. n -> Vals] /\ h[0] = base /\ h[n] = last
    /\ \A i \in 1 .. n : h[i] = op[<<i, h[i - 1]>>]

\* What such a k computes is the end of a run.
LEMMA LeftFoldRun ==
    ASSUME NEW n \in Nat, NEW Vals, NEW base \in Vals, NEW op \in [(1 .. n) \X Vals -> Vals],
           NEW k, Computes(k, n, Vals, base, op)
    PROVE  \E h : Run(h, n, Vals, base, k[1 .. n], op)
<1> DEFINE h == [i \in 0 .. n |-> k[1 .. i]]
           Q == {i \in Nat : i <= n => k[1 .. i] \in Vals}
<1>1. \A i \in 1 .. n : k[1 .. (i - 1)] \in Vals => k[1 .. i] = op[<<i, k[1 .. (i - 1)]>>]
  <2>1. SUFFICES ASSUME NEW i \in 1 .. n, k[1 .. (i - 1)] \in Vals
                 PROVE  k[1 .. i] = op[<<i, k[1 .. (i - 1)]>>]
    OBVIOUS
  <2>2. Max(1 .. i) = i /\ (1 .. i) \ {i} = 1 .. (i - 1)
    BY MaxOfInterval
  <2>3. 1 .. i \in SUBSET (1 .. n) /\ 1 .. i # {}
    OBVIOUS
  <2>4. k[(1 .. i) \ {Max(1 .. i)}] \in Vals
    BY <2>1, <2>2
  <2>5. k[1 .. i] = op[<<Max(1 .. i), k[(1 .. i) \ {Max(1 .. i)}]>>]
    BY <2>3, <2>4 DEF Computes
  <2> QED
    BY <2>2, <2>5
<1>2. k[1 .. 0] = base
  <2>1. 1 .. 0 = {}
    OBVIOUS
  <2> QED
    BY <2>1 DEF Computes
<1>3. Nat \subseteq Q
  <2>1. 0 \in Q
    BY <1>2
  <2>2. ASSUME NEW i \in Nat, i \in Q PROVE i + 1 \in Q
    <3>1. SUFFICES ASSUME i + 1 <= n PROVE k[1 .. (i + 1)] \in Vals
      OBVIOUS
    <3>2. i + 1 \in 1 .. n /\ (i + 1) - 1 = i /\ k[1 .. i] \in Vals
      BY <2>2, <3>1
    <3>3. k[1 .. (i + 1)] = op[<<i + 1, k[1 .. i]>>]
      BY <1>1, <3>2
    <3> QED
      BY <3>2, <3>3
  <2> HIDE DEF Q
  <2> QED
    BY <2>1, <2>2, NatSetInduction
<1>4. \A i \in 0 .. n : k[1 .. i] \in Vals
  BY <1>3
<1>5. h \in [0 .. n -> Vals]
  BY <1>4
<1>6. h[0] = base /\ h[n] = k[1 .. n]
  BY <1>2
<1>7. \A i \in 1 .. n : h[i] = op[<<i, h[i - 1]>>]
  <2>1. SUFFICES ASSUME NEW i \in 1 .. n PROVE h[i] = op[<<i, h[i - 1]>>]
    OBVIOUS
  <2>2. i - 1 \in 0 .. n /\ i \in 0 .. n
    OBVIOUS
  <2>3. k[1 .. i] = op[<<i, k[1 .. (i - 1)]>>]
    BY <1>1, <1>4, <2>2
  <2> QED
    BY <2>2, <2>3
<1> HIDE DEF h
<1> QED
  BY <1>5, <1>6, <1>7 DEF Run

-----------------------------------------------------------------------------
\* f holds the concatenations of the first sequences, up to all of them.
FlatRun(f, T, n, seqs) ==
    /\ f \in [0 .. n -> Seq(T)] /\ f[0] = <<>> /\ f[n] = FlattenSeq(seqs)
    /\ \A i \in 1 .. n : f[i] = f[i - 1] \o seqs[i]

\* FlattenSeq concatenates, sequence by sequence.
LEMMA FlattenRun ==
    ASSUME NEW T, NEW n \in Nat, NEW seqs \in [1 .. n -> Seq(T)]
    PROVE  \E f : FlatRun(f, T, n, seqs)
<1> DEFINE V == Seq(T)
           e == <<>>
           op == [p \in (1 .. n) \X V |-> p[2] \o seqs[p[1]]]
<1>1. e \in V /\ op \in [(1 .. n) \X V -> V]
      /\ \A i \in 1 .. n, v \in V : op[<<i, v>>] = v \o seqs[i]
  <2>1. e \in V
    OBVIOUS
  <2>2. \A v, w \in Seq(T) : v \o w \in Seq(T)
    OBVIOUS
  <2>3. \A p \in (1 .. n) \X V : p[2] \o seqs[p[1]] \in V
    BY <2>2
  <2>4. op \in [(1 .. n) \X V -> V]
    <3> HIDE DEF V
    <3> QED
      BY <2>3
  <2>5. \A i \in 1 .. n, v \in V : op[<<i, v>>] = v \o seqs[i]
    <3> HIDE DEF V
    <3> QED
      OBVIOUS
  <2> QED
    BY <2>1, <2>4, <2>5
<1>2. PICK g \in [SUBSET (1 .. n) -> V] : MaxFold(g, n, e, op)
  <2> HIDE DEF V, e, op
  <2> QED
    BY <1>1, LeftFoldExists
<1> DEFINE F == [i \in 0 .. n |-> g[1 .. i]]
<1>3. F \in [0 .. n -> V] /\ \A i \in 0 .. n : F[i] = g[1 .. i]
  <2>1. \A i \in 0 .. n : 1 .. i \in SUBSET (1 .. n)
    OBVIOUS
  <2> HIDE DEF V
  <2> QED
    BY <2>1
<1>4. F[0] = <<>>
  <2>1. 1 .. 0 = {} /\ 0 \in 0 .. n
    OBVIOUS
  <2>2. g[{}] = e
    <3> HIDE DEF e, op, V
    <3> QED
      BY <1>2 DEF MaxFold
  <2> HIDE DEF F
  <2> QED
    BY <1>3, <2>1, <2>2
<1>5. ASSUME NEW i \in 1 .. n PROVE F[i] = F[i - 1] \o seqs[i]
  <2>1. i \in Nat /\ i # 0 /\ i \in 0 .. n /\ i - 1 \in 0 .. n
    OBVIOUS
  <2> DEFINE U == 1 .. i
             j == i
  <2>2. Max(U) = j /\ U \ {j} = 1 .. (i - 1)
    BY <2>1, MaxOfInterval
  <2>3. U \in SUBSET (1 .. n) /\ U # {}
    <3>1. i \in U /\ \A x \in U : x \in 1 .. n
      BY <2>1
    <3> QED
      BY <3>1
  <2> HIDE DEF U, j, op, e, F, V
  <2>4. g[U] = op[<<Max(U), g[U \ {Max(U)}]>>]
    BY <1>2, <2>3 DEF MaxFold
  <2>5. F[i] = g[U] /\ F[i - 1] = g[U \ {j}] /\ F[i - 1] \in V
    BY <1>3, <2>1, <2>2 DEF U
  <2>6. F[i] = op[<<j, F[i - 1]>>]
    BY <2>2, <2>4, <2>5
  <2> QED
    BY <1>1, <2>5, <2>6 DEF j
<1>6. seqs \in Seq(Seq(T)) /\ Len(seqs) = n
  OBVIOUS
<1>7. CASE n = 0
  <2>1. seqs = <<>>
    BY <1>6, <1>7
  <2>2. FlattenSeq(seqs) = <<>>
    BY <1>6, <1>7, <2>1 DEF FlattenSeq
  <2> HIDE DEF F
  <2>3. F[n] = FlattenSeq(seqs)
    BY <1>4, <1>7, <2>2
  <2> QED
    BY <1>3, <1>4, <1>5, <2>3 DEF FlatRun
<1>8. CASE n # 0
  <2> DEFINE eq(f) == f = [i \in 1 .. n |-> IF i = 1 THEN seqs[i] ELSE f[i - 1] \o seqs[i]]
             k == CHOOSE f : eq(f)
             G == [i \in 1 .. n |-> F[i]]
  <2>1. FlattenSeq(seqs) = k[n]
    BY <1>6, <1>8 DEF FlattenSeq
  <2>2. 1 \in 1 .. n /\ F[1] = seqs[1]
    <3>1. 1 \in 1 .. n /\ 1 - 1 = 0
      BY <1>8
    <3>2. <<>> \o seqs[1] = seqs[1]
      BY <3>1
    <3> HIDE DEF F
    <3> QED
      BY <1>4, <1>5, <3>1, <3>2
  <2>3. \A i \in 1 .. n : i # 1 => i - 1 \in 1 .. n
    OBVIOUS
  <2>4. eq(G)
    <3> HIDE DEF F
    <3>1. \A i \in 1 .. n : F[i] = IF i = 1 THEN seqs[i] ELSE G[i - 1] \o seqs[i]
      BY <1>5, <2>2, <2>3
    <3> QED
      BY <3>1
  <2>5. eq(k)
    <3> HIDE DEF eq
    <3> QED
      BY <2>4
  <2> HIDE DEF k
  <2>6. \A i \in 1 .. n : k[i] = IF i = 1 THEN seqs[i] ELSE k[i - 1] \o seqs[i]
    BY <2>5
  <2> DEFINE Q == {i \in Nat : i + 1 <= n => k[i + 1] = F[i + 1]}
  <2> HIDE DEF F
  <2>7. 0 \in Q
    BY <2>2, <2>6
  <2>8. ASSUME NEW i \in Nat, i \in Q PROVE i + 1 \in Q
    <3>1. SUFFICES ASSUME (i + 1) + 1 <= n PROVE k[(i + 1) + 1] = F[(i + 1) + 1]
      OBVIOUS
    <3> DEFINE j == (i + 1) + 1
    <3>2. j \in 1 .. n /\ j # 1 /\ j - 1 = i + 1 /\ i + 1 <= n
      BY <3>1
    <3>3. k[i + 1] = F[i + 1]
      BY <2>8, <3>2
    <3>5. k[j - 1] = F[j - 1]
      BY <3>2, <3>3
    <3> HIDE DEF j
    <3>6. k[j] = k[j - 1] \o seqs[j]
      BY <2>6, <3>2
    <3>7. F[j] = F[j - 1] \o seqs[j]
      BY <1>5, <3>2
    <3>4. k[j] = F[j]
      BY <3>5, <3>6, <3>7
    <3> QED
      BY <3>4 DEF j
  <2>9. n - 1 \in Q
    <3>1. n - 1 \in Nat
      BY <1>8
    <3> HIDE DEF Q
    <3> QED
      BY <2>7, <2>8, <3>1, NatSetInduction
  <2>10. F[n] = FlattenSeq(seqs)
    <3>1. (n - 1) + 1 = n /\ n <= n
      OBVIOUS
    <3> QED
      BY <2>1, <2>9, <3>1
  <2> QED
    BY <1>3, <1>4, <1>5, <2>10 DEF FlatRun
<1> QED
  BY <1>7, <1>8

\* p is a prefix of q.
Begins(p, q) == Len(p) <= Len(q) /\ \A j \in 1 .. Len(p) : q[j] = p[j]

\* What is concatenated first comes first.
LEMMA FlatPrefix ==
    ASSUME NEW T, NEW n \in Nat, NEW seqs \in [1 .. n -> Seq(T)], NEW f, FlatRun(f, T, n, seqs),
           NEW i \in 0 .. n
    PROVE  Begins(f[i], f[n])
<1> DEFINE Q == {d \in Nat : i + d <= n => Begins(f[i], f[i + d])}
<1>1. \A j \in 0 .. n : f[j] \in Seq(T)
  BY DEF FlatRun
<1>2. 0 \in Q
  <2>1. f[i] \in Seq(T) /\ i + 0 = i
    BY <1>1
  <2> QED
    BY <2>1 DEF Begins
<1>3. ASSUME NEW d \in Nat, d \in Q PROVE d + 1 \in Q
  <2>1. SUFFICES ASSUME i + (d + 1) <= n PROVE Begins(f[i], f[i + (d + 1)])
    OBVIOUS
  <2> DEFINE m == i + (d + 1)
  <2>2. m \in 1 .. n /\ m - 1 = i + d /\ i + d \in 0 .. n /\ i + d <= n
    BY <2>1
  <2>3. Begins(f[i], f[i + d])
    BY <1>3, <2>2
  <2>4. f[m] = f[i + d] \o seqs[m]
    BY <2>2 DEF FlatRun
  <2>5. f[i] \in Seq(T) /\ f[i + d] \in Seq(T) /\ seqs[m] \in Seq(T)
    BY <1>1, <2>2
  <2> HIDE DEF m
  <2> DEFINE a == f[i]
             b == f[i + d]
             c == seqs[m]
  <2>6. Begins(a, b \o c)
    <3>1. a \in Seq(T) /\ b \in Seq(T) /\ c \in Seq(T) /\ Begins(a, b)
      BY <2>3, <2>5
    <3> HIDE DEF a, b, c
    <3>2. /\ Len(a) \in Nat /\ Len(b) \in Nat /\ Len(c) \in Nat /\ Len(b \o c) = Len(b) + Len(c)
          /\ \A j \in 1 .. Len(b) : (b \o c)[j] = b[j]
      BY <3>1
    <3> QED
      BY <3>1, <3>2 DEF Begins
  <2> QED
    BY <2>4, <2>6 DEF m
<1>4. n - i \in Q
  <2>1. n - i \in Nat
    OBVIOUS
  <2> HIDE DEF Q
  <2> QED
    BY <1>2, <1>3, <2>1, NatSetInduction
<1> QED
  <2>1. i + (n - i) = n /\ n <= n
    OBVIOUS
  <2> QED
    BY <1>4, <2>1

-----------------------------------------------------------------------------
\* In a finite set something has the least rank.
LEMMA LeastExists ==
    ASSUME NEW S, IsFiniteSet(S), S # {}, NEW rank, \A x \in S : rank[x] \in Int
    PROVE  \E x \in S : \A y \in S : rank[x] <= rank[y]
<1> DEFINE Q == {T \in SUBSET S : T # {} => \E x \in T : \A y \in T : rank[x] <= rank[y]}
<1>1. ASSUME NEW T \in SUBSET S, \A U \in SUBSET T : U # T => U \in Q PROVE T \in Q
  <2>1. SUFFICES ASSUME T # {} PROVE \E x \in T : \A y \in T : rank[x] <= rank[y]
    OBVIOUS
  <2>2. PICK z \in T : TRUE
    BY <2>1
  <2>3. T \ {z} \in Q
    BY <1>1, <2>2
  <2>4. CASE T \ {z} = {}
    BY <2>2, <2>4
  <2>5. CASE T \ {z} # {}
    <3>1. PICK x \in T \ {z} : \A y \in T \ {z} : rank[x] <= rank[y]
      BY <2>3, <2>5
    <3>2. rank[x] \in Int /\ rank[z] \in Int /\ \A y \in T : rank[y] \in Int
      BY <3>1
    <3>3. CASE rank[x] <= rank[z]
      BY <3>1, <3>2, <3>3
    <3>4. CASE rank[z] <= rank[x]
      BY <3>1, <3>2, <3>4
    <3> QED BY <3>2, <3>3, <3>4
  <2> QED BY <2>4, <2>5
<1>2. \A T \in SUBSET S : T \in Q
  <2> HIDE DEF Q
  <2> QED BY <1>1, FiniteSetInduction
<1> QED BY <1>2

LEMMA SameSequence ==
    ASSUME NEW T, NEW s \in Seq(T), NEW t \in Seq(T), Len(s) = Len(t),
           \A i \in 1 .. Len(s) : s[i] = t[i]
    PROVE  s = t
<1>1. s \in [1 .. Len(s) -> T] /\ t \in [1 .. Len(s) -> T] OBVIOUS
<1> QED BY <1>1

=============================================================================
