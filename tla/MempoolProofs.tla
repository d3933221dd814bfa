----------------------------- MODULE MempoolProofs -----------------------------
(***************************************************************************)
(* Proofs about Mempool: for any transactions, caps, expiry and block size, *)
(* neither cap is ever passed, every pending transaction has its row in the *)
(* MEMPOOL table, nothing pending is confirmed once a block is handled,     *)
(* unless synchronisation confirmed it, and senders can pay for what they   *)
(* have pending.  The last needs more of the table than of the pool: what   *)
(* the confirmed transactions and the rows together take from a sender is   *)
(* what an insert adds to and every other step takes from.                  *)
(***************************************************************************)
EXTENDS Mempool, FoldTheorems

\* The transactions of the new blocks that remove_included has yet to see.
ToRemove == {t \in Txs : \E i \in DOMAIN handler.new : t \in handler.new[i]}

\* Also while the maintenance runs: what is pending and confirmed is still to
\* be removed, and so would be a displaced transaction that is re-added and
\* that the fork confirmed as well.
RemovalPending ==
    /\ Pending \cap confirmed \subseteq bypassed \cup ToRemove
    /\ handler.left \cap confirmed \subseteq ToRemove

IInv == TypeOK /\ CapsHold /\ Persisted /\ RemovalPending

\* What the transactions of S take from a, and what a has to pay with on a chain
\* that confirmed `done`.
Debits(S, a) == SumOver({t \in S : t.sender = a}, Cost)
Funds(done, a) ==
    GenesisBalance[a] + SumOver({t \in done : t.receiver = a}, LAMBDA t : t.amount)

\* a can pay for what is confirmed and for the transactions of S.
CanPay(done, S, a) == Debits(done \cup S, a) <= Funds(done, a)

\* A sender that is not hurt can pay for every row of the table, also those a
\* handler has yet to remove or to restore.
TableAffordable ==
    \A a \in Accounts \ hurt : CanPay(confirmed, DOMAIN table, a)

\* A row without its pending transaction is one of a restart, whose sender is hurt.
RowsArePending == up => \A t \in DOMAIN table \ Pending : t.sender \in hurt

BypassedAreHurt == Senders(bypassed) \subseteq hurt

\* A handler dies with the process.
OnlyUpHandles == up \/ handler = Idle

AInv == TableAffordable /\ RowsArePending /\ BypassedAreHurt

-----------------------------------------------------------------------------
(* The pool and its table as functions. *)

LEMMA EntriesAreFunctions ==
    ASSUME NEW p
    PROVE  p \in Entries <=> DOMAIN p \subseteq Txs /\ p \in [DOMAIN p -> Ages]
<1>1. ASSUME p \in Entries PROVE DOMAIN p \subseteq Txs /\ p \in [DOMAIN p -> Ages]
  <2>1. PICK S \in SUBSET Txs : p \in [S -> Ages]
    BY <1>1 DEF Entries
  <2> QED
    BY <2>1
<1>2. ASSUME DOMAIN p \subseteq Txs, p \in [DOMAIN p -> Ages] PROVE p \in Entries
  BY <1>2 DEF Entries
<1> QED
  BY <1>1, <1>2

LEMMA NothingIsEntries == NoEntries \in Entries /\ DOMAIN NoEntries = {}
<1>1. DOMAIN NoEntries = {} /\ NoEntries \in [{} -> Ages]
  BY DEF NoEntries
<1> QED
  BY <1>1, EntriesAreFunctions

\* A pending transaction enters with age 0.
LEMMA Inserting ==
    ASSUME NEW p \in Entries, NEW t \in Txs
    PROVE  /\ Insert(p, t) \in Entries
           /\ DOMAIN Insert(p, t) = DOMAIN p \cup {t}
           /\ Insert(p, t)[t] = 0
           /\ \A u \in DOMAIN p \ {t} : Insert(p, t)[u] = p[u]
<1>2. 0 \in Ages
  BY MempoolAssumption DEF Ages
<1>3. DOMAIN p \subseteq Txs /\ p \in [DOMAIN p -> Ages]
  BY EntriesAreFunctions
<1>4. /\ DOMAIN Insert(p, t) = DOMAIN p \cup {t}
      /\ \A u \in DOMAIN p \cup {t} : Insert(p, t)[u] = IF u = t THEN 0 ELSE p[u]
  BY DEF Insert
<1>5. Insert(p, t) \in [DOMAIN p \cup {t} -> Ages]
  BY <1>2, <1>3 DEF Insert
<1>6. Insert(p, t) \in Entries
  BY <1>3, <1>4, <1>5, EntriesAreFunctions
<1> QED
  BY <1>4, <1>6

LEMMA Restricting ==
    ASSUME NEW p \in Entries, NEW S \in SUBSET DOMAIN p
    PROVE  /\ Restrict(p, S) \in Entries
           /\ DOMAIN Restrict(p, S) = S
           /\ \A u \in S : Restrict(p, S)[u] = p[u]
<1>1. DOMAIN p \subseteq Txs /\ p \in [DOMAIN p -> Ages]
  BY EntriesAreFunctions
<1>2. DOMAIN Restrict(p, S) = S /\ \A u \in S : Restrict(p, S)[u] = p[u]
  BY DEF Restrict
<1>3. Restrict(p, S) \in [S -> Ages]
  BY <1>1 DEF Restrict
<1>4. Restrict(p, S) \in Entries
  BY <1>1, <1>2, <1>3, EntriesAreFunctions
<1> QED
  BY <1>2, <1>4

LEMMA Removing ==
    ASSUME NEW p \in Entries, NEW S
    PROVE  /\ Without(p, S) \in Entries
           /\ DOMAIN Without(p, S) = DOMAIN p \ S
           /\ \A u \in DOMAIN p \ S : Without(p, S)[u] = p[u]
  BY Restricting DEF Without

LEMMA Aging ==
    ASSUME NEW p \in Entries
    PROVE  /\ Aged(p) \in Entries
           /\ DOMAIN Aged(p) = DOMAIN p
           /\ \A u \in DOMAIN p : Aged(p)[u] = MinOf(p[u] + 1, TxExpiryBlocks + 1)
<1>1. DOMAIN p \subseteq Txs /\ p \in [DOMAIN p -> Ages]
  BY EntriesAreFunctions
<1>2. DOMAIN Aged(p) = DOMAIN p /\ \A u \in DOMAIN p : Aged(p)[u] = MinOf(p[u] + 1, TxExpiryBlocks + 1)
  BY DEF Aged
<1>3. \A n \in Ages : MinOf(n + 1, TxExpiryBlocks + 1) \in Ages
  BY MempoolAssumption DEF Ages, MinOf
<1>4. Aged(p) \in [DOMAIN p -> Ages]
  BY <1>1, <1>3 DEF Aged
<1>5. Aged(p) \in Entries
  BY <1>1, <1>2, <1>4, EntriesAreFunctions
<1> QED
  BY <1>2, <1>5

-----------------------------------------------------------------------------
(* The caps. *)

\* A pool with fewer transactions than one within the caps is within them.
LEMMA FewerWithinCaps ==
    ASSUME NEW p \in Entries, NEW q \in Entries, DOMAIN q \subseteq DOMAIN p, WithinCaps(p)
    PROVE  WithinCaps(q)
<1>1. DOMAIN p \subseteq Txs
  BY EntriesAreFunctions
<1>2. IsFiniteSet(DOMAIN p)
  BY <1>1, MempoolAssumption, FS_Subset
<1>3. Cardinality(DOMAIN q) <= MaxMempoolSize
  <2>1. Cardinality(DOMAIN q) <= Cardinality(DOMAIN p) /\ IsFiniteSet(DOMAIN q)
    BY <1>2, FS_Subset
  <2>2. Cardinality(DOMAIN q) \in Nat /\ Cardinality(DOMAIN p) \in Nat
    BY <1>2, <2>1, FS_CardinalityType
  <2> QED
    BY <2>1, <2>2, MempoolAssumption DEF WithinCaps
<1>4. ASSUME NEW a \in Accounts PROVE Cardinality(PendingOf(q, a)) <= MaxPerSender
  <2>1. PendingOf(q, a) \subseteq PendingOf(p, a) /\ PendingOf(p, a) \subseteq DOMAIN p
    BY DEF PendingOf
  <2>2. IsFiniteSet(PendingOf(p, a))
    BY <1>2, <2>1, FS_Subset
  <2>3. /\ Cardinality(PendingOf(q, a)) <= Cardinality(PendingOf(p, a))
        /\ IsFiniteSet(PendingOf(q, a))
    BY <2>1, <2>2, FS_Subset
  <2>4. Cardinality(PendingOf(q, a)) \in Nat /\ Cardinality(PendingOf(p, a)) \in Nat
    BY <2>2, <2>3, FS_CardinalityType
  <2>5. Cardinality(PendingOf(p, a)) <= MaxPerSender
    BY DEF WithinCaps
  <2> QED
    BY <2>3, <2>4, <2>5, MempoolAssumption
<1> QED
  BY <1>3, <1>4 DEF WithinCaps

\* With room for it, one more transaction stays within the caps.
LEMMA RoomKeepsCaps ==
    ASSUME NEW p \in Entries, NEW t \in Txs, WithinCaps(p), HasRoom(p, t)
    PROVE  WithinCaps(Insert(p, t))
<1> DEFINE q == Insert(p, t)
<1>1. DOMAIN p \subseteq Txs
  BY EntriesAreFunctions
<1>2. IsFiniteSet(DOMAIN p)
  BY <1>1, MempoolAssumption, FS_Subset
<1>3. DOMAIN q = DOMAIN p \cup {t}
  BY Inserting
<1>4. Cardinality(DOMAIN q) <= MaxMempoolSize
  <2>1. Cardinality(DOMAIN q) = Cardinality(DOMAIN p) + 1
    BY <1>2, <1>3, FS_AddElement DEF HasRoom
  <2>2. Cardinality(DOMAIN p) \in Nat /\ Cardinality(DOMAIN p) < MaxMempoolSize
    BY <1>2, FS_CardinalityType DEF HasRoom
  <2> QED
    BY <2>1, <2>2, MempoolAssumption
<1>5. ASSUME NEW a \in Accounts PROVE Cardinality(PendingOf(q, a)) <= MaxPerSender
  <2>1. IsFiniteSet(PendingOf(p, a))
    BY <1>2, FS_Subset DEF PendingOf
  <2>2. CASE t.sender # a
    <3>1. PendingOf(q, a) = PendingOf(p, a)
      BY <1>3, <2>2 DEF PendingOf
    <3> QED
      BY <3>1 DEF WithinCaps
  <2>3. CASE t.sender = a
    <3>1. PendingOf(q, a) = PendingOf(p, a) \cup {t}
      BY <1>3, <2>3 DEF PendingOf
    <3>2. t \notin PendingOf(p, a)
      BY DEF PendingOf, HasRoom
    <3>3. Cardinality(PendingOf(q, a)) = Cardinality(PendingOf(p, a)) + 1
      BY <2>1, <3>1, <3>2, FS_AddElement
    <3>4. Cardinality(PendingOf(p, a)) \in Nat /\ Cardinality(PendingOf(p, a)) < MaxPerSender
      BY <2>1, <2>3, FS_CardinalityType DEF HasRoom
    <3> QED
      BY <3>3, <3>4, MempoolAssumption
  <2> QED
    BY <2>2, <2>3
<1> QED
  BY <1>4, <1>5 DEF WithinCaps

-----------------------------------------------------------------------------
(* What senders can afford. *)

CostOf == [t \in Txs |-> Cost(t)]
AmountOf == [t \in Txs |-> t.amount]
SentBy(S, a) == {t \in S : t.sender = a}
SentTo(S, a) == {t \in S : t.receiver = a}

\* Debits, funds and the balance are sums over sets of transactions.
LEMMA SumsOfTxs ==
    ASSUME NEW S \in SUBSET Txs, NEW a \in Accounts
    PROVE  /\ Debits(S, a) = SumOn(CostOf, SentBy(S, a))
           /\ Funds(S, a) = GenesisBalance[a] + SumOn(AmountOf, SentTo(S, a))
           /\ Balance(S, a) = GenesisBalance[a] + (SumOn(AmountOf, SentTo(S, a))
                                                   - SumOn(CostOf, SentBy(S, a)))
           /\ \A p : DOMAIN p = S => PendingDebit(p, a) = SumOn(CostOf, SentBy(S, a))
<1> DEFINE Sent == SentBy(S, a)
           To == SentTo(S, a)
<1>1. [t \in Sent |-> Cost(t)] = [t \in Sent |-> CostOf[t]]
  BY DEF CostOf, SentBy
<1>2. [t \in To |-> t.amount] = [t \in To |-> AmountOf[t]]
  BY DEF AmountOf, SentTo
<1>3. SumOver(Sent, Cost) = SumOn(CostOf, Sent)
  BY <1>1 DEF SumOver, SumOn, SumOf
<1>4. SumOver(To, LAMBDA t : t.amount) = SumOn(AmountOf, To)
  BY <1>2 DEF SumOver, SumOn, SumOf
<1>5. Debits(S, a) = SumOver(Sent, Cost)
  BY DEF Debits, SentBy
<1>6. Funds(S, a) = GenesisBalance[a] + SumOver(To, LAMBDA t : t.amount)
  BY DEF Funds, SentTo
<1>7. Balance(S, a) = GenesisBalance[a] + (SumOver(To, LAMBDA t : t.amount)
                                           - SumOver(Sent, Cost))
  BY DEF Balance, SentTo, SentBy
<1>8. \A p : DOMAIN p = S => PendingDebit(p, a) = SumOver(Sent, Cost)
  BY DEF PendingDebit, PendingOf, SentBy
<1> QED
  BY <1>3, <1>4, <1>5, <1>6, <1>7, <1>8

LEMMA Prices == CostOf \in [Txs -> Nat] /\ AmountOf \in [Txs -> Nat] /\ IsFiniteSet(Txs)
<1>1. \A t \in Txs : t.amount \in Nat /\ t.fee \in Nat /\ Cost(t) = t.amount + t.fee
  BY MempoolAssumption DEF Cost
<1>2. \A t \in Txs : Cost(t) \in Nat
  BY <1>1
<1> QED
  BY <1>1, <1>2, MempoolAssumption DEF CostOf, AmountOf

\* It still can when it has not more to pay for and has received what it had.
LEMMA StillPays ==
    ASSUME NEW a \in Accounts, NEW done \in SUBSET Txs, NEW S \in SUBSET Txs,
           NEW done2 \in SUBSET Txs, NEW S2 \in SUBSET Txs,
           SentBy(done2 \cup S2, a) \subseteq SentBy(done \cup S, a),
           SentTo(done, a) \subseteq SentTo(done2, a), CanPay(done, S, a)
    PROVE  CanPay(done2, S2, a)
<1>1. /\ Debits(done \cup S, a) = SumOn(CostOf, SentBy(done \cup S, a))
      /\ Debits(done2 \cup S2, a) = SumOn(CostOf, SentBy(done2 \cup S2, a))
  BY SumsOfTxs
<1>2. /\ Funds(done, a) = GenesisBalance[a] + SumOn(AmountOf, SentTo(done, a))
      /\ Funds(done2, a) = GenesisBalance[a] + SumOn(AmountOf, SentTo(done2, a))
  BY SumsOfTxs
<1>3. /\ SumOn(CostOf, SentBy(done2 \cup S2, a)) \in Nat
      /\ SumOn(CostOf, SentBy(done \cup S, a)) \in Nat
      /\ SumOn(CostOf, SentBy(done2 \cup S2, a)) <= SumOn(CostOf, SentBy(done \cup S, a))
  <2>1. SentBy(done \cup S, a) \in SUBSET Txs
    BY DEF SentBy
  <2> QED
    BY <2>1, Prices, SumMonotone
<1>4. /\ SumOn(AmountOf, SentTo(done, a)) \in Nat /\ SumOn(AmountOf, SentTo(done2, a)) \in Nat
      /\ SumOn(AmountOf, SentTo(done, a)) <= SumOn(AmountOf, SentTo(done2, a))
  <2>1. SentTo(done2, a) \in SUBSET Txs
    BY DEF SentTo
  <2> QED
    BY <2>1, Prices, SumMonotone
<1>5. GenesisBalance[a] \in Nat
  BY MempoolAssumption
<1> QED
  BY <1>1, <1>2, <1>3, <1>4, <1>5 DEF CanPay

\* A transaction that the sender can pay for on top of what is pending, when
\* what is pending of a is all that S holds of it.
LEMMA PaysForOneMore ==
    ASSUME NEW done \in SUBSET Txs, NEW p \in Entries, NEW S \in SUBSET Txs, NEW t \in Txs,
           SentBy(S, t.sender) \subseteq DOMAIN p, CanPay(done, S, t.sender),
           Balance(done, t.sender) - PendingDebit(p, t.sender) >= Cost(t)
    PROVE  CanPay(done, S \cup {t}, t.sender)
<1> DEFINE a == t.sender
           D == SentBy(done, a)
           P == SentBy(DOMAIN p, a)
           U == SentBy(done \cup (S \cup {t}), a)
<1>1. a \in Accounts /\ DOMAIN p \subseteq Txs
  BY MempoolAssumption, EntriesAreFunctions
<1>2. /\ D \in SUBSET Txs /\ P \in SUBSET Txs /\ D \cup P \in SUBSET Txs /\ {t} \in SUBSET Txs
      /\ (D \cup P) \cup {t} \in SUBSET Txs
      /\ U \in SUBSET ((D \cup P) \cup {t})
  BY <1>1 DEF SentBy
<1>3. SumOn(CostOf, D \cup P) + SumOn(CostOf, D \cap P) = SumOn(CostOf, D) + SumOn(CostOf, P)
  BY <1>2, Prices, SumUnion
<1>4. /\ SumOn(CostOf, (D \cup P) \cup {t}) + SumOn(CostOf, (D \cup P) \cap {t})
           = SumOn(CostOf, D \cup P) + SumOn(CostOf, {t})
  BY <1>2, Prices, SumUnion
<1>5. /\ SumOn(CostOf, U) \in Nat /\ SumOn(CostOf, (D \cup P) \cup {t}) \in Nat
      /\ SumOn(CostOf, U) <= SumOn(CostOf, (D \cup P) \cup {t})
  BY <1>2, Prices, SumMonotone
<1>6. /\ SumOn(CostOf, D \cap P) \in Nat /\ SumOn(CostOf, (D \cup P) \cap {t}) \in Nat
      /\ SumOn(CostOf, D) \in Nat /\ SumOn(CostOf, P) \in Nat /\ SumOn(CostOf, D \cup P) \in Nat
  <2>1. /\ D \cap P \in SUBSET D /\ (D \cup P) \cap {t} \in SUBSET {t} /\ D \in SUBSET D
        /\ P \in SUBSET P /\ D \cup P \in SUBSET (D \cup P)
    OBVIOUS
  <2> HIDE DEF D, P
  <2> QED
    BY <1>2, <2>1, Prices, SumMonotone
<1>7. SumOn(CostOf, {t}) = Cost(t) /\ Cost(t) \in Nat
  <2>1. CostOf[t] = Cost(t) /\ CostOf[t] \in Nat
    BY Prices DEF CostOf
  <2> QED
    BY <2>1, Prices, SumSmall
<1>8. /\ Balance(done, a) = GenesisBalance[a] + (SumOn(AmountOf, SentTo(done, a)) - SumOn(CostOf, D))
      /\ PendingDebit(p, a) = SumOn(CostOf, P)
      /\ Funds(done, a) = GenesisBalance[a] + SumOn(AmountOf, SentTo(done, a))
      /\ Debits(done \cup (S \cup {t}), a) = SumOn(CostOf, U)
  <2>1. done \cup (S \cup {t}) \in SUBSET Txs
    OBVIOUS
  <2> QED
    BY <1>1, <2>1, SumsOfTxs
<1>9. GenesisBalance[a] \in Nat /\ SumOn(AmountOf, SentTo(done, a)) \in Nat
  <2>1. SentTo(done, a) \in SUBSET Txs /\ SentTo(done, a) \in SUBSET SentTo(done, a)
    BY DEF SentTo
  <2> QED
    BY <1>1, <2>1, Prices, SumMonotone, MempoolAssumption
<1>10. Balance(done, a) - PendingDebit(p, a) >= Cost(t)
  OBVIOUS
<1>11. SumOn(CostOf, U) <= GenesisBalance[a] + SumOn(AmountOf, SentTo(done, a))
  <2> DEFINE u == SumOn(CostOf, U)
             v == SumOn(CostOf, (D \cup P) \cup {t})
             w == SumOn(CostOf, D \cup P)
             d == SumOn(CostOf, D)
             q == SumOn(CostOf, P)
             c == Cost(t)
             g == GenesisBalance[a]
             m == SumOn(AmountOf, SentTo(done, a))
             i == SumOn(CostOf, D \cap P)
             j == SumOn(CostOf, (D \cup P) \cap {t})
  <2>1. /\ w + i = d + q /\ v + j = w + c /\ u <= v /\ (g + (m - d)) - q >= c
        /\ {u, v, w, d, q, c, g, m, i, j} \subseteq Nat
    <3>1. (g + (m - d)) - q >= c
      BY <1>8, <1>10
    <3> QED
      BY <1>3, <1>4, <1>5, <1>6, <1>7, <1>9, <3>1
  <2> HIDE DEF u, v, w, d, q, c, g, m, i, j
  <2>2. u <= g + m
    BY <2>1
  <2> QED
    BY <2>2 DEF u, g, m
<1> QED
  BY <1>8, <1>11 DEF CanPay

\* Nothing pending of a sender that pays for all of S is confirmed: its balance
\* covers the pool.
LEMMA PoolCovered ==
    ASSUME NEW a \in Accounts, NEW done \in SUBSET Txs, NEW S \in SUBSET Txs, NEW p \in Entries,
           DOMAIN p \subseteq S, SentBy(DOMAIN p, a) \cap done = {}, CanPay(done, S, a)
    PROVE  PendingDebit(p, a) <= Balance(done, a)
<1> DEFINE D == SentBy(done, a)
           P == SentBy(DOMAIN p, a)
           U == SentBy(done \cup S, a)
<1>1. DOMAIN p \in SUBSET Txs /\ done \cup S \in SUBSET Txs
  BY EntriesAreFunctions
<1>2. /\ D \in SUBSET Txs /\ P \in SUBSET Txs /\ U \in SUBSET Txs
      /\ D \cup P \in SUBSET U /\ D \cap P = {}
  BY <1>1 DEF SentBy
<1>3. SumOn(CostOf, D \cup P) + SumOn(CostOf, {}) = SumOn(CostOf, D) + SumOn(CostOf, P)
  BY <1>2, Prices, SumUnion
<1>4. /\ SumOn(CostOf, U) \in Nat /\ SumOn(CostOf, D \cup P) \in Nat
      /\ SumOn(CostOf, D \cup P) <= SumOn(CostOf, U)
  BY <1>2, Prices, SumMonotone
<1>5. SumOn(CostOf, {}) \in Nat /\ SumOn(CostOf, D) \in Nat /\ SumOn(CostOf, P) \in Nat
  <2>1. {} \in SUBSET D /\ D \in SUBSET D /\ P \in SUBSET P
    OBVIOUS
  <2> HIDE DEF D, P
  <2> QED
    BY <1>2, <2>1, Prices, SumMonotone
<1>6. /\ Balance(done, a) = GenesisBalance[a] + (SumOn(AmountOf, SentTo(done, a)) - SumOn(CostOf, D))
      /\ PendingDebit(p, a) = SumOn(CostOf, P)
      /\ Funds(done, a) = GenesisBalance[a] + SumOn(AmountOf, SentTo(done, a))
      /\ Debits(done \cup S, a) = SumOn(CostOf, U)
  BY <1>1, SumsOfTxs
<1>7. GenesisBalance[a] \in Nat /\ SumOn(AmountOf, SentTo(done, a)) \in Nat
  <2>1. SentTo(done, a) \in SUBSET Txs /\ SentTo(done, a) \in SUBSET SentTo(done, a)
    BY DEF SentTo
  <2> QED
    BY <2>1, Prices, SumMonotone, MempoolAssumption
<1>8. SumOn(CostOf, U) <= GenesisBalance[a] + SumOn(AmountOf, SentTo(done, a))
  BY <1>6 DEF CanPay
<1> HIDE DEF D, P, U
<1>9. SumOn(CostOf, P) <= GenesisBalance[a] + (SumOn(AmountOf, SentTo(done, a)) - SumOn(CostOf, D))
  <2> DEFINE u == SumOn(CostOf, U)
             w == SumOn(CostOf, D \cup P)
             z == SumOn(CostOf, {})
             d == SumOn(CostOf, D)
             q == SumOn(CostOf, P)
             g == GenesisBalance[a]
             m == SumOn(AmountOf, SentTo(done, a))
  <2>1. w + z = d + q /\ w <= u /\ u <= g + m /\ {u, w, z, d, q, g, m} \subseteq Nat /\ z = 0
    <3>1. z = 0
      BY Prices, SumSmall
    <3> QED
      BY <1>3, <1>4, <1>5, <1>7, <1>8, <3>1
  <2> HIDE DEF u, w, z, d, q, g, m
  <2>2. q <= g + (m - d)
    BY <2>1
  <2> QED
    BY <2>2 DEF q, g, m, d
<1> QED
  BY <1>6, <1>9

-----------------------------------------------------------------------------
(* One lemma for each action. *)

LEMMA InitOK == Init => IInv
<1> SUFFICES ASSUME Init PROVE IInv
  OBVIOUS
<1>1. pool \in Entries /\ table \in Entries /\ Pending = {} /\ DOMAIN table = {}
  BY NothingIsEntries DEF Init, Pending
<1>2. handler \in [busy : BOOLEAN, old : SUBSET Txs, left : SUBSET Txs, new : Seq(SUBSET Txs)]
  BY DEF Init, Idle
<1>3. TypeOK
  BY <1>1, <1>2 DEF TypeOK, Init
<1>4. CapsHold
  <2>1. \A a \in Accounts : PendingOf(pool, a) = {}
    BY <1>1 DEF PendingOf, Pending
  <2>2. DOMAIN pool = {}
    BY <1>1 DEF Pending
  <2>3. Cardinality({}) = 0 /\ 0 <= MaxMempoolSize /\ 0 <= MaxPerSender
    BY FS_EmptySet, MempoolAssumption
  <2>4. Cardinality(DOMAIN pool) <= MaxMempoolSize
    BY <2>2, <2>3
  <2>5. \A a \in Accounts : Cardinality(PendingOf(pool, a)) <= MaxPerSender
    BY <2>1, <2>3
  <2> QED
    BY <2>4, <2>5 DEF CapsHold, WithinCaps
<1>5. Persisted
  BY <1>1 DEF Persisted, IsRestriction, Pending
<1>6. RemovalPending
  BY <1>1 DEF RemovalPending, Init, Idle
<1> QED
  BY <1>3, <1>4, <1>5, <1>6 DEF IInv

\* Pool and table change alike.
LEMMA StoredAlike ==
    ASSUME NEW p \in Entries, NEW q \in Entries, IsRestriction(p, q)
    PROVE  /\ \A t \in Txs : IsRestriction(Insert(p, t), Insert(q, t))
           /\ \A S : IsRestriction(Without(p, S), Without(q, S))
           /\ IsRestriction(Aged(p), Aged(q))
<1>1. DOMAIN p \subseteq DOMAIN q /\ \A u \in DOMAIN p : p[u] = q[u]
  BY DEF IsRestriction
<1>2. ASSUME NEW t \in Txs PROVE IsRestriction(Insert(p, t), Insert(q, t))
  <2>1. /\ DOMAIN Insert(p, t) = DOMAIN p \cup {t} /\ DOMAIN Insert(q, t) = DOMAIN q \cup {t}
        /\ \A u \in DOMAIN p \cup {t} : Insert(p, t)[u] = IF u = t THEN 0 ELSE p[u]
        /\ \A u \in DOMAIN q \cup {t} : Insert(q, t)[u] = IF u = t THEN 0 ELSE q[u]
    BY DEF Insert
  <2>2. \A u \in DOMAIN Insert(p, t) : Insert(p, t)[u] = Insert(q, t)[u]
    BY <1>1, <2>1
  <2> QED
    BY <1>1, <2>1, <2>2 DEF IsRestriction
<1>3. ASSUME NEW S PROVE IsRestriction(Without(p, S), Without(q, S))
  <2>1. DOMAIN Without(p, S) = DOMAIN p \ S /\ DOMAIN Without(q, S) = DOMAIN q \ S
    BY Removing
  <2>2. \A u \in DOMAIN p \ S : Without(p, S)[u] = p[u]
    BY Removing
  <2>3. \A u \in DOMAIN q \ S : Without(q, S)[u] = q[u]
    BY Removing
  <2> QED
    BY <1>1, <2>1, <2>2, <2>3 DEF IsRestriction
<1>4. IsRestriction(Aged(p), Aged(q))
  BY <1>1, Aging DEF IsRestriction
<1> QED
  BY <1>2, <1>3, <1>4

\* A block or a reorg of the chain leaves the same transactions in the pool.
LEMMA ChainStep ==
    ASSUME IInv, NEW done \in SUBSET Txs, NEW body \in SUBSET done, ChainMoves(done, body)
    PROVE  /\ confirmed' = done /\ tip' = body
           /\ pool' \in Entries /\ table' \in Entries
           /\ Pending' = Pending
           /\ CapsHold' /\ Persisted'
<1>1. pool \in Entries /\ table \in Entries /\ WithinCaps(pool) /\ IsRestriction(pool, table)
  BY DEF IInv, TypeOK, CapsHold, Persisted
<1>2. pool' = Aged(pool) /\ table' = Aged(table) /\ confirmed' = done /\ tip' = body
  BY DEF ChainMoves
<1>3. pool' \in Entries /\ table' \in Entries /\ DOMAIN pool' = DOMAIN pool
  BY <1>1, <1>2, Aging
<1>4. WithinCaps(pool')
  BY <1>1, <1>3, FewerWithinCaps
<1>5. IsRestriction(pool', table')
  BY <1>1, <1>2, StoredAlike
<1> QED
  BY <1>2, <1>3, <1>4, <1>5 DEF CapsHold, Persisted, Pending

\* An idle handler has nothing to remove, so nothing pending is confirmed.
LEMMA IdleIsClean ==
    ASSUME IInv, Ready
    PROVE  ToRemove = {} /\ Pending \cap confirmed \subseteq bypassed
  BY DEF IInv, RemovalPending, Ready, Idle, ToRemove

LEMMA AdmitStep ==
    ASSUME IInv, NEW t \in Txs, Admit(t) PROVE IInv'
<1>1. /\ pool \in Entries /\ table \in Entries
      /\ WithinCaps(pool) /\ IsRestriction(pool, table)
      /\ HasRoom(pool, t) /\ t \notin confirmed
      /\ pool' = Insert(pool, t) /\ table' = Insert(table, t)
      /\ UNCHANGED <<confirmed, tip, handler, up, hurt, bypassed>>
  BY DEF IInv, TypeOK, CapsHold, Persisted, Admit, ValidState
<1>2. pool' \in Entries /\ table' \in Entries /\ DOMAIN pool' = DOMAIN pool \cup {t}
  BY <1>1, Inserting
<1>3. TypeOK'
  BY <1>1, <1>2 DEF IInv, TypeOK
<1>4. CapsHold'
  BY <1>1, RoomKeepsCaps DEF CapsHold
<1>5. Persisted'
  BY <1>1, StoredAlike DEF Persisted
<1>6. RemovalPending'
  BY <1>1, <1>2 DEF IInv, RemovalPending, ToRemove, Pending
<1> QED
  BY <1>3, <1>4, <1>5, <1>6 DEF IInv

LEMMA ReceiveBlockStep ==
    ASSUME IInv, NEW body \in SUBSET Txs, ReceiveBlock(body) PROVE IInv'
<1>1. /\ Ready /\ ChainMoves(confirmed \cup body, body)
      /\ handler' = Handling({}, <<body>>)
      /\ hurt' = hurt \cup Senders(body \ Pending)
      /\ up' = up /\ bypassed' = bypassed
  BY DEF ReceiveBlock
<1>2. confirmed \subseteq Txs
  BY DEF IInv, TypeOK
<1>3. /\ confirmed' = confirmed \cup body /\ tip' = body
      /\ pool' \in Entries /\ table' \in Entries
      /\ Pending' = Pending
      /\ CapsHold' /\ Persisted'
  BY <1>1, <1>2, ChainStep
<1>4. hurt' \subseteq Accounts
  BY <1>1, MempoolAssumption DEF IInv, TypeOK, Senders
<1>5. handler' \in [busy : BOOLEAN, old : SUBSET Txs, left : SUBSET Txs, new : Seq(SUBSET Txs)]
  BY <1>1 DEF Handling
<1>6. TypeOK'
  BY <1>1, <1>2, <1>3, <1>4, <1>5 DEF IInv, TypeOK
<1>7. handler'.left = {} /\ ToRemove' = body
  <2>1. handler'.left = {} /\ handler'.new = <<body>>
    BY <1>1 DEF Handling
  <2>2. DOMAIN <<body>> = {1} /\ <<body>>[1] = body
    OBVIOUS
  <2> QED
    BY <2>1, <2>2 DEF ToRemove
<1>8. RemovalPending'
  BY <1>1, <1>3, <1>7, IdleIsClean DEF RemovalPending
<1> QED
  BY <1>3, <1>6, <1>8 DEF IInv

LEMMA ReceiveReorgStep ==
    ASSUME IInv, NEW first \in SUBSET Txs, NEW second \in SUBSET Txs, ReceiveReorg(first, second)
    PROVE  IInv'
<1> DEFINE new == first \cup second
<1>1. /\ Ready /\ ChainMoves((confirmed \ tip) \cup new, second)
      /\ handler' = Handling(tip, <<first, second>>)
      /\ hurt' = hurt \cup Senders(new \ (tip \cup Pending)) \cup {t.receiver : t \in tip \ new}
      /\ up' = up /\ bypassed' = bypassed
  BY DEF ReceiveReorg
<1>2. confirmed \subseteq Txs /\ tip \subseteq Txs
  BY DEF IInv, TypeOK
<1>3. /\ confirmed' = (confirmed \ tip) \cup new /\ tip' = second
      /\ pool' \in Entries /\ table' \in Entries
      /\ Pending' = Pending
      /\ CapsHold' /\ Persisted'
  <2>1. (confirmed \ tip) \cup new \in SUBSET Txs /\ second \in SUBSET ((confirmed \ tip) \cup new)
    BY <1>2
  <2> QED
    BY <1>1, <2>1, ChainStep
<1>4. hurt' \subseteq Accounts
  BY <1>1, <1>2, MempoolAssumption DEF IInv, TypeOK, Senders
<1>5. handler' \in [busy : BOOLEAN, old : SUBSET Txs, left : SUBSET Txs, new : Seq(SUBSET Txs)]
  BY <1>1, <1>2 DEF Handling
<1>6. TypeOK'
  BY <1>1, <1>2, <1>3, <1>4, <1>5 DEF IInv, TypeOK
<1>7. handler'.left = tip /\ ToRemove' = new
  <2>1. handler'.left = tip /\ handler'.new = <<first, second>>
    BY <1>1 DEF Handling
  <2>2. /\ DOMAIN <<first, second>> = {1, 2}
        /\ <<first, second>>[1] = first /\ <<first, second>>[2] = second
    OBVIOUS
  <2> QED
    BY <2>1, <2>2 DEF ToRemove
<1>8. RemovalPending'
  BY <1>1, <1>3, <1>7, IdleIsClean DEF RemovalPending
<1> QED
  BY <1>3, <1>6, <1>8 DEF IInv

\* A displaced transaction of the old chain is re-added, or not.
LEMMA ReaddStep ==
    ASSUME IInv, NEW t \in handler.left, Readd(t) PROVE IInv'
<1>1. /\ pool \in Entries /\ table \in Entries
      /\ WithinCaps(pool) /\ IsRestriction(pool, table)
      /\ handler \in [busy : BOOLEAN, old : SUBSET Txs, left : SUBSET Txs, new : Seq(SUBSET Txs)]
      /\ pool' = ReaddOne(pool, t)
      /\ table' = IF pool' = pool THEN table ELSE Insert(table, t)
      /\ handler' = [handler EXCEPT !.left = @ \ {t}]
      /\ UNCHANGED <<confirmed, tip, up, hurt, bypassed>>
  BY DEF IInv, TypeOK, CapsHold, Persisted, Readd
<1>2. t \in Txs
  BY <1>1
<1>3. \/ pool' = pool /\ table' = table
      \/ HasRoom(pool, t) /\ pool' = Insert(pool, t) /\ table' = Insert(table, t)
  <2>1. pool' = pool \/ (HasRoom(pool, t) /\ pool' = Insert(pool, t))
    BY <1>1 DEF ReaddOne
  <2> QED
    BY <1>1, <2>1
<1>4. pool' \in Entries /\ table' \in Entries /\ DOMAIN pool' \subseteq DOMAIN pool \cup {t}
  BY <1>1, <1>2, <1>3, Inserting
<1>5. /\ handler' \in [busy : BOOLEAN, old : SUBSET Txs, left : SUBSET Txs, new : Seq(SUBSET Txs)]
      /\ handler'.left = handler.left \ {t} /\ handler'.new = handler.new
  BY <1>1
<1>6. TypeOK'
  BY <1>1, <1>4, <1>5 DEF IInv, TypeOK
<1>7. CapsHold'
  BY <1>1, <1>2, <1>3, RoomKeepsCaps DEF CapsHold
<1>8. Persisted'
  BY <1>1, <1>2, <1>3, StoredAlike DEF Persisted
<1>9. RemovalPending'
  <2>1. ToRemove' = ToRemove
    BY <1>5 DEF ToRemove
  <2>2. Pending' \subseteq Pending \cup {t}
    BY <1>4 DEF Pending
  <2> QED
    BY <1>1, <1>5, <2>1, <2>2 DEF IInv, RemovalPending
<1> QED
  BY <1>6, <1>7, <1>8, <1>9 DEF IInv

\* The calls that remove a set S from pool and table alike.
LEMMA RemovalStep ==
    ASSUME IInv, NEW S, pool' = Without(pool, S), table' = Without(table, S)
    PROVE  /\ pool' \in Entries /\ table' \in Entries
           /\ Pending' = Pending \ S
           /\ CapsHold' /\ Persisted'
<1>1. pool \in Entries /\ table \in Entries /\ WithinCaps(pool) /\ IsRestriction(pool, table)
  BY DEF IInv, TypeOK, CapsHold, Persisted
<1>2. pool' \in Entries /\ table' \in Entries /\ DOMAIN pool' = DOMAIN pool \ S
  BY <1>1, Removing
<1>3. WithinCaps(pool')
  BY <1>1, <1>2, FewerWithinCaps
<1>4. IsRestriction(pool', table')
  BY <1>1, StoredAlike
<1> QED
  BY <1>2, <1>3, <1>4 DEF CapsHold, Persisted, Pending

LEMMA RemoveIncludedStep ==
    ASSUME IInv, RemoveIncluded PROVE IInv'
<1> DEFINE S == Pending \cap Head(handler.new)
<1>1. /\ handler.left = {} /\ handler.new # <<>>
      /\ pool' = Without(pool, S) /\ table' = Without(table, S)
      /\ handler' = [handler EXCEPT !.new = Tail(@)]
      /\ UNCHANGED <<confirmed, tip, up, hurt, bypassed>>
  BY DEF RemoveIncluded
<1>2. handler \in [busy : BOOLEAN, old : SUBSET Txs, left : SUBSET Txs, new : Seq(SUBSET Txs)]
  BY DEF IInv, TypeOK
<1>3. /\ pool' \in Entries /\ table' \in Entries
      /\ Pending' = Pending \ S
      /\ CapsHold' /\ Persisted'
  BY <1>1, RemovalStep
<1>4. /\ handler' \in [busy : BOOLEAN, old : SUBSET Txs, left : SUBSET Txs, new : Seq(SUBSET Txs)]
      /\ handler'.left = {} /\ handler'.new = Tail(handler.new)
  <2>1. Tail(handler.new) \in Seq(SUBSET Txs)
    <3> DEFINE s == handler.new
    <3>1. s \in Seq(SUBSET Txs) /\ s # <<>>
      BY <1>1, <1>2
    <3> HIDE DEF s
    <3>2. Tail(s) \in Seq(SUBSET Txs)
      BY <3>1
    <3> QED
      BY <3>2 DEF s
  <2> QED
    BY <1>1, <1>2, <2>1
<1>5. TypeOK'
  BY <1>1, <1>3, <1>4 DEF IInv, TypeOK
<1>6. ToRemove \subseteq ToRemove' \cup Head(handler.new)
  <2> DEFINE s == handler.new
  <2>1. s \in Seq(SUBSET Txs) /\ s # <<>>
    BY <1>1, <1>2
  <2>2. \A i \in DOMAIN s : s[i] = Head(s) \/ (i - 1 \in DOMAIN Tail(s) /\ Tail(s)[i - 1] = s[i])
    <3> HIDE DEF s
    <3> QED
      BY <2>1
  <2>3. handler'.new = Tail(s)
    BY <1>4
  <2> QED
    BY <2>2, <2>3 DEF ToRemove
<1>7. RemovalPending'
  BY <1>1, <1>3, <1>4, <1>6 DEF IInv, RemovalPending
<1> QED
  BY <1>3, <1>5, <1>7 DEF IInv

LEMMA EvictExpiredStep ==
    ASSUME IInv, EvictExpired PROVE IInv'
<1> DEFINE S == {t \in Pending : Expired(pool[t])}
<1>1. /\ handler.left = {} /\ handler.new = <<>>
      /\ pool' = Without(pool, S) /\ table' = Without(table, S)
      /\ bypassed' = bypassed \ S
      /\ handler' = Idle
      /\ UNCHANGED <<confirmed, tip, up, hurt>>
  BY DEF EvictExpired, Integrated
<1>2. /\ pool' \in Entries /\ table' \in Entries
      /\ Pending' = Pending \ S
      /\ CapsHold' /\ Persisted'
  BY <1>1, RemovalStep
<1>3. /\ handler' \in [busy : BOOLEAN, old : SUBSET Txs, left : SUBSET Txs, new : Seq(SUBSET Txs)]
      /\ handler'.left = {}
  BY <1>1 DEF Idle
<1>4. TypeOK'
  BY <1>1, <1>2, <1>3 DEF IInv, TypeOK
<1>5. ToRemove = {}
  BY <1>1 DEF ToRemove
<1>6. RemovalPending'
  BY <1>1, <1>2, <1>3, <1>5 DEF IInv, RemovalPending
<1> QED
  BY <1>2, <1>4, <1>6 DEF IInv

LEMMA SyncBlockStep ==
    ASSUME IInv, NEW body \in SUBSET Txs, SyncBlock(body) PROVE IInv'
<1>1. /\ Ready /\ ChainMoves(confirmed \cup body, body)
      /\ bypassed' = bypassed \cup (body \cap Pending)
      /\ hurt' = hurt \cup Senders(body)
      /\ handler' = handler /\ up' = up
  BY DEF SyncBlock, SyncMoves
<1>2. confirmed \subseteq Txs
  BY DEF IInv, TypeOK
<1>3. /\ confirmed' = confirmed \cup body /\ tip' = body
      /\ pool' \in Entries /\ table' \in Entries
      /\ Pending' = Pending
      /\ CapsHold' /\ Persisted'
  BY <1>1, <1>2, ChainStep
<1>4. hurt' \subseteq Accounts
  BY <1>1, MempoolAssumption DEF IInv, TypeOK, Senders
<1>5. TypeOK'
  BY <1>1, <1>2, <1>3, <1>4 DEF IInv, TypeOK
<1>6. ToRemove' = ToRemove
  BY <1>1 DEF ToRemove
<1>7. handler'.left = {}
  BY <1>1 DEF Ready, Idle
<1>8. RemovalPending'
  BY <1>1, <1>3, <1>6, <1>7, IdleIsClean DEF RemovalPending
<1> QED
  BY <1>3, <1>5, <1>8 DEF IInv

LEMMA CrashStep ==
    ASSUME IInv, Crash PROVE IInv'
<1>1. /\ pool' = NoEntries /\ handler' = Idle /\ bypassed' = {}
      /\ up' = FALSE
      /\ UNCHANGED <<confirmed, tip, table, hurt>>
  BY DEF Crash
<1>2. pool \in Entries /\ WithinCaps(pool)
  BY DEF IInv, TypeOK, CapsHold
<1>3. pool' \in Entries /\ DOMAIN pool' = {}
  BY <1>1, NothingIsEntries
<1>4. /\ handler' \in [busy : BOOLEAN, old : SUBSET Txs, left : SUBSET Txs, new : Seq(SUBSET Txs)]
      /\ handler'.left = {}
  BY <1>1 DEF Idle
<1>5. TypeOK'
  BY <1>1, <1>3, <1>4 DEF IInv, TypeOK
<1>6. CapsHold'
  BY <1>2, <1>3, FewerWithinCaps DEF CapsHold
<1>7. Persisted'
  BY <1>3 DEF Persisted, IsRestriction
<1>8. RemovalPending'
  BY <1>3, <1>4 DEF RemovalPending, Pending
<1> QED
  BY <1>5, <1>6, <1>7, <1>8 DEF IInv

LEMMA RestartStep ==
    ASSUME IInv, Restart PROVE IInv'
<1>1. PICK S \in SUBSET Restorable : pool' = Restrict(table, S)
  BY DEF Restart
<1>2. /\ WithinCaps(pool')
      /\ up' = TRUE
      /\ hurt' = hurt \cup Senders(DOMAIN table \ DOMAIN pool')
      /\ UNCHANGED <<confirmed, tip, table, handler, bypassed>>
  BY DEF Restart, Restored
<1>3. table \in Entries /\ S \subseteq DOMAIN table /\ S \cap confirmed = {}
  BY DEF IInv, TypeOK, Restorable
<1>4. /\ pool' \in Entries /\ DOMAIN pool' = S
      /\ \A u \in S : pool'[u] = table[u]
  BY <1>1, <1>3, Restricting
<1>5. hurt' \subseteq Accounts
  <2>1. DOMAIN table \subseteq Txs
    BY <1>3, EntriesAreFunctions
  <2> QED
    BY <1>2, <2>1, MempoolAssumption DEF IInv, TypeOK, Senders
<1>6. TypeOK'
  BY <1>2, <1>4, <1>5 DEF IInv, TypeOK
<1>7. CapsHold'
  BY <1>2 DEF CapsHold
<1>8. Persisted'
  BY <1>2, <1>3, <1>4 DEF Persisted, IsRestriction
<1>9. RemovalPending'
  <2>1. ToRemove' = ToRemove
    BY <1>2 DEF ToRemove
  <2> QED
    BY <1>2, <1>3, <1>4, <2>1 DEF IInv, RemovalPending, Pending
<1> QED
  BY <1>6, <1>7, <1>8, <1>9 DEF IInv

\* The miner's block consists of pending transactions.
LEMMA MinedBody ==
    ASSUME IInv, NEW body \in Templates PROVE body \in SUBSET Txs
<1>1. Pending \subseteq Txs
  BY EntriesAreFunctions DEF IInv, TypeOK, Pending
<1>2. Eligible \subseteq Pending
  BY DEF Eligible
<1> QED
  BY <1>1, <1>2 DEF Templates

-----------------------------------------------------------------------------
(* What each action leaves affordable. *)

\* Rows go, or the chain moves: nobody has more to pay or less to pay with who
\* is not hurt afterwards.
LEMMA LessToPay ==
    ASSUME IInv, AInv, IInv', hurt \subseteq hurt',
           \A a \in Accounts \ hurt' :
               /\ SentBy(confirmed' \cup DOMAIN table', a) \subseteq SentBy(confirmed \cup DOMAIN table, a)
               /\ SentTo(confirmed, a) \subseteq SentTo(confirmed', a)
    PROVE  TableAffordable'
<1>1. /\ confirmed \in SUBSET Txs /\ confirmed' \in SUBSET Txs
      /\ DOMAIN table \in SUBSET Txs /\ DOMAIN table' \in SUBSET Txs
  BY EntriesAreFunctions DEF IInv, TypeOK
<1>2. ASSUME NEW a \in Accounts \ hurt' PROVE CanPay(confirmed', DOMAIN table', a)
  <2>1. CanPay(confirmed, DOMAIN table, a)
    BY DEF AInv, TableAffordable
  <2> QED
    BY <1>1, <2>1, StillPays
<1> QED
  BY <1>2 DEF TableAffordable

LEMMA InitAffords == Init => AInv
<1> SUFFICES ASSUME Init PROVE AInv
  OBVIOUS
<1>1. confirmed = {} /\ DOMAIN table = {} /\ Pending = {} /\ bypassed = {}
  BY NothingIsEntries DEF Init, Pending
<1>2. ASSUME NEW a \in Accounts PROVE CanPay({}, {}, a)
  <2>1. SentBy({} \cup {}, a) = {} /\ SentTo({}, a) = {}
    BY DEF SentBy, SentTo
  <2>2. Debits({} \cup {}, a) = SumOn(CostOf, {}) /\ Funds({}, a) = GenesisBalance[a] + SumOn(AmountOf, {})
    <3>1. {} \cup {} \in SUBSET Txs /\ {} \in SUBSET Txs
      OBVIOUS
    <3> QED
      BY <2>1, <3>1, SumsOfTxs
  <2>3. SumOn(CostOf, {}) = 0 /\ SumOn(AmountOf, {}) = 0
    BY Prices, SumSmall
  <2>4. GenesisBalance[a] \in Nat
    BY MempoolAssumption
  <2> QED
    BY <2>2, <2>3, <2>4 DEF CanPay
<1>3. TableAffordable
  BY <1>1, <1>2 DEF TableAffordable
<1> QED
  BY <1>1, <1>3 DEF AInv, RowsArePending, BypassedAreHurt, Senders

\* A transaction that the pool takes in is stored, and its sender can pay for it
\* on top of all it has in the pool, which is all it has in the table.
LEMMA InsertAffords ==
    ASSUME IInv, AInv, up, NEW t \in Txs, Affordable(pool, t),
           pool' = Insert(pool, t), table' = Insert(table, t),
           UNCHANGED <<confirmed, up, hurt, bypassed>>
    PROVE  AInv'
<1>1. pool \in Entries /\ table \in Entries /\ confirmed \in SUBSET Txs
  BY DEF IInv, TypeOK
<1>2. DOMAIN pool' = DOMAIN pool \cup {t} /\ DOMAIN table' = DOMAIN table \cup {t}
  BY <1>1, Inserting
<1>3. DOMAIN table \in SUBSET Txs /\ DOMAIN table \cup {t} \in SUBSET Txs
  BY <1>1, EntriesAreFunctions
<1>4. ASSUME NEW a \in Accounts \ hurt PROVE CanPay(confirmed, DOMAIN table \cup {t}, a)
  <2>1. CanPay(confirmed, DOMAIN table, a)
    BY DEF AInv, TableAffordable
  <2>2. CASE a # t.sender
    <3>1. SentBy(confirmed \cup (DOMAIN table \cup {t}), a) \subseteq SentBy(confirmed \cup DOMAIN table, a)
      BY <2>2 DEF SentBy
    <3> QED
      BY <1>1, <1>3, <2>1, <3>1, StillPays
  <2>3. CASE a = t.sender
    <3>1. SentBy(DOMAIN table, t.sender) \subseteq DOMAIN pool
      BY <2>3 DEF SentBy, AInv, RowsArePending, Pending
    <3>2. Balance(confirmed, t.sender) - PendingDebit(pool, t.sender) >= Cost(t)
      BY DEF Affordable
    <3> QED
      BY <1>1, <1>3, <2>1, <2>3, <3>1, <3>2, PaysForOneMore
  <2> QED
    BY <2>2, <2>3
<1>5. TableAffordable'
  BY <1>2, <1>4 DEF TableAffordable
<1>6. RowsArePending'
  BY <1>2 DEF AInv, RowsArePending, Pending
<1> QED
  BY <1>5, <1>6 DEF AInv, BypassedAreHurt, Senders

LEMMA AdmitAffords ==
    ASSUME IInv, AInv, NEW t \in Txs, Admit(t) PROVE AInv'
  BY InsertAffords DEF Admit, Ready

\* The rows keep their pool through a move of the chain.
LEMMA ChainKeepsRows ==
    ASSUME IInv, AInv, up, NEW done, NEW body, ChainMoves(done, body), hurt \subseteq hurt'
    PROVE  RowsArePending' /\ DOMAIN table' = DOMAIN table /\ Pending' = Pending
<1>1. pool \in Entries /\ table \in Entries /\ pool' = Aged(pool) /\ table' = Aged(table)
  BY DEF IInv, TypeOK, ChainMoves
<1>2. DOMAIN pool' = DOMAIN pool /\ DOMAIN table' = DOMAIN table
  BY <1>1, Aging
<1> QED
  BY <1>2 DEF AInv, RowsArePending, Pending

\* The blocks that pass through the pool charge only senders whose transactions
\* are in it, or hurt.
LEMMA ReceiveBlockAffords ==
    ASSUME IInv, AInv, IInv', NEW body \in SUBSET Txs, ReceiveBlock(body) PROVE AInv'
<1>1. /\ up /\ ChainMoves(confirmed \cup body, body)
      /\ hurt' = hurt \cup Senders(body \ Pending)
      /\ bypassed' = bypassed /\ confirmed' = confirmed \cup body
  BY DEF ReceiveBlock, Ready, ChainMoves
<1>2. RowsArePending' /\ DOMAIN table' = DOMAIN table
  BY <1>1, ChainKeepsRows
<1>3. Pending \subseteq DOMAIN table
  BY DEF IInv, Persisted, IsRestriction, Pending
<1>4. ASSUME NEW a \in Accounts \ hurt'
      PROVE  /\ SentBy(confirmed' \cup DOMAIN table', a) \subseteq SentBy(confirmed \cup DOMAIN table, a)
             /\ SentTo(confirmed, a) \subseteq SentTo(confirmed', a)
  <2>1. SentBy(body, a) \subseteq Pending
    BY <1>1 DEF SentBy, Senders
  <2> QED
    BY <1>1, <1>2, <1>3, <2>1 DEF SentBy, SentTo
<1>5. TableAffordable'
  BY <1>1, <1>4, LessToPay
<1> QED
  BY <1>1, <1>2, <1>5 DEF AInv, BypassedAreHurt

LEMMA ReceiveReorgAffords ==
    ASSUME IInv, AInv, IInv', NEW first \in SUBSET Txs, NEW second \in SUBSET Txs,
           ReceiveReorg(first, second)
    PROVE  AInv'
<1> DEFINE new == first \cup second
<1>1. /\ up /\ ChainMoves((confirmed \ tip) \cup new, second)
      /\ hurt' = hurt \cup Senders(new \ (tip \cup Pending)) \cup {t.receiver : t \in tip \ new}
      /\ bypassed' = bypassed /\ confirmed' = (confirmed \ tip) \cup new
  BY DEF ReceiveReorg, Ready, ChainMoves
<1>2. RowsArePending' /\ DOMAIN table' = DOMAIN table
  BY <1>1, ChainKeepsRows
<1>3. Pending \subseteq DOMAIN table /\ tip \subseteq confirmed
  BY DEF IInv, TypeOK, Persisted, IsRestriction, Pending
<1>4. ASSUME NEW a \in Accounts \ hurt'
      PROVE  /\ SentBy(confirmed' \cup DOMAIN table', a) \subseteq SentBy(confirmed \cup DOMAIN table, a)
             /\ SentTo(confirmed, a) \subseteq SentTo(confirmed', a)
  <2>1. SentBy(new, a) \subseteq tip \cup Pending
    BY <1>1 DEF SentBy, Senders
  <2>2. SentTo(tip, a) \subseteq new
    BY <1>1 DEF SentTo
  <2> QED
    BY <1>1, <1>2, <1>3, <2>1, <2>2 DEF SentBy, SentTo
<1>5. TableAffordable'
  BY <1>1, <1>4, LessToPay
<1> QED
  BY <1>1, <1>2, <1>5 DEF AInv, BypassedAreHurt

\* A displaced transaction comes back only if its sender can pay for it.
LEMMA ReaddAffords ==
    ASSUME IInv, AInv, up, NEW t \in handler.left, Readd(t) PROVE AInv'
<1>1. /\ pool' = ReaddOne(pool, t)
      /\ table' = IF pool' = pool THEN table ELSE Insert(table, t)
      /\ UNCHANGED <<confirmed, up, hurt, bypassed>>
  BY DEF Readd
<1>2. t \in Txs
  BY DEF IInv, TypeOK
<1>3. CASE pool' = pool
  BY <1>1, <1>3 DEF AInv, TableAffordable, RowsArePending, BypassedAreHurt, Pending
<1>4. CASE pool' # pool
  <2>1. Affordable(pool, t) /\ pool' = Insert(pool, t) /\ table' = Insert(table, t)
    BY <1>1, <1>4 DEF ReaddOne
  <2> QED
    BY <1>1, <1>2, <2>1, InsertAffords
<1> QED
  BY <1>3, <1>4

\* What leaves the pool leaves the table.
LEMMA RemovalAffords ==
    ASSUME IInv, AInv, IInv', NEW S, pool' = Without(pool, S), table' = Without(table, S),
           bypassed' \subseteq bypassed, UNCHANGED <<confirmed, up, hurt>>
    PROVE  AInv'
<1>1. pool \in Entries /\ table \in Entries
  BY DEF IInv, TypeOK
<1>2. DOMAIN pool' = DOMAIN pool \ S /\ DOMAIN table' = DOMAIN table \ S
  BY <1>1, Removing
<1>3. TableAffordable'
  <2>1. \A a \in Accounts \ hurt' :
          /\ SentBy(confirmed' \cup DOMAIN table', a) \subseteq SentBy(confirmed \cup DOMAIN table, a)
          /\ SentTo(confirmed, a) \subseteq SentTo(confirmed', a)
    BY <1>2 DEF SentBy
  <2> QED
    BY <2>1, LessToPay
<1>4. RowsArePending'
  BY <1>2 DEF AInv, RowsArePending, Pending
<1> QED
  BY <1>3, <1>4 DEF AInv, BypassedAreHurt, Senders

LEMMA RemoveIncludedAffords ==
    ASSUME IInv, AInv, IInv', RemoveIncluded PROVE AInv'
  BY RemovalAffords DEF RemoveIncluded

LEMMA EvictExpiredAffords ==
    ASSUME IInv, AInv, IInv', EvictExpired PROVE AInv'
<1> DEFINE S == {t \in Pending : Expired(pool[t])}
<1>1. /\ pool' = Without(pool, S) /\ table' = Without(table, S)
      /\ bypassed' \subseteq bypassed /\ UNCHANGED <<confirmed, up, hurt>>
  BY DEF EvictExpired
<1> QED
  BY <1>1, RemovalAffords

\* A block past the pool hurts everyone it charges.
LEMMA SyncBlockAffords ==
    ASSUME IInv, AInv, IInv', NEW body \in SUBSET Txs, SyncBlock(body) PROVE AInv'
<1>1. /\ up /\ ChainMoves(confirmed \cup body, body)
      /\ hurt' = hurt \cup Senders(body)
      /\ bypassed' = bypassed \cup (body \cap Pending) /\ confirmed' = confirmed \cup body
  BY DEF SyncBlock, SyncMoves, Ready, ChainMoves
<1>2. RowsArePending' /\ DOMAIN table' = DOMAIN table
  BY <1>1, ChainKeepsRows
<1>3. ASSUME NEW a \in Accounts \ hurt'
      PROVE  /\ SentBy(confirmed' \cup DOMAIN table', a) \subseteq SentBy(confirmed \cup DOMAIN table, a)
             /\ SentTo(confirmed, a) \subseteq SentTo(confirmed', a)
  BY <1>1, <1>2 DEF SentBy, SentTo, Senders
<1>4. TableAffordable'
  BY <1>1, <1>3, LessToPay
<1> QED
  BY <1>1, <1>2, <1>4 DEF AInv, BypassedAreHurt, Senders

LEMMA CrashAffords ==
    ASSUME IInv, AInv, Crash PROVE AInv'
  BY DEF Crash, AInv, TableAffordable, RowsArePending, BypassedAreHurt, Senders

\* What a restart leaves in the table without restoring it hurts its sender.
LEMMA RestartAffords ==
    ASSUME IInv, AInv, IInv', Restart PROVE AInv'
<1>1. /\ hurt' = hurt \cup Senders(DOMAIN table \ DOMAIN pool')
      /\ UNCHANGED <<confirmed, table, bypassed>>
  BY DEF Restart
<1>2. TableAffordable'
  BY <1>1, LessToPay
<1>3. RowsArePending'
  BY <1>1 DEF RowsArePending, Senders, Pending
<1> QED
  BY <1>1, <1>2, <1>3 DEF AInv, BypassedAreHurt

-----------------------------------------------------------------------------
(* The invariant is inductive. *)

LEMMA Inductive == IInv /\ [Next]_vars => IInv'
<1> SUFFICES ASSUME IInv, [Next]_vars PROVE IInv'
  OBVIOUS
<1>1. ASSUME NEW t \in Txs, Relay(t) \/ Submit(t) PROVE IInv'
  BY <1>1, AdmitStep DEF Relay, Submit
<1>2. ASSUME NEW body \in Bodies, ReceiveBlock(body) PROVE IInv'
  BY <1>2, ReceiveBlockStep DEF Bodies
<1>3. ASSUME NEW body \in Bodies, SyncBlock(body) PROVE IInv'
  BY <1>3, SyncBlockStep DEF Bodies
<1>4. ASSUME NEW first \in Bodies, NEW second \in Bodies, ReceiveReorg(first, second)
      PROVE IInv'
  BY <1>4, ReceiveReorgStep DEF Bodies
<1>5. ASSUME NEW t \in handler.left, Readd(t) PROVE IInv'
  BY <1>5, ReaddStep
<1>6. CASE RemoveIncluded
  BY <1>6, RemoveIncludedStep
<1>7. CASE EvictExpired
  BY <1>7, EvictExpiredStep
<1>8. CASE Mine
  <2>1. PICK body \in Templates : ReceiveBlock(body)
    BY <1>8 DEF Mine
  <2> QED
    BY <2>1, MinedBody, ReceiveBlockStep
<1>9. CASE Crash
  BY <1>9, CrashStep
<1>10. CASE Restart
  BY <1>10, RestartStep
<1>11. CASE UNCHANGED vars
  BY <1>11 DEF vars, IInv, TypeOK, CapsHold, Persisted, RemovalPending, ToRemove, Pending
<1> QED
  BY <1>1, <1>2, <1>3, <1>4, <1>5, <1>6, <1>7, <1>8, <1>9, <1>10, <1>11 DEF Next, Maintain

LEMMA HandlersNeedProcess ==
    ASSUME OnlyUpHandles, [Next]_vars PROVE OnlyUpHandles'
<1>1. ASSUME NEW t \in Txs, Relay(t) \/ Submit(t) PROVE OnlyUpHandles'
  BY <1>1 DEF OnlyUpHandles, Relay, Submit, Admit, Ready
<1>2. ASSUME NEW body, ReceiveBlock(body) PROVE OnlyUpHandles'
  BY <1>2 DEF OnlyUpHandles, ReceiveBlock, Ready
<1>3. ASSUME NEW body, SyncBlock(body) PROVE OnlyUpHandles'
  BY <1>3 DEF OnlyUpHandles, SyncBlock, SyncMoves, Ready
<1>4. ASSUME NEW first, NEW second, ReceiveReorg(first, second) PROVE OnlyUpHandles'
  BY <1>4 DEF OnlyUpHandles, ReceiveReorg, Ready
<1>5. ASSUME NEW t \in handler.left, Readd(t) PROVE OnlyUpHandles'
  <2>1. handler # Idle
    BY <1>5 DEF Idle
  <2> QED
    BY <1>5, <2>1 DEF OnlyUpHandles, Readd
<1>6. CASE RemoveIncluded
  <2>1. handler # Idle
    BY <1>6 DEF Idle, RemoveIncluded
  <2> QED
    BY <1>6, <2>1 DEF OnlyUpHandles, RemoveIncluded
<1>7. CASE EvictExpired \/ Crash
  BY <1>7 DEF OnlyUpHandles, EvictExpired, Crash
<1>8. CASE Mine
  BY <1>8, <1>2 DEF Mine
<1>9. CASE Restart
  BY <1>9 DEF OnlyUpHandles, Restart
<1>10. CASE UNCHANGED vars
  BY <1>10 DEF OnlyUpHandles, vars
<1> QED
  BY <1>1, <1>2, <1>3, <1>4, <1>5, <1>6, <1>7, <1>8, <1>9, <1>10 DEF Next, Maintain

LEMMA AffordsInductive ==
    ASSUME IInv, AInv, OnlyUpHandles, IInv', [Next]_vars PROVE AInv'
<1>1. ASSUME NEW t \in Txs, Relay(t) \/ Submit(t) PROVE AInv'
  BY <1>1, AdmitAffords DEF Relay, Submit
<1>2. ASSUME NEW body \in Bodies, ReceiveBlock(body) PROVE AInv'
  BY <1>2, ReceiveBlockAffords DEF Bodies
<1>3. ASSUME NEW body \in Bodies, SyncBlock(body) PROVE AInv'
  BY <1>3, SyncBlockAffords DEF Bodies
<1>4. ASSUME NEW first \in Bodies, NEW second \in Bodies, ReceiveReorg(first, second)
      PROVE AInv'
  BY <1>4, ReceiveReorgAffords DEF Bodies
<1>5. ASSUME NEW t \in handler.left, Readd(t) PROVE AInv'
  <2>1. up
    BY DEF OnlyUpHandles, Idle
  <2> QED
    BY <1>5, <2>1, ReaddAffords
<1>6. CASE RemoveIncluded
  BY <1>6, RemoveIncludedAffords
<1>7. CASE EvictExpired
  BY <1>7, EvictExpiredAffords
<1>8. CASE Mine
  <2>1. PICK body \in Templates : ReceiveBlock(body)
    BY <1>8 DEF Mine
  <2> QED
    BY <2>1, MinedBody, ReceiveBlockAffords
<1>9. CASE Crash
  BY <1>9, CrashAffords
<1>10. CASE Restart
  BY <1>10, RestartAffords
<1>11. CASE UNCHANGED vars
  BY <1>11 DEF vars, AInv, TableAffordable, RowsArePending, BypassedAreHurt, Senders, Pending
<1> QED
  BY <1>1, <1>2, <1>3, <1>4, <1>5, <1>6, <1>7, <1>8, <1>9, <1>10, <1>11 DEF Next, Maintain

LEMMA AlwaysIInv == Spec => []IInv
  BY InitOK, Inductive, PTL DEF Spec

\* The types of the pool, its table and the handler, through crashes and
\* restarts (mempool.rs, apply_incoming_block).
THEOREM TypeCorrect == Spec => []TypeOK
<1>1. IInv => TypeOK
  BY DEF IInv
<1> QED
  BY <1>1, AlwaysIInv, PTL

\* Neither cap is passed by relay, reorg or restore, for any caps
\* (mempool.rs:90-97, 180-185 and 42-52).
THEOREM CapsRespected == Spec => []CapsHold
<1>1. IInv => CapsHold
  BY DEF IInv
<1> QED
  BY <1>1, AlwaysIInv, PTL

\* The write-through keeps a row for every pending transaction, whatever the
\* write the process dies at (mempool.rs:99-110).
THEOREM PendingIsStored == Spec => []Persisted
<1>1. IInv => Persisted
  BY DEF IInv
<1> QED
  BY <1>1, AlwaysIInv, PTL

\* Once a block or reorg is handled, whatever is pending and confirmed was
\* confirmed by synchronisation (api.rs:311-344).
THEOREM ConfirmedLeaves == Spec => []NoConfirmedPending
<1>1. IInv => NoConfirmedPending
  BY IdleIsClean DEF NoConfirmedPending
<1> QED
  BY <1>1, AlwaysIInv, PTL

\* For any transactions and balances, through blocks, reorgs, crashes and
\* restarts: the balance of a sender covers all it has in the pool, unless a
\* block charged it past the pool, a reorg took back what it had received, or a
\* restart left a row of its behind (mempool.rs:76-97, api.rs:388-391).
THEOREM PoolAffordable == Spec => []AffordableUnlessHurt
<1>1. Init => IInv /\ AInv /\ OnlyUpHandles
  BY InitOK, InitAffords DEF Init, OnlyUpHandles
<1>2. IInv /\ AInv /\ OnlyUpHandles /\ [Next]_vars => (IInv /\ AInv /\ OnlyUpHandles)'
  BY Inductive, AffordsInductive, HandlersNeedProcess
<1>3. IInv /\ AInv /\ OnlyUpHandles => AffordableUnlessHurt
  <2> SUFFICES ASSUME IInv, AInv, Ready, NEW a \in Accounts \ hurt
               PROVE  PendingDebit(pool, a) <= Balance(confirmed, a)
    BY DEF AffordableUnlessHurt
  <2>1. /\ confirmed \in SUBSET Txs /\ pool \in Entries /\ table \in Entries
        /\ DOMAIN pool \subseteq DOMAIN table /\ DOMAIN table \in SUBSET Txs
    BY EntriesAreFunctions DEF IInv, TypeOK, Persisted, IsRestriction
  <2>2. SentBy(DOMAIN pool, a) \cap confirmed = {}
    <3>1. Pending \cap confirmed \subseteq bypassed
      BY IdleIsClean
    <3>2. \A t \in bypassed : t.sender \in hurt
      BY DEF AInv, BypassedAreHurt, Senders
    <3> QED
      BY <3>1, <3>2 DEF SentBy, Pending
  <2>3. CanPay(confirmed, DOMAIN table, a)
    BY DEF AInv, TableAffordable
  <2> QED
    BY <2>1, <2>2, <2>3, PoolCovered
<1> QED
  BY <1>1, <1>2, <1>3, PTL DEF Spec

=============================================================================
