----------------------------- MODULE LedgerProofs -----------------------------
(***************************************************************************)
(* What module Ledger promises, for every set of addresses and             *)
(* transactions, every amount, divisor and limit.                          *)
(***************************************************************************)
EXTENDS Ledger, FoldTheorems

Payments == [receiver : Addresses, amount : Nat]
Monies == [bal : [Addresses -> Nat], pot : Nat, sigs : SUBSET Transactions, paid : Seq(Payments)]
Tickets == [miner : Addresses, created_height : Nat]

\* What the steps of update_state conserve.
Total(s) == SumOf(s.pot, s.bal)

-----------------------------------------------------------------------------
\* A u64 wraps, but not while the sum still fits.
LEMMA WrapFacts ==
    ASSUME NEW x \in Nat, NEW y \in Nat
    PROVE  AddWrap(x, y) \in Nat /\ (x + y <= U64Max => AddWrap(x, y) = x + y)
<1>1. U64Max \in Nat
  BY LedgerAssumption
<1> QED
  BY <1>1 DEF AddWrap

\* new differs from bal by an amount more, or less, on account a and in the total.
Credited(new, bal, a, amount) ==
    /\ new[a] = bal[a] + amount
    /\ \A x \in Addresses : x # a => new[x] = bal[x]
    /\ \A b \in Nat : SumOf(b, new) = SumOf(b, bal) + amount
Debited(new, bal, a, amount) ==
    /\ new[a] = bal[a] - amount
    /\ \A x \in Addresses : x # a => new[x] = bal[x]
    /\ \A b \in Nat : SumOf(b, new) = SumOf(b, bal) - amount

\* Crediting an account that stays in range adds to it and to the total.
LEMMA CreditFacts ==
    ASSUME NEW bal \in [Addresses -> Nat], NEW a \in Addresses, NEW amount \in Nat
    PROVE  /\ Credit(bal, a, amount) \in [Addresses -> Nat]
           /\ bal[a] + amount <= U64Max => Credited(Credit(bal, a, amount), bal, a, amount)
<1> DEFINE new == Credit(bal, a, amount)
<1>1. new = [bal EXCEPT ![a] = AddWrap(bal[a], amount)]
  BY DEF Credit
<1>2. AddWrap(bal[a], amount) \in Nat
  BY WrapFacts
<1>3. new \in [Addresses -> Nat] /\ new[a] = AddWrap(bal[a], amount)
      /\ \A x \in Addresses : x # a => new[x] = bal[x]
  BY <1>1, <1>2
<1> HIDE DEF new
<1>4. ASSUME bal[a] + amount <= U64Max
      PROVE  /\ new[a] = bal[a] + amount
             /\ \A b \in Nat : SumOf(b, new) = SumOf(b, bal) + amount
  <2>1. new[a] = bal[a] + amount
    BY <1>3, <1>4, WrapFacts
  <2>2. ASSUME NEW b \in Nat PROVE SumOf(b, new) = SumOf(b, bal) + amount
    <3>1. Agree(bal, new, Addresses \ {a})
      BY <1>3 DEF Agree
    <3>2. bal \in [Addresses -> Int] /\ new \in [Addresses -> Int] /\ b \in Int
      BY <1>3
    <3>3. IsFiniteSet(Addresses)
      BY LedgerAssumption
    <3>4. SumOf(b, new) = SumOf(b, bal) - bal[a] + new[a]
      BY <3>1, <3>2, <3>3, SumUpdate
    <3>5. SumOf(b, bal) \in Int /\ bal[a] \in Nat
      BY <3>2, <3>3, SumType
    <3> QED
      BY <2>1, <3>4, <3>5
  <2> QED
    BY <2>1, <2>2
<1>5. bal[a] + amount <= U64Max => Credited(new, bal, a, amount)
  BY <1>3, <1>4 DEF Credited
<1> QED
  BY <1>3, <1>5 DEF new

\* Debiting an account that has the amount takes it from the total.
LEMMA DebitFacts ==
    ASSUME NEW bal \in [Addresses -> Nat], NEW a \in Addresses, NEW amount \in Nat, amount <= bal[a]
    PROVE  /\ Debit(bal, a, amount) \in [Addresses -> Nat]
           /\ Debited(Debit(bal, a, amount), bal, a, amount)
<1> DEFINE new == Debit(bal, a, amount)
<1>1. new \in [Addresses -> Nat] /\ new[a] = bal[a] - amount
      /\ \A x \in Addresses : x # a => new[x] = bal[x]
  BY DEF Debit
<1> HIDE DEF new
<1>2. ASSUME NEW b \in Nat PROVE SumOf(b, new) = SumOf(b, bal) - amount
  <2>1. Agree(bal, new, Addresses \ {a})
    BY <1>1 DEF Agree
  <2>2. bal \in [Addresses -> Int] /\ new \in [Addresses -> Int] /\ b \in Int
    BY <1>1
  <2>3. IsFiniteSet(Addresses)
    BY LedgerAssumption
  <2>4. SumOf(b, new) = SumOf(b, bal) - bal[a] + new[a]
    BY <2>1, <2>2, <2>3, SumUpdate
  <2>5. SumOf(b, bal) \in Int /\ bal[a] \in Nat
    BY <2>2, <2>3, SumType
  <2> QED
    BY <1>1, <2>4, <2>5
<1>3. Debited(new, bal, a, amount)
  BY <1>1, <1>2 DEF Debited
<1> QED
  BY <1>1, <1>3 DEF new

\* No account holds more than there is.
LEMMA AccountBound ==
    ASSUME NEW bal \in [Addresses -> Nat], NEW b \in Nat
    PROVE  /\ SumOf(b, bal) \in Nat
           /\ \A a \in Addresses : b + bal[a] <= SumOf(b, bal)
  BY SumOfNats, LedgerAssumption

-----------------------------------------------------------------------------
\* Whatever a ticket draws, settling it moves coins from the pot to its miner.
LEMMA SettleFacts ==
    ASSUME NEW s \in Monies, NEW t \in Tickets, NEW tier \in DOMAIN Divisor
    PROVE  /\ Settle(s, t, tier) \in Monies
           /\ Total(s) <= U64Max =>
                /\ Total(Settle(s, t, tier)) = Total(s)
                /\ Settle(s, t, tier).sigs = s.sigs
                /\ \A a \in Addresses : s.bal[a] <= Settle(s, t, tier).bal[a]
<1> DEFINE r == Reward(s.pot, tier)
           p == IF r < s.pot THEN r ELSE s.pot
           bal == Credit(s.bal, t.miner, p)
           one == [receiver |-> t.miner, amount |-> p]
           new == [s EXCEPT !.bal = bal, !.pot = @ - p, !.paid = Append(@, one)]
<1>1. /\ s.bal \in [Addresses -> Nat] /\ s.pot \in Nat /\ s.paid \in Seq(Payments)
      /\ s.sigs \in SUBSET Transactions /\ t.miner \in Addresses
  BY DEF Monies, Tickets
<1>2. r \in Nat
  <2>1. Divisor[tier] \in Nat
    BY LedgerAssumption
  <2>2. \A x \in Nat, d \in Nat : d # 0 => x \div d \in Nat
    OBVIOUS
  <2> QED
    BY <1>1, <2>1, <2>2 DEF Reward
<1>3. p \in Nat /\ p <= s.pot
  BY <1>1, <1>2
<1>4. Settle(s, t, tier) = IF p = 0 THEN s ELSE new
  BY DEF Settle
<1> HIDE DEF r, p
<1>5. bal \in [Addresses -> Nat] /\ one \in Payments
  BY <1>1, <1>3, CreditFacts DEF Payments
<1>6. /\ new.bal = bal /\ new.pot = s.pot - p /\ new.sigs = s.sigs
      /\ new.paid = Append(s.paid, one) /\ new \in Monies
  <2> HIDE DEF bal, one
  <2>1. Append(s.paid, one) \in Seq(Payments) /\ s.pot - p \in Nat
    BY <1>1, <1>3, <1>5
  <2>2. \A q : [s EXCEPT !.bal = bal, !.pot = @ - p, !.paid = q].bal = bal
    BY DEF Monies
  <2> QED
    BY <1>1, <1>5, <2>1 DEF Monies
<1> HIDE DEF new, one
<1>7. ASSUME Total(s) <= U64Max
      PROVE  Total(new) = Total(s) /\ \A a \in Addresses : s.bal[a] <= bal[a]
  <2>1. /\ SumOf(s.pot, s.bal) \in Nat /\ s.bal[t.miner] \in Nat
        /\ s.pot + s.bal[t.miner] <= SumOf(s.pot, s.bal)
    BY <1>1, AccountBound
  <2>2. s.bal[t.miner] + p <= U64Max
    BY <1>1, <1>3, <1>7, <2>1, LedgerAssumption DEF Total
  <2>3. /\ SumOf(s.pot - p, bal) = SumOf(s.pot - p, s.bal) + p
        /\ bal[t.miner] = s.bal[t.miner] + p
        /\ \A x \in Addresses : x # t.miner => bal[x] = s.bal[x]
    <3>1. s.pot - p \in Nat
      BY <1>1, <1>3
    <3>2. Credited(bal, s.bal, t.miner, p)
      BY <1>1, <1>3, <2>2, CreditFacts
    <3> HIDE DEF bal
    <3> QED
      BY <3>1, <3>2 DEF Credited
  <2>4. SumOf(s.pot - p, s.bal) = SumOf(s.pot, s.bal) - s.pot + (s.pot - p)
    <3>1. s.bal \in [Addresses -> Int] /\ s.pot \in Int /\ s.pot - p \in Int /\ IsFiniteSet(Addresses)
      BY <1>1, <1>3, LedgerAssumption
    <3> QED
      BY <3>1, SumBase
  <2>5. Total(new) = Total(s)
    BY <1>1, <1>3, <1>6, <2>1, <2>3, <2>4 DEF Total
  <2>6. \A a \in Addresses : s.bal[a] <= bal[a]
    <3> HIDE DEF bal
    <3> QED
      BY <1>1, <1>3, <2>3
  <2> QED
    BY <2>5, <2>6
<1> QED
  BY <1>1, <1>4, <1>6, <1>7

\* A coinbase credits its receiver.
LEMMA CoinbaseFacts ==
    ASSUME NEW s \in Monies, NEW tx \in Transactions, IsCoinbase(tx)
    PROVE  LET new == ApplyTransaction(s, tx)
           IN  /\ new \in Monies /\ new.sigs = s.sigs /\ new.pot = s.pot /\ new.paid = s.paid
               /\ Total(s) + tx.amount <= U64Max =>
                    /\ Total(new) = Total(s) + tx.amount
                    /\ \A a \in Addresses :
                         new.bal[a] = s.bal[a] + (IF a = tx.receiver THEN tx.amount ELSE 0)
<1> DEFINE bal == Credit(s.bal, tx.receiver, tx.amount)
           new == [s EXCEPT !.bal = bal]
<1>1. /\ s.bal \in [Addresses -> Nat] /\ s.pot \in Nat /\ s.paid \in Seq(Payments)
      /\ s.sigs \in SUBSET Transactions /\ tx.receiver \in Addresses /\ tx.amount \in Nat
  BY LedgerAssumption DEF Monies
<1>2. ApplyTransaction(s, tx) = new
  BY DEF ApplyTransaction
<1>3. bal \in [Addresses -> Nat]
  BY <1>1, CreditFacts
<1>4. /\ new.bal = bal /\ new.pot = s.pot /\ new.sigs = s.sigs /\ new.paid = s.paid /\ new \in Monies
  <2> HIDE DEF bal
  <2> QED
    BY <1>1, <1>3 DEF Monies
<1>5. ASSUME Total(s) + tx.amount <= U64Max
      PROVE  /\ Total(new) = Total(s) + tx.amount
             /\ \A a \in Addresses : bal[a] = s.bal[a] + (IF a = tx.receiver THEN tx.amount ELSE 0)
  <2>1. /\ SumOf(s.pot, s.bal) \in Nat /\ s.bal[tx.receiver] \in Nat
        /\ s.pot + s.bal[tx.receiver] <= SumOf(s.pot, s.bal)
    BY <1>1, AccountBound
  <2>2. s.bal[tx.receiver] + tx.amount <= U64Max
    BY <1>1, <1>5, <2>1, LedgerAssumption DEF Total
  <2>3. /\ SumOf(s.pot, bal) = SumOf(s.pot, s.bal) + tx.amount
        /\ bal[tx.receiver] = s.bal[tx.receiver] + tx.amount
        /\ \A x \in Addresses : x # tx.receiver => bal[x] = s.bal[x]
    <3>1. Credited(bal, s.bal, tx.receiver, tx.amount)
      BY <1>1, <2>2, CreditFacts
    <3> HIDE DEF bal
    <3> QED
      BY <1>1, <3>1 DEF Credited
  <2> HIDE DEF bal, new
  <2> QED
    BY <1>1, <1>4, <2>3 DEF Total
<1> HIDE DEF new
<1> QED
  BY <1>2, <1>4, <1>5

\* A user transaction its sender can pay for moves the amount to the receiver
\* and the fee to the pot, and is recorded.
LEMMA PaymentFacts ==
    ASSUME NEW s \in Monies, NEW tx \in Transactions, ~IsCoinbase(tx)
    PROVE  LET new == ApplyTransaction(s, tx)
               cost == tx.amount + tx.fee
           IN  /\ new \in Monies /\ new.paid = s.paid
               /\ cost <= s.bal[tx.sender] /\ Total(s) <= U64Max =>
                    /\ Total(new) = Total(s)
                    /\ new.sigs = s.sigs \cup {tx} /\ new.pot = s.pot + tx.fee
                    /\ \A a \in Addresses :
                         new.bal[a] = s.bal[a] - (IF a = tx.sender THEN cost ELSE 0)
                                               + (IF a = tx.receiver THEN tx.amount ELSE 0)
<1> DEFINE cost == tx.amount + tx.fee
           less == Debit(s.bal, tx.sender, cost)
           bal == Credit(less, tx.receiver, tx.amount)
           new == [s EXCEPT !.bal = bal, !.pot = AddSat(@, tx.fee), !.sigs = @ \cup {tx}]
<1>1. /\ s.bal \in [Addresses -> Nat] /\ s.pot \in Nat /\ s.paid \in Seq(Payments)
      /\ s.sigs \in SUBSET Transactions
      /\ tx.receiver \in Addresses /\ tx.sender \in Addresses /\ tx.amount \in Nat /\ tx.fee \in Nat
      /\ U64Max \in Nat
  BY LedgerAssumption DEF Monies, IsCoinbase
<1>2. ApplyTransaction(s, tx) = IF cost > U64Max \/ s.bal[tx.sender] < cost THEN s ELSE new
  BY DEF ApplyTransaction
<1>3. CASE cost > U64Max \/ s.bal[tx.sender] < cost
  <2>1. s.bal[tx.sender] \in Nat /\ SumOf(s.pot, s.bal) \in Nat
        /\ s.pot + s.bal[tx.sender] <= SumOf(s.pot, s.bal)
    BY <1>1, AccountBound
  <2>2. ~(cost <= s.bal[tx.sender] /\ Total(s) <= U64Max)
    BY <1>1, <1>3, <2>1 DEF Total
  <2> HIDE DEF new
  <2> QED
    BY <1>2, <1>3, <2>2
<1>4. CASE cost <= U64Max /\ cost <= s.bal[tx.sender]
  <2>1. /\ less \in [Addresses -> Nat] /\ less[tx.sender] = s.bal[tx.sender] - cost
        /\ \A x \in Addresses : x # tx.sender => less[x] = s.bal[x]
        /\ \A b \in Nat : SumOf(b, less) = SumOf(b, s.bal) - cost
    <3> HIDE DEF bal, new
    <3>1. cost \in Nat
      BY <1>1
    <3> HIDE DEF cost
    <3>2. less \in [Addresses -> Nat] /\ Debited(less, s.bal, tx.sender, cost)
      BY <1>1, <1>4, <3>1, DebitFacts
    <3> HIDE DEF less
    <3> QED
      BY <1>1, <3>2 DEF Debited
  <2> HIDE DEF less
  <2>2. bal \in [Addresses -> Nat]
    BY <1>1, <2>1, CreditFacts
  <2>3. /\ new.bal = bal /\ new.pot = AddSat(s.pot, tx.fee) /\ new.sigs = s.sigs \cup {tx}
        /\ new.paid = s.paid /\ new \in Monies
    <3>1. AddSat(s.pot, tx.fee) \in Nat /\ s.sigs \cup {tx} \in SUBSET Transactions
      BY <1>1 DEF AddSat
    <3> HIDE DEF bal
    <3> QED
      BY <1>1, <2>2, <3>1 DEF Monies
  <2>4. ASSUME Total(s) <= U64Max
        PROVE  /\ Total(new) = Total(s) /\ new.pot = s.pot + tx.fee
               /\ \A a \in Addresses :
                    bal[a] = s.bal[a] - (IF a = tx.sender THEN cost ELSE 0)
                                      + (IF a = tx.receiver THEN tx.amount ELSE 0)
    <3>1. /\ SumOf(s.pot, less) \in Nat /\ less[tx.receiver] \in Nat
          /\ s.pot + less[tx.receiver] <= SumOf(s.pot, less)
      BY <1>1, <2>1, AccountBound
    <3>2. SumOf(s.pot, less) + cost = SumOf(s.pot, s.bal) /\ SumOf(s.pot, s.bal) \in Nat
      <4>1. SumOf(s.pot, s.bal) \in Nat /\ SumOf(s.pot, less) = SumOf(s.pot, s.bal) - cost
        BY <1>1, <2>1, AccountBound
      <4> QED
        BY <1>1, <4>1
    <3>3. less[tx.receiver] + tx.amount <= U64Max /\ s.pot + tx.fee <= U64Max
      BY <1>1, <2>4, <3>1, <3>2, SMTT(30) DEF Total
    <3>4. new.pot = s.pot + tx.fee
      BY <1>1, <2>3, <3>3 DEF AddSat
    <3>5. /\ SumOf(s.pot + tx.fee, bal) = SumOf(s.pot + tx.fee, less) + tx.amount
          /\ bal[tx.receiver] = less[tx.receiver] + tx.amount
          /\ \A x \in Addresses : x # tx.receiver => bal[x] = less[x]
      <4>1. s.pot + tx.fee \in Nat
        BY <1>1
      <4>2. less \in [Addresses -> Nat] /\ less[tx.receiver] + tx.amount <= U64Max
        BY <2>1, <3>3
      <4>3. Credited(bal, less, tx.receiver, tx.amount)
        BY <1>1, <4>2, CreditFacts
      <4> HIDE DEF bal
      <4> QED
        BY <1>1, <4>1, <4>3 DEF Credited
    <3>6. SumOf(s.pot + tx.fee, less) = SumOf(s.pot, less) - s.pot + (s.pot + tx.fee)
      <4>1. less \in [Addresses -> Int] /\ s.pot \in Int /\ s.pot + tx.fee \in Int /\ IsFiniteSet(Addresses)
        BY <1>1, <2>1, LedgerAssumption, SMTT(30)
      <4> QED
        BY <4>1, SumBase
    <3>7. Total(new) = Total(s)
      BY <1>1, <2>3, <3>1, <3>2, <3>4, <3>5, <3>6 DEF Total
    <3> HIDE DEF bal, new
    <3> QED
      BY <1>1, <2>1, <3>4, <3>5, <3>7
  <2> HIDE DEF new
  <2> QED
    BY <1>1, <1>2, <1>4, <2>3, <2>4
<1> QED
  BY <1>1, <1>3, <1>4

-----------------------------------------------------------------------------
\* Applying a body is a run of ApplyTransaction.
LEMMA ApplyRun ==
    ASSUME NEW s \in Monies, NEW body \in Seq(Transactions),
           \A acc \in Monies, tx \in Transactions : ApplyTransaction(acc, tx) \in Monies
    PROVE  \E h \in [0 .. Len(body) -> Monies] :
              /\ h[0] = s /\ h[Len(body)] = FoldLeft(ApplyTransaction, s, body)
              /\ \A i \in 1 .. Len(body) : h[i] = ApplyTransaction(h[i - 1], body[i])
<1> DEFINE n == Len(body)
           op == [p \in (1 .. n) \X Monies |-> ApplyTransaction(p[2], body[p[1]])]
           eq(f) == f = [U \in SUBSET (1 .. n) |->
                           IF U = {} THEN s ELSE ApplyTransaction(f[U \ {Max(U)}], body[Max(U)])]
           k == CHOOSE f : eq(f)
<1>1. n \in Nat /\ DOMAIN body = 1 .. n /\ \A i \in 1 .. n : body[i] \in Transactions
  OBVIOUS
<1>2. FoldLeft(ApplyTransaction, s, body) = k[1 .. n]
  BY <1>1 DEF FoldLeft, MapThenFoldSet
<1>3. op \in [(1 .. n) \X Monies -> Monies]
  BY <1>1
<1>4. \A i \in 1 .. n, m \in Monies : op[<<i, m>>] = ApplyTransaction(m, body[i])
  OBVIOUS
<1>5. \A U \in (SUBSET (1 .. n)) \ {{}} : Max(U) \in 1 .. n
  BY <1>1, MaxIsMember
<1>6. eq(k)
  <2> HIDE DEF n, op
  <2>1. PICK g \in [SUBSET (1 .. n) -> Monies] : MaxFold(g, n, s, op)
    BY <1>1, <1>3, LeftFoldExists
  <2>2. \A U \in SUBSET (1 .. n) :
            g[U] = IF U = {} THEN s ELSE ApplyTransaction(g[U \ {Max(U)}], body[Max(U)])
    BY <1>4, <1>5, <2>1 DEF MaxFold
  <2>3. eq(g)
    BY <2>2
  <2> HIDE DEF eq
  <2> QED
    BY <2>3
<1>7. Computes(k, n, Monies, s, op)
  <2> HIDE DEF k, op
  <2>1. \A U \in SUBSET (1 .. n) :
            k[U] = IF U = {} THEN s ELSE ApplyTransaction(k[U \ {Max(U)}], body[Max(U)])
    BY <1>6
  <2> QED
    BY <1>4, <1>5, <2>1 DEF Computes
<1>8. PICK h : Run(h, n, Monies, s, k[1 .. n], op)
  <2> HIDE DEF n, op, k
  <2> QED
    BY <1>1, <1>3, <1>7, LeftFoldRun
<1> HIDE DEF op, k
<1>9. /\ h \in [0 .. n -> Monies] /\ h[0] = s /\ h[n] = k[1 .. n]
      /\ \A i \in 1 .. n : h[i] = ApplyTransaction(h[i - 1], body[i])
  <2>1. \A i \in 1 .. n : i - 1 \in 0 .. n
    BY <1>1
  <2> HIDE DEF n
  <2> QED
    BY <1>4, <1>8, <2>1 DEF Run
<1> QED
  BY <1>2, <1>9

\* Settling the maturing tickets is a run of Settle.
LEMMA SettleRun ==
    ASSUME NEW s \in Monies, NEW tickets \in Seq(Tickets),
           NEW tiers \in [DOMAIN tickets -> DOMAIN Divisor],
           \A acc \in Monies, t \in Tickets, tier \in DOMAIN Divisor : Settle(acc, t, tier) \in Monies
    PROVE  \E h \in [0 .. Len(tickets) -> Monies] :
              /\ h[0] = s /\ h[Len(tickets)] = SettleAll(s, tickets, tiers)
              /\ \A i \in 1 .. Len(tickets) : h[i] = Settle(h[i - 1], tickets[i], tiers[i])
<1> DEFINE n == Len(tickets)
           idx == [i \in DOMAIN tickets |-> i]
           op == [p \in (1 .. n) \X Monies |-> Settle(p[2], tickets[p[1]], tiers[p[1]])]
           eq(f) == f = [U \in SUBSET DOMAIN idx |->
                           IF U = {} THEN s
                           ELSE Settle(f[U \ {Max(U)}], tickets[idx[Max(U)]], tiers[idx[Max(U)]])]
           k == CHOOSE f : eq(f)
<1>1. n \in Nat /\ DOMAIN tickets = 1 .. n /\ \A i \in 1 .. n : tickets[i] \in Tickets
  OBVIOUS
<1>0. DOMAIN idx = 1 .. n /\ \A i \in 1 .. n : idx[i] = i
  BY <1>1
<1>2. SettleAll(s, tickets, tiers) = k[1 .. n]
  <2>1. SettleAll(s, tickets, tiers) = k[DOMAIN idx]
    BY DEF SettleAll, FoldLeft, MapThenFoldSet
  <2> HIDE DEF k
  <2> QED
    BY <1>0, <2>1
<1>3. op \in [(1 .. n) \X Monies -> Monies]
  BY <1>1
<1>4. \A i \in 1 .. n, m \in Monies : op[<<i, m>>] = Settle(m, tickets[i], tiers[i])
  OBVIOUS
<1>5. \A U \in (SUBSET (1 .. n)) \ {{}} : Max(U) \in 1 .. n
  BY <1>1, MaxIsMember
<1> HIDE DEF idx
<1>6. eq(k)
  <2> HIDE DEF n, op
  <2>1. PICK g \in [SUBSET (1 .. n) -> Monies] : MaxFold(g, n, s, op)
    BY <1>1, <1>3, LeftFoldExists
  <2>2. \A U \in SUBSET (1 .. n) :
            g[U] = IF U = {} THEN s ELSE Settle(g[U \ {Max(U)}], tickets[Max(U)], tiers[Max(U)])
    BY <1>4, <1>5, <2>1 DEF MaxFold
  <2>3. eq(g)
    <3>1. \A U \in SUBSET DOMAIN idx :
            g[U] = IF U = {} THEN s
                   ELSE Settle(g[U \ {Max(U)}], tickets[idx[Max(U)]], tiers[idx[Max(U)]])
      BY <1>0, <1>5, <2>2
    <3>2. DOMAIN g = SUBSET DOMAIN idx /\ g = [U \in DOMAIN g |-> g[U]]
      BY <1>0
    <3> QED
      BY <3>1, <3>2
  <2> HIDE DEF eq
  <2> QED
    BY <2>3
<1>7. Computes(k, n, Monies, s, op)
  <2> HIDE DEF k, op
  <2>1. \A U \in SUBSET (1 .. n) :
            k[U] = IF U = {} THEN s ELSE Settle(k[U \ {Max(U)}], tickets[Max(U)], tiers[Max(U)])
    BY <1>0, <1>5, <1>6
  <2> QED
    BY <1>4, <1>5, <2>1 DEF Computes
<1>8. PICK h : Run(h, n, Monies, s, k[1 .. n], op)
  <2> HIDE DEF n, op, k
  <2> QED
    BY <1>1, <1>3, <1>7, LeftFoldRun
<1> HIDE DEF op, k
<1>9. /\ h \in [0 .. n -> Monies] /\ h[0] = s /\ h[n] = k[1 .. n]
      /\ \A i \in 1 .. n : h[i] = Settle(h[i - 1], tickets[i], tiers[i])
  <2>1. \A i \in 1 .. n : i - 1 \in 0 .. n
    BY <1>1
  <2> HIDE DEF n
  <2> QED
    BY <1>4, <1>8, <2>1 DEF Run
<1> QED
  BY <1>2, <1>9

-----------------------------------------------------------------------------
\* The state before a block, as its steps hand it on.
StateOK ==
    /\ balances \in [Addresses -> Nat] /\ pot \in Nat
    /\ confirmed_signatures \in SUBSET Transactions
    /\ pending_tickets \in Seq(Tickets)

\* Settling the maturing tickets conserves the total and lowers no balance.
LEMMA SettledFacts ==
    ASSUME NEW s \in Monies, Total(s) <= U64Max, NEW tickets \in Seq(Tickets),
           NEW tiers \in [DOMAIN tickets -> DOMAIN Divisor]
    PROVE  LET new == SettleAll(s, tickets, tiers)
           IN  /\ new \in Monies /\ Total(new) = Total(s) /\ new.sigs = s.sigs
               /\ \A a \in Addresses : s.bal[a] <= new.bal[a]
<1> DEFINE n == Len(tickets)
           Same(m) == /\ Total(m) = Total(s) /\ m.sigs = s.sigs
                      /\ \A a \in Addresses : s.bal[a] <= m.bal[a]
<1>1. PICK h \in [0 .. n -> Monies] :
          /\ h[0] = s /\ h[n] = SettleAll(s, tickets, tiers)
          /\ \A i \in 1 .. n : h[i] = Settle(h[i - 1], tickets[i], tiers[i])
  BY SettleFacts, SettleRun
<1> DEFINE Q == {i \in Nat : i <= n => Same(h[i])}
<1>2. n \in Nat /\ \A m \in Monies, a \in Addresses : m.bal[a] \in Nat
  BY DEF Monies
<1>3. 0 \in Q
  BY <1>1, <1>2
<1>4. ASSUME NEW i \in Nat, i \in Q PROVE i + 1 \in Q
  <2>1. SUFFICES ASSUME i + 1 <= n PROVE Same(h[i + 1])
    OBVIOUS
  <2>2. i + 1 \in 1 .. n /\ i \in 0 .. n /\ i + 1 \in 0 .. n /\ (i + 1) - 1 = i
    BY <1>2, <2>1
  <2>3. /\ Same(h[i]) /\ h[i] \in Monies /\ h[i + 1] \in Monies
        /\ tickets[i + 1] \in Tickets /\ tiers[i + 1] \in DOMAIN Divisor
    BY <1>1, <1>4, <2>2
  <2>4. h[i + 1] = Settle(h[i], tickets[i + 1], tiers[i + 1])
    BY <1>1, <2>2
  <2>5. /\ Total(h[i + 1]) = Total(h[i]) /\ h[i + 1].sigs = h[i].sigs
        /\ \A a \in Addresses : h[i].bal[a] <= h[i + 1].bal[a]
    BY <2>3, <2>4, SettleFacts
  <2> QED
    BY <1>2, <2>3, <2>5
<1>5. n \in Q
  <2> HIDE DEF Q
  <2> QED
    BY <1>2, <1>3, <1>4, NatSetInduction
<1> QED
  BY <1>1, <1>2, <1>5

-----------------------------------------------------------------------------
\* What a body spends and brings, position by position.
Amounts(body) == [i \in 1 .. Len(body) |-> body[i].amount]
FeesOf(body) == [i \in 1 .. Len(body) |-> body[i].fee]
Costs(body) == [i \in 1 .. Len(body) |-> body[i].amount + body[i].fee]
From(body, a) == {i \in 1 .. Len(body) : body[i].sender = a}
To(body, a) == {i \in 1 .. Len(body) : body[i].receiver = a}

\* The state after the first i transactions of a body, if nothing is skipped.
After(m, s, body, i) ==
    /\ m.sigs = s.sigs \cup {body[j] : j \in {p \in Users(body) : p <= i}}
    /\ m.pot = s.pot + UpTo(FeesOf(body), Users(body), i)
    /\ m.paid = s.paid
    /\ Total(m) = Total(s) + (IF i = 0 THEN 0 ELSE Minted(body))
    /\ \A a \in Addresses :
        m.bal[a] = s.bal[a] - UpTo(Costs(body), From(body, a), i)
                            + UpTo(Amounts(body), To(body, a), i)

\* The sums of a body.
LEMMA BodySums ==
    ASSUME NEW body \in Seq(Transactions)
    PROVE  /\ Len(body) \in Nat /\ DOMAIN body = 1 .. Len(body)
           /\ \A i \in 1 .. Len(body) : /\ body[i] \in Transactions
                                        /\ body[i].amount \in Nat /\ body[i].fee \in Nat
                                        /\ body[i].receiver \in Addresses
                                        /\ i \in Users(body) <=> body[i].sender \in Addresses
                                        /\ i \in Users(body) <=> ~IsCoinbase(body[i])
           /\ Users(body) \in SUBSET (1 .. Len(body))
           /\ \A a \in Addresses : /\ From(body, a) \in SUBSET (1 .. Len(body))
                                   /\ From(body, a) \subseteq Users(body)
                                   /\ To(body, a) \in SUBSET (1 .. Len(body))
           /\ Amounts(body) \in [1 .. Len(body) -> Nat]
           /\ FeesOf(body) \in [1 .. Len(body) -> Nat]
           /\ Costs(body) \in [1 .. Len(body) -> Nat]
<1>1. Len(body) \in Nat /\ DOMAIN body = 1 .. Len(body)
      /\ \A i \in 1 .. Len(body) : body[i] \in Transactions
  OBVIOUS
<1>2. \A t \in Transactions : /\ t.amount \in Nat /\ t.fee \in Nat /\ t.receiver \in Addresses
                              /\ IsCoinbase(t) <=> t.sender \notin Addresses
  BY LedgerAssumption DEF IsCoinbase
<1>3. \A i \in 1 .. Len(body) : /\ body[i].amount \in Nat /\ body[i].fee \in Nat
                                /\ body[i].receiver \in Addresses
                                /\ IsCoinbase(body[i]) <=> body[i].sender \notin Addresses
  BY <1>1, <1>2
<1>4. \A i \in 1 .. Len(body) : i \in Users(body) <=> ~IsCoinbase(body[i])
  BY <1>1 DEF Users
<1>5. Users(body) \in SUBSET (1 .. Len(body))
  BY <1>1 DEF Users
<1>6. \A a \in Addresses : /\ From(body, a) \in SUBSET (1 .. Len(body))
                           /\ From(body, a) \subseteq Users(body)
                           /\ To(body, a) \in SUBSET (1 .. Len(body))
  BY <1>3, <1>4 DEF From, To
<1>7. /\ Amounts(body) \in [1 .. Len(body) -> Nat]
      /\ FeesOf(body) \in [1 .. Len(body) -> Nat]
      /\ Costs(body) \in [1 .. Len(body) -> Nat]
  BY <1>3 DEF Amounts, FeesOf, Costs
<1> QED
  BY <1>1, <1>3, <1>4, <1>5, <1>6, <1>7

\* What pre-validation checks the i-th transaction's cost against.
LEMMA DebitedSum ==
    ASSUME NEW body \in Seq(Transactions), NEW i \in Users(body)
    PROVE  SumOver({j \in {k \in Users(body) : k < i} : body[j].sender = body[i].sender},
                   LAMBDA j : body[j].amount + body[j].fee)
             = UpTo(Costs(body), From(body, body[i].sender), i - 1)
<1> DEFINE a == body[i].sender
           S == {j \in {k \in Users(body) : k < i} : body[j].sender = a}
           T == {p \in From(body, a) : p <= i - 1}
<1>1. i \in 1 .. Len(body) /\ Len(body) \in Nat /\ a \in Addresses
  BY BodySums
<1>2. S = T
  <2>1. \A j \in 1 .. Len(body) : j < i <=> j <= i - 1
    BY <1>1
  <2>2. Users(body) \subseteq 1 .. Len(body) /\ From(body, a) \subseteq Users(body)
    BY <1>1, BodySums
  <2> QED
    BY <2>1, <2>2 DEF From
<1>3. T \subseteq 1 .. Len(body)
  BY DEF From
<1>4. [j \in S |-> body[j].amount + body[j].fee] = [j \in T |-> Costs(body)[j]]
  BY <1>2, <1>3 DEF Costs
<1> QED
  BY <1>4 DEF SumOver, UpTo, SumOf

\* A valid body runs through: every transaction finds its money, since the
\* balances pre-validation counts with are not above the ones it meets.
LEMMA BodyFacts ==
    ASSUME StateOK, NEW s \in Monies, NEW body \in Seq(Transactions), ValidBody(body),
           \A a \in Addresses : balances[a] <= s.bal[a], Total(s) + 1 <= U64Max
    PROVE  LET new == FoldLeft(ApplyTransaction, s, body)
           IN  new \in Monies /\ After(new, s, body, Len(body))
<1> DEFINE n == Len(body)
           users == Users(body)
<1>1. \A acc \in Monies, tx \in Transactions : ApplyTransaction(acc, tx) \in Monies
  BY CoinbaseFacts, PaymentFacts
<1>2. PICK h \in [0 .. n -> Monies] :
          /\ h[0] = s /\ h[n] = FoldLeft(ApplyTransaction, s, body)
          /\ \A i \in 1 .. n : h[i] = ApplyTransaction(h[i - 1], body[i])
  BY <1>1, ApplyRun
<1>3. /\ n \in Nat /\ users \in SUBSET (1 .. n) /\ U64Max \in Nat
      /\ Total(s) \in Nat /\ s.pot \in Nat /\ \A a \in Addresses : s.bal[a] \in Nat
      /\ s.sigs \in SUBSET Transactions
  BY BodySums, AccountBound, LedgerAssumption DEF Total, Monies
<1>4. /\ UpTo(FeesOf(body), users, 0) = 0
      /\ \A i \in 0 .. n : UpTo(FeesOf(body), users, i) \in Nat
      /\ \A i \in 1 .. n : UpTo(FeesOf(body), users, i) =
            UpTo(FeesOf(body), users, i - 1) + (IF i \in users THEN body[i].fee ELSE 0)
  <2>1. FeesOf(body) \in [1 .. n -> Nat] /\ \A i \in 1 .. n : FeesOf(body)[i] = body[i].fee
    BY BodySums DEF FeesOf
  <2> HIDE DEF n, users
  <2>2. Accumulates(FeesOf(body), users, n)
    BY <1>3, <2>1, UpToFacts
  <2> QED
    BY <2>1, <2>2 DEF Accumulates
<1>5. ASSUME NEW a \in Addresses
      PROVE  /\ UpTo(Costs(body), From(body, a), 0) = 0
             /\ UpTo(Amounts(body), To(body, a), 0) = 0
             /\ \A i \in 0 .. n : /\ UpTo(Costs(body), From(body, a), i) \in Nat
                                  /\ UpTo(Amounts(body), To(body, a), i) \in Nat
             /\ \A i \in 1 .. n :
                  /\ UpTo(Costs(body), From(body, a), i) =
                        UpTo(Costs(body), From(body, a), i - 1)
                          + (IF body[i].sender = a THEN body[i].amount + body[i].fee ELSE 0)
                  /\ UpTo(Amounts(body), To(body, a), i) =
                        UpTo(Amounts(body), To(body, a), i - 1)
                          + (IF body[i].receiver = a THEN body[i].amount ELSE 0)
  <2>1. /\ Costs(body) \in [1 .. n -> Nat] /\ Amounts(body) \in [1 .. n -> Nat]
        /\ From(body, a) \in SUBSET (1 .. n) /\ To(body, a) \in SUBSET (1 .. n)
    BY BodySums
  <2>2. \A i \in 1 .. n : /\ Costs(body)[i] = body[i].amount + body[i].fee
                          /\ Amounts(body)[i] = body[i].amount
                          /\ i \in From(body, a) <=> body[i].sender = a
                          /\ i \in To(body, a) <=> body[i].receiver = a
    BY DEF Costs, Amounts, From, To
  <2> HIDE DEF n
  <2>a. Accumulates(Costs(body), From(body, a), n) /\ Accumulates(Amounts(body), To(body, a), n)
    BY <1>3, <2>1, UpToFacts
  <2>3. /\ UpTo(Costs(body), From(body, a), 0) = 0
        /\ \A i \in 0 .. n : UpTo(Costs(body), From(body, a), i) \in Nat
        /\ \A i \in 1 .. n : UpTo(Costs(body), From(body, a), i) =
             UpTo(Costs(body), From(body, a), i - 1)
               + (IF i \in From(body, a) THEN Costs(body)[i] ELSE 0)
    BY <2>a DEF Accumulates
  <2>4. /\ UpTo(Amounts(body), To(body, a), 0) = 0
        /\ \A i \in 0 .. n : UpTo(Amounts(body), To(body, a), i) \in Nat
        /\ \A i \in 1 .. n : UpTo(Amounts(body), To(body, a), i) =
             UpTo(Amounts(body), To(body, a), i - 1)
               + (IF i \in To(body, a) THEN Amounts(body)[i] ELSE 0)
    BY <2>a DEF Accumulates
  <2> QED
    BY <2>2, <2>3, <2>4
<1>6. Minted(body) \in {0, 1} /\ \A i \in 1 .. n : IsCoinbase(body[i]) =>
          i = 1 /\ body[1].amount = Minted(body) /\ body[1].fee = 0
  <2>1. \A i \in 1 .. n : i # 1 => i > 1
    OBVIOUS
  <2>2. \A i \in 1 .. n : IsCoinbase(body[i]) => i = 1 /\ HasMiner(body)
    BY <2>1, BodySums DEF ValidBody, ValidShape, HasMiner
  <2>3. HasMiner(body) => /\ body[1].amount <= 1 /\ body[1].fee = 0 /\ 1 \in 1 .. n
    BY BodySums DEF ValidBody, ValidShape, HasMiner
  <2>4. HasMiner(body) => body[1].amount \in {0, 1}
    BY <2>3, BodySums
  <2> QED
    BY <2>2, <2>3, <2>4 DEF Minted
<1> DEFINE Q == {i \in Nat : i <= n => After(h[i], s, body, i)}
<1>7. 0 \in Q
  <2>1. {p \in users : p <= 0} = {}
    <3>1. \A p \in users : ~(p <= 0)
      BY <1>3
    <3> QED
      BY <3>1
  <2>2. \A a \in Addresses : s.bal[a] = s.bal[a] - 0 + 0
    BY <1>3
  <2> QED
    BY <1>2, <1>3, <1>4, <1>5, <2>1, <2>2 DEF After
<1>8. ASSUME NEW i \in Nat, i \in Q PROVE i + 1 \in Q
  <2> DEFINE j == i + 1
             tx == body[j]
             m == h[i]
             new == h[j]
  <2>1. SUFFICES ASSUME j <= n PROVE After(new, s, body, j)
    OBVIOUS
  <2>2. /\ j \in 1 .. n /\ i \in 0 .. n /\ j \in 0 .. n /\ j - 1 = i /\ j # 0
        /\ After(m, s, body, i) /\ m \in Monies /\ new \in Monies
    BY <1>2, <1>3, <1>8, <2>1
  <2>3. /\ tx \in Transactions /\ tx.amount \in Nat /\ tx.fee \in Nat /\ tx.receiver \in Addresses
        /\ j \in users <=> ~IsCoinbase(tx)
        /\ j \in users <=> tx.sender \in Addresses
    BY <2>2, BodySums
  <2>4. new = ApplyTransaction(m, tx)
    BY <1>2, <2>2
  <2>5. /\ Total(m) \in Nat /\ Total(m) <= Total(s) + 1
        /\ \A a \in Addresses : m.bal[a] \in Nat
    <3>1. Total(m) \in Nat /\ \A a \in Addresses : m.bal[a] \in Nat
      BY <2>2, AccountBound DEF Total, Monies
    <3> QED
      BY <1>3, <1>6, <2>2, <3>1 DEF After
  <2>6. {p \in users : p <= j} = {p \in users : p <= i} \cup (IF j \in users THEN {j} ELSE {})
    <3>1. \A p \in users : p <= j <=> p <= i \/ p = j
      BY <1>3
    <3>2. j <= j
      BY <2>2
    <3> QED
      BY <3>1, <3>2
  <2>7. /\ UpTo(FeesOf(body), users, j) = UpTo(FeesOf(body), users, i) + (IF j \in users THEN tx.fee ELSE 0)
        /\ UpTo(FeesOf(body), users, i) \in Nat
    BY <1>4, <2>2
  <2>8. ASSUME NEW a \in Addresses
        PROVE  /\ UpTo(Costs(body), From(body, a), i) \in Nat
               /\ UpTo(Amounts(body), To(body, a), i) \in Nat
               /\ UpTo(Costs(body), From(body, a), j) = UpTo(Costs(body), From(body, a), i)
                    + (IF tx.sender = a THEN tx.amount + tx.fee ELSE 0)
               /\ UpTo(Amounts(body), To(body, a), j) = UpTo(Amounts(body), To(body, a), i)
                    + (IF tx.receiver = a THEN tx.amount ELSE 0)
    BY <1>5, <2>2
  <2>9. CASE IsCoinbase(tx)
    <3>1. j = 1 /\ i = 0 /\ tx.amount = Minted(body) /\ Minted(body) \in {0, 1}
      BY <1>6, <2>2, <2>9
    <3>2. Total(m) = Total(s) + 0
      BY <2>2, <3>1 DEF After
    <3>3. Total(m) + tx.amount <= U64Max
      BY <1>3, <3>1, <3>2
    <3>4. /\ new.sigs = m.sigs /\ new.pot = m.pot /\ new.paid = m.paid
          /\ Total(new) = Total(m) + tx.amount
          /\ \A a \in Addresses : new.bal[a] = m.bal[a] + (IF a = tx.receiver THEN tx.amount ELSE 0)
      BY <2>2, <2>3, <2>4, <2>9, <3>3, CoinbaseFacts
    <3>5. j \notin users /\ tx.sender \notin Addresses
      BY <2>3, <2>9
    <3> HIDE DEF Q, tx, m, new
    <3>6. ASSUME NEW a \in Addresses
          PROVE  new.bal[a] = s.bal[a] - UpTo(Costs(body), From(body, a), j)
                                       + UpTo(Amounts(body), To(body, a), j)
      <4>1. m.bal[a] = s.bal[a] - UpTo(Costs(body), From(body, a), i)
                                + UpTo(Amounts(body), To(body, a), i)
        BY <2>2 DEF After
      <4>2. tx.sender # a
        BY <3>5
      <4>3. s.bal[a] \in Nat
        BY <1>3
      <4> HIDE DEF j
      <4> QED
        BY <2>3, <2>8, <3>4, <4>1, <4>2, <4>3, SMTT(30)
    <3>7. new.sigs = s.sigs \cup {body[p] : p \in {q \in users : q <= j}}
      BY <2>2, <2>6, <3>4, <3>5 DEF After
    <3>8. new.pot = s.pot + UpTo(FeesOf(body), users, j)
      BY <1>3, <2>2, <2>7, <3>4, <3>5 DEF After
    <3>9. new.paid = s.paid /\ Total(new) = Total(s) + Minted(body)
      BY <1>3, <2>2, <3>1, <3>2, <3>4 DEF After
    <3> QED
      BY <2>2, <3>6, <3>7, <3>8, <3>9 DEF After
  <2>10. CASE ~IsCoinbase(tx)
    <3> DEFINE a0 == tx.sender
               cost == tx.amount + tx.fee
               d == UpTo(Costs(body), From(body, a0), i)
               r == UpTo(Amounts(body), To(body, a0), i)
    <3>1. j \in users /\ a0 \in Addresses
      BY <2>3, <2>10
    <3>2. cost <= U64Max /\ cost <= SubSat(balances[a0], d)
      <4>1. PreValid(body, j)
        BY <3>1 DEF ValidBody
      <4>2. SumOver({p \in {k \in Users(body) : k < j} : body[p].sender = body[j].sender},
                    LAMBDA p : body[p].amount + body[p].fee) = d
        BY <2>2, <3>1, DebitedSum
      <4>3. /\ tx.amount + tx.fee <= U64Max
            /\ SubSat(balances[tx.sender],
                 SumOver({p \in {k \in Users(body) : k < j} : body[p].sender = body[j].sender},
                         LAMBDA p : body[p].amount + body[p].fee)) >= tx.amount + tx.fee
        BY <4>1 DEF PreValid
      <4>4. balances[a0] \in Nat /\ d \in Nat /\ SubSat(balances[a0], d) \in Nat
        BY <2>8, <3>1 DEF StateOK, SubSat
      <4> HIDE DEF d
      <4> QED
        BY <2>3, <4>2, <4>3, <4>4
    <3>3. d \in Nat /\ r \in Nat /\ balances[a0] \in Nat /\ s.bal[a0] \in Nat /\ cost \in Nat
          /\ balances[a0] <= s.bal[a0]
      <4>1. d \in Nat /\ r \in Nat
        BY <2>8, <3>1
      <4>2. balances[a0] \in Nat /\ s.bal[a0] \in Nat
        BY <1>3, <3>1 DEF StateOK
      <4>3. cost \in Nat
        BY <2>3
      <4>4. balances[a0] <= s.bal[a0]
        BY <3>1
      <4> QED
        BY <4>1, <4>2, <4>3, <4>4
    <3>4. m.bal[a0] = s.bal[a0] - d + r
      BY <2>2, <3>1 DEF After
    <3>5. cost <= m.bal[a0]
      <4> HIDE DEF d, r, cost, a0
      <4> QED
        BY <2>5, <3>1, <3>2, <3>3, <3>4, SMTT(30) DEF SubSat
    <3>6. Total(m) <= U64Max
      BY <1>3, <2>5
    <3>7. /\ Total(new) = Total(m) /\ new.sigs = m.sigs \cup {tx} /\ new.pot = m.pot + tx.fee
          /\ new.paid = m.paid
          /\ \A a \in Addresses :
               new.bal[a] = m.bal[a] - (IF a = tx.sender THEN tx.amount + tx.fee ELSE 0)
                                     + (IF a = tx.receiver THEN tx.amount ELSE 0)
      BY <2>2, <2>3, <2>4, <2>10, <3>5, <3>6, PaymentFacts, SMTT(30)
    <3> HIDE DEF Q, m, new
    <3>8. ASSUME NEW a \in Addresses
          PROVE  new.bal[a] = s.bal[a] - UpTo(Costs(body), From(body, a), j)
                                       + UpTo(Amounts(body), To(body, a), j)
      <4>1. m.bal[a] = s.bal[a] - UpTo(Costs(body), From(body, a), i)
                                + UpTo(Amounts(body), To(body, a), i)
        BY <2>2 DEF After
      <4>2. s.bal[a] \in Nat
        BY <1>3
      <4> DEFINE c0 == UpTo(Costs(body), From(body, a), i)
                 c1 == UpTo(Costs(body), From(body, a), j)
                 g0 == UpTo(Amounts(body), To(body, a), i)
                 g1 == UpTo(Amounts(body), To(body, a), j)
                 c == IF tx.sender = a THEN tx.amount + tx.fee ELSE 0
                 g == IF tx.receiver = a THEN tx.amount ELSE 0
      <4>3. c0 \in Nat /\ g0 \in Nat /\ c1 = c0 + c /\ g1 = g0 + g
        BY <2>8
      <4>4. new.bal[a] = m.bal[a] - c + g
        BY <3>7
      <4>5. c \in Nat /\ g \in Nat
        BY <2>3
      <4>6. m.bal[a] = s.bal[a] - c0 + g0
        BY <4>1
      <4> HIDE DEF j, tx, c0, c1, g0, g1, c, g
      <4>7. new.bal[a] = s.bal[a] - c1 + g1
        BY <4>2, <4>3, <4>4, <4>5, <4>6
      <4> QED
        BY <4>7 DEF c1, g1
    <3>9. new.sigs = s.sigs \cup {body[p] : p \in {q \in users : q <= j}}
      BY <2>2, <2>6, <3>1, <3>7 DEF After
    <3>10. new.pot = s.pot + UpTo(FeesOf(body), users, j)
      BY <1>3, <2>2, <2>3, <2>7, <3>1, <3>7 DEF After
    <3>11. new.paid = s.paid /\ Total(new) = Total(s) + Minted(body)
      <4>1. i = 0 => Minted(body) = 0
        <5>1. i = 0 => body[1] = tx /\ j = 1
          OBVIOUS
        <5> QED
          BY <2>10, <5>1 DEF Minted, HasMiner
      <4> QED
        BY <1>3, <2>2, <3>7, <4>1 DEF After
    <3> QED
      BY <2>2, <3>8, <3>9, <3>10, <3>11 DEF After
  <2> QED
    BY <2>9, <2>10
<1>9. n \in Q
  <2> HIDE DEF Q
  <2> QED
    BY <1>3, <1>7, <1>8, NatSetInduction
<1> QED
  BY <1>2, <1>3, <1>9

-----------------------------------------------------------------------------
\* The fees of a body are what applying it adds to the pot.
LEMMA FeesSum ==
    ASSUME NEW body \in Seq(Transactions)
    PROVE  Fees(body) \in Nat /\ Fees(body) = UpTo(FeesOf(body), Users(body), Len(body))
<1> DEFINE n == Len(body)
           P == Users(body)
           f == FeesOf(body)
<1>1. n \in Nat /\ P \in SUBSET (1 .. n) /\ f \in [1 .. n -> Nat] /\ n \in 0 .. n
  BY BodySums
<1>2. [j \in P |-> body[j].fee] = [j \in P |-> f[j]]
  BY <1>1 DEF FeesOf
<1>3. Fees(body) = SumOf(0, [j \in P |-> f[j]])
  <2>1. Fees(body) = SumOf(0, [j \in P |-> body[j].fee])
    BY DEF Fees, SumOver, SumOf
  <2> QED
    BY <1>2, <2>1
<1> HIDE DEF n, P, f
<1>4. Accumulates(f, P, n)
  BY <1>1, UpToFacts
<1>5. Fees(body) \in Nat /\ Fees(body) = UpTo(f, P, n)
  BY <1>1, <1>3, <1>4 DEF Accumulates
<1> QED
  BY <1>5 DEF n, P, f

\* The fee split moves the miner's half of the fees from the pot.
LEMMA SplitFacts ==
    ASSUME NEW s \in Monies, NEW body \in Seq(Transactions), Fees(body) <= s.pot, Total(s) <= U64Max
    PROVE  LET new == SplitFees(s, body)
           IN  /\ new \in Monies /\ Total(new) = Total(s) /\ new.sigs = s.sigs /\ new.paid = s.paid
               /\ \A a \in Addresses : new.bal[a] = s.bal[a]
                    + (IF HasMiner(body) /\ body[1].receiver = a THEN Fees(body) \div 2 ELSE 0)
<1> DEFINE share == Fees(body) \div 2
           bal == Credit(s.bal, body[1].receiver, share)
           new == [s EXCEPT !.bal = bal, !.pot = SubSat(@, share)]
<1>1. /\ s.bal \in [Addresses -> Nat] /\ s.pot \in Nat /\ s.paid \in Seq(Payments)
      /\ s.sigs \in SUBSET Transactions
  BY DEF Monies
<1>2. share \in Nat /\ share <= s.pot
  BY <1>1, FeesSum
<1>3. SplitFees(s, body) = IF share > 0 /\ HasMiner(body) THEN new ELSE s
  BY DEF SplitFees
<1>4. CASE ~(share > 0 /\ HasMiner(body))
  <2>1. ~HasMiner(body) \/ share = 0
    BY <1>2, <1>4
  <2> HIDE DEF share
  <2>2. \A a \in Addresses : s.bal[a] = s.bal[a]
            + (IF HasMiner(body) /\ body[1].receiver = a THEN share ELSE 0)
    BY <1>1, <2>1
  <2> HIDE DEF new
  <2>3. SplitFees(s, body) = s
    BY <1>3, <1>4
  <2> QED
    BY <2>2, <2>3 DEF share
<1>5. CASE share > 0 /\ HasMiner(body)
  <2> DEFINE a0 == body[1].receiver
  <2>1. a0 \in Addresses
    <3>1. 1 \in 1 .. Len(body)
      BY <1>5, BodySums DEF HasMiner
    <3> QED
      BY <3>1, BodySums
  <2> HIDE DEF share
  <2>2. /\ SumOf(s.pot, s.bal) \in Nat /\ s.bal[a0] \in Nat
        /\ s.pot + s.bal[a0] <= SumOf(s.pot, s.bal)
    BY <1>1, <2>1, AccountBound
  <2>3. s.bal[a0] + share <= U64Max
    BY <1>1, <1>2, <2>2, LedgerAssumption, SMTT(30) DEF Total
  <2>4. bal \in [Addresses -> Nat]
    BY <1>1, <1>2, <2>1, CreditFacts
  <2>5. SubSat(s.pot, share) = s.pot - share /\ s.pot - share \in Nat
    BY <1>1, <1>2 DEF SubSat
  <2>6. /\ \A b \in Nat : SumOf(b, bal) = SumOf(b, s.bal) + share
        /\ bal[a0] = s.bal[a0] + share
        /\ \A x \in Addresses : x # a0 => bal[x] = s.bal[x]
    <3>1. Credited(bal, s.bal, a0, share)
      BY <1>1, <1>2, <2>1, <2>3, CreditFacts
    <3> HIDE DEF bal, a0
    <3> QED
      BY <1>1, <1>2, <3>1 DEF Credited
  <2> HIDE DEF bal, a0
  <2>7. /\ new.bal = bal /\ new.pot = s.pot - share /\ new.sigs = s.sigs /\ new.paid = s.paid
        /\ new \in Monies
    BY <1>1, <2>4, <2>5 DEF Monies
  <2>8. SumOf(s.pot - share, s.bal) = SumOf(s.pot, s.bal) - s.pot + (s.pot - share)
    <3>1. s.bal \in [Addresses -> Int] /\ s.pot \in Int /\ s.pot - share \in Int /\ IsFiniteSet(Addresses)
      BY <1>1, <2>5, LedgerAssumption
    <3> QED
      BY <3>1, SumBase
  <2>9. Total(new) = Total(s)
    <3>1. SumOf(s.pot - share, bal) = SumOf(s.pot - share, s.bal) + share
      BY <2>5, <2>6
    <3> HIDE DEF new
    <3> QED
      BY <1>1, <1>2, <2>2, <2>7, <2>8, <3>1 DEF Total
  <2>10. \A a \in Addresses : bal[a] = s.bal[a]
            + (IF HasMiner(body) /\ body[1].receiver = a THEN share ELSE 0)
    <3> SUFFICES ASSUME NEW a \in Addresses
                 PROVE  bal[a] = s.bal[a] + (IF HasMiner(body) /\ body[1].receiver = a THEN share ELSE 0)
      OBVIOUS
    <3>1. CASE a = a0
      BY <1>5, <2>6, <3>1 DEF a0
    <3>2. CASE a # a0
      <4>1. bal[a] = s.bal[a] /\ s.bal[a] \in Nat /\ body[1].receiver # a
        BY <1>1, <2>6, <3>2 DEF a0
      <4> QED
        BY <4>1
    <3> QED
      BY <3>1, <3>2
  <2> HIDE DEF new
  <2>11. SplitFees(s, body) = new
    BY <1>3, <1>5
  <2> QED
    BY <2>7, <2>9, <2>10, <2>11 DEF share
<1> QED
  BY <1>4, <1>5

\* The tickets put apart by a block, run ticket by ticket.
Parts == [due : Seq(Tickets), rest : Seq(Tickets)]

LEMMA ApartRun ==
    ASSUME pending_tickets \in Seq(Tickets)
    PROVE  \E h \in [0 .. Len(pending_tickets) -> Parts] :
              /\ h[0] = [due |-> <<>>, rest |-> <<>>] /\ h[Len(pending_tickets)] = Apart
              /\ \A i \in 1 .. Len(pending_tickets) : h[i] = PutApart(h[i - 1], pending_tickets[i])
<1> DEFINE q == pending_tickets
           n == Len(q)
           z == [due |-> <<>>, rest |-> <<>>]
           op == [p \in (1 .. n) \X Parts |-> PutApart(p[2], q[p[1]])]
           eq(f) == f = [U \in SUBSET (1 .. n) |->
                           IF U = {} THEN z ELSE PutApart(f[U \ {Max(U)}], q[Max(U)])]
           k == CHOOSE f : eq(f)
<1>1. n \in Nat /\ DOMAIN q = 1 .. n /\ \A i \in 1 .. n : q[i] \in Tickets
  OBVIOUS
<1>2. Apart = k[1 .. n]
  BY <1>1 DEF Apart, FoldLeft, MapThenFoldSet
<1>3. z \in Parts /\ \A acc \in Parts, t \in Tickets : PutApart(acc, t) \in Parts
  <2>1. z \in Parts
    BY DEF Parts
  <2>2. ASSUME NEW acc \in Parts, NEW t \in Tickets PROVE PutApart(acc, t) \in Parts
    <3>1. /\ acc \in [due : Seq(Tickets), rest : Seq(Tickets)]
          /\ Append(acc.due, t) \in Seq(Tickets) /\ Append(acc.rest, t) \in Seq(Tickets)
      BY DEF Parts
    <3>2. /\ [acc EXCEPT !.due = Append(acc.due, t)] \in Parts
          /\ [acc EXCEPT !.rest = Append(acc.rest, t)] \in Parts
      BY <3>1 DEF Parts
    <3> QED
      BY <3>2 DEF PutApart
  <2> QED
    BY <2>1, <2>2
<1>4. op \in [(1 .. n) \X Parts -> Parts] /\ \A i \in 1 .. n, m \in Parts : op[<<i, m>>] = PutApart(m, q[i])
  BY <1>1, <1>3
<1>5. \A U \in (SUBSET (1 .. n)) \ {{}} : Max(U) \in 1 .. n
  BY <1>1, MaxIsMember
<1>6. eq(k)
  <2> HIDE DEF n, op, z
  <2>1. PICK g \in [SUBSET (1 .. n) -> Parts] : MaxFold(g, n, z, op)
    BY <1>1, <1>3, <1>4, LeftFoldExists
  <2>2. \A U \in SUBSET (1 .. n) :
            g[U] = IF U = {} THEN z ELSE PutApart(g[U \ {Max(U)}], q[Max(U)])
    BY <1>4, <1>5, <2>1 DEF MaxFold
  <2>3. eq(g)
    BY <2>2
  <2> HIDE DEF eq
  <2> QED
    BY <2>3
<1>7. Computes(k, n, Parts, z, op)
  <2> HIDE DEF k, op
  <2>1. \A U \in SUBSET (1 .. n) :
            k[U] = IF U = {} THEN z ELSE PutApart(k[U \ {Max(U)}], q[Max(U)])
    BY <1>6
  <2> QED
    BY <1>4, <1>5, <2>1 DEF Computes
<1>8. PICK h : Run(h, n, Parts, z, k[1 .. n], op)
  <2> HIDE DEF n, op, k, z
  <2> QED
    BY <1>1, <1>3, <1>4, <1>7, LeftFoldRun
<1> HIDE DEF op, k
<1>9. /\ h \in [0 .. n -> Parts] /\ h[0] = z /\ h[n] = k[1 .. n]
      /\ \A i \in 1 .. n : h[i] = PutApart(h[i - 1], q[i])
  <2>1. \A i \in 1 .. n : i - 1 \in 0 .. n
    BY <1>1
  <2> HIDE DEF n, z
  <2> QED
    BY <1>4, <1>8, <2>1 DEF Run
<1> QED
  BY <1>2, <1>9

LEMMA ApartType ==
    ASSUME pending_tickets \in Seq(Tickets)
    PROVE  ToSettle \in Seq(Tickets) /\ StillPending \in Seq(Tickets)
<1>1. Apart \in Parts
  <2>1. Len(pending_tickets) \in Nat /\ Len(pending_tickets) \in 0 .. Len(pending_tickets)
    OBVIOUS
  <2> QED
    BY <2>1, ApartRun
<1> QED
  BY <1>1 DEF Parts, ToSettle, StillPending

-----------------------------------------------------------------------------
BodyShape ==
    /\ chain \in Seq(Seq(Transactions))
    /\ Len(chain) <= MaxHeight
    /\ \A h \in DOMAIN chain : Len(chain[h]) <= MaxOffered
    /\ aborted \in BOOLEAN

\* What an accepted block does to the money, with the tickets draws it takes.
Outcome(body, settled, final) ==
    /\ settled \in Monies /\ final \in Monies
    /\ Total(final) = Total(State) + Minted(body)
    /\ final.sigs = confirmed_signatures \cup {body[i] : i \in Users(body)}
    /\ final.paid = settled.paid
    /\ \A a \in Addresses :
         final.bal[a] = settled.bal[a]
            - UpTo(Costs(body), From(body, a), Len(body))
            + UpTo(Amounts(body), To(body, a), Len(body))
            + (IF HasMiner(body) /\ body[1].receiver = a THEN Fees(body) \div 2 ELSE 0)

\* Offered bodies are sequences of transactions of bounded length.
LEMMA OfferedBodies ==
    \A body \in Bodies : body \in Seq(Transactions) /\ Len(body) <= MaxOffered
<1> SUFFICES ASSUME NEW body \in Bodies
             PROVE  body \in Seq(Transactions) /\ Len(body) <= MaxOffered
  OBVIOUS
<1>1. PICK n \in 0 .. MaxOffered : body \in [1 .. n -> Transactions]
  BY DEF Bodies
<1> QED
  BY <1>1, LedgerAssumption

\* Neither abort post-condition can fail.
LEMMA AcceptedFacts ==
    ASSUME StateOK, Total(State) + 1 <= U64Max, NEW body \in Seq(Transactions), ValidBody(body),
           NEW tiers \in [DOMAIN ToSettle -> DOMAIN Divisor]
    PROVE  LET settled == SettleAll(State, ToSettle, tiers)
               applied == FoldLeft(ApplyTransaction, settled, body)
               final == SplitFees(applied, body)
           IN  /\ AllApplied(applied, body) /\ Conserved(final, body)
               /\ Outcome(body, settled, final)
<1> DEFINE settled == SettleAll(State, ToSettle, tiers)
           applied == FoldLeft(ApplyTransaction, settled, body)
           final == SplitFees(applied, body)
           n == Len(body)
<1>1. /\ State \in Monies /\ State.bal = balances /\ State.sigs = confirmed_signatures
      /\ State.pot = pot /\ ToSettle \in Seq(Tickets)
      /\ Total(State) \in Nat /\ U64Max \in Nat
  <2>1. State \in Monies
    BY DEF State, StateOK, Monies
  <2> QED
    BY <2>1, ApartType, AccountBound, LedgerAssumption DEF State, StateOK, Total, Monies
<1> HIDE DEF settled, applied, final
<1>2. /\ settled \in Monies /\ Total(settled) = Total(State) /\ settled.sigs = confirmed_signatures
      /\ \A a \in Addresses : balances[a] <= settled.bal[a]
  <2>1. Total(State) <= U64Max
    BY <1>1
  <2> QED
    BY <1>1, <2>1, SettledFacts DEF settled
<1>3. applied \in Monies /\ After(applied, settled, body, n)
  BY <1>2, BodyFacts DEF applied
<1>4. /\ n \in Nat /\ Users(body) \in SUBSET (1 .. n) /\ Fees(body) \in Nat
      /\ Fees(body) = UpTo(FeesOf(body), Users(body), n)
  BY BodySums, FeesSum
<1>5. applied.sigs = confirmed_signatures \cup {body[i] : i \in Users(body)}
  <2>1. {p \in Users(body) : p <= n} = Users(body)
    BY <1>4
  <2> QED
    BY <1>2, <1>3, <2>1 DEF After
<1>6. Total(applied) = Total(State) + Minted(body) /\ Minted(body) \in {0, 1}
  <2>1. n = 0 => body = <<>>
    OBVIOUS
  <2>2. n = 0 => Minted(body) = 0
    BY <2>1 DEF Minted, HasMiner
  <2>3. Minted(body) \in {0, 1}
    <3>1. HasMiner(body) => body[1].amount <= 1 /\ 1 \in 1 .. n
      BY <1>4, BodySums DEF ValidBody, ValidShape, HasMiner
    <3>2. 1 \in 1 .. n => body[1].amount \in Nat
      BY BodySums
    <3>3. HasMiner(body) => body[1].amount \in {0, 1}
      BY <3>1, <3>2
    <3> QED
      BY <3>3 DEF Minted
  <2> QED
    BY <1>1, <1>2, <1>3, <2>2, <2>3 DEF After
<1>7. Fees(body) <= applied.pot /\ Total(applied) <= U64Max
  <2>1. applied.pot = settled.pot + Fees(body) /\ settled.pot \in Nat
    BY <1>2, <1>3, <1>4 DEF After, Monies
  <2> QED
    BY <1>1, <1>4, <1>6, <2>1
<1>8. /\ final \in Monies /\ Total(final) = Total(applied) /\ final.sigs = applied.sigs
      /\ final.paid = applied.paid
      /\ \A a \in Addresses : final.bal[a] = applied.bal[a]
           + (IF HasMiner(body) /\ body[1].receiver = a THEN Fees(body) \div 2 ELSE 0)
  BY <1>3, <1>7, SplitFacts DEF final
<1>9. AllApplied(applied, body)
  BY <1>5 DEF AllApplied
<1>10. Conserved(final, body)
  <2>1. \A b, p : TotalSupply(b, p) = SumOf(p, b)
    BY DEF TotalSupply, SumOf
  <2> QED
    BY <1>1, <1>6, <1>8, <2>1 DEF Conserved, Total
<1>11. Outcome(body, settled, final)
  <2>1. \A a \in Addresses :
          applied.bal[a] = settled.bal[a] - UpTo(Costs(body), From(body, a), n)
                                          + UpTo(Amounts(body), To(body, a), n)
    BY <1>3 DEF After
  <2>2. applied.paid = settled.paid
    BY <1>3 DEF After
  <2> QED
    BY <1>2, <1>5, <1>6, <1>8, <2>1, <2>2 DEF Outcome
<1> QED
  BY <1>9, <1>10, <1>11 DEF settled, applied, final

-----------------------------------------------------------------------------
\* What an accepted block leaves behind.
Accepted(body, settled, final) ==
    /\ Outcome(body, settled, final)
    /\ chain' = Append(chain, body)
    /\ balances' = final.bal
    /\ pot' = final.pot
    /\ confirmed_signatures' = final.sigs
    /\ pending_tickets' = StillPending \o NewTicket(body)
    /\ payouts' = Append(payouts, settled.paid)
    /\ aborted' = aborted

\* The part of the inductive invariant the abort conditions rest on: the supply
\* leaves room for one more coin as long as the chain may grow.
MoneyInv == StateOK /\ BodyShape /\ NeverAborts /\ EmissionBounded

LEMMA SupplyFits ==
    ASSUME MoneyInv, Len(chain) < MaxHeight
    PROVE  Total(State) \in Nat /\ Total(State) + 1 <= U64Max
<1>1. \A b, p : TotalSupply(b, p) = SumOf(p, b)
  BY DEF TotalSupply, SumOf
<1>2. SumOf(GenesisPot, GenesisBalance) \in Nat
  <2>1. GenesisPot \in Nat /\ GenesisBalance \in [Addresses -> Nat]
    BY LedgerAssumption
  <2> QED
    BY <2>1, AccountBound
<1>3. SumOf(GenesisPot, GenesisBalance) + MaxHeight <= U64Max /\ MaxHeight \in Nat /\ U64Max \in Nat
  BY <1>1, LedgerAssumption
<1>4. Total(State) = SumOf(pot, balances) /\ Len(chain) \in Nat
  BY DEF Total, State, MoneyInv, BodyShape
<1>5. SumOf(pot, balances) <= SumOf(GenesisPot, GenesisBalance) + Len(chain)
  BY <1>1 DEF MoneyInv, EmissionBounded
<1>6. SumOf(pot, balances) \in Nat
  BY AccountBound DEF MoneyInv, StateOK
<1> QED
  BY <1>2, <1>3, <1>4, <1>5, <1>6

\* A step of the ledger accepts a block: it never aborts.
LEMMA StepFacts ==
    ASSUME MoneyInv, NEW body \in Bodies, UpdateState(body)
    PROVE  /\ ValidBody(body) /\ Len(chain) < MaxHeight
           /\ \E tiers \in [DOMAIN ToSettle -> DOMAIN Divisor] : \E final :
                Accepted(body, SettleAll(State, ToSettle, tiers), final)
<1>1. ValidBody(body) /\ Len(chain) < MaxHeight
  BY DEF UpdateState
<1>2. PICK tiers \in [DOMAIN ToSettle -> DOMAIN Divisor] :
        LET settled == SettleAll(State, ToSettle, tiers)
            applied == FoldLeft(ApplyTransaction, settled, body)
            final == SplitFees(applied, body)
        IN  IF AllApplied(applied, body) /\ Conserved(final, body)
            THEN /\ chain' = Append(chain, body)
                 /\ balances' = final.bal
                 /\ pot' = final.pot
                 /\ confirmed_signatures' = final.sigs
                 /\ pending_tickets' = StillPending \o NewTicket(body)
                 /\ payouts' = Append(payouts, settled.paid)
                 /\ UNCHANGED aborted
            ELSE /\ aborted' = TRUE
                 /\ UNCHANGED <<chain, balances, confirmed_signatures, pot,
                                pending_tickets, payouts>>
  BY DEF UpdateState
<1> DEFINE settled == SettleAll(State, ToSettle, tiers)
           applied == FoldLeft(ApplyTransaction, settled, body)
           final == SplitFees(applied, body)
<1>3. Total(State) + 1 <= U64Max
  BY <1>1, SupplyFits
<1>4. body \in Seq(Transactions)
  BY OfferedBodies
<1>5. /\ AllApplied(applied, body) /\ Conserved(final, body)
      /\ Outcome(body, settled, final)
  BY <1>1, <1>3, <1>4, AcceptedFacts DEF MoneyInv
<1>6. Accepted(body, settled, final)
  <2> HIDE DEF settled, applied, final
  <2>1. /\ chain' = Append(chain, body)
        /\ balances' = final.bal
        /\ pot' = final.pot
        /\ confirmed_signatures' = final.sigs
        /\ pending_tickets' = StillPending \o NewTicket(body)
        /\ payouts' = Append(payouts, settled.paid)
        /\ aborted' = aborted
    BY <1>2, <1>5 DEF settled, applied, final
  <2> QED
    BY <1>5, <2>1 DEF Accepted
<1> HIDE DEF final
<1> QED
  BY <1>1, <1>6

LEMMA MoneyInit == Init => MoneyInv
<1> SUFFICES ASSUME Init PROVE MoneyInv
  OBVIOUS
<1>1. StateOK
  BY LedgerAssumption DEF Init, StateOK
<1>2. BodyShape
  <2>1. chain = <<>> /\ aborted = FALSE /\ MaxHeight \in Nat
    BY LedgerAssumption DEF Init
  <2>2. chain \in Seq(Seq(Transactions)) /\ Len(chain) = 0 /\ DOMAIN chain = {}
    BY <2>1
  <2>3. Len(chain) <= MaxHeight
    BY <2>1, <2>2
  <2>4. \A h \in DOMAIN chain : Len(chain[h]) <= MaxOffered
    BY <2>2
  <2>5. aborted \in BOOLEAN
    BY <2>1
  <2> QED
    BY <2>2, <2>3, <2>4, <2>5 DEF BodyShape
<1>3. EmissionBounded
  <2>1. TotalSupply(GenesisBalance, GenesisPot) \in Nat
    <3>1. GenesisPot \in Nat /\ GenesisBalance \in [Addresses -> Nat]
      BY LedgerAssumption
    <3>2. \A b, p : TotalSupply(b, p) = SumOf(p, b)
      BY DEF TotalSupply, SumOf
    <3> QED
      BY <3>1, <3>2, AccountBound
  <2>2. TotalSupply(balances, pot) = TotalSupply(GenesisBalance, GenesisPot) /\ Len(chain) = 0
    BY DEF Init
  <2> QED
    BY <2>1, <2>2 DEF EmissionBounded
<1> QED
  BY <1>1, <1>2, <1>3 DEF MoneyInv, NeverAborts, Init

LEMMA MoneyStep ==
    ASSUME MoneyInv, NEW body \in Bodies, UpdateState(body)
    PROVE  MoneyInv'
<1>0. PICK tiers \in [DOMAIN ToSettle -> DOMAIN Divisor] :
        \E final : Accepted(body, SettleAll(State, ToSettle, tiers), final)
  BY StepFacts
<1>1. PICK final : Accepted(body, SettleAll(State, ToSettle, tiers), final)
  BY <1>0
<1> DEFINE settled == SettleAll(State, ToSettle, tiers)
<1>2. ValidBody(body) /\ Len(chain) < MaxHeight
  BY StepFacts
<1>3. body \in Seq(Transactions) /\ Len(body) <= MaxOffered
  BY OfferedBodies
<1> HIDE DEF settled
<1>4. Accepted(body, settled, final)
  BY <1>1 DEF settled
<1>5. /\ final \in Monies /\ Total(final) = Total(State) + Minted(body)
      /\ chain' = Append(chain, body) /\ balances' = final.bal /\ pot' = final.pot
      /\ confirmed_signatures' = final.sigs /\ aborted' = aborted
      /\ pending_tickets' = StillPending \o NewTicket(body)
  BY <1>4 DEF Accepted, Outcome
<1>6. StateOK'
  <2>1. StillPending \in Seq(Tickets)
    BY ApartType DEF MoneyInv, StateOK
  <2>2. NewTicket(body) \in Seq(Tickets)
    <3>1. HasMiner(body) => [miner |-> body[1].receiver, created_height |-> Height] \in Tickets
      <4>1. HasMiner(body) => body[1].receiver \in Addresses
        <5>1. HasMiner(body) => 1 \in 1 .. Len(body)
          BY <1>3 DEF HasMiner
        <5> QED
          BY <1>3, <5>1, BodySums
      <4>2. Height \in Nat
        BY DEF Height, MoneyInv, BodyShape
      <4> QED
        BY <4>1, <4>2 DEF Tickets
    <3> QED
      BY <3>1 DEF NewTicket
  <2>3. StillPending \o NewTicket(body) \in Seq(Tickets)
    BY <2>1, <2>2
  <2> QED
    BY <1>5, <2>3 DEF StateOK, Monies
<1>7. BodyShape'
  <2>1. /\ chain \in Seq(Seq(Transactions)) /\ Len(chain) \in Nat
        /\ \A h \in 1 .. Len(chain) : Len(chain[h]) <= MaxOffered
        /\ aborted \in BOOLEAN /\ MaxHeight \in Nat
    BY LedgerAssumption DEF MoneyInv, BodyShape
  <2>2. /\ chain' \in Seq(Seq(Transactions)) /\ Len(chain') = Len(chain) + 1
        /\ DOMAIN chain' = 1 .. Len(chain) + 1
        /\ \A h \in 1 .. Len(chain) : chain'[h] = chain[h]
        /\ chain'[Len(chain) + 1] = body
    BY <1>3, <1>5, <2>1
  <2>3. \A h \in DOMAIN chain' : Len(chain'[h]) <= MaxOffered
    <3>1. \A h \in 1 .. Len(chain) + 1 : h \in 1 .. Len(chain) \/ h = Len(chain) + 1
      BY <2>1
    <3> QED
      BY <1>3, <2>1, <2>2, <3>1
  <2> QED
    BY <1>2, <1>5, <2>1, <2>2, <2>3 DEF BodyShape
<1>8. EmissionBounded'
  <2>1. \A b, p : TotalSupply(b, p) = SumOf(p, b)
    BY DEF TotalSupply, SumOf
  <2>2. Total(State) = TotalSupply(balances, pot) /\ Total(final) = TotalSupply(final.bal, final.pot)
    BY <2>1 DEF Total, State
  <2>3. Minted(body) \in {0, 1}
    <3>1. HasMiner(body) => body[1].amount <= 1 /\ 1 \in 1 .. Len(body)
      BY <1>2, <1>3, BodySums DEF ValidBody, ValidShape, HasMiner
    <3>2. 1 \in 1 .. Len(body) => body[1].amount \in Nat
      BY <1>3, BodySums
    <3>3. HasMiner(body) => body[1].amount \in {0, 1}
      BY <3>1, <3>2
    <3> QED
      BY <3>3 DEF Minted
  <2>4. /\ TotalSupply(balances, pot) <= TotalSupply(GenesisBalance, GenesisPot) + Len(chain)
        /\ Len(chain) \in Nat /\ Len(chain') = Len(chain) + 1
    BY <1>5 DEF MoneyInv, EmissionBounded, BodyShape
  <2>5. TotalSupply(balances, pot) \in Nat /\ TotalSupply(GenesisBalance, GenesisPot) \in Nat
    <3>1. GenesisPot \in Nat /\ GenesisBalance \in [Addresses -> Nat]
      BY LedgerAssumption
    <3>2. pot \in Nat /\ balances \in [Addresses -> Nat]
      BY DEF MoneyInv, StateOK
    <3> QED
      BY <2>1, <3>1, <3>2, AccountBound
  <2>6. TotalSupply(balances, pot)' = TotalSupply(balances, pot) + Minted(body)
    BY <1>5, <2>2
  <2>7. TotalSupply(balances, pot)' <= TotalSupply(GenesisBalance, GenesisPot) + Len(chain)'
    BY <2>3, <2>4, <2>5, <2>6
  <2> QED
    BY <2>7 DEF EmissionBounded
<1> QED
  BY <1>5, <1>6, <1>7, <1>8 DEF MoneyInv, NeverAborts

LEMMA MoneyStutter ==
    ASSUME MoneyInv, UNCHANGED vars
    PROVE  MoneyInv'
  BY DEF MoneyInv, vars, StateOK, BodyShape, NeverAborts, EmissionBounded

THEOREM AlwaysMoneyInv == Spec => []MoneyInv
<1>1. ASSUME MoneyInv, [Next]_vars PROVE MoneyInv'
  BY <1>1, MoneyStep, MoneyStutter DEF Next
<1> QED
  BY <1>1, MoneyInit, PTL DEF Spec

\* The two post-conditions update_state aborts the process on never fail: what
\* pre-validation lets through is applied to the last transaction and mints
\* exactly the coinbase, whatever the maturing tickets draw.
THEOREM AbortUnreachable == Spec => []NeverAborts
<1>1. MoneyInv => NeverAborts
  BY DEF MoneyInv
<1> QED
  BY <1>1, AlwaysMoneyInv, PTL

\* No coin comes from anywhere but a coinbase, at most one per block.
THEOREM OneCoinPerBlock == Spec => []EmissionBounded
<1>1. MoneyInv => EmissionBounded
  BY DEF MoneyInv
<1> QED
  BY <1>1, AlwaysMoneyInv, PTL

-----------------------------------------------------------------------------
\* The confirmed signatures are those of the user transactions in the chain.
SignaturesFollowChain == confirmed_signatures = {chain[p[1]][p[2]] : p \in Positions}

ReplayInv == MoneyInv /\ SignaturesFollowChain /\ NoReplay

LEMMA ReplayStep ==
    ASSUME ReplayInv, NEW body \in Bodies, UpdateState(body)
    PROVE  SignaturesFollowChain' /\ NoReplay'
<1>0. PICK tiers \in [DOMAIN ToSettle -> DOMAIN Divisor] :
        \E final : Accepted(body, SettleAll(State, ToSettle, tiers), final)
  BY StepFacts DEF ReplayInv
<1>1. PICK final : Accepted(body, SettleAll(State, ToSettle, tiers), final)
  BY <1>0
<1> DEFINE n == Len(chain)
           new == n + 1
<1>2. ValidBody(body)
  BY StepFacts DEF ReplayInv
<1>3. body \in Seq(Transactions) /\ Len(body) <= MaxOffered /\ Len(body) \in Nat /\ MaxOffered \in Nat
  BY OfferedBodies, LedgerAssumption
<1>4. chain' = Append(chain, body)
      /\ confirmed_signatures' = confirmed_signatures \cup {body[i] : i \in Users(body)}
  BY <1>1 DEF Accepted, Outcome
<1>5. /\ chain \in Seq(Seq(Transactions)) /\ n \in Nat /\ Len(chain') = new
      /\ \A h \in 1 .. n : chain'[h] = chain[h]
      /\ chain'[new] = body
  BY <1>3, <1>4 DEF ReplayInv, MoneyInv, BodyShape
<1>6. Users(body) \subseteq 1 .. MaxOffered /\ Users(body) \subseteq Nat
  BY <1>3, BodySums
<1>7. \A h \in 1 .. new : h = new \/ h \in 1 .. n
  BY <1>5
<1>8. new \notin 1 .. n /\ new \in 1 .. new /\ 1 .. n \subseteq 1 .. new
  BY <1>5
<1> DEFINE Fresh == {p \in {new} \X (1 .. MaxOffered) : p[2] \in Users(body)}
<1> HIDE DEF n, new
<1>9. Positions' = Positions \cup Fresh
  <2>1. Positions' = {p \in (1 .. new) \X (1 .. MaxOffered) : p[2] \in Users(chain'[p[1]])}
    BY <1>5 DEF Positions
  <2>2. Positions = {p \in (1 .. n) \X (1 .. MaxOffered) : p[2] \in Users(chain[p[1]])}
    BY DEF Positions, n
  <2>3. ASSUME NEW p \in Positions' PROVE p \in Positions \cup Fresh
    <3>1. p \in (1 .. new) \X (1 .. MaxOffered) /\ p[2] \in Users(chain'[p[1]])
      BY <2>1
    <3>2. CASE p[1] = new
      BY <1>5, <3>1, <3>2
    <3>3. CASE p[1] \in 1 .. n
      BY <1>5, <2>2, <3>1, <3>3
    <3> QED
      BY <1>7, <3>1, <3>2, <3>3
  <2>4. ASSUME NEW p \in Positions PROVE p \in Positions'
    BY <1>5, <1>8, <2>1, <2>2
  <2>5. ASSUME NEW p \in Fresh PROVE p \in Positions'
    BY <1>5, <1>8, <2>1
  <2> QED
    BY <2>3, <2>4, <2>5
<1>10. \A p \in Positions : p[1] \in 1 .. n /\ chain'[p[1]][p[2]] = chain[p[1]][p[2]]
  BY <1>5 DEF Positions, n
<1>11. \A p \in Fresh : p[1] = new /\ p[2] \in Users(body) /\ chain'[p[1]][p[2]] = body[p[2]]
  BY <1>5
<1>12. \A i \in Users(body) : <<new, i>> \in Fresh
  BY <1>6
<1>13. SignaturesFollowChain'
  <2>1. confirmed_signatures = {chain[p[1]][p[2]] : p \in Positions}
    BY DEF ReplayInv, SignaturesFollowChain
  <2>2. \A p \in Positions : chain'[p[1]][p[2]] \in confirmed_signatures
    BY <1>10, <2>1
  <2>3. \A p \in Fresh : chain'[p[1]][p[2]] \in {body[i] : i \in Users(body)}
    BY <1>11
  <2>4. \A t \in confirmed_signatures : \E p \in Positions : t = chain'[p[1]][p[2]]
    BY <1>10, <2>1
  <2>5. \A t \in {body[i] : i \in Users(body)} : \E p \in Fresh : t = chain'[p[1]][p[2]]
    BY <1>11, <1>12
  <2>6. confirmed_signatures' = {chain'[p[1]][p[2]] : p \in Positions'}
    <3> HIDE DEF Fresh
    <3> QED
      BY <1>4, <1>9, <2>2, <2>3, <2>4, <2>5, ZenonT(60)
  <2> QED
    BY <2>6 DEF SignaturesFollowChain
<1>14. \A i \in Users(body) : body[i] \notin confirmed_signatures
  BY <1>2 DEF ValidBody, PreValid
<1>15. \A i, j \in Users(body) : body[i] = body[j] => i = j
  <2>1. \A i, j \in Users(body) : j < i => body[j] # body[i]
    BY <1>2 DEF ValidBody, PreValid
  <2>2. \A i, j \in Users(body) : i = j \/ i < j \/ j < i
    BY <1>6
  <2> QED
    BY <2>1, <2>2
<1>16. ASSUME NEW p \in Positions', NEW q \in Positions', chain'[p[1]][p[2]] = chain'[q[1]][q[2]]
       PROVE  p = q
  <2> DEFINE t == chain'[p[1]][p[2]]
  <2>1. \A x \in Positions : chain[x[1]][x[2]] \in confirmed_signatures
    BY DEF ReplayInv, SignaturesFollowChain
  <2>2. CASE p \in Positions /\ q \in Positions
    BY <1>10, <1>16, <2>2 DEF ReplayInv, NoReplay
  <2>3. CASE p \in Positions /\ q \in Fresh
    BY <1>10, <1>11, <1>14, <1>16, <2>1, <2>3
  <2>4. CASE p \in Fresh /\ q \in Positions
    BY <1>10, <1>11, <1>14, <1>16, <2>1, <2>4
  <2>5. CASE p \in Fresh /\ q \in Fresh
    <3>1. p[1] = q[1] /\ p[2] = q[2]
      BY <1>11, <1>15, <1>16, <2>5
    <3>2. p = <<p[1], p[2]>> /\ q = <<q[1], q[2]>>
      BY <2>5
    <3> QED
      BY <3>1, <3>2
  <2> QED
    BY <1>9, <2>2, <2>3, <2>4, <2>5
<1>17. NoReplay'
  BY <1>16 DEF NoReplay
<1> QED
  BY <1>13, <1>17

\* A signature is confirmed at most once, whatever blocks are offered.
THEOREM ConfirmedOnce == Spec => []NoReplay
<1>1. Init => ReplayInv
  <2> SUFFICES ASSUME Init PROVE ReplayInv
    OBVIOUS
  <2>1. 1 .. Len(chain) = {} /\ confirmed_signatures = {}
    BY DEF Init
  <2>2. Positions = {}
    BY <2>1 DEF Positions
  <2> QED
    BY <2>1, <2>2, MoneyInit DEF ReplayInv, SignaturesFollowChain, NoReplay
<1>2. ASSUME ReplayInv, [Next]_vars PROVE ReplayInv'
  <2>1. ASSUME NEW body \in Bodies, UpdateState(body) PROVE ReplayInv'
    BY <1>2, <2>1, MoneyStep, ReplayStep DEF ReplayInv
  <2>2. CASE UNCHANGED vars
    BY <1>2, <2>2, MoneyStutter
      DEF ReplayInv, vars, SignaturesFollowChain, NoReplay, Positions
  <2> QED
    BY <1>2, <2>1, <2>2 DEF Next
<1>3. ReplayInv => NoReplay
  BY DEF ReplayInv
<1> QED
  BY <1>1, <1>2, <1>3, PTL DEF Spec

-----------------------------------------------------------------------------
\* The sum of f over a set of positions.
PartSum(f, P) == SumOf(0, [j \in P |-> f[j]])

\* P and f go on as R and g at position n + 1.
GoesOn(f, P, g, R, n) == Agree(f, g, 1 .. n) /\ R \cap (1 .. n) = P

\* The sum grows by the value at position m, if R holds it.
Grows(f, P, g, R, m) ==
    /\ PartSum(f, P) \in Nat
    /\ PartSum(g, R) = PartSum(f, P) + (IF m \in R THEN g[m] ELSE 0)

LEMMA PartSumGoesOn ==
    ASSUME NEW n \in Nat, NEW m, m = n + 1, NEW P \in SUBSET (1 .. n), NEW R \in SUBSET (1 .. m),
           NEW f \in [1 .. n -> Nat], NEW g \in [1 .. m -> Nat], GoesOn(f, P, g, R, n)
    PROVE  Grows(f, P, g, R, m)
<1>1. m \in Nat /\ m \in 1 .. m /\ m - 1 = n /\ n \in 0 .. m
  OBVIOUS
<1>3. Accumulates(g, R, m)
  BY <1>1, UpToFacts
<1>4. /\ UpTo(g, R, n) \in Nat /\ PartSum(g, R) = UpTo(g, R, m)
      /\ UpTo(g, R, m) = UpTo(g, R, n) + (IF m \in R THEN g[m] ELSE 0)
  BY <1>1, <1>3 DEF Accumulates, PartSum
<1>5. UpTo(g, R, n) = PartSum(f, P)
  <2>1. {p \in R : p <= n} = P
    <3>1. \A p \in R : p <= n <=> p \in 1 .. n
      OBVIOUS
    <3> QED
      BY <3>1 DEF GoesOn
  <2>2. [j \in P |-> g[j]] = [j \in P |-> f[j]]
    BY DEF GoesOn, Agree
  <2> QED
    BY <2>1, <2>2 DEF UpTo, PartSum
<1> QED
  BY <1>4, <1>5 DEF Grows

\* The sum over no position.
LEMMA NoPartSum == \A f : PartSum(f, {}) = 0
<1> SUFFICES ASSUME NEW f PROVE PartSum(f, {}) = 0
  OBVIOUS
<1> DEFINE e == [j \in {} |-> f[j]]
           z == 0
<1>1. e \in [{} -> Int] /\ z \in Int
  OBVIOUS
<1> HIDE DEF e, z
<1>2. SumOf(z, e) = z
  BY <1>1, SumEmpty
<1> QED
  BY <1>2 DEF e, z, PartSum

\* What the recorded payouts of a block paid to an address.
Prizes(paid) == [i \in 1 .. Len(paid) |-> paid[i].amount]
Winnings(paid, a) == {i \in 1 .. Len(paid) : paid[i].receiver = a}
WonIn(paid, a) == PartSum(Prizes(paid), Winnings(paid, a))

LEMMA WonInEmpty == \A a : WonIn(<<>>, a) = 0
<1>1. \A a : Winnings(<<>>, a) = {}
  BY DEF Winnings
<1> QED
  BY <1>1, NoPartSum DEF WonIn

LEMMA WonInAppend ==
    ASSUME NEW paid \in Seq(Payments), NEW one \in Payments, NEW a \in Addresses
    PROVE  /\ WonIn(paid, a) \in Nat
           /\ WonIn(Append(paid, one), a) = WonIn(paid, a) + (IF one.receiver = a THEN one.amount ELSE 0)
<1> DEFINE n == Len(paid)
           m == n + 1
           more == Append(paid, one)
           f == Prizes(paid)
           g == Prizes(more)
           P == Winnings(paid, a)
           R == Winnings(more, a)
<1>1. /\ n \in Nat /\ Len(more) = n + 1 /\ more[n + 1] = one
      /\ \A i \in 1 .. n : more[i] = paid[i] /\ paid[i] \in Payments
      /\ \A i \in 1 .. n + 1 : more[i] \in Payments
  OBVIOUS
<1> HIDE DEF more, n
<1>2. /\ f \in [1 .. n -> Nat] /\ g \in [1 .. n + 1 -> Nat]
      /\ P \in SUBSET (1 .. n) /\ R \in SUBSET (1 .. n + 1)
  BY <1>1 DEF Payments, Prizes, Winnings, n
<1>3. n + 1 \in 1 .. n + 1 /\ \A i \in 1 .. n : i \in 1 .. n + 1
  BY <1>1
<1>4. GoesOn(f, P, g, R, n)
  <2>1. \A i \in 1 .. n : f[i] = g[i]
    BY <1>1, <1>3 DEF Prizes, n
  <2>2. R \cap (1 .. n) = P
    BY <1>1, <1>3 DEF Winnings, n
  <2> QED
    BY <2>1, <2>2 DEF GoesOn, Agree
<1>5. /\ n + 1 \in R <=> one.receiver = a
      /\ g[n + 1] = one.amount
  BY <1>1, <1>3 DEF Prizes, Winnings
<1>6. Grows(f, P, g, R, m)
  <2>1. m = n + 1 /\ R \in SUBSET (1 .. m) /\ g \in [1 .. m -> Nat]
    BY <1>2
  <2> HIDE DEF f, g, P, R, m
  <2> QED
    BY <1>1, <1>2, <1>4, <2>1, PartSumGoesOn
<1> HIDE DEF f, g, P, R
<1> QED
  BY <1>5, <1>6 DEF WonIn, f, g, P, R, more, Grows

\* Settling a ticket credits what it records as paid.
LEMMA SettlePays ==
    ASSUME NEW s \in Monies, NEW t \in Tickets, NEW tier \in DOMAIN Divisor, Total(s) <= U64Max,
           NEW a \in Addresses
    PROVE  Settle(s, t, tier).bal[a] - WonIn(Settle(s, t, tier).paid, a) = s.bal[a] - WonIn(s.paid, a)
<1> DEFINE r == Reward(s.pot, tier)
           p == IF r < s.pot THEN r ELSE s.pot
           bal == Credit(s.bal, t.miner, p)
           one == [receiver |-> t.miner, amount |-> p]
           more == Append(s.paid, one)
           new == [s EXCEPT !.bal = bal, !.pot = @ - p, !.paid = more]
<1>1. /\ s.bal \in [Addresses -> Nat] /\ s.pot \in Nat /\ s.paid \in Seq(Payments)
      /\ t.miner \in Addresses
  BY DEF Monies, Tickets
<1>2. r \in Nat
  <2>1. Divisor[tier] \in Nat
    BY LedgerAssumption
  <2>2. \A x \in Nat, d \in Nat : d # 0 => x \div d \in Nat
    OBVIOUS
  <2> QED
    BY <1>1, <2>1, <2>2 DEF Reward
<1>3. p \in Nat /\ p <= s.pot
  BY <1>1, <1>2
<1>4. Settle(s, t, tier) = IF p = 0 THEN s ELSE new
  BY DEF Settle
<1> HIDE DEF r, p
<1>5. one \in Payments /\ one.receiver = t.miner /\ one.amount = p
  BY <1>1, <1>3 DEF Payments
<1>6. WonIn(s.paid, a) \in Nat /\ WonIn(more, a) = WonIn(s.paid, a) + (IF t.miner = a THEN p ELSE 0)
  <2> HIDE DEF one
  <2> QED
    BY <1>1, <1>5, WonInAppend
<1>7. bal[a] = s.bal[a] + (IF t.miner = a THEN p ELSE 0)
  <2>1. /\ SumOf(s.pot, s.bal) \in Nat /\ s.bal[t.miner] \in Nat /\ s.bal[a] \in Nat
        /\ s.pot + s.bal[t.miner] <= SumOf(s.pot, s.bal)
    BY <1>1, AccountBound
  <2>2. s.bal[t.miner] + p <= U64Max
    BY <1>1, <1>3, <2>1, LedgerAssumption, SMTT(30) DEF Total
  <2>3. bal[t.miner] = s.bal[t.miner] + p /\ \A x \in Addresses : x # t.miner => bal[x] = s.bal[x]
    <3>1. Credited(bal, s.bal, t.miner, p)
      BY <1>1, <1>3, <2>2, CreditFacts
    <3> HIDE DEF bal
    <3> QED
      BY <3>1 DEF Credited
  <2> HIDE DEF bal
  <2> QED
    BY <1>3, <2>1, <2>3
<1>8. new.bal = bal /\ new.paid = more
  <2> HIDE DEF bal, more
  <2> QED
    BY DEF Monies
<1>9. s.bal[a] \in Nat
  BY <1>1
<1> HIDE DEF bal, more, new, one
<1> QED
  BY <1>3, <1>4, <1>6, <1>7, <1>8, <1>9

\* Settling all maturing tickets credits what the block records as paid.
LEMMA SettledPays ==
    ASSUME NEW s \in Monies, Total(s) <= U64Max, NEW tickets \in Seq(Tickets),
           NEW tiers \in [DOMAIN tickets -> DOMAIN Divisor], NEW a \in Addresses
    PROVE  SettleAll(s, tickets, tiers).bal[a] - WonIn(SettleAll(s, tickets, tiers).paid, a)
             = s.bal[a] - WonIn(s.paid, a)
<1> DEFINE n == Len(tickets)
           Same(m) == Total(m) = Total(s) /\ m.bal[a] - WonIn(m.paid, a) = s.bal[a] - WonIn(s.paid, a)
<1>1. PICK h \in [0 .. n -> Monies] :
          /\ h[0] = s /\ h[n] = SettleAll(s, tickets, tiers)
          /\ \A i \in 1 .. n : h[i] = Settle(h[i - 1], tickets[i], tiers[i])
  BY SettleFacts, SettleRun
<1> DEFINE Q == {i \in Nat : i <= n => Same(h[i])}
<1>2. n \in Nat
  OBVIOUS
<1>3. 0 \in Q
  BY <1>1
<1>4. ASSUME NEW i \in Nat, i \in Q PROVE i + 1 \in Q
  <2>1. SUFFICES ASSUME i + 1 <= n PROVE Same(h[i + 1])
    OBVIOUS
  <2>2. i + 1 \in 1 .. n /\ i \in 0 .. n /\ i + 1 \in 0 .. n /\ (i + 1) - 1 = i
    BY <1>2, <2>1
  <2>3. /\ Same(h[i]) /\ h[i] \in Monies
        /\ tickets[i + 1] \in Tickets /\ tiers[i + 1] \in DOMAIN Divisor
    BY <1>1, <1>4, <2>2
  <2>4. h[i + 1] = Settle(h[i], tickets[i + 1], tiers[i + 1])
    BY <1>1, <2>2
  <2>5. Total(h[i + 1]) = Total(h[i])
    BY <2>3, <2>4, SettleFacts
  <2> DEFINE m == h[i]
             t == tickets[i + 1]
             tier == tiers[i + 1]
  <2>6. Settle(m, t, tier).bal[a] - WonIn(Settle(m, t, tier).paid, a) = m.bal[a] - WonIn(m.paid, a)
    <3>1. m \in Monies /\ t \in Tickets /\ tier \in DOMAIN Divisor /\ Total(m) <= U64Max
      BY <2>3
    <3> HIDE DEF m, t, tier
    <3> QED
      BY <3>1, SettlePays
  <2> QED
    BY <2>3, <2>4, <2>5, <2>6
<1>5. n \in Q
  <2> HIDE DEF Q
  <2> QED
    BY <1>2, <1>3, <1>4, NatSetInduction
<1> QED
  BY <1>1, <1>2, <1>5

-----------------------------------------------------------------------------
\* The trail, block by block: what an address received, sent, got as its share of
\* the fees and won.
ReceivedIn(body, a) == PartSum(Amounts(body), To(body, a))
SentIn(body, a) == PartSum(Costs(body), From(body, a))
ReceivedBy(c, a) == [h \in 1 .. Len(c) |-> ReceivedIn(c[h], a)]
SentBy(c, a) == [h \in 1 .. Len(c) |-> SentIn(c[h], a)]
HalfFees(c) == [h \in 1 .. Len(c) |-> Fees(c[h]) \div 2]
MinedBy(c, a) == {h \in 1 .. Len(c) : HasMiner(c[h]) /\ c[h][1].receiver = a}
WonBy(w, a) == [h \in 1 .. Len(w) |-> WonIn(w[h], a)]

Books(bal, c, w) == \A a \in Addresses :
    bal[a] = GenesisBalance[a] + PartSum(ReceivedBy(c, a), 1 .. Len(c))
                - PartSum(SentBy(c, a), 1 .. Len(c))
                + PartSum(HalfFees(c), MinedBy(c, a))
                + PartSum(WonBy(w, a), 1 .. Len(w))

\* The right-hand side of BooksMatchTrail.
RawBooks(bal, c, w) == \A a \in Addresses :
    bal[a] = GenesisBalance[a]
      + SumOf(0, [h \in DOMAIN c |->
            SumOf(0, [i \in {i \in DOMAIN c[h] : c[h][i].receiver = a} |-> c[h][i].amount])])
      - SumOf(0, [h \in DOMAIN c |->
            SumOf(0, [i \in {i \in DOMAIN c[h] : c[h][i].sender = a} |-> c[h][i].amount + c[h][i].fee])])
      + SumOf(0, [h \in {h \in DOMAIN c : HasMiner(c[h]) /\ c[h][1].receiver = a} |-> Fees(c[h]) \div 2])
      + SumOf(0, [h \in DOMAIN w |->
            SumOf(0, [i \in {i \in DOMAIN w[h] : w[h][i].receiver = a} |-> w[h][i].amount])])

LEMMA BooksForm ==
    ASSUME NEW bal, NEW c \in Seq(Seq(Transactions)), NEW w \in Seq(Seq(Payments))
    PROVE  RawBooks(bal, c, w) <=> Books(bal, c, w)
<1>1. /\ DOMAIN c = 1 .. Len(c) /\ DOMAIN w = 1 .. Len(w)
      /\ \A h \in DOMAIN c : DOMAIN c[h] = 1 .. Len(c[h])
      /\ \A h \in DOMAIN w : DOMAIN w[h] = 1 .. Len(w[h])
  OBVIOUS
<1> SUFFICES ASSUME NEW a \in Addresses
             PROVE  /\ [h \in DOMAIN c |->
                         SumOf(0, [i \in {i \in DOMAIN c[h] : c[h][i].receiver = a} |-> c[h][i].amount])]
                         = [h \in 1 .. Len(c) |-> ReceivedBy(c, a)[h]]
                    /\ [h \in DOMAIN c |->
                         SumOf(0, [i \in {i \in DOMAIN c[h] : c[h][i].sender = a} |->
                                     c[h][i].amount + c[h][i].fee])]
                         = [h \in 1 .. Len(c) |-> SentBy(c, a)[h]]
                    /\ [h \in {h \in DOMAIN c : HasMiner(c[h]) /\ c[h][1].receiver = a} |-> Fees(c[h]) \div 2]
                         = [h \in MinedBy(c, a) |-> HalfFees(c)[h]]
                    /\ [h \in DOMAIN w |->
                         SumOf(0, [i \in {i \in DOMAIN w[h] : w[h][i].receiver = a} |-> w[h][i].amount])]
                         = [h \in 1 .. Len(w) |-> WonBy(w, a)[h]]
  BY Zenon DEF RawBooks, Books, PartSum
<1>2. ASSUME NEW h \in 1 .. Len(c)
      PROVE  /\ SumOf(0, [i \in {i \in DOMAIN c[h] : c[h][i].receiver = a} |-> c[h][i].amount])
                  = ReceivedIn(c[h], a)
             /\ SumOf(0, [i \in {i \in DOMAIN c[h] : c[h][i].sender = a} |-> c[h][i].amount + c[h][i].fee])
                  = SentIn(c[h], a)
  <2>1. DOMAIN c[h] = 1 .. Len(c[h])
    BY <1>1
  <2>2. [i \in {i \in DOMAIN c[h] : c[h][i].receiver = a} |-> c[h][i].amount]
          = [i \in To(c[h], a) |-> Amounts(c[h])[i]]
    BY <2>1 DEF To, Amounts
  <2>3. [i \in {i \in DOMAIN c[h] : c[h][i].sender = a} |-> c[h][i].amount + c[h][i].fee]
          = [i \in From(c[h], a) |-> Costs(c[h])[i]]
    BY <2>1 DEF From, Costs
  <2> QED
    BY <2>2, <2>3 DEF ReceivedIn, SentIn, PartSum
<1>3. ASSUME NEW h \in 1 .. Len(w)
      PROVE  SumOf(0, [i \in {i \in DOMAIN w[h] : w[h][i].receiver = a} |-> w[h][i].amount]) = WonIn(w[h], a)
  <2>1. DOMAIN w[h] = 1 .. Len(w[h])
    BY <1>1
  <2>2. [i \in {i \in DOMAIN w[h] : w[h][i].receiver = a} |-> w[h][i].amount]
          = [i \in Winnings(w[h], a) |-> Prizes(w[h])[i]]
    BY <2>1 DEF Winnings, Prizes
  <2> QED
    BY <2>2 DEF WonIn, PartSum
<1> QED
  BY <1>1, <1>2, <1>3 DEF ReceivedBy, SentBy, HalfFees, MinedBy, WonBy

\* The values summed are naturals.
LEMMA TrailTypes ==
    ASSUME NEW a \in Addresses
    PROVE  /\ \A body \in Seq(Transactions) :
                ReceivedIn(body, a) \in Nat /\ SentIn(body, a) \in Nat /\ Fees(body) \div 2 \in Nat
           /\ \A paid \in Seq(Payments) : WonIn(paid, a) \in Nat
<1>1. ASSUME NEW body \in Seq(Transactions)
      PROVE  ReceivedIn(body, a) \in Nat /\ SentIn(body, a) \in Nat /\ Fees(body) \div 2 \in Nat
  <2> DEFINE n == Len(body)
             f == Amounts(body)
             g == Costs(body)
             P == To(body, a)
             R == From(body, a)
  <2>1. n \in Nat /\ n \in 0 .. n /\ f \in [1 .. n -> Nat] /\ g \in [1 .. n -> Nat]
        /\ P \in SUBSET (1 .. n) /\ R \in SUBSET (1 .. n)
    BY BodySums
  <2>2. Fees(body) \in Nat
    BY FeesSum
  <2> HIDE DEF n, f, g, P, R
  <2>3. Accumulates(f, P, n) /\ Accumulates(g, R, n)
    BY <2>1, UpToFacts
  <2>4. PartSum(f, P) \in Nat /\ PartSum(g, R) \in Nat
    BY <2>1, <2>3 DEF Accumulates, PartSum
  <2>5. Fees(body) \div 2 \in Nat
    BY <2>2
  <2> QED
    BY <2>4, <2>5 DEF ReceivedIn, SentIn, f, g, P, R
<1>2. ASSUME NEW paid \in Seq(Payments) PROVE WonIn(paid, a) \in Nat
  <2>1. [receiver |-> a, amount |-> 0] \in Payments
    BY DEF Payments
  <2> QED
    BY <2>1, WonInAppend
<1> QED
  BY <1>1, <1>2

\* A sum over all positions, one more.
LEMMA FullSumGoesOn ==
    ASSUME NEW n \in Nat, NEW m, m = n + 1,
           NEW f \in [1 .. n -> Nat], NEW g \in [1 .. m -> Nat], Agree(f, g, 1 .. n)
    PROVE  Grows(f, 1 .. n, g, 1 .. m, m) /\ m \in 1 .. m
<1> DEFINE P == 1 .. n
           R == 1 .. m
<1>1. P \in SUBSET (1 .. n) /\ R \in SUBSET (1 .. m) /\ R \cap (1 .. n) = P /\ m \in R
  OBVIOUS
<1>2. GoesOn(f, P, g, R, n)
  BY <1>1 DEF GoesOn
<1> HIDE DEF P, R
<1>3. Grows(f, P, g, R, m)
  BY <1>1, <1>2, PartSumGoesOn
<1> QED
  BY <1>1, <1>3 DEF P, R

\* One more block adds its entries to the trail.
LEMMA TrailGoesOn ==
    ASSUME NEW c \in Seq(Seq(Transactions)), NEW body \in Seq(Transactions),
           NEW w \in Seq(Seq(Payments)), NEW paid \in Seq(Payments), NEW a \in Addresses
    PROVE  /\ Grows(ReceivedBy(c, a), 1 .. Len(c), ReceivedBy(Append(c, body), a),
                    1 .. Len(Append(c, body)), Len(c) + 1)
           /\ Grows(SentBy(c, a), 1 .. Len(c), SentBy(Append(c, body), a),
                    1 .. Len(Append(c, body)), Len(c) + 1)
           /\ Grows(HalfFees(c), MinedBy(c, a), HalfFees(Append(c, body)),
                    MinedBy(Append(c, body), a), Len(c) + 1)
           /\ Grows(WonBy(w, a), 1 .. Len(w), WonBy(Append(w, paid), a),
                    1 .. Len(Append(w, paid)), Len(w) + 1)
<1> DEFINE n == Len(c)
           m == n + 1
           d == Append(c, body)
<1>1. /\ n \in Nat /\ m = n + 1 /\ Len(d) = m /\ d[m] = body
      /\ \A h \in 1 .. n : d[h] = c[h] /\ c[h] \in Seq(Transactions)
      /\ \A h \in 1 .. m : d[h] \in Seq(Transactions)
      /\ 1 .. n \subseteq 1 .. m
  OBVIOUS
<1> HIDE DEF m, d
<1>2. Grows(ReceivedBy(c, a), 1 .. n, ReceivedBy(d, a), 1 .. m, m)
  <2> DEFINE f == ReceivedBy(c, a)
             g == ReceivedBy(d, a)
  <2>1. f \in [1 .. n -> Nat] /\ g \in [1 .. m -> Nat]
    BY <1>1, TrailTypes DEF ReceivedBy
  <2>2. Agree(f, g, 1 .. n)
    BY <1>1 DEF ReceivedBy, Agree
  <2> HIDE DEF f, g, n
  <2>3. Grows(f, 1 .. n, g, 1 .. m, m)
    BY <1>1, <2>1, <2>2, FullSumGoesOn
  <2> QED
    BY <2>3 DEF f, g
<1>3. Grows(SentBy(c, a), 1 .. n, SentBy(d, a), 1 .. m, m)
  <2> DEFINE f == SentBy(c, a)
             g == SentBy(d, a)
  <2>1. f \in [1 .. n -> Nat] /\ g \in [1 .. m -> Nat]
    BY <1>1, TrailTypes DEF SentBy
  <2>2. Agree(f, g, 1 .. n)
    BY <1>1 DEF SentBy, Agree
  <2> HIDE DEF f, g, n
  <2>3. Grows(f, 1 .. n, g, 1 .. m, m)
    BY <1>1, <2>1, <2>2, FullSumGoesOn
  <2> QED
    BY <2>3 DEF f, g
<1>4. Grows(HalfFees(c), MinedBy(c, a), HalfFees(d), MinedBy(d, a), m)
  <2> DEFINE f == HalfFees(c)
             g == HalfFees(d)
             P == MinedBy(c, a)
             R == MinedBy(d, a)
  <2>1. f \in [1 .. n -> Nat] /\ g \in [1 .. m -> Nat]
    BY <1>1, TrailTypes DEF HalfFees
  <2>2. P \in SUBSET (1 .. n) /\ R \in SUBSET (1 .. m)
    BY <1>1 DEF MinedBy
  <2>3. \A h \in 1 .. n : f[h] = g[h]
    BY <1>1 DEF HalfFees
  <2>4. R \cap (1 .. n) = P
    BY <1>1 DEF MinedBy
  <2>5. GoesOn(f, P, g, R, n)
    BY <2>3, <2>4 DEF GoesOn, Agree
  <2> HIDE DEF f, g, P, R, n
  <2>6. Grows(f, P, g, R, m)
    BY <1>1, <2>1, <2>2, <2>5, PartSumGoesOn
  <2> QED
    BY <2>6 DEF f, g, P, R
<1>5. Grows(WonBy(w, a), 1 .. Len(w), WonBy(Append(w, paid), a), 1 .. Len(Append(w, paid)), Len(w) + 1)
  <2> DEFINE k == Len(w)
             l == k + 1
             v == Append(w, paid)
             f == WonBy(w, a)
             g == WonBy(v, a)
  <2>1. /\ k \in Nat /\ l = k + 1 /\ Len(v) = l
        /\ \A h \in 1 .. k : v[h] = w[h] /\ w[h] \in Seq(Payments)
        /\ \A h \in 1 .. l : v[h] \in Seq(Payments)
        /\ 1 .. k \subseteq 1 .. l
    OBVIOUS
  <2> HIDE DEF v, l
  <2>2. f \in [1 .. k -> Nat] /\ g \in [1 .. l -> Nat]
    BY <2>1, TrailTypes DEF WonBy
  <2>3. Agree(f, g, 1 .. k)
    BY <2>1 DEF WonBy, Agree
  <2> HIDE DEF f, g, k
  <2>4. Grows(f, 1 .. k, g, 1 .. l, l)
    BY <2>1, <2>2, <2>3, FullSumGoesOn
  <2> QED
    BY <2>1, <2>4 DEF f, g, k, l, v
<1> QED
  BY <1>1, <1>2, <1>3, <1>4, <1>5 DEF d, m

PayoutShape == payouts \in Seq(Seq(Payments))

BooksInv == MoneyInv /\ PayoutShape /\ Books(balances, chain, payouts)

\* What an accepted block moves is what it adds to the trail.
LEMMA BooksStep ==
    ASSUME BooksInv, NEW body \in Bodies, UpdateState(body)
    PROVE  PayoutShape' /\ Books(balances, chain, payouts)'
<1>0. PICK tiers \in [DOMAIN ToSettle -> DOMAIN Divisor] :
        \E final : Accepted(body, SettleAll(State, ToSettle, tiers), final)
  BY StepFacts DEF BooksInv
<1>1. PICK final : Accepted(body, SettleAll(State, ToSettle, tiers), final)
  BY <1>0
<1> DEFINE settled == SettleAll(State, ToSettle, tiers)
           paid == settled.paid
           d == Append(chain, body)
           v == Append(payouts, paid)
           n == Len(chain)
           m == n + 1
           k == Len(payouts)
           l == k + 1
<1>2. body \in Seq(Transactions) /\ Len(chain) < MaxHeight
  BY OfferedBodies, StepFacts DEF BooksInv
<1> HIDE DEF settled
<1>3. /\ settled \in Monies /\ chain' = d /\ payouts' = v /\ balances' = final.bal
      /\ Outcome(body, settled, final)
  BY <1>1 DEF Accepted, Outcome, settled
<1>4. paid \in Seq(Payments) /\ v \in Seq(Seq(Payments)) /\ chain \in Seq(Seq(Transactions))
      /\ payouts \in Seq(Seq(Payments))
  <2>1. paid \in Seq(Payments)
    BY <1>3 DEF Monies
  <2>2. payouts \in Seq(Seq(Payments)) /\ chain \in Seq(Seq(Transactions))
    BY DEF BooksInv, PayoutShape, MoneyInv, BodyShape
  <2> HIDE DEF paid
  <2> QED
    BY <2>1, <2>2
<1>5. PayoutShape'
  BY <1>3, <1>4 DEF PayoutShape
<1>6. /\ n \in Nat /\ Len(d) = m /\ d[m] = body /\ m \in 1 .. m
      /\ k \in Nat /\ Len(v) = l /\ v[l] = paid /\ l \in 1 .. l
  <2> HIDE DEF paid
  <2> QED
    BY <1>2, <1>4
<1>7. ASSUME NEW a \in Addresses
      PROVE  final.bal[a] = GenesisBalance[a] + PartSum(ReceivedBy(d, a), 1 .. Len(d))
                - PartSum(SentBy(d, a), 1 .. Len(d))
                + PartSum(HalfFees(d), MinedBy(d, a))
                + PartSum(WonBy(v, a), 1 .. Len(v))
  <2> DEFINE r0 == PartSum(ReceivedBy(chain, a), 1 .. n)
             s0 == PartSum(SentBy(chain, a), 1 .. n)
             f0 == PartSum(HalfFees(chain), MinedBy(chain, a))
             w0 == PartSum(WonBy(payouts, a), 1 .. k)
             r1 == PartSum(ReceivedBy(d, a), 1 .. Len(d))
             s1 == PartSum(SentBy(d, a), 1 .. Len(d))
             f1 == PartSum(HalfFees(d), MinedBy(d, a))
             w1 == PartSum(WonBy(v, a), 1 .. Len(v))
             r == ReceivedIn(body, a)
             s == SentIn(body, a)
             f == IF HasMiner(body) /\ body[1].receiver = a THEN Fees(body) \div 2 ELSE 0
             w == WonIn(paid, a)
  <2>1. Grows(ReceivedBy(chain, a), 1 .. n, ReceivedBy(d, a), 1 .. Len(d), m)
        /\ Grows(SentBy(chain, a), 1 .. n, SentBy(d, a), 1 .. Len(d), m)
        /\ Grows(HalfFees(chain), MinedBy(chain, a), HalfFees(d), MinedBy(d, a), m)
        /\ Grows(WonBy(payouts, a), 1 .. k, WonBy(v, a), 1 .. Len(v), l)
    <3> HIDE DEF paid
    <3> QED
      BY <1>2, <1>4, TrailGoesOn
  <2>2. /\ ReceivedBy(d, a)[m] = r /\ SentBy(d, a)[m] = s /\ HalfFees(d)[m] = Fees(body) \div 2
        /\ WonBy(v, a)[l] = w
    <3> HIDE DEF d, v, paid, m, l
    <3> QED
      BY <1>6 DEF ReceivedBy, SentBy, HalfFees, WonBy
  <2>3. m \in MinedBy(d, a) <=> HasMiner(body) /\ body[1].receiver = a
    <3> HIDE DEF d, m
    <3> QED
      BY <1>6 DEF MinedBy
  <2>4. r1 = r0 + r /\ s1 = s0 + s /\ w1 = w0 + w
        /\ r0 \in Nat /\ s0 \in Nat /\ w0 \in Nat
    <3> HIDE DEF d, v, paid, m, l, r, s, w
    <3> QED
      BY <1>6, <2>1, <2>2 DEF Grows
  <2>5. f1 = f0 + f /\ f0 \in Nat
    <3> HIDE DEF d, m
    <3> QED
      BY <2>1, <2>2, <2>3 DEF Grows
  <2>6. r \in Nat /\ s \in Nat /\ f \in Nat /\ w \in Nat
    <3> HIDE DEF paid
    <3> QED
      BY <1>2, <1>4, TrailTypes
  <2>7. balances[a] = GenesisBalance[a] + r0 - s0 + f0 + w0
    BY DEF BooksInv, Books
  <2>8. final.bal[a] = settled.bal[a] - s + r + f
    <3>1. UpTo(Costs(body), From(body, a), Len(body)) = s
          /\ UpTo(Amounts(body), To(body, a), Len(body)) = r
      <4> DEFINE j == Len(body)
                 A == Amounts(body)
                 C == Costs(body)
                 P == To(body, a)
                 R == From(body, a)
      <4>1. j \in Nat /\ A \in [1 .. j -> Nat] /\ C \in [1 .. j -> Nat]
            /\ P \in SUBSET (1 .. j) /\ R \in SUBSET (1 .. j)
        BY <1>2, BodySums
      <4> HIDE DEF j, A, C, P, R
      <4>2. Accumulates(A, P, j) /\ Accumulates(C, R, j)
        BY <4>1, UpToFacts
      <4>3. UpTo(C, R, j) = PartSum(C, R) /\ UpTo(A, P, j) = PartSum(A, P)
        BY <4>2 DEF Accumulates, PartSum
      <4> QED
        BY <4>3 DEF j, A, C, P, R, ReceivedIn, SentIn
    <3> HIDE DEF r, s
    <3> QED
      BY <1>3, <3>1 DEF Outcome
  <2>9. settled.bal[a] = balances[a] + w
    <3>1. /\ State \in Monies /\ State.bal = balances /\ State.paid = <<>>
          /\ ToSettle \in Seq(Tickets)
      <4>1. State \in Monies
        BY DEF State, BooksInv, MoneyInv, StateOK, Monies
      <4> QED
        BY <4>1, ApartType DEF State, BooksInv, MoneyInv, StateOK
    <3>2. Total(State) <= U64Max
      <4>1. Total(State) \in Nat /\ Total(State) + 1 <= U64Max /\ U64Max \in Nat
        BY <1>2, SupplyFits, LedgerAssumption DEF BooksInv
      <4> QED
        BY <4>1
    <3>3. settled.bal[a] - w = State.bal[a] - WonIn(State.paid, a)
      BY <3>1, <3>2, SettledPays DEF settled
    <3>4. settled.bal[a] \in Nat /\ State.bal[a] \in Nat
      BY <1>3, <3>1 DEF Monies
    <3>5. WonIn(State.paid, a) = 0
      BY <3>1, WonInEmpty
    <3> HIDE DEF w
    <3> QED
      BY <2>6, <3>1, <3>3, <3>4, <3>5
  <2>10. GenesisBalance[a] \in Nat
    BY LedgerAssumption
  <2> HIDE DEF r0, s0, f0, w0, r1, s1, f1, w1, r, s, f, w
  <2>11. final.bal[a] = GenesisBalance[a] + r1 - s1 + f1 + w1
    BY <2>4, <2>5, <2>6, <2>7, <2>8, <2>9, <2>10
  <2> QED
    BY <2>11 DEF r1, s1, f1, w1
<1>8. Books(final.bal, d, v)
  <2> HIDE DEF d, v
  <2> QED
    BY <1>7 DEF Books
<1> HIDE DEF d, v
<1> QED
  BY <1>3, <1>5, <1>8

\* Every balance is what the genesis block, the transactions of the chain, the
\* fee shares of its miners and the recorded payouts add up to.
THEOREM BooksBalance == Spec => []BooksMatchTrail
<1>1. Init => BooksInv
  <2> SUFFICES ASSUME Init PROVE BooksInv
    OBVIOUS
  <2>1. chain = <<>> /\ payouts = <<>> /\ balances = GenesisBalance
    BY DEF Init
  <2>2. payouts \in Seq(Seq(Payments)) /\ 1 .. Len(<<>>) = {}
    BY <2>1
  <2>3. \A a \in Addresses : GenesisBalance[a] \in Nat /\ MinedBy(<<>>, a) = {}
    BY <2>2, LedgerAssumption DEF MinedBy
  <2>4. \A x \in Nat : x = x + 0 - 0 + 0 + 0
    OBVIOUS
  <2>5. Books(GenesisBalance, <<>>, <<>>)
    BY <2>2, <2>3, <2>4, NoPartSum DEF Books
  <2> QED
    BY <2>1, <2>2, <2>5, MoneyInit DEF BooksInv, PayoutShape
<1>2. ASSUME BooksInv, [Next]_vars PROVE BooksInv'
  <2>1. ASSUME NEW body \in Bodies, UpdateState(body) PROVE BooksInv'
    BY <1>2, <2>1, MoneyStep, BooksStep DEF BooksInv
  <2>2. CASE UNCHANGED vars
    BY <1>2, <2>2, MoneyStutter DEF BooksInv, vars, PayoutShape
  <2> QED
    BY <1>2, <2>1, <2>2 DEF Next
<1>3. BooksInv => BooksMatchTrail
  <2> SUFFICES ASSUME BooksInv PROVE BooksMatchTrail
    OBVIOUS
  <2>1. RawBooks(balances, chain, payouts)
    BY BooksForm DEF BooksInv, PayoutShape, MoneyInv, BodyShape
  <2> QED
    BY <2>1, Zenon DEF RawBooks, BooksMatchTrail, Received, Sent, Shares, Won, SumOver, SumOf
<1> QED
  BY <1>1, <1>2, <1>3, PTL DEF Spec

-----------------------------------------------------------------------------
\* The tickets of a chain that are pending at a height, block by block.
Earned(c, h) ==
    IF HasMiner(c[h]) /\ Users(c[h]) # {}
    THEN <<[miner |-> c[h][1].receiver, created_height |-> h]>>
    ELSE <<>>
Window(c, height) ==
    [h \in DOMAIN c |-> IF h + RevealBlocks >= height THEN Earned(c, h) ELSE <<>>]

LEMMA WindowType ==
    ASSUME NEW c \in Seq(Seq(Transactions)), NEW height \in Nat
    PROVE  Window(c, height) \in [1 .. Len(c) -> Seq(Tickets)]
<1>1. DOMAIN c = 1 .. Len(c) /\ \A h \in 1 .. Len(c) : c[h] \in Seq(Transactions) /\ h \in Nat
  OBVIOUS
<1>2. ASSUME NEW h \in 1 .. Len(c) PROVE Earned(c, h) \in Seq(Tickets)
  <2>1. CASE HasMiner(c[h])
    <3>1. c[h][1].receiver \in Addresses
      <4> DEFINE body == c[h]
      <4>1. body \in Seq(Transactions) /\ HasMiner(body)
        BY <1>1, <2>1
      <4> HIDE DEF body
      <4>2. 1 \in 1 .. Len(body)
        BY <4>1 DEF HasMiner
      <4>3. body[1].receiver \in Addresses
        BY <4>1, <4>2, BodySums
      <4> QED
        BY <4>3 DEF body
    <3>2. [miner |-> c[h][1].receiver, created_height |-> h] \in Tickets
      BY <1>1, <3>1 DEF Tickets
    <3> QED
      BY <3>2 DEF Earned
  <2>2. CASE ~HasMiner(c[h])
    BY <2>2 DEF Earned
  <2> QED
    BY <2>1, <2>2
<1>3. <<>> \in Seq(Tickets)
  OBVIOUS
<1> QED
  BY <1>1, <1>2, <1>3 DEF Window

TicketInv == MoneyInv /\ TicketsFollowChain

\* With a block accepted, the tickets that stay pending are those of the chain so
\* far that are pending one height on.
LEMMA StillPendingFacts ==
    ASSUME MoneyInv, pending_tickets = FlattenSeq(Window(chain, Height)),
           NEW W \in [1 .. Len(chain) -> Seq(Tickets)], W = Window(chain, Height + 1),
           NEW g, g \in [0 .. Len(chain) -> Seq(Tickets)], g[0] = <<>>,
           \A i \in 1 .. Len(chain) : g[i] = g[i - 1] \o W[i]
    PROVE  StillPending = g[Len(chain)]
<1> DEFINE n == Len(chain)
           V == Window(chain, Height)
           q == pending_tickets
<1>1. /\ chain \in Seq(Seq(Transactions)) /\ n \in Nat /\ DOMAIN chain = 1 .. n
      /\ Height = n + 1 /\ Height \in Nat /\ q \in Seq(Tickets) /\ RevealBlocks \in Nat
  BY LedgerAssumption DEF MoneyInv, BodyShape, StateOK, Height
<1>2. V \in [1 .. n -> Seq(Tickets)]
  BY <1>1, WindowType
<1> HIDE DEF V
<1>3. PICK f : FlatRun(f, Tickets, n, V)
  <2> HIDE DEF n
  <2> QED
    BY <1>1, <1>2, FlattenRun
<1>4. PICK h \in [0 .. Len(q) -> Parts] :
        /\ h[0] = [due |-> <<>>, rest |-> <<>>] /\ h[Len(q)] = Apart
        /\ \A i \in 1 .. Len(q) : h[i] = PutApart(h[i - 1], q[i])
  BY <1>1, ApartRun
<1>5. \A i \in 0 .. n : Begins(f[i], q) /\ f[i] \in Seq(Tickets)
  <2>1. f[n] = q
    BY <1>3 DEF FlatRun, V
  <2> HIDE DEF n
  <2> QED
    BY <1>1, <1>2, <1>3, <2>1, FlatPrefix DEF FlatRun
<1> DEFINE Q == {i \in Nat : i <= n => h[Len(f[i])].rest = g[i]}
<1>6. 0 \in Q
  <2>1. f[0] = <<>> /\ Len(<<>>) = 0
    BY <1>3 DEF FlatRun
  <2> QED
    BY <1>4, <2>1
<1>7. ASSUME NEW i \in Nat, i \in Q PROVE i + 1 \in Q
  <2> DEFINE j == i + 1
             k == Len(f[i])
             m == k + 1
             t == [miner |-> chain[j][1].receiver, created_height |-> j]
  <2>1. SUFFICES ASSUME j <= n PROVE h[Len(f[j])].rest = g[j]
    OBVIOUS
  <2>2. j \in 1 .. n /\ i \in 0 .. n /\ j \in 0 .. n /\ j - 1 = i /\ j \in Nat
    BY <1>1, <2>1
  <2>3. /\ h[k].rest = g[i] /\ f[j] = f[i] \o V[j] /\ g[j] = g[i] \o W[j]
        /\ f[i] \in Seq(Tickets) /\ g[i] \in Seq(Tickets) /\ k \in Nat /\ k <= Len(q)
        /\ Begins(f[j], q)
    <3>1. h[k].rest = g[i]
      BY <1>7, <2>2
    <3>2. f[j] = f[i] \o V[j] /\ g[j] = g[i] \o W[j]
      BY <1>3, <2>2 DEF FlatRun
    <3>3. f[i] \in Seq(Tickets) /\ g[i] \in Seq(Tickets) /\ Begins(f[i], q) /\ Begins(f[j], q)
      BY <1>5, <2>2
    <3>4. k \in Nat /\ k <= Len(q)
      BY <3>3 DEF Begins
    <3> QED
      BY <3>1, <3>2, <3>3, <3>4
  <2>4. /\ V[j] = IF j + RevealBlocks >= n + 1 THEN Earned(chain, j) ELSE <<>>
        /\ W[j] = IF j + RevealBlocks >= n + 2 THEN Earned(chain, j) ELSE <<>>
    <3>1. V[j] = IF j + RevealBlocks >= Height THEN Earned(chain, j) ELSE <<>>
      BY <1>1, <2>2 DEF V, Window
    <3>2. W[j] = IF j + RevealBlocks >= Height + 1 THEN Earned(chain, j) ELSE <<>>
      BY <1>1, <2>2 DEF Window
    <3> QED
      BY <1>1, <3>1, <3>2
  <2>5. CASE V[j] = <<>>
    <3>1. W[j] = <<>>
      BY <1>1, <2>2, <2>4, <2>5, SMTT(30)
    <3>2. f[i] \o <<>> = f[i] /\ g[i] \o <<>> = g[i]
      BY <2>3
    <3>3. f[j] = f[i] /\ g[j] = g[i]
      BY <2>3, <2>5, <3>1, <3>2
    <3> QED
      BY <2>3, <3>3
  <2>6. CASE V[j] # <<>>
    <3>1. V[j] = <<t>> /\ j + RevealBlocks >= n + 1 /\ Earned(chain, j) = <<t>>
      BY <2>4, <2>6 DEF Earned
    <3>2. t.created_height = j
      OBVIOUS
    <3> HIDE DEF t, j
    <3>3. f[j] = Append(f[i], t) /\ Len(f[j]) = m /\ f[j][m] = t
      BY <2>3, <3>1
    <3>4. m \in 1 .. Len(q) /\ m - 1 = k /\ q[m] = t
      <4>1. m \in 1 .. Len(f[j]) /\ m <= Len(q)
        BY <2>3, <3>3 DEF Begins
      <4>2. q[m] = f[j][m]
        BY <2>3, <4>1 DEF Begins
      <4> QED
        BY <2>3, <3>3, <4>1, <4>2
    <3>5. h[m] = PutApart(h[k], t) /\ h[k] \in Parts
      <4>1. k \in 0 .. Len(q)
        BY <2>3
      <4> HIDE DEF m, k
      <4> QED
        BY <1>4, <3>4, <4>1
    <3>6. Matures(t) <=> j + RevealBlocks = n + 1
      BY <1>1, <3>2 DEF Matures
    <3>7. CASE Matures(t)
      <4>1. h[m].rest = h[k].rest
        BY <3>5, <3>7 DEF PutApart, Parts
      <4>2. W[j] = <<>>
        BY <1>1, <2>2, <2>4, <3>6, <3>7
      <4>3. g[i] \o <<>> = g[i]
        BY <2>3
      <4> QED
        BY <2>3, <3>3, <4>1, <4>2, <4>3
    <3>8. CASE ~Matures(t)
      <4>1. h[m].rest = Append(h[k].rest, t)
        <5> DEFINE acc == h[k]
                   more == Append(acc.rest, t)
        <5>1. PutApart(acc, t) = [acc EXCEPT !.rest = more]
          BY <3>8 DEF PutApart
        <5>2. acc \in [due : Seq(Tickets), rest : Seq(Tickets)]
          BY <3>5 DEF Parts
        <5> HIDE DEF acc, more
        <5>3. [acc EXCEPT !.rest = more].rest = more
          BY <5>2
        <5> QED
          BY <3>5, <5>1, <5>3 DEF acc, more
      <4>2. W[j] = <<t>>
        <5>1. j + RevealBlocks >= n + 2
          <6>1. ~(j + RevealBlocks = n + 1)
            BY <3>6, <3>8
          <6>2. n \in Nat /\ j \in Nat /\ RevealBlocks \in Nat /\ j + RevealBlocks >= n + 1
            BY <1>1, <2>2, <3>1
          <6> HIDE DEF n
          <6> QED
            BY <6>1, <6>2
        <5> HIDE DEF n
        <5> QED
          BY <2>4, <3>1, <5>1
      <4>3. g[j] = Append(g[i], t)
        <5> DEFINE s == g[i]
        <5>1. s \in Seq(Tickets) /\ g[j] = s \o <<t>>
          BY <2>3, <4>2
        <5> HIDE DEF s
        <5>2. s \o <<t>> = Append(s, t)
          BY <5>1
        <5> QED
          BY <5>1, <5>2 DEF s
      <4> QED
        BY <2>3, <3>3, <4>1, <4>3
    <3> QED
      BY <3>7, <3>8
  <2> QED
    BY <2>5, <2>6
<1>8. n \in Q
  <2> HIDE DEF Q
  <2> QED
    BY <1>1, <1>6, <1>7, NatSetInduction
<1>9. f[n] = q
  BY <1>3 DEF FlatRun, V
<1> QED
  BY <1>1, <1>4, <1>8, <1>9 DEF StillPending

LEMMA TicketStep ==
    ASSUME TicketInv, NEW body \in Bodies, UpdateState(body)
    PROVE  TicketsFollowChain'
<1>0. PICK tiers \in [DOMAIN ToSettle -> DOMAIN Divisor] :
        \E final : Accepted(body, SettleAll(State, ToSettle, tiers), final)
  BY StepFacts DEF TicketInv
<1>1. PICK final : Accepted(body, SettleAll(State, ToSettle, tiers), final)
  BY <1>0
<1> DEFINE n == Len(chain)
           m == n + 1
           d == Append(chain, body)
           U == Window(d, n + 2)
           W == Window(chain, Height + 1)
<1>2. chain' = d /\ pending_tickets' = StillPending \o NewTicket(body)
  BY <1>1 DEF Accepted
<1>3. /\ body \in Seq(Transactions) /\ chain \in Seq(Seq(Transactions)) /\ n \in Nat
      /\ DOMAIN chain = 1 .. n /\ Height = n + 1 /\ Height \in Nat
      /\ RevealBlocks \in Nat /\ RevealBlocks >= 1
  BY OfferedBodies, LedgerAssumption DEF TicketInv, MoneyInv, BodyShape, Height
<1>4. /\ d \in Seq(Seq(Transactions)) /\ Len(d) = m /\ d[m] = body /\ DOMAIN d = 1 .. m
      /\ m \in Nat /\ m \in 1 .. m /\ \A h \in 1 .. n : d[h] = chain[h] /\ h \in 1 .. m /\ h \in 0 .. m
      /\ m - 1 = n /\ n + 2 \in Nat /\ Height + 1 \in Nat
  BY <1>3
<1> HIDE DEF m, d, U, W
<1>5. U \in [1 .. m -> Seq(Tickets)] /\ W \in [1 .. n -> Seq(Tickets)]
  <2>1. Window(d, n + 2) \in [1 .. Len(d) -> Seq(Tickets)]
    BY <1>4, WindowType
  <2>2. Window(chain, Height + 1) \in [1 .. Len(chain) -> Seq(Tickets)]
    BY <1>3, <1>4, WindowType
  <2> QED
    BY <1>4, <2>1, <2>2 DEF U, W
<1>6. \A h \in 1 .. n : U[h] = W[h]
  <2> SUFFICES ASSUME NEW h \in 1 .. n PROVE U[h] = W[h]
    OBVIOUS
  <2>1. Earned(d, h) = Earned(chain, h)
    BY <1>4 DEF Earned
  <2>2. /\ U[h] = IF h + RevealBlocks >= n + 2 THEN Earned(d, h) ELSE <<>>
        /\ W[h] = IF h + RevealBlocks >= Height + 1 THEN Earned(chain, h) ELSE <<>>
    BY <1>3, <1>4 DEF U, W, Window
  <2>3. Height + 1 = n + 2
    BY <1>3
  <2> QED
    BY <2>1, <2>2, <2>3
<1>7. U[m] = NewTicket(body)
  <2>1. m + RevealBlocks >= n + 2 /\ m = Height
    BY <1>3, <1>4 DEF m
  <2>2. U[m] = Earned(d, m)
    BY <1>4, <2>1 DEF U, Window
  <2> QED
    BY <1>4, <2>1, <2>2 DEF Earned, NewTicket
<1>8. PICK e : FlatRun(e, Tickets, m, U)
  BY <1>4, <1>5, FlattenRun
<1>9. /\ e[m] = FlattenSeq(U) /\ e[m] = e[n] \o U[m] /\ e[0] = <<>>
      /\ e \in [0 .. m -> Seq(Tickets)]
  BY <1>4, <1>8 DEF FlatRun
<1> DEFINE g == [i \in 0 .. n |-> e[i]]
<1>10. /\ g \in [0 .. n -> Seq(Tickets)] /\ g[0] = <<>> /\ g[n] = e[n]
       /\ \A i \in 1 .. n : g[i] = g[i - 1] \o W[i]
  <2>1. \A i \in 0 .. n : i \in 0 .. m
    BY <1>3 DEF m
  <2>2. g \in [0 .. n -> Seq(Tickets)] /\ g[0] = <<>> /\ g[n] = e[n]
    BY <1>3, <1>9, <2>1
  <2>3. \A i \in 1 .. n : i \in 1 .. m /\ i - 1 \in 0 .. n /\ i \in 0 .. n
    BY <1>3, <1>4
  <2>4. \A i \in 1 .. n : g[i] = g[i - 1] \o W[i]
    <3> SUFFICES ASSUME NEW i \in 1 .. n PROVE g[i] = g[i - 1] \o W[i]
      OBVIOUS
    <3>1. e[i] = e[i - 1] \o U[i]
      BY <1>8, <2>3 DEF FlatRun
    <3>2. g[i] = e[i] /\ g[i - 1] = e[i - 1]
      BY <2>3
    <3> QED
      BY <1>6, <3>1, <3>2
  <2> QED
    BY <2>2, <2>4
<1> HIDE DEF g
<1>11. pending_tickets = FlattenSeq(Window(chain, Height))
  BY Zenon DEF TicketInv, TicketsFollowChain, Window, Earned, EarnedAt
<1>12. StillPending = g[n]
  <2>1. MoneyInv /\ W = Window(chain, Height + 1)
    BY DEF TicketInv, W
  <2> QED
    BY <1>5, <1>10, <1>11, <2>1, StillPendingFacts
<1>13. pending_tickets' = FlattenSeq(U)
  BY <1>2, <1>7, <1>9, <1>10, <1>12
<1>14. Height' = n + 2
  <2>1. Len(chain') = m
    BY <1>2, <1>4
  <2> QED
    BY <1>3, <2>1 DEF Height, m
<1>15. pending_tickets' = FlattenSeq(Window(chain', Height'))
  BY <1>2, <1>13, <1>14 DEF U
<1> QED
  BY <1>15, Zenon DEF TicketsFollowChain, Window, Earned, EarnedAt

\* The pending tickets are those of the miners of the last RevealBlocks blocks
\* that carry a user transaction, oldest first: none is lost, settled early or
\* settled twice, whatever the reveal delay.
THEOREM TicketsWithChain == Spec => []TicketsFollowChain
<1>1. Init => TicketInv
  <2> SUFFICES ASSUME Init PROVE TicketInv
    OBVIOUS
  <2>1. chain = <<>> /\ pending_tickets = <<>>
    BY DEF Init
  <2>2. TicketsFollowChain
    <3> DEFINE s == [h \in DOMAIN chain |-> IF h + RevealBlocks >= Height THEN EarnedAt(h) ELSE <<>>]
    <3>1. s = <<>> /\ Len(s) = 0
      BY <2>1
    <3> HIDE DEF s
    <3>2. FlattenSeq(s) = <<>>
      BY <3>1 DEF FlattenSeq
    <3> QED
      BY <2>1, <3>2 DEF TicketsFollowChain, s
  <2> QED
    BY <2>2, MoneyInit DEF TicketInv
<1>2. ASSUME TicketInv, [Next]_vars PROVE TicketInv'
  <2>1. ASSUME NEW body \in Bodies, UpdateState(body) PROVE TicketInv'
    BY <1>2, <2>1, MoneyStep, TicketStep DEF TicketInv
  <2>2. CASE UNCHANGED vars
    <3>1. TicketsFollowChain'
      BY <1>2, <2>2 DEF TicketInv, vars, TicketsFollowChain, EarnedAt, Height
    <3> QED
      BY <1>2, <2>2, <3>1, MoneyStutter DEF TicketInv
  <2> QED
    BY <1>2, <2>1, <2>2 DEF Next
<1>3. TicketInv => TicketsFollowChain
  BY DEF TicketInv
<1> QED
  BY <1>1, <1>2, <1>3, PTL DEF Spec

=============================================================================
