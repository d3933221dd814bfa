----------------------------- MODULE FaucetProofs -----------------------------
(***************************************************************************)
(* What module Faucet promises, for every set of requests and addresses,   *)
(* every cooldown and balance: nobody is told that the faucet is empty     *)
(* while it can pay, and the rate limit is only missed, but where the two  *)
(* properties say so.                                                      *)
(***************************************************************************)
EXTENDS Faucet, TLAPS

Steps == {"idle", "balance", "spendable", "submit", "denied", "taken", "persist"}
Before == {"balance", "spendable", "submit"}

\* Busy requests are about an address; idle ones are all alike.
Records == [at : Steps, address : Addresses \cup {Idle.address}, read : Nat, raced : BOOLEAN,
            excused : BOOLEAN]
RequestsOK ==
    /\ request \in [Requests -> Records]
    /\ \A r \in Requests : request[r].at # "idle" => request[r].address \in Addresses

\* No recorded time lies ahead of the clock.
TimesOK ==
    /\ clock \in Nat
    /\ DOMAIN cooldowns \subseteq Addresses /\ DOMAIN stored \subseteq Addresses
    /\ DOMAIN paid \subseteq Addresses /\ unrecorded \subseteq Addresses
    /\ \A a \in DOMAIN cooldowns : cooldowns[a] \in Int /\ cooldowns[a] <= clock
    /\ \A a \in DOMAIN stored : stored[a] \in Nat /\ 2 * stored[a] <= clock
    /\ \A a \in DOMAIN paid : paid[a] \in Nat /\ paid[a] <= clock

TypeOK ==
    /\ RequestsOK /\ TimesOK
    /\ balance \in Nat /\ pending \in Nat /\ stale \in Nat /\ stale <= pending /\ crashes \in Nat

\* The addresses paid lately; those whose dispense a request is about to write
\* to the map, and those it is about to write to the table.
Late == {a \in DOMAIN paid : PaidLately(a)}
Recording == {a \in Addresses : \E r \in Requests : request[r].at = "taken" /\ request[r].address = a}
Writing == {a \in Addresses : Taken(a) # {}}

\* A request that passed the cooldown check alone is for an address that was
\* not paid lately, as long as nothing happens to the address.
CheckStands ==
    \A r \in Requests :
        request[r].at \in Before /\ request[r].address \in Late =>
            request[r].raced \/ request[r].address \in unrecorded

\* A late dispense that was not lost is remembered in the map, and in the table
\* to the second, or about to be written there.
InMap ==
    \A a \in Late \ unrecorded :
        a \in Recording \/ (a \in DOMAIN cooldowns /\ cooldowns[a] >= paid[a] - 1)
InTable ==
    \A a \in Late \ unrecorded :
        a \in Writing \/ (a \in DOMAIN stored /\ 2 * stored[a] >= paid[a] - 1)

\* Without an excuse, the faucet can pay for one more, nothing pending is
\* confirmed, and what was read of the chain is no less than what it has now.
Stands(q) ==
    /\ q.at \in {"spendable", "submit"} /\ ~q.excused =>
        /\ stale = 0 /\ CanPay(balance, pending, stale)
        /\ q.at = "spendable" => q.read >= balance
    /\ q.at = "denied" => q.excused
AnswersStand == \A r \in Requests : Stands(request[r])

IInv == TypeOK /\ AnswersStand /\ CheckStands /\ InMap /\ InTable

-----------------------------------------------------------------------------
\* The table keeps whole seconds: a time is rounded down by at most half one.
LEMMA SecondFacts ==
    ASSUME NEW t \in Nat
    PROVE  Second(t) \in Nat /\ 2 * Second(t) <= t /\ t <= 2 * Second(t) + 1
  BY DEF Second

\* What Return puts in the place of a request.
LEMMA IdleFacts == Idle \in Records /\ Idle.at = "idle" /\ Idle.raced = FALSE
  BY DEF Idle, Records, Steps

\* The faucet starts with nothing recorded and nothing pending.
LEMMA InitIInv == Init => IInv
<1> SUFFICES ASSUME Init PROVE IInv
  OBVIOUS
<1> USE FaucetAssumption
<1>1. TypeOK
  <2>1. RequestsOK
    BY IdleFacts DEF Init, RequestsOK
  <2>2. TimesOK /\ balance \in Nat /\ pending \in Nat /\ stale \in Nat /\ stale <= pending /\ crashes \in Nat
    BY DEF Init, TimesOK, NoTimes
  <2> QED
    BY <2>1, <2>2 DEF TypeOK
<1>2. InMap /\ InTable
  BY DEF Init, InMap, InTable, Late, NoTimes
<1>3. CheckStands /\ AnswersStand
  BY IdleFacts DEF Init, CheckStands, Before, AnswersStand, Stands
<1> QED
  BY <1>1, <1>2, <1>3 DEF IInv

\* A step that changes one request, and neither pays nor records anything.
LEMMA MoveOn ==
    ASSUME IInv, NEW r \in Requests, NEW next \in Records,
           next.at # "idle" => next.address \in Addresses,
           request[r].at \notin {"taken", "persist"}, next.at \notin {"taken", "persist"},
           next.at \in Before /\ next.address \in Late => next.raced \/ next.address \in unrecorded,
           request' = [request EXCEPT ![r] = next],
           Stands(next),
           UNCHANGED <<clock, cooldowns, stored, balance, pending, stale, crashes, paid, unrecorded>>
    PROVE  IInv'
<1>1. request \in [Requests -> Records]
  BY DEF IInv, TypeOK, RequestsOK
<1>2. \A s \in Requests : request'[s] = IF s = r THEN next ELSE request[s]
  BY <1>1
<1>3. TypeOK'
  <2>1. RequestsOK'
    BY <1>1, <1>2 DEF IInv, TypeOK, RequestsOK
  <2>2. TimesOK'
    BY DEF IInv, TypeOK, TimesOK
  <2> QED
    BY <2>1, <2>2 DEF IInv, TypeOK
<1>4. AnswersStand'
  BY <1>2 DEF IInv, AnswersStand, Stands
<1>5. Late' = Late
  BY DEF Late, PaidLately
<1>6. CheckStands'
  BY <1>2, <1>5 DEF IInv, CheckStands
<1>7. InMap'
  <2>1. Recording' = Recording
    BY <1>2 DEF Recording
  <2> QED
    BY <1>5, <2>1 DEF IInv, InMap
<1>8. InTable'
  <2>1. Writing' = Writing
    BY <1>2 DEF Writing, Taken, For
  <2> QED
    BY <2>1, <1>5 DEF IInv, InTable
<1> QED
  BY <1>3, <1>4, <1>6, <1>7, <1>8 DEF IInv

\* The cooldown check: alone, and no cooldown runs, so no late dispense.
LEMMA AskKeeps == ASSUME IInv, NEW r \in Requests, NEW a \in Addresses, Ask(r, a) PROVE IInv'
<1> DEFINE next == [Idle EXCEPT !.at = "balance", !.address = a, !.raced = Taken(a) # {}]
<1>1. next \in Records /\ next.at = "balance" /\ next.address = a /\ (next.raced <=> Taken(a) # {})
  BY DEF Records, Steps, Idle
<1>2. request' = [request EXCEPT ![r] = next]
  BY DEF Ask
<1>3. request[r].at = "idle" /\ ~CoolingDown(a)
  BY DEF Ask, Busy, At
<1>4. a \in Late => Taken(a) # {} \/ a \in unrecorded
  <2>1. SUFFICES ASSUME a \in Late, Taken(a) = {}, a \notin unrecorded PROVE FALSE
    OBVIOUS
  <2>2. a \notin Recording
    BY <2>1 DEF Recording, Taken, For
  <2>3. a \in DOMAIN cooldowns /\ cooldowns[a] >= paid[a] - 1
    BY <2>1, <2>2 DEF IInv, InMap
  <2>4. cooldowns[a] \in Int /\ paid[a] \in Nat /\ clock \in Nat
    BY <2>1, <2>3 DEF IInv, TypeOK, TimesOK, Late
  <2> QED
    BY <1>3, <2>1, <2>3, <2>4, FaucetAssumption DEF CoolingDown, Late, PaidLately, HalfSeconds
<1>5. UNCHANGED <<clock, cooldowns, stored, balance, pending, stale, crashes, paid, unrecorded>>
  BY DEF Ask, FaucetUnchanged, NodeUnchanged
<1> HIDE DEF next
<1> QED
  BY <1>1, <1>2, <1>3, <1>4, <1>5, MoveOn DEF Stands

\* Whatever the queries answer, the request goes on or is given up.
LEMMA QueryKeeps ==
    ASSUME IInv, NEW r \in Requests, Query(r) \/ Deny(r) \/ Unreachable(r)
    PROVE  IInv'
<1> DEFINE q == request[r]
<1>1. /\ q \in Records /\ q.at \in Before \cup {"denied"} /\ Stands(q)
      /\ balance \in Nat /\ pending \in Nat /\ stale \in Nat /\ stale <= pending
  BY DEF IInv, TypeOK, RequestsOK, AnswersStand, Query, Look, Decide, Deny, Unreachable, At, Before
<1>2. q.address \in Addresses
  BY <1>1 DEF IInv, TypeOK, RequestsOK, Before
<1>3. q.at \in Before /\ q.address \in Late => q.raced \/ q.address \in unrecorded
  BY DEF IInv, CheckStands
<1>4. UNCHANGED <<clock, cooldowns, stored, balance, pending, stale, crashes, paid, unrecorded>>
  BY DEF Query, Deny, Unreachable, FaucetUnchanged, NodeUnchanged
<1>5. PICK next \in Records :
          /\ request' = [request EXCEPT ![r] = next]
          /\ Stands(next)
          /\ \/ next.at \in {"idle", "denied"} /\ next.address = Idle.address
             \/ /\ next.at \in {"spendable", "submit"} /\ next.address = q.address
                /\ next.raced = q.raced /\ q.at \in Before
          /\ next.at = "denied" => next.address \in Addresses
  <2>1. CASE Deny(r) \/ Unreachable(r)
    BY <2>1, IdleFacts DEF Deny, Unreachable, Return, Stands
  <2>2. CASE Look(r, balance)
    <3> DEFINE next == [q EXCEPT !.at = "spendable", !.read = balance,
                                 !.excused = ~CanPay(balance, pending, stale) \/ stale > 0]
    <3>1. /\ next \in Records /\ next.at = "spendable" /\ next.address = q.address
          /\ next.raced = q.raced /\ next.read = balance
          /\ next.excused = (~CanPay(balance, pending, stale) \/ stale > 0)
      BY <1>1 DEF Records, Steps
    <3>2. request' = [request EXCEPT ![r] = next] /\ q.at \in Before
      BY <2>2 DEF Look, At, Before
    <3> HIDE DEF next
    <3>3. ~next.excused => CanPay(balance, pending, stale) /\ ~(stale > 0)
      BY <3>1, Zenon
    <3>4. ~(stale > 0) => stale = 0
      BY <1>1
    <3>5. next.read >= balance
      BY <1>1, <3>1
    <3>6. Stands(next)
      BY <3>1, <3>3, <3>4, <3>5, Zenon DEF Stands
    <3> QED
      BY <3>1, <3>2, <3>6
  <2>3. CASE Decide(r, MaxOf(q.read - pending, 0)) /\ MaxOf(q.read - pending, 0) >= 1
    <3> DEFINE next == [q EXCEPT !.at = "submit", !.read = 0]
    <3>1. /\ next \in Records /\ next.at = "submit" /\ next.address = q.address
          /\ next.raced = q.raced /\ next.excused = q.excused
      BY <1>1 DEF Records, Steps
    <3>2. request' = [request EXCEPT ![r] = next] /\ q.at = "spendable"
      BY <2>3 DEF Decide, At
    <3> HIDE DEF next
    <3>3. Stands(next)
      BY <1>1, <3>1, <3>2 DEF Stands
    <3> QED
      BY <3>1, <3>2, <3>3 DEF Before
  <2>4. CASE Decide(r, MaxOf(q.read - pending, 0)) /\ ~(MaxOf(q.read - pending, 0) >= 1)
    <3> DEFINE next == [Idle EXCEPT !.at = "denied", !.excused = q.excused]
    <3>1. /\ next \in Records /\ next.at = "denied" /\ next.address = Idle.address
          /\ next.excused = q.excused
      BY <1>1 DEF Records, Steps, Idle
    <3>2. request' = [request EXCEPT ![r] = next] /\ q.at = "spendable"
      BY <2>4 DEF Decide, TurnAway, At
    <3>3. q.excused
      BY <1>1, <2>4, <3>2 DEF Stands, MaxOf, Records, CanPay
    <3>4. next.address \in Addresses
      BY <1>2, <3>1 DEF Idle
    <3> HIDE DEF next
    <3>5. Stands(next)
      BY <3>1, <3>3 DEF Stands
    <3> QED
      BY <3>1, <3>2, <3>4, <3>5
  <2> QED
    BY <2>1, <2>2, <2>3, <2>4 DEF Query
<1> HIDE DEF q
<1>6. next.at # "idle" => next.address \in Addresses
  BY <1>2, <1>5
<1>7. next.at \notin {"taken", "persist"} /\ q.at \notin {"taken", "persist"}
  BY <1>1, <1>5 DEF Before
<1>8. next.at \in Before /\ next.address \in Late => next.raced \/ next.address \in unrecorded
  BY <1>3, <1>5 DEF Before
<1> QED
  BY <1>4, <1>5, <1>6, <1>7, <1>8, MoveOn DEF q

\* The node takes the dispense: the other requests for the address have raced.
LEMMA SubmitKeeps == ASSUME IInv, NEW r \in Requests, Submit(r) PROVE IInv'
<1>1. CASE ~Affordable
  <2> DEFINE next == [Idle EXCEPT !.at = "denied", !.excused = request[r].excused]
  <2>1. request' = [request EXCEPT ![r] = next] /\ request[r].at = "submit"
    BY <1>1 DEF Submit, TurnAway, At
  <2>2. UNCHANGED <<clock, cooldowns, stored, balance, pending, stale, crashes, paid, unrecorded>>
    BY <1>1 DEF Submit, FaucetUnchanged
  <2>3. /\ request[r] \in Records /\ request[r].address \in Addresses /\ Stands(request[r])
        /\ balance \in Nat /\ pending \in Nat
    BY <2>1 DEF IInv, TypeOK, RequestsOK, AnswersStand
  <2>4. request[r].excused
    BY <1>1, <2>1, <2>3 DEF Stands, Affordable, CanPay
  <2>5. /\ next \in Records /\ next.at = "denied" /\ next.excused
        /\ next.address \in Addresses
    BY <2>3, <2>4 DEF Records, Steps, Idle
  <2> HIDE DEF next
  <2>6. Stands(next)
    BY <2>5 DEF Stands
  <2> QED
    BY <2>1, <2>2, <2>5, <2>6, MoveOn DEF Before
<1>2. CASE Affordable
  <2> DEFINE a == request[r].address
             took == [request[r] EXCEPT !.at = "taken", !.excused = FALSE]
             same(s) == request[s].at # "idle" /\ request[s].address = a
             short(s) == InDoubt(s) /\ ~CanPay(balance, pending', stale)
             race(s) == [request[s] EXCEPT !.raced = @ \/ same(s), !.excused = @ \/ short(s)]
  <2>1. /\ request[r].at = "submit" /\ request[r] \in Records /\ a \in Addresses
        /\ clock \in Nat /\ balance \in Nat /\ pending \in Nat /\ stale \in Nat /\ stale <= pending
    BY DEF Submit, At, IInv, TypeOK, RequestsOK, TimesOK
  <2>2. /\ pending' = pending + 1 /\ paid' = Put(paid, a, clock)
        /\ request' = [s \in Requests |-> IF s = r THEN took ELSE race(s)]
        /\ UNCHANGED <<clock, balance, stale, crashes, cooldowns, stored, unrecorded>>
    BY <1>2 DEF Submit, FaucetUnchanged, For, Busy, At
  <2>3. took \in Records /\ took.at = "taken" /\ took.address = a
    BY <2>1 DEF Records, Steps
  <2>4. request \in [Requests -> Records]
    BY DEF IInv, TypeOK, RequestsOK
  <2>5. \A s \in Requests : /\ race(s) \in Records /\ race(s).at = request[s].at
                            /\ race(s).address = request[s].address
                            /\ race(s).raced = (request[s].raced \/ same(s))
                            /\ race(s).read = request[s].read
                            /\ race(s).excused = (request[s].excused \/ short(s))
    BY <2>4 DEF Records
  <2> HIDE DEF took, race
  <2>6. request' \in [Requests -> Records]
    BY <2>2, <2>3, <2>4, <2>5
  <2>7. \A s \in Requests :
          /\ request'[s].address = request[s].address
          /\ request'[s].at = IF s = r THEN "taken" ELSE request[s].at
          /\ s # r /\ same(s) => request'[s].raced
          /\ s # r /\ request[s].raced => request'[s].raced
          /\ s # r => /\ request'[s].read = request[s].read
                      /\ request'[s].excused = (request[s].excused \/ short(s))
    BY <2>1, <2>2, <2>3, <2>5, <2>6
  <2> HIDE DEF a
  <2>8. /\ DOMAIN paid' = DOMAIN paid \cup {a} /\ paid'[a] = clock
        /\ \A x \in DOMAIN paid : x # a => paid'[x] = paid[x]
    BY <2>2 DEF Put
  <2>9. TypeOK'
    <3>1. RequestsOK'
      BY <2>1, <2>6, <2>7 DEF IInv, TypeOK, RequestsOK, a
    <3>2. TimesOK'
      BY <2>1, <2>2, <2>8 DEF IInv, TypeOK, TimesOK
    <3> QED
      BY <2>1, <2>2, <3>1, <3>2 DEF IInv, TypeOK
  <2>10. AnswersStand'
    <3> SUFFICES ASSUME NEW s \in Requests PROVE Stands(request[s])'
      BY DEF AnswersStand
    <3>1. CASE s = r
      BY <2>7, <3>1 DEF Stands
    <3>2. CASE s # r
      <4>1. /\ request'[s].at = request[s].at /\ request'[s].read = request[s].read
            /\ request'[s].excused = (request[s].excused \/ short(s))
        BY <2>7, <3>2
      <4>2. Stands(request[s])
        BY DEF IInv, AnswersStand
      <4>3. InDoubt(s) /\ ~short(s) => CanPay(balance, pending', stale)
        OBVIOUS
      <4> HIDE DEF short
      <4> QED
        BY <2>2, <4>1, <4>2, <4>3 DEF Stands, InDoubt
    <3> QED
      BY <3>1, <3>2
  <2>11. Late' \subseteq Late \cup {a} /\ \A x \in Late' : x # a => paid'[x] = paid[x]
    BY <2>2, <2>8 DEF Late, PaidLately
  <2>12. CheckStands'
    BY <2>2, <2>7, <2>11 DEF IInv, CheckStands, Before
  <2>13. InMap'
    <3>1. Recording \cup {a} \subseteq Recording'
      BY <2>1, <2>7 DEF Recording, a
    <3> QED
      BY <2>2, <2>11, <3>1 DEF IInv, InMap
  <2>14. InTable'
    <3>1. Writing \cup {a} \subseteq Writing'
      BY <2>1, <2>7 DEF Writing, Taken, For, a
    <3> QED
      BY <2>2, <2>11, <3>1 DEF IInv, InTable
  <2> QED
    BY <2>9, <2>10, <2>12, <2>13, <2>14 DEF IInv
<1> QED
  BY <1>1, <1>2

\* A lost answer leaves the address in the history of unrecorded dispenses.
LEMMA LoseKeeps == ASSUME IInv, NEW r \in Requests, LoseAnswer(r) PROVE IInv'
<1> DEFINE a == request[r].address
<1>1. request \in [Requests -> Records] /\ request[r].at = "taken" /\ a \in Addresses
  BY DEF LoseAnswer, At, IInv, TypeOK, RequestsOK
<1>2. /\ request' = [request EXCEPT ![r] = Idle] /\ unrecorded' = unrecorded \cup {a}
      /\ UNCHANGED <<clock, cooldowns, stored, balance, pending, stale, crashes, paid>>
  BY DEF LoseAnswer, Return, NodeUnchanged, For
<1>3. \A s \in Requests : request'[s] = IF s = r THEN Idle ELSE request[s]
  BY <1>1, <1>2
<1>4. TypeOK'
  <2>1. RequestsOK'
    BY <1>1, <1>2, <1>3, IdleFacts DEF IInv, TypeOK, RequestsOK
  <2>2. TimesOK'
    BY <1>1, <1>2 DEF IInv, TypeOK, TimesOK
  <2> QED
    BY <1>2, <2>1, <2>2 DEF IInv, TypeOK
<1>5. AnswersStand'
  BY <1>2, <1>3, IdleFacts DEF IInv, AnswersStand, Stands
<1>6. Late' = Late
  BY <1>2 DEF Late, PaidLately
<1>7. CheckStands'
  BY <1>2, <1>3, <1>6, IdleFacts DEF IInv, CheckStands, Before
<1>8. InMap'
  <2>1. Recording \subseteq Recording' \cup {a}
    BY <1>3 DEF Recording
  <2> QED
    BY <1>2, <1>6, <2>1 DEF IInv, InMap
<1>9. InTable'
  <2>1. Writing \subseteq Writing' \cup {a}
    BY <1>3 DEF Writing, Taken, For
  <2> QED
    BY <1>2, <1>6, <2>1 DEF IInv, InTable
<1> QED
  BY <1>4, <1>5, <1>7, <1>8, <1>9 DEF IInv

\* The map gets the time of the record, which is not before the dispense's.
LEMMA RecordKeeps == ASSUME IInv, NEW r \in Requests, Record(r) PROVE IInv'
<1> DEFINE a == request[r].address
           next == [request[r] EXCEPT !.at = "persist"]
<1>1. /\ request \in [Requests -> Records] /\ request[r].at = "taken" /\ a \in Addresses
      /\ clock \in Nat
  BY DEF Record, MayRecord, At, IInv, TypeOK, RequestsOK, TimesOK
<1>2. /\ request' = [request EXCEPT ![r] = next] /\ cooldowns' = Put(cooldowns, a, clock)
      /\ UNCHANGED <<clock, stored, balance, pending, stale, crashes, paid, unrecorded>>
  BY DEF Record, Goto, NodeUnchanged, For
<1>3. next \in Records /\ next.at = "persist" /\ next.address = a
  BY <1>1 DEF Records, Steps
<1>4. \A s \in Requests : request'[s] = IF s = r THEN next ELSE request[s]
  BY <1>1, <1>2
<1> HIDE DEF a, next
<1>5. /\ DOMAIN cooldowns' = DOMAIN cooldowns \cup {a} /\ cooldowns'[a] = clock
      /\ \A x \in DOMAIN cooldowns : x # a => cooldowns'[x] = cooldowns[x]
  BY <1>2 DEF Put
<1>6. TypeOK'
  <2>1. RequestsOK'
    BY <1>1, <1>2, <1>3, <1>4 DEF IInv, TypeOK, RequestsOK
  <2>2. TimesOK'
    BY <1>1, <1>2, <1>5 DEF IInv, TypeOK, TimesOK
  <2> QED
    BY <1>2, <2>1, <2>2 DEF IInv, TypeOK
<1>7. AnswersStand'
  BY <1>2, <1>3, <1>4 DEF IInv, AnswersStand, Stands
<1>8. Late' = Late /\ Late \subseteq DOMAIN paid
  BY <1>2 DEF Late, PaidLately
<1>9. CheckStands'
  BY <1>2, <1>3, <1>4, <1>8 DEF IInv, CheckStands, Before
<1>10. InMap'
  <2>1. Recording \subseteq Recording' \cup {a}
    BY <1>4 DEF Recording, a
  <2>2. a \in DOMAIN paid => cooldowns'[a] >= paid[a] - 1
    BY <1>1, <1>5 DEF IInv, TypeOK, TimesOK
  <2> QED
    BY <1>2, <1>5, <1>8, <2>1, <2>2 DEF IInv, InMap
<1>11. InTable'
  <2>1. Writing \subseteq Writing'
    BY <1>1, <1>3, <1>4 DEF Writing, Taken, For, a
  <2> QED
    BY <1>2, <1>8, <2>1 DEF IInv, InTable
<1> QED
  BY <1>6, <1>7, <1>9, <1>10, <1>11 DEF IInv

\* The table gets the second of its write, which is not before the dispense's.
LEMMA PersistKeeps == ASSUME IInv, NEW r \in Requests, PersistCooldown(r) PROVE IInv'
<1> DEFINE a == request[r].address
<1>1. /\ request \in [Requests -> Records] /\ request[r].at = "persist" /\ a \in Addresses
      /\ clock \in Nat
  BY DEF PersistCooldown, At, IInv, TypeOK, RequestsOK, TimesOK
<1>2. /\ request' = [request EXCEPT ![r] = Idle] /\ stored' = Put(stored, a, Second(clock))
      /\ UNCHANGED <<clock, cooldowns, balance, pending, stale, crashes, paid, unrecorded>>
  BY DEF PersistCooldown, Return, NodeUnchanged, For
<1>3. \A s \in Requests : request'[s] = IF s = r THEN Idle ELSE request[s]
  BY <1>1, <1>2
<1> HIDE DEF a
<1>4. /\ DOMAIN stored' = DOMAIN stored \cup {a} /\ stored'[a] = Second(clock)
      /\ \A x \in DOMAIN stored : x # a => stored'[x] = stored[x]
  BY <1>2 DEF Put
<1>5. Second(clock) \in Nat /\ 2 * Second(clock) <= clock /\ clock <= 2 * Second(clock) + 1
  BY <1>1, SecondFacts
<1>6. TypeOK'
  <2>1. RequestsOK'
    BY <1>1, <1>2, <1>3, IdleFacts DEF IInv, TypeOK, RequestsOK
  <2>2. TimesOK'
    BY <1>1, <1>2, <1>4, <1>5 DEF IInv, TypeOK, TimesOK
  <2> QED
    BY <1>2, <2>1, <2>2 DEF IInv, TypeOK
<1>7. AnswersStand'
  BY <1>2, <1>3, IdleFacts DEF IInv, AnswersStand, Stands
<1>8. Late' = Late /\ Late \subseteq DOMAIN paid
  BY <1>2 DEF Late, PaidLately
<1>9. CheckStands'
  BY <1>2, <1>3, <1>8, IdleFacts DEF IInv, CheckStands, Before
<1>10. InMap'
  <2>1. Recording \subseteq Recording'
    BY <1>1, <1>3 DEF Recording
  <2> QED
    BY <1>2, <1>8, <2>1 DEF IInv, InMap
<1>11. InTable'
  <2>1. Writing \subseteq Writing' \cup {a}
    BY <1>3 DEF Writing, Taken, For, a
  <2>2. a \in DOMAIN paid => 2 * stored'[a] >= paid[a] - 1
    BY <1>1, <1>4, <1>5 DEF IInv, TypeOK, TimesOK
  <2> QED
    BY <1>2, <1>4, <1>8, <2>1, <2>2 DEF IInv, InTable
<1> QED
  BY <1>6, <1>7, <1>9, <1>10, <1>11 DEF IInv

\* A restart loads every dispense that is still late and was not being written:
\* the table's second and the age in seconds give no later a time.
LEMMA RestartKeeps == ASSUME IInv, Restart PROVE IInv'
<1> DEFINE Age(a) == Second(clock) - stored[a]
<1>1. /\ request' = [r \in Requests |-> Idle] /\ crashes' \in Nat
      /\ unrecorded' = unrecorded \cup Writing
      /\ cooldowns' = [a \in {x \in DOMAIN stored : Age(x) < Cooldown} |-> clock - 2 * Age(a)]
      /\ UNCHANGED <<clock, stored, balance, pending, stale, paid>>
  BY DEF Restart, LoadCooldowns, HalfSeconds, NodeUnchanged, Writing, IInv, TypeOK
<1>2. clock \in Nat /\ Second(clock) \in Nat /\ 2 * Second(clock) <= clock /\ clock <= 2 * Second(clock) + 1
  BY SecondFacts DEF IInv, TypeOK, TimesOK
<1>3. \A a \in DOMAIN stored : /\ a \in Addresses /\ stored[a] \in Nat /\ 2 * stored[a] <= clock
                               /\ Age(a) \in Nat
  BY <1>2 DEF IInv, TypeOK, TimesOK
<1>4. \A a \in DOMAIN cooldowns' : /\ a \in DOMAIN stored /\ cooldowns'[a] \in Int
                                   /\ cooldowns'[a] <= clock /\ cooldowns'[a] >= 2 * stored[a]
  <2>1. \A a \in DOMAIN cooldowns' : a \in DOMAIN stored /\ cooldowns'[a] = clock - 2 * Age(a)
    BY <1>1
  <2> QED
    BY <1>2, <1>3, <2>1
<1>5. TypeOK'
  <2>1. RequestsOK'
    BY <1>1, IdleFacts DEF RequestsOK
  <2>2. TimesOK'
    BY <1>1, <1>3, <1>4 DEF IInv, TypeOK, TimesOK, Writing
  <2> QED
    BY <1>1, <2>1, <2>2 DEF IInv, TypeOK
<1>6. AnswersStand'
  BY <1>1, IdleFacts DEF AnswersStand, Stands
<1>7. CheckStands'
  BY <1>1, IdleFacts DEF CheckStands, Before
<1>8. Late' = Late
  BY <1>1 DEF Late, PaidLately
<1>9. ASSUME NEW a \in Late, a \notin unrecorded'
      PROVE  a \in DOMAIN stored /\ 2 * stored[a] >= paid[a] - 1 /\ Age(a) < Cooldown
  <2>1. a \in DOMAIN stored /\ 2 * stored[a] >= paid[a] - 1
    BY <1>1, <1>9 DEF IInv, InTable
  <2>2. paid[a] \in Nat /\ clock - paid[a] < 2 * Cooldown - 1
    BY DEF Late, PaidLately, HalfSeconds, IInv, TypeOK, TimesOK
  <2>3. stored[a] \in Nat
    BY <1>3, <2>1
  <2> QED
    BY <1>2, <2>1, <2>2, <2>3, FaucetAssumption
<1>10. InMap'
  <2>1. ASSUME NEW a \in Late, a \notin unrecorded'
        PROVE  a \in DOMAIN cooldowns' /\ cooldowns'[a] >= paid[a] - 1
    <3>1. a \in DOMAIN cooldowns' /\ 2 * stored[a] >= paid[a] - 1 /\ a \in DOMAIN stored
      BY <1>1, <1>9, <2>1
    <3>2. paid[a] \in Nat /\ stored[a] \in Nat
      BY <1>3, <3>1 DEF Late, IInv, TypeOK, TimesOK
    <3> QED
      BY <1>4, <3>1, <3>2
  <2> QED
    BY <1>1, <1>8, <2>1 DEF InMap
<1>11. InTable'
  BY <1>1, <1>8, <1>9 DEF InTable
<1> QED
  BY <1>5, <1>6, <1>7, <1>10, <1>11 DEF IInv

\* An excuse is all that it changes.
LEMMA ExcuseFacts ==
    ASSUME IInv, NEW R
    PROVE  /\ Excuse(R) \in [Requests -> Records]
           /\ \A s \in Requests :
                /\ Excuse(R)[s].at = request[s].at /\ Excuse(R)[s].address = request[s].address
                /\ Excuse(R)[s].raced = request[s].raced /\ Excuse(R)[s].read = request[s].read
                /\ Excuse(R)[s].excused = (request[s].excused \/ s \in R)
<1>1. request \in [Requests -> Records]
  BY DEF IInv, TypeOK, RequestsOK
<1> QED
  BY <1>1 DEF Excuse, Records

\* The chain and the pool move; what they do not excuse still stands.
LEMMA ChainMovesOn ==
    ASSUME IInv, NEW R,
           balance' \in Nat, pending' \in Nat, stale' \in Nat, stale' <= pending',
           request' = Excuse(R),
           \A s \in Requests \ R :
             InDoubt(s) /\ ~request[s].excused =>
                /\ stale' = 0 /\ CanPay(balance', pending', stale')
                /\ request[s].at = "spendable" => request[s].read >= balance',
           UNCHANGED <<clock, cooldowns, stored, crashes, paid, unrecorded>>
    PROVE  IInv'
<1>1. /\ request' \in [Requests -> Records]
      /\ \A s \in Requests :
           /\ request'[s].at = request[s].at /\ request'[s].address = request[s].address
           /\ request'[s].raced = request[s].raced /\ request'[s].read = request[s].read
           /\ request'[s].excused = (request[s].excused \/ s \in R)
  BY ExcuseFacts
<1>2. TypeOK'
  <2>1. RequestsOK'
    BY <1>1 DEF IInv, TypeOK, RequestsOK
  <2>2. TimesOK'
    BY DEF IInv, TypeOK, TimesOK
  <2> QED
    BY <2>1, <2>2 DEF IInv, TypeOK
<1>3. AnswersStand'
  <2> SUFFICES ASSUME NEW s \in Requests PROVE Stands(request[s])'
    BY DEF AnswersStand
  <2>1. request[s].at = "denied" => request[s].excused
    BY DEF IInv, AnswersStand, Stands
  <2>2. CASE s \in R
    BY <1>1, <2>2 DEF Stands
  <2>3. CASE s \notin R
    BY <1>1, <2>1, <2>3 DEF Stands, InDoubt
  <2> QED
    BY <2>2, <2>3
<1>4. Late' = Late /\ Recording' = Recording /\ Writing' = Writing
  BY <1>1 DEF Late, PaidLately, Recording, Writing, Taken, For
<1>5. CheckStands'
  BY <1>1, <1>4 DEF IInv, CheckStands
<1>6. InMap' /\ InTable'
  BY <1>4 DEF IInv, InMap, InTable
<1> QED
  BY <1>2, <1>3, <1>5, <1>6 DEF IInv

\* What the faucet can pay it can still pay when more comes back than is pending
\* again, and when dispenses expire.
LEMMA PaysOn ==
    ASSUME NEW b \in Nat, NEW p \in Nat, NEW s \in Nat, CanPay(b, p, s),
           NEW n \in Nat, NEW k \in Nat, NEW d \in Nat
    PROVE  /\ k + d <= n => CanPay(b + n, p + d, s - k)
           /\ k <= n => CanPay(b, p - n, s - k)
  BY DEF CanPay

\* Blocks, reorgs, sync and expiry.
LEMMA ChainKeeps ==
    ASSUME IInv, NEW n \in Nat, NEW m \in Nat, NEW d \in Nat,
           Confirm(n, m) \/ Sync(n, m) \/ Expire(n, m) \/ Displace(n, m, d)
    PROVE  IInv'
<1>1. balance \in Nat /\ pending \in Nat /\ stale \in Nat /\ stale <= pending
  BY DEF IInv, TypeOK
<1>2. \A s \in Requests :
        /\ request[s].read \in Nat
        /\ InDoubt(s) /\ ~request[s].excused =>
            /\ stale = 0 /\ CanPay(balance, pending, stale)
            /\ request[s].at = "spendable" => request[s].read >= balance
  BY DEF IInv, AnswersStand, Stands, InDoubt, TypeOK, RequestsOK, Records
<1>3. UNCHANGED <<clock, cooldowns, stored, crashes, paid, unrecorded>>
  BY DEF Confirm, Sync, Expire, Displace, FaucetUnchanged
<1>4. CASE Confirm(n, m)
  <2> DEFINE R == {s \in Requests : InDoubt(s) /\ ~CanPay(balance', pending', stale)}
  <2>1. /\ balance' \in Nat /\ pending' \in Nat /\ stale' \in Nat /\ stale' <= pending'
        /\ balance' <= balance /\ stale' = stale /\ request' = Excuse(R)
    BY <1>1, <1>4 DEF Confirm
  <2>2. \A s \in Requests \ R : InDoubt(s) => CanPay(balance', pending', stale)
    OBVIOUS
  <2> HIDE DEF R
  <2>3. ASSUME NEW s \in Requests \ R, InDoubt(s), ~request[s].excused
        PROVE  /\ stale' = 0 /\ CanPay(balance', pending', stale')
               /\ request[s].at = "spendable" => request[s].read >= balance'
    BY <1>1, <1>2, <2>1, <2>2, <2>3
  <2> QED
    BY <1>3, <2>1, <2>3, ChainMovesOn
<1>5. CASE Sync(n, m)
  <2> DEFINE R == {s \in Requests : /\ InDoubt(s)
                                    /\ ~CanPay(balance', pending, stale') \/ stale' > 0}
  <2>1. /\ balance' \in Nat /\ pending' \in Nat /\ stale' \in Nat /\ stale' <= pending'
        /\ balance' <= balance /\ pending' = pending /\ request' = Excuse(R)
    BY <1>1, <1>5 DEF Sync
  <2>2. \A s \in Requests \ R : InDoubt(s) => CanPay(balance', pending, stale') /\ stale' = 0
    BY <2>1
  <2> HIDE DEF R
  <2>3. ASSUME NEW s \in Requests \ R, InDoubt(s), ~request[s].excused
        PROVE  /\ stale' = 0 /\ CanPay(balance', pending', stale')
               /\ request[s].at = "spendable" => request[s].read >= balance'
    BY <1>1, <1>2, <2>1, <2>2, <2>3
  <2> QED
    BY <1>3, <2>1, <2>3, ChainMovesOn
<1>6. CASE Expire(n, m)
  <2>1. /\ balance' = balance /\ pending' \in Nat /\ stale' \in Nat /\ stale' <= pending'
        /\ pending' = pending - n /\ stale' = stale - m /\ m <= n /\ request' = request
    BY <1>1, <1>6 DEF Expire
  <2>2. request' = Excuse({})
    BY <2>1 DEF Excuse, IInv, TypeOK, RequestsOK
  <2>3. ASSUME NEW s \in Requests \ {}, InDoubt(s), ~request[s].excused
        PROVE  /\ stale' = 0 /\ CanPay(balance', pending', stale')
               /\ request[s].at = "spendable" => request[s].read >= balance'
    <3>1. stale' = 0
      BY <1>1, <1>2, <2>1, <2>3
    <3>2. CanPay(balance, pending - n, stale - m)
      BY <1>1, <1>2, <2>1, <2>3, PaysOn
    <3> QED
      BY <1>2, <2>1, <2>3, <3>1, <3>2
  <2>4. balance' \in Nat
    BY <1>1, <2>1
  <2> QED
    BY <1>3, <2>1, <2>2, <2>3, <2>4, ChainMovesOn
<1>7. CASE Displace(n, m, d)
  <2> DEFINE R == {s \in Requests : At(s, "spendable")}
  <2>1. /\ balance' \in Nat /\ pending' \in Nat /\ stale' \in Nat /\ stale' <= pending'
        /\ balance' = balance + n /\ pending' = pending + d /\ stale' = stale - m
        /\ m + d <= n /\ request' = Excuse(R)
    BY <1>1, <1>7 DEF Displace
  <2>2. \A s \in Requests \ R : request[s].at # "spendable"
    BY DEF At
  <2> HIDE DEF R
  <2>3. ASSUME NEW s \in Requests \ R, InDoubt(s), ~request[s].excused
        PROVE  /\ stale' = 0 /\ CanPay(balance', pending', stale')
               /\ request[s].at = "spendable" => request[s].read >= balance'
    <3>1. stale' = 0
      BY <1>1, <1>2, <2>1, <2>3
    <3>2. CanPay(balance + n, pending + d, stale - m)
      BY <1>1, <1>2, <2>1, <2>3, PaysOn
    <3> QED
      BY <2>1, <2>2, <3>1, <3>2
  <2> QED
    BY <1>3, <2>1, <2>3, ChainMovesOn
<1> QED
  BY <1>4, <1>5, <1>6, <1>7

\* As time passes, fewer addresses were paid lately.
LEMMA TickKeeps == ASSUME IInv, Tick PROVE IInv'
<1>1. clock \in Nat /\ clock' = clock + 1
      /\ UNCHANGED <<request, cooldowns, stored, balance, pending, stale, crashes, paid, unrecorded>>
  BY DEF Tick, FaucetUnchanged, NodeUnchanged, IInv, TypeOK, TimesOK
<1>2. TypeOK'
  BY <1>1 DEF IInv, TypeOK, RequestsOK, TimesOK
<1>5. AnswersStand'
  BY <1>1 DEF IInv, AnswersStand, Stands
<1>3. Late' \subseteq Late
  <2>1. \A a \in DOMAIN paid : paid[a] \in Nat
    BY DEF IInv, TypeOK, TimesOK
  <2> QED
    BY <1>1, <2>1, FaucetAssumption DEF Late, PaidLately, HalfSeconds
<1>4. CheckStands' /\ InMap' /\ InTable'
  <2>1. Recording' = Recording /\ Writing' = Writing
    BY <1>1 DEF Recording, Writing, Taken, For
  <2> QED
    BY <1>1, <1>3, <2>1 DEF IInv, CheckStands, InMap, InTable
<1> QED
  BY <1>2, <1>4, <1>5 DEF IInv

\* Every step of a request, the node, the clock or a crash keeps IInv.
LEMMA NextIInv == IInv /\ [Next]_vars => IInv'
<1> SUFFICES ASSUME IInv, [Next]_vars PROVE IInv'
  OBVIOUS
<1>1. CASE UNCHANGED vars
  BY <1>1 DEF vars, IInv, TypeOK, RequestsOK, TimesOK, AnswersStand, Stands, CheckStands, InMap,
              InTable, Late, Recording, Writing, PaidLately, Taken, For
<1>2. ASSUME NEW r \in Requests, ~(UNCHANGED vars),
             \/ \E a \in Addresses : Ask(r, a)
             \/ Query(r) \/ Submit(r) \/ Deny(r) \/ LoseAnswer(r) \/ Unreachable(r)
             \/ Record(r) \/ PersistCooldown(r)
      PROVE  IInv'
  BY <1>2, AskKeeps, QueryKeeps, SubmitKeeps, LoseKeeps, RecordKeeps, PersistKeeps
<1>3. ASSUME NEW n \in 0 .. Funds, NEW m \in 0 .. Funds,
             \/ Confirm(n, m) \/ Sync(n, m) \/ Expire(n, m)
             \/ \E d \in 0 .. Funds : Displace(n, m, d)
      PROVE  IInv'
  <2>1. /\ n \in Nat /\ m \in Nat
        /\ \A d \in 0 .. Funds : d \in Nat
    BY FaucetAssumption
  <2>2. 0 \in Nat
    OBVIOUS
  <2> QED
    BY <1>3, <2>1, <2>2, ChainKeeps
<1> QED
  BY <1>1, <1>2, <1>3, RestartKeeps, TickKeeps DEF Next

-----------------------------------------------------------------------------
\* IInv holds in every reachable state.
THEOREM AlwaysIInv == Spec => []IInv
  BY InitIInv, NextIInv, PTL DEF Spec

\* Nobody is turned away for lack of funds while the faucet can pay (main.rs:213,
\* 244), however requests, blocks, reorgs, sync and expiry interleave with the two
\* locks of the balance query (api.rs:580-586), but for a balance that rose between
\* the locks and for what sync left in the pool.
THEOREM RightlyTurnedAway == Spec => []NeverWronglyEmpty
<1>1. IInv => NeverWronglyEmpty
  BY DEF IInv, AnswersStand, Stands, NeverWronglyEmpty, At
<1> QED
  BY <1>1, AlwaysIInv, PTL

\* The rate limit is only missed by overlapping requests for one address, and
\* after a dispense whose record was lost (main.rs:149-152): the cooldown map
\* and, over restarts, the table never open it early.
THEOREM RateLimit == Spec => OncePerCooldown
<1>1. IInv /\ [Next]_vars =>
        [\A r \in Requests :
            Dispenses(r) /\ PaidLately(For(r)) => request[r].raced \/ For(r) \in unrecorded]_vars
  <2>1. ASSUME IInv, NEW r \in Requests, Dispenses(r), PaidLately(For(r))
        PROVE  request[r].raced \/ For(r) \in unrecorded
    <3>1. request[r].at \in Before /\ request[r].address \in Late
      BY <2>1 DEF Dispenses, At, Before, Late, PaidLately, For
    <3> QED
      BY <2>1, <3>1 DEF IInv, CheckStands, For
  <2> QED
    BY <2>1
<1> QED
  BY <1>1, AlwaysIInv, PTL DEF Spec, OncePerCooldown

=============================================================================
