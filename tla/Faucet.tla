-------------------------------- MODULE Faucet --------------------------------
(***************************************************************************)
(* lootcoin-faucet/src/main.rs with the node it pays from: concurrent      *)
(* requests for coins, the cooldown map and its table, and the node's      *)
(* balance query and transaction intake (api.rs).                          *)
(*                                                                         *)
(* A request runs through handle_dispense; between two steps it awaits     *)
(* a lock or an answer of the node, and others run.  All dispenses cost    *)
(* the same, so balances are counted in dispenses.  Time is counted in     *)
(* half seconds: the map keeps Instants, the table whole seconds.          *)
(***************************************************************************)
EXTENDS Integers, FiniteSets, Functions

CONSTANTS
    Requests,
    Addresses,  \* valid addresses; an invalid one is turned away at once
    Cooldown,   \* COOLDOWN_SECS
    Funds,      \* what the faucet has at first and, a bound, at most, in dispenses
    MaxTime,    \* bound, in half seconds
    MaxCrashes  \* bound

ASSUME FaucetAssumption ==
    /\ Cooldown \in Nat \ {0}
    /\ {Funds, MaxTime, MaxCrashes} \subseteq Nat

VARIABLES
    clock,
    request,   \* what each request is doing, for whom, and its locals
    cooldowns, \* AppState.cooldowns: address -> time of the last dispense
    stored,    \* COOLDOWNS_TABLE: address -> its second
    balance,   \* the node's confirmed balance of the faucet
    pending,   \* dispenses in the node's mempool
    stale,     \* those of them that its chain has confirmed already
    crashes,
    paid,      \* history: address -> time the node took its last dispense
    unrecorded \* history: addresses of which a dispense was not recorded

vars == <<clock, request, cooldowns, stored, balance, pending, stale, crashes, paid, unrecorded>>

\* raced: while this request was under way, another one for the same address
\* had a dispense taken, or had not recorded it yet.  excused: since the node
\* looked up the balance for it, there was a moment at which one more dispense
\* could not be paid, the balance rose before the pool was read, or the pool held
\* dispenses that sync had confirmed.
Idle == [at |-> "idle", address |-> CHOOSE a \in Addresses : TRUE, read |-> 0,
         raced |-> FALSE, excused |-> FALSE]
At(r, step) == request[r].at = step
Busy(r) == ~At(r, "idle")
For(r) == request[r].address
Taken(a) == {r \in Requests : request[r].at \in {"taken", "persist"} /\ For(r) = a}
Goto(r, step) == request' = [request EXCEPT ![r].at = step]
Return(r) == request' = [request EXCEPT ![r] = Idle]

Put(f, a, v) == [x \in DOMAIN f \cup {a} |-> IF x = a THEN v ELSE f[x]]
NoTimes == [a \in {} |-> 0]
MaxOf(i, j) == IF i >= j THEN i ELSE j

HalfSeconds(s) == 2 * s
Second(t) == t \div 2

\* What the balance really covers: dispenses that are confirmed and still
\* pending are paid already.
CanPay(bal, pend, old) == bal - (pend - old) >= 1
InDoubt(r) == request[r].at \in {"spendable", "submit"}
Excuse(R) == [r \in Requests |-> IF r \in R THEN [request[r] EXCEPT !.excused = TRUE] ELSE request[r]]

NodeUnchanged == UNCHANGED <<balance, pending, stale, paid>>
FaucetUnchanged == UNCHANGED <<cooldowns, stored, unrecorded>>

-----------------------------------------------------------------------------
\* Mutant: a cooldown ends a second early.
MutCoolingDown(a) == a \in DOMAIN cooldowns /\ clock - cooldowns[a] < HalfSeconds(Cooldown - 1)

\* The address was funded less than a cooldown ago, by what is in memory.
CoolingDown(a) == a \in DOMAIN cooldowns /\ clock - cooldowns[a] < HalfSeconds(Cooldown)

\* handle_dispense: the cooldown check, after which the lock is released.
Ask(r, a) ==
    /\ ~Busy(r) /\ ~CoolingDown(a)
    /\ request' = [request EXCEPT ![r] = [Idle EXCEPT !.at = "balance", !.address = a,
                                                     !.raced = Taken(a) # {}]]
    /\ FaucetUnchanged /\ NodeUnchanged
    /\ UNCHANGED <<clock, crashes>>

\* Too little, by what the node says.
TurnAway(r) ==
    request' = [request EXCEPT ![r] = [Idle EXCEPT !.at = "denied", !.excused = request[r].excused]]

\* One lock of get_balance_handler, and what was read under it.
Look(r, value) ==
    /\ At(r, "balance")
    /\ request' = [request EXCEPT ![r].at = "spendable", ![r].read = value,
                                  ![r].excused = ~CanPay(balance, pending, stale) \/ stale > 0]

\* The other, and what the faucet makes of the answer: it goes on, or "Faucet is
\* empty".
Decide(r, spendable) ==
    /\ At(r, "spendable")
    /\ IF spendable >= 1
       THEN request' = [request EXCEPT ![r].at = "submit", ![r].read = 0]
       ELSE TurnAway(r)

\* Mutant: the two locks are taken in the other order.
MutQuery(r) ==
    /\ Look(r, pending) \/ Decide(r, MaxOf(balance - request[r].read, 0))
    /\ FaucetUnchanged /\ NodeUnchanged
    /\ UNCHANGED <<clock, crashes>>

\* get_balance_handler reads the chain, and then, having released it, the pool.
Query(r) ==
    /\ Look(r, balance) \/ Decide(r, MaxOf(request[r].read - pending, 0))
    /\ FaucetUnchanged /\ NodeUnchanged
    /\ UNCHANGED <<clock, crashes>>

\* relay_tx_inner, under the chain's lock
Affordable == balance - pending >= 1

\* POST /transactions/relay: the node takes the transaction, or refuses it.
Submit(r) ==
    LET a == For(r)
    IN  /\ At(r, "submit")
        /\ IF Affordable
           THEN /\ pending' = pending + 1
                /\ paid' = Put(paid, a, clock)
                /\ request' = [s \in Requests |->
                                 IF s = r THEN [request[r] EXCEPT !.at = "taken", !.excused = FALSE]
                                 ELSE [request[s] EXCEPT
                                        !.raced = @ \/ (Busy(s) /\ For(s) = a),
                                        !.excused = @ \/ (InDoubt(s) /\ ~CanPay(balance, pending', stale))]]
           ELSE TurnAway(r) /\ UNCHANGED <<pending, paid>>
        /\ FaucetUnchanged
        /\ UNCHANGED <<clock, balance, stale, crashes>>

\* The answer that there is too little, from the balance or from the node.
Deny(r) ==
    /\ At(r, "denied")
    /\ Return(r)
    /\ FaucetUnchanged /\ NodeUnchanged
    /\ UNCHANGED <<clock, crashes>>

\* Its answer is lost, and the faucet reports that the node was not reached.
LoseAnswer(r) ==
    /\ At(r, "taken")
    /\ Return(r)
    /\ unrecorded' = unrecorded \cup {For(r)}
    /\ NodeUnchanged
    /\ UNCHANGED <<clock, cooldowns, stored, crashes>>

\* Or it was not, by either call, or the node's pool is full.
Unreachable(r) ==
    /\ request[r].at \in {"balance", "spendable", "submit"}
    /\ Return(r)
    /\ FaucetUnchanged /\ NodeUnchanged
    /\ UNCHANGED <<clock, crashes>>

\* Only a confirmed submission is recorded.
MayRecord(r) == At(r, "taken")

Record(r) ==
    /\ MayRecord(r)
    /\ cooldowns' = Put(cooldowns, For(r), clock)
    /\ Goto(r, "persist")
    /\ NodeUnchanged
    /\ UNCHANGED <<clock, stored, unrecorded, crashes>>

\* persist_cooldown, with a time of its own
PersistCooldown(r) ==
    /\ At(r, "persist")
    /\ stored' = Put(stored, For(r), Second(clock))
    /\ Return(r)
    /\ NodeUnchanged
    /\ UNCHANGED <<clock, cooldowns, unrecorded, crashes>>

-----------------------------------------------------------------------------
\* load_cooldowns: an Instant that lies the stored seconds back.
LoadCooldowns ==
    LET Age(a) == Second(clock) - stored[a]
    IN  [a \in {x \in DOMAIN stored : Age(x) < Cooldown} |-> clock - HalfSeconds(Age(a))]

\* The process stops, at any point, and starts again.
Restart ==
    /\ crashes < MaxCrashes
    /\ crashes' = crashes + 1
    /\ request' = [r \in Requests |-> Idle]
    /\ cooldowns' = LoadCooldowns
    /\ unrecorded' = unrecorded \cup {a \in Addresses : Taken(a) # {}}
    /\ NodeUnchanged
    /\ UNCHANGED <<clock, stored>>

\* The node's chain: m dispenses' worth leave the balance without the pool, by
\* transactions of the faucet's wallet that this node does not hold.  n leave
\* it with a block that peers pushed, whose transactions leave the pool...
Confirm(n, m) ==
    /\ n <= pending - stale /\ n + m <= balance
    /\ balance' = balance - n - m
    /\ pending' = pending - n
    /\ request' = Excuse({r \in Requests : InDoubt(r) /\ ~CanPay(balance', pending', stale)})
    /\ FaucetUnchanged
    /\ UNCHANGED <<clock, stale, crashes, paid>>

\* ... or with one from sync_from_peers, which leaves the pool as it is.
Sync(n, m) ==
    /\ n <= pending - stale /\ n + m <= balance
    /\ balance' = balance - n - m
    /\ stale' = stale + n
    /\ request' = Excuse({r \in Requests : /\ InDoubt(r)
                                           /\ ~CanPay(balance', pending, stale') \/ stale' > 0})
    /\ FaucetUnchanged
    /\ UNCHANGED <<clock, pending, crashes, paid>>

\* The balance rises: a reorg displaces n dispenses, k of which are pending yet,
\* and re-adds d of the others, as far as the balance covers them; or somebody
\* pays the faucet.  A reorg whose new blocks confirm dispenses is this and then
\* Confirm.
Displace(n, k, d) ==
    /\ balance + n <= Funds
    /\ k <= stale /\ k + d <= n
    /\ d > 0 => pending + d <= balance + n
    /\ balance' = balance + n
    /\ pending' = pending + d
    /\ stale' = stale - k
    /\ request' = Excuse({r \in Requests : At(r, "spendable")})
    /\ FaucetUnchanged
    /\ UNCHANGED <<clock, crashes, paid>>

\* n pending dispenses expire, k of them confirmed.
Expire(n, k) ==
    /\ k <= stale /\ k <= n /\ n - k <= pending - stale
    /\ pending' = pending - n
    /\ stale' = stale - k
    /\ FaucetUnchanged
    /\ UNCHANGED <<clock, request, balance, crashes, paid>>

Tick ==
    /\ clock < MaxTime
    /\ clock' = clock + 1
    /\ FaucetUnchanged /\ NodeUnchanged
    /\ UNCHANGED <<request, crashes>>

Init ==
    /\ clock = 0
    /\ request = [r \in Requests |-> Idle]
    /\ cooldowns = NoTimes /\ stored = NoTimes
    /\ balance = Funds /\ pending = 0 /\ stale = 0
    /\ crashes = 0
    /\ paid = NoTimes /\ unrecorded = {}

Next ==
    \/ \E r \in Requests :
        \/ \E a \in Addresses : Ask(r, a)
        \/ Query(r) \/ Submit(r) \/ Deny(r) \/ LoseAnswer(r) \/ Unreachable(r)
        \/ Record(r) \/ PersistCooldown(r)
    \/ \E n, m \in 0 .. Funds :
        \/ Confirm(n, m) \/ Sync(n, m) \/ Expire(n, m)
        \/ \E d \in 0 .. Funds : Displace(n, m, d)
    \/ Restart \/ Tick

Spec == Init /\ [][Next]_vars

-----------------------------------------------------------------------------
Dispenses(r) == At(r, "submit") /\ pending' = pending + 1
\* A restart restores the time of a dispense to the second only.
PaidLately(a) == a \in DOMAIN paid /\ clock - paid[a] < HalfSeconds(Cooldown) - 1

\* The rate limit can only be missed by requests for one address that overlap,
\* and after a dispense whose record was lost with an answer or a crash
\* (main.rs:149-152): no restart and no expiry opens it early.
OncePerCooldown ==
    [][\A r \in Requests :
        Dispenses(r) /\ PaidLately(For(r)) => request[r].raced \/ For(r) \in unrecorded]_vars

\* Nobody is told that the faucet is empty, by the faucet (main.rs:213-221) or
\* by the node (main.rs:244-256), if at every moment since the node looked up
\* the balance the faucet could pay: a block between the node's two locks
\* (api.rs:580-586) only ever makes the answer too high, whatever other requests
\* submit meanwhile.  But for a balance that rose between the locks, and a pool
\* that holds what sync confirmed behind its back.
NeverWronglyEmpty == \A r \in Requests : At(r, "denied") => request[r].excused

=============================================================================
