-------------------------------- MODULE Miner --------------------------------
(***************************************************************************)
(* The loop of lootcoin-miner/src/main.rs with the nodes it works for:     *)
(* fetching work in two requests, mining with a watcher that cancels stale *)
(* work, and submission to every node.  Other miners, gossip and sync move *)
(* the nodes' chains meanwhile.                                            *)
(*                                                                         *)
(* A chain is its sequence of blocks, a block who mined it and what it     *)
(* confirms.  A node applies a block in two steps: the chain's write lock  *)
(* is held until the pool has been maintained, but GET /mempool needs only *)
(* the pool's.  Which transactions a template takes from a busy pool, and  *)
(* whether a pool can be afforded, is in Mempool; timestamps are in        *)
(* Difficulty.                                                             *)
(*                                                                         *)
(* The loop:    top -> fetch -> mining -> submit -> top, until stopped     *)
(* Its watcher: off -> connecting -> open or polling -> done or gone       *)
(***************************************************************************)
EXTENDS Integers, Sequences, FiniteSets, SequencesExt

CONSTANTS
    Urls,
    NodeUrls,  \* NODE_URLS: Urls in the order they are tried
    Txs,
    Elsewhere, \* chains of other miners, held by peers that are not among the URLs
    MaxHeight  \* bound: blocks in a chain

ASSUME MinerAssumption ==
    /\ NodeUrls \in Seq(Urls) /\ ToSet(NodeUrls) = Urls
    /\ IsFiniteSet(Urls) /\ MaxHeight \in Nat
    /\ Elsewhere \subseteq Seq([by : {"other"}, txs : SUBSET Txs])

VARIABLES
    chain,    \* node -> its chain
    pool,     \* node -> its mempool
    applying, \* node -> whether it is between apply_block and the maintenance of
              \* its pool, what that then puts back and what it takes out
    job,      \* the miner's loop and its locals
    watch,    \* the watcher of the mining job
    cancel,   \* its flag
    shutdown, \* the flag set by a signal
    bypassed, \* history: transactions that sync confirmed while they were pending
    displaced \* history: transactions a reorg took off the head while work was fetched

vars == <<chain, pool, applying, job, watch, cancel, shutdown, bypassed, displaced>>

Confirmed(c) == UNION {c[i].txs : i \in DOMAIN c}
Conflicts(txs, c) == txs \cap Confirmed(c) # {}

\* What the blocks of c that are not in d confirm.
Only(c, d) == UNION {c[i].txs : i \in {i \in DOMAIN c : ~IsPrefix(SubSeq(c, 1, i), d)}}
NodesUnchanged == UNCHANGED <<chain, pool, applying, bypassed, displaced>>
MinerUnchanged == UNCHANGED <<job, watch, cancel, shutdown>>

Unlocked == [locked |-> FALSE, back |-> {}, out |-> {}]
Locked(u) == applying[u].locked

\* The top of the loop: nothing fetched, the first node next.
Top == [at |-> "top", try |-> 1, got |-> {}, base |-> <<>>, txs |-> {}, answers |-> {}]
Url == NodeUrls[job.try]

-----------------------------------------------------------------------------
\* The nodes.
Relay(u, t) ==
    /\ ~Locked(u)
    /\ t \notin pool[u] /\ t \notin Confirmed(chain[u])
    /\ pool' = [pool EXCEPT ![u] = @ \cup {t}]
    /\ UNCHANGED <<chain, applying, bypassed, displaced>>
    /\ MinerUnchanged

\* Node u goes over to c while the miner is between its two requests to it.
Displace(u, c) ==
    displaced' = IF job.at = "fetch" /\ job.got = {"head"} /\ Url = u
                 THEN displaced \cup Only(chain[u], c) ELSE displaced

\* apply_block within apply_incoming_block
Apply(u, c) ==
    /\ ~Locked(u)
    /\ Len(c) <= MaxHeight
    /\ chain' = [chain EXCEPT ![u] = c]
    /\ applying' = [applying EXCEPT ![u] = [locked |-> TRUE,
                                            back |-> Only(chain[u], c),
                                            out |-> Only(c, chain[u])]]
    /\ Displace(u, c)
    /\ UNCHANGED <<pool, bypassed>>

\* watch_sse_for_block reads a block event: the job is cancelled.
Watched(u) == watch = "open" /\ Url = u
SeesBlock == cancel' = TRUE /\ watch' = "done"

\* ... and the rest of it: readd_displaced, remove_included, publish_block.
Maintain(u) ==
    /\ Locked(u)
    /\ applying' = [applying EXCEPT ![u] = Unlocked]
    /\ pool' = [pool EXCEPT ![u] = (@ \cup applying[u].back) \ applying[u].out]
    /\ IF Watched(u) THEN SeesBlock ELSE UNCHANGED <<cancel, watch>>
    /\ UNCHANGED <<chain, job, shutdown, bypassed, displaced>>

\* A block of another miner, on the node's head.
OtherBlock(u, txs) ==
    /\ ~Conflicts(txs, chain[u])
    /\ Apply(u, Append(chain[u], [by |-> "other", txs |-> txs]))
    /\ MinerUnchanged

\* The chains a node hears of.
Heard == {chain[v] : v \in Urls} \cup Elsewhere

\* Towards a longer chain: its next block, or all of a fork.
Next1(c, d) == IF IsPrefix(c, d) THEN SubSeq(d, 1, Len(c) + 1) ELSE d
Gossip(u, c) ==
    /\ Len(c) > Len(chain[u])
    /\ Apply(u, Next1(chain[u], c))
    /\ MinerUnchanged

\* sync_from_peers: nothing for the pool, and no event.
Sync(u, c) ==
    /\ ~Locked(u)
    /\ Len(c) > Len(chain[u])
    /\ chain' = [chain EXCEPT ![u] = Next1(chain[u], c)]
    /\ bypassed' = bypassed \cup (pool[u] \cap Only(chain'[u], chain[u]))
    /\ Displace(u, chain'[u])
    /\ UNCHANGED <<pool, applying>>
    /\ MinerUnchanged

-----------------------------------------------------------------------------
\* Mutant: the mempool is fetched first.
MutWorkRequests == <<"mempool", "head">>

\* try_fetch_work: what it asks of a node, in order.
WorkRequests == <<"head", "mempool">>

\* chain_head_handler takes the chain's lock, list_mempool_handler the pool's.
FetchHead == ~Locked(Url) /\ job' = [job EXCEPT !.got = @ \cup {"head"}, !.base = chain[Url]]
FetchMempool == job' = [job EXCEPT !.got = @ \cup {"mempool"}, !.txs = pool[Url]]

Begin ==
    /\ job.at = "top" /\ ~shutdown
    /\ job' = [job EXCEPT !.at = "fetch"]
    /\ NodesUnchanged
    /\ UNCHANGED <<watch, cancel, shutdown>>

Fetch ==
    /\ job.at = "fetch"
    /\ Cardinality(job.got) < Len(WorkRequests)
    /\ LET what == WorkRequests[Cardinality(job.got) + 1]
       IN  (what = "head" /\ FetchHead) \/ (what = "mempool" /\ FetchMempool)
    /\ NodesUnchanged
    /\ UNCHANGED <<watch, cancel, shutdown>>

\* The node does not answer: the next one is tried, or all of them again.
FetchFails ==
    /\ job.at = "fetch" /\ Cardinality(job.got) < Len(WorkRequests)
    /\ job' = IF job.try = Len(NodeUrls) THEN Top
              ELSE [Top EXCEPT !.at = "fetch", !.try = job.try + 1]
    /\ NodesUnchanged
    /\ UNCHANGED <<watch, cancel, shutdown>>

\* The template is built, and mined on with a watcher.
StartMining ==
    /\ job.at = "fetch" /\ Cardinality(job.got) = Len(WorkRequests)
    /\ job' = [job EXCEPT !.at = "mining"]
    /\ watch' = "connecting"
    /\ cancel' = FALSE
    /\ NodesUnchanged
    /\ UNCHANGED shutdown

\* mine() finds a nonce ...
Find ==
    /\ job.at = "mining"
    /\ Len(job.base) < MaxHeight
    /\ job' = [job EXCEPT !.at = "submit"]
    /\ watch' = "off"
    /\ NodesUnchanged
    /\ UNCHANGED <<cancel, shutdown>>

\* Mutant: a signal is only looked at between two jobs.
MutStopsMining == cancel

\* ... or sees one of the flags.
StopsMining == cancel \/ shutdown
Abandon ==
    /\ job.at = "mining" /\ StopsMining
    /\ job' = Top
    /\ watch' = "off"
    /\ NodesUnchanged
    /\ UNCHANGED <<cancel, shutdown>>

\* The mining thread panics, or the GPU fails: the loop starts over.
TaskFails ==
    /\ job.at = "mining"
    /\ job' = Top
    /\ watch' = "off"
    /\ NodesUnchanged
    /\ UNCHANGED <<cancel, shutdown>>

-----------------------------------------------------------------------------
\* watch_sse_for_block connects; whatever the status, the body is a stream.
WatchOpens ==
    /\ watch = "connecting"
    /\ watch' = "open"
    /\ NodesUnchanged
    /\ UNCHANGED <<job, cancel, shutdown>>

\* The stream breaks, or its client's timeout of 120 s ends it.
WatchFails ==
    /\ watch \in {"connecting", "open"}
    /\ watch' = "polling"
    /\ NodesUnchanged
    /\ UNCHANGED <<job, cancel, shutdown>>

\* The stream ends cleanly: the watcher returns.
WatchEnds ==
    /\ watch \in {"connecting", "open"}
    /\ watch' = "gone"
    /\ NodesUnchanged
    /\ UNCHANGED <<job, cancel, shutdown>>

\* Mutant: the head is compared with the height of the block being mined.
MutPoll ==
    /\ watch = "polling" /\ ~Locked(Url)
    /\ Len(chain[Url]) > Len(job.base) + 1
    /\ cancel' = TRUE /\ watch' = "done"
    /\ NodesUnchanged
    /\ UNCHANGED <<job, shutdown>>

\* A poll of /chain/head sees another head.
Poll ==
    /\ watch = "polling" /\ ~Locked(Url)
    /\ chain[Url] # job.base
    /\ cancel' = TRUE /\ watch' = "done"
    /\ NodesUnchanged
    /\ UNCHANGED <<job, shutdown>>

-----------------------------------------------------------------------------
\* submit_block: one node's answer.  A block that does not extend the node's
\* head is pooled, unless the node knows its fork and the fork wins.
Mined == Append(job.base, [by |-> "us", txs |-> job.txs])
Answered(u) == u \in {a.url : a \in job.answers}
Answer(u, result) ==
    job' = [job EXCEPT !.answers = @ \cup {[url |-> u, result |-> result]}]

Submit(u) ==
    /\ job.at = "submit" /\ ~Answered(u) /\ ~Locked(u)
    /\ \/ chain[u] # job.base /\ Answer(u, "orphaned") /\ NodesUnchanged
       \/ chain[u] = job.base /\ Conflicts(job.txs, job.base)
          /\ Answer(u, "rejected") /\ NodesUnchanged
       \/ Len(Mined) > Len(chain[u])
          /\ ~Conflicts(job.txs, job.base)
          /\ Answer(u, "accepted") /\ Apply(u, Mined)
    /\ UNCHANGED <<watch, cancel, shutdown>>

SubmitFails(u) ==
    /\ job.at = "submit" /\ ~Answered(u)
    /\ Answer(u, "unreachable")
    /\ NodesUnchanged
    /\ UNCHANGED <<watch, cancel, shutdown>>

\* Whatever the merged outcome, the loop starts over.
Submitted ==
    /\ job.at = "submit" /\ \A u \in Urls : Answered(u)
    /\ job' = Top
    /\ NodesUnchanged
    /\ UNCHANGED <<watch, cancel, shutdown>>

Signal ==
    /\ ~shutdown
    /\ shutdown' = TRUE
    /\ NodesUnchanged
    /\ UNCHANGED <<job, watch, cancel>>

Stop ==
    /\ shutdown /\ job.at = "top"
    /\ job' = [job EXCEPT !.at = "stopped"]
    /\ NodesUnchanged
    /\ UNCHANGED <<watch, cancel, shutdown>>

-----------------------------------------------------------------------------
Init ==
    /\ chain = [u \in Urls |-> <<>>]
    /\ pool = [u \in Urls |-> {}]
    /\ applying = [u \in Urls |-> Unlocked]
    /\ job = Top
    /\ watch = "off" /\ cancel = FALSE /\ shutdown = FALSE
    /\ bypassed = {} /\ displaced = {}

Watcher == WatchOpens \/ WatchFails \/ WatchEnds \/ Poll
Loop ==
    \/ Begin \/ Fetch \/ FetchFails \/ StartMining \/ Abandon \/ Submitted \/ Stop
    \/ \E u \in Urls : Submit(u) \/ SubmitFails(u)

Next ==
    \/ \E u \in Urls :
        \/ \E t \in Txs : Relay(u, t)
        \/ \E txs \in SUBSET Txs : OtherBlock(u, txs)
        \/ Maintain(u)
        \/ \E c \in Heard : Gossip(u, c) \/ Sync(u, c)
    \/ Loop \/ Find \/ TaskFails \/ Signal \/ Watcher

\* The loop and the node's handlers go on; a stream ends after 120 s at the
\* latest, and a poll is answered at some point.  No block need be found.
Fairness ==
    /\ \A u \in Urls : WF_vars(Maintain(u))
    /\ WF_vars(Loop) /\ WF_vars(WatchFails) /\ WF_vars(Poll)

Spec == Init /\ [][Next]_vars /\ Fairness

-----------------------------------------------------------------------------
\* A block on a node's head is accepted, whatever happened between the two
\* requests for work and since, and whichever node it goes to: a node rejects
\* only what a sync confirmed behind a pool's back, or what a reorg took off the
\* chain between the two requests, which may be pending again when the second is
\* answered (main.rs:111-160).
RejectedOnlyIfOvertaken ==
    (\E a \in job.answers : a.result = "rejected") => job.txs \cap (bypassed \cup displaced) # {}

Stale == job.at = "mining" /\ chain[Url] # job.base

\* Stale work is given up, also if the block came before the watcher's stream
\* was open, by sync, or while it broke, unless the stream ended cleanly
\* (main.rs:163-205, 470-496).
StaleWorkEnds == Stale ~> job.at # "mining" \/ watch = "gone"

\* A signal ends the miner, whatever it is doing (main.rs:349-366).
ShutdownStops == shutdown ~> job.at = "stopped"

=============================================================================
