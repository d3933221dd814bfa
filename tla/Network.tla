------------------------------- MODULE Network -------------------------------
(***************************************************************************)
(* How blocks travel between nodes: the event stream and the push of       *)
(* gossip.rs, the subscription tasks of api.rs, and sync_from_peers of     *)
(* main.rs, which each task runs before it opens its stream.               *)
(*                                                                         *)
(* A block that a node accepts is published to the subscribers it has at   *)
(* that moment and posted once to each of its peers.  What comes by sync   *)
(* goes to the chain directly and is not published.                        *)
(*                                                                         *)
(* The chain of a node is its tip in a fixed tree of blocks; fork choice   *)
(* is that of Node, without the caps of the orphan pool and the pruning.   *)
(* The task that node l[1] runs for its peer l[2] is link[l]:              *)
(*   idle -> syncing -> synced -> live -> idle                             *)
(***************************************************************************)
EXTENDS Integers, Sequences, FiniteSets, SequencesExt

CONSTANTS
    Nodes,
    Peers,      \* node -> the peers it subscribes and pushes to
    Blocks, Genesis,
    Parent,     \* block -> the block its previous_hash names
    Work,       \* block -> block_work, by its hash
    TargetWork, \* block -> what chain_work counts for it, by the difficulty it had to meet
    MaxSeen,    \* MAX_SEEN, entries of a seen cache
    EventCap,   \* EVENT_CHANNEL_CAP
    Batch,      \* BATCH, blocks per request of a sync
    MaxLosses   \* bound: connections and posts that fail

Mined == Blocks \ {Genesis}
Links == {l \in Nodes \X Nodes : l[2] \in Peers[l[1]]}

ASSUME NetworkAssumption ==
    /\ Genesis \in Blocks
    /\ Parent \in [Mined -> Blocks]
    /\ {Work, TargetWork} \subseteq [Blocks -> Nat \ {0}]
    /\ Peers \in [Nodes -> SUBSET Nodes]
    /\ \A n \in Nodes : n \notin Peers[n]
    /\ {MaxSeen, EventCap, Batch} \subseteq Nat \ {0}
    /\ MaxLosses \in Nat

VARIABLES
    mined,    \* blocks found so far
    tip,      \* node -> last block of its chain
    orphans,  \* node -> its orphan pool
    seen,     \* node -> seen_blocks, oldest first
    link,     \* subscription tasks
    posts,    \* blocks on their way to POST /blocks: <<block, node>>
    losses,   \* connections and posts lost so far
    gap       \* history: links whose node may lack what its peer has accepted, and
              \* <<block, node>> where a push was lost or not made, or where a reorg
              \* dropped a heavier orphan

vars == <<mined, tip, orphans, seen, link, posts, losses, gap>>

-----------------------------------------------------------------------------
MinOf(i, j) == IF i <= j THEN i ELSE j

\* The tree.
Height[b \in Blocks] == IF b = Genesis THEN 1 ELSE Height[Parent[b]] + 1
ChainWork[b \in Blocks] == IF b = Genesis THEN Work[b] ELSE ChainWork[Parent[b]] + Work[b]
HeadWork[b \in Blocks] ==
    IF b = Genesis THEN TargetWork[b] ELSE HeadWork[Parent[b]] + TargetWork[b]
PathTo[b \in Blocks] == IF b = Genesis THEN <<b>> ELSE Append(PathTo[Parent[b]], b)
Chain(b) == ToSet(PathTo[b])

\* The main-chain block, or unknown block, that the fork ending in o grows from.
ForkRoot(pool, o) ==
    LET below[b \in pool] == IF Parent[b] \in pool THEN below[Parent[b]] ELSE Parent[b]
    IN  below[o]

\* The fork tips that outweigh the chain, and of those any with the heaviest fork,
\* which is not the heaviest chain if the forks leave it at different blocks.
BestForks(t, pool) ==
    LET rooted == {o \in pool : /\ \A p \in pool : Parent[p] # o
                                /\ ForkRoot(pool, o) \in Chain(t)
                                /\ ChainWork[o] > ChainWork[t]}
        weight(o) == ChainWork[o] - ChainWork[ForkRoot(pool, o)]
    IN  {o \in rooted : \A p \in rooted : weight(p) <= weight(o)}

\* apply_in_memory: what a node with tip t and this orphan pool makes of b.
Outcomes(t, pool, b) ==
    IF Parent[b] = t THEN {[accepted |-> TRUE, tip |-> b, orphans |-> pool]}
    ELSE LET pooled == pool \cup {b}
         IN  IF BestForks(t, pooled) = {}
             THEN {[accepted |-> FALSE, tip |-> t, orphans |-> pooled]}
             ELSE {[accepted |-> TRUE, tip |-> o, orphans |-> {}] : o \in BestForks(t, pooled)}

-----------------------------------------------------------------------------
\* SeenCache::insert on a key it does not hold.
Remember(cache, b) == Append(IF Len(cache) >= MaxSeen THEN Tail(cache) ELSE cache, b)

\* A broadcast receiver that lags skips the oldest event.
Enqueue(events, b) == Append(IF Len(events) >= EventCap THEN Tail(events) ELSE events, b)
Lags(l) == Len(link[l].events) >= EventCap

Following(n) == {l \in Links : l[2] = n}
Subscribers(n) == {l \in Following(n) : link[l].phase = "live"}

\* Mutants: whatever arrives is published, seen or not; a reorg is not.
MutAnnounces(n, b, r) == TRUE
MutAnnouncesApplied(n, b, r) == r.accepted /\ b \notin ToSet(seen[n]) /\ Parent[b] = tip[n]

\* publish_block: an accepted block that the seen cache does not hold.
Announces(n, b, r) == r.accepted /\ b \notin ToSet(seen[n])

\* Where an adopted chain stays unknown if its last block is not published.
Silent(n, r) == Following(n) \cup ({r.tip} \X Peers[n])

Dropped(n, r) ==
    {<<o, n>> : o \in {o \in orphans[n] \ r.orphans : ChainWork[o] > ChainWork[r.tip]}}

\* apply_incoming_block on node n.  `links` and `inflight` are the tasks and
\* posts once the block that arrived is taken out of them.
Receive(n, b, links, inflight) ==
    \E r \in Outcomes(tip[n], orphans[n], b) :
        /\ tip' = [tip EXCEPT ![n] = r.tip]
        /\ orphans' = [orphans EXCEPT ![n] = r.orphans]
        /\ IF Announces(n, b, r)
           THEN /\ seen' = [seen EXCEPT ![n] = Remember(@, b)]
                /\ link' = [l \in Links |->
                              IF l \in Subscribers(n)
                              THEN [links[l] EXCEPT !.events = Enqueue(@, b)] ELSE links[l]]
                /\ posts' = inflight \cup ({b} \X Peers[n])
           ELSE /\ link' = links
                /\ posts' = inflight
                /\ UNCHANGED seen
        /\ gap' = gap \cup Dropped(n, r) \cup
                   (IF ~r.accepted THEN {}
                    ELSE IF r.tip # b \/ b \in ToSet(seen[n]) THEN Silent(n, r)
                    ELSE {l \in Following(n) : l \notin Subscribers(n) \/ Lags(l)})

\* A miner's block on the node's head (stale submissions are in Miner).
Mine(n, b) ==
    /\ b \notin mined /\ Parent[b] = tip[n]
    /\ mined' = mined \cup {b}
    /\ Receive(n, b, link, posts)
    /\ UNCHANGED losses

\* handle_peer_event
TakeEvent(l) ==
    /\ link[l].phase = "live" /\ link[l].events # <<>>
    /\ Receive(l[1], Head(link[l].events), [link EXCEPT ![l].events = Tail(@)], posts)
    /\ UNCHANGED <<mined, losses>>

\* submit_block_handler, for a push
TakePost(b, n) ==
    /\ <<b, n>> \in posts
    /\ Receive(n, b, link, posts \ {<<b, n>>})
    /\ UNCHANGED <<mined, losses>>

LosePost(b, n) ==
    /\ <<b, n>> \in posts /\ losses < MaxLosses
    /\ posts' = posts \ {<<b, n>>}
    /\ losses' = losses + 1
    /\ gap' = gap \cup {<<b, n>>}
    /\ UNCHANGED <<mined, tip, orphans, seen, link>>

-----------------------------------------------------------------------------
\* The subscription task.
NotSyncing == [phase |-> "idle", upto |-> 0, batch |-> <<>>, events |-> <<>>,
               ours |-> Genesis, theirs |-> Genesis]
Step(l, changes) ==
    /\ link' = [link EXCEPT ![l] = changes]
    /\ UNCHANGED <<mined, seen, posts, losses>>

\* sync_from_peers compares chain_work, which is not the work that forks are
\* chosen by, with that of the peer's head, and syncs to its height.
BeginSync(l) ==
    LET head == tip[l[2]]
        begun == [NotSyncing EXCEPT !.ours = tip[l[1]], !.theirs = head]
    IN  /\ link[l].phase = "idle"
        /\ IF HeadWork[head] > HeadWork[tip[l[1]]]
           THEN Step(l, [begun EXCEPT !.phase = "syncing", !.upto = Height[head]])
           ELSE Step(l, [begun EXCEPT !.phase = "synced"])
        /\ gap' = gap \ {l}
        /\ UNCHANGED <<tip, orphans>>

\* Mutant: a sync starts one block above the height.
MutBlocksFrom(n, from) == SubSeq(PathTo[tip[n]], from + 2, MinOf(Height[tip[n]], from + 1 + Batch))

\* GET /blocks: the rows from index `from`, Batch at most.
BlocksFrom(n, from) == SubSeq(PathTo[tip[n]], from + 1, MinOf(Height[tip[n]], from + Batch))

\* The next request, from the node's own height.
Fetch(l) ==
    LET from == Height[tip[l[1]]]
        blocks == BlocksFrom(l[2], from)
    IN  /\ link[l].phase = "syncing" /\ link[l].batch = <<>>
        /\ IF from >= link[l].upto \/ blocks = <<>>
           THEN Step(l, [link[l] EXCEPT !.phase = "synced"])
           ELSE Step(l, [link[l] EXCEPT !.batch = blocks])
        /\ UNCHANGED <<tip, orphans, gap>>

\* A fetched block goes straight to the chain; unless the height grows the
\* peer is given up.
ApplyFetched(l) ==
    LET n == l[1]
    IN  /\ link[l].phase = "syncing" /\ link[l].batch # <<>>
        /\ \E r \in Outcomes(tip[n], orphans[n], Head(link[l].batch)) :
            /\ tip' = [tip EXCEPT ![n] = r.tip]
            /\ orphans' = [orphans EXCEPT ![n] = r.orphans]
            /\ IF Height[r.tip] > Height[tip[n]]
               THEN Step(l, [link[l] EXCEPT !.batch = Tail(@), !.ours = r.tip])
               ELSE Step(l, [link[l] EXCEPT !.phase = "synced", !.batch = <<>>])
            /\ gap' = gap \cup Dropped(n, r) \cup (IF r.accepted THEN Silent(n, r) ELSE {})

\* subscribe_to_peer: the stream starts with the next event.
Subscribe(l) ==
    /\ link[l].phase = "synced"
    /\ Step(l, [link[l] EXCEPT !.phase = "live"])
    /\ gap' = IF ChainWork[tip[l[1]]] < ChainWork[link[l].theirs] THEN gap \cup {l} ELSE gap
    /\ UNCHANGED <<tip, orphans>>

\* The connection fails, and what was under way on it is lost.
Disconnect(l) ==
    /\ link[l].phase # "idle" /\ losses < MaxLosses
    /\ link' = [link EXCEPT ![l] = NotSyncing]
    /\ losses' = losses + 1
    /\ gap' = IF link[l].events # <<>> THEN gap \cup {l} ELSE gap
    /\ UNCHANGED <<mined, tip, orphans, seen, posts>>

-----------------------------------------------------------------------------
Init ==
    /\ mined = {}
    /\ tip = [n \in Nodes |-> Genesis]
    /\ orphans = [n \in Nodes |-> {}]
    /\ seen = [n \in Nodes |-> <<>>]
    /\ link = [l \in Links |-> NotSyncing]
    /\ posts = {}
    /\ losses = 0
    /\ gap = {}

Task(l) == BeginSync(l) \/ Fetch(l) \/ ApplyFetched(l) \/ Subscribe(l) \/ TakeEvent(l)

Next ==
    \/ \E n \in Nodes, b \in Mined : Mine(n, b) \/ TakePost(b, n) \/ LosePost(b, n)
    \/ \E l \in Links : Task(l) \/ Disconnect(l)

\* A task's loop never ends, and a post is delivered or fails.
Fairness ==
    /\ \A l \in Links : WF_vars(Task(l))
    /\ \A n \in Nodes, b \in Mined : WF_vars(TakePost(b, n))

Spec == Init /\ [][Next]_vars /\ Fairness

-----------------------------------------------------------------------------
Quiet == posts = {} /\ \A l \in Links : link[l].phase = "live" /\ link[l].events = <<>>

\* Relay loops end: the messages that a block causes die out, although the
\* seen caches forget and every node passes on what it accepts
\* (WHITEPAPER.md:176-178).
GossipEnds == <>[]Quiet

\* Once nothing is under way, all nodes have chains of the same weight.  The
\* exceptions: a stream with a gap that no sync has closed, a push that was
\* lost, and an orphan heavier than the chain of the node that holds it or
\* dropped it.  A gap is also left by what a sync or a reorg adopts without
\* publishing it, and by a sync that takes the work of two chains for equal.
OrphanAhead == \E n \in Nodes : \E o \in orphans[n] : ChainWork[o] > ChainWork[tip[n]]
QuietMeansConverged ==
    Quiet /\ gap = {} /\ ~OrphanAhead
        => \A m, n \in Nodes : ChainWork[tip[m]] = ChainWork[tip[n]]

\* A node resumes a stream with all the blocks its peer had when the sync
\* began (api.rs:862-864), if it was on the peer's chain, the peer is still on
\* it, and no other task or handler moved the node's chain meanwhile.
Resumes(l) == link[l].phase = "synced" /\ link'[l].phase = "live"
Undisturbed(l) ==
    /\ tip[l[1]] = link[l].ours
    /\ link[l].ours \in Chain(link[l].theirs)
    /\ link[l].theirs \in Chain(tip[l[2]])
SyncClosesGap ==
    [][\A l \in Links : Resumes(l) /\ Undisturbed(l) => link[l].ours = link[l].theirs]_vars

=============================================================================
