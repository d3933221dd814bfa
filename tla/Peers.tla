-------------------------------- MODULE Peers --------------------------------
(***************************************************************************)
(* The peers of one node: the list of gossip.rs, the PEERS table, the      *)
(* subscription tasks of api.rs, and the startup and the hourly health     *)
(* check of main.rs.                                                       *)
(*                                                                         *)
(* Handlers and tasks run concurrently; each holds a lock only for one     *)
(* access.  So the handler of POST /peers changes the list, and later the  *)
(* table; the health check takes peers off the list, and later their rows  *)
(* out of the table; a subscription task is spawned, and later registers.  *)
(*                                                                         *)
(* A peer is its canonical URL.  Time is counted in hours: age is the time *)
(* since a peer last answered, and stops once the peer is stale.           *)
(***************************************************************************)
EXTENDS Integers, FiniteSets, Functions

CONSTANTS
    Urls,
    Private,    \* URLs that only canonicalize_peer_url_trusted accepts
    NodeUrl,    \* NODE_URL
    EnvPeers,   \* PEERS
    MaxPeers,   \* MAX_PEERS
    StaleAfter, \* hours of silence after which a peer is evicted, 24
    MaxRequests,\* bound: POST /peers under way at once
    MaxSpawned, \* bound: tasks waiting to register for one URL
    MaxRestarts \* bound

ASSUME PeersAssumption ==
    /\ IsFiniteSet(Urls)
    /\ Private \subseteq Urls /\ NodeUrl \in Urls /\ EnvPeers \subseteq Urls
    /\ {MaxPeers, StaleAfter, MaxRequests, MaxSpawned} \subseteq Nat \ {0}
    /\ MaxRestarts \in Nat

VARIABLES
    peers,    \* Gossip.peers: URL -> hours since it last answered
    table,    \* the PEERS table
    adding,   \* POST /peers: URLs put on the list but not yet in the table
    spawned,  \* subscription tasks that have not registered yet: URL -> how many
    active,   \* active_subscriptions
    running,  \* subscription loops: URL -> how many
    health,   \* the health check: URLs to ping, evicted URLs to delete
    restarts, \* how often the node was restarted
    raced     \* history: URLs whose row was last deleted while they were listed

vars == <<peers, table, adding, spawned, active, running, health, restarts, raced>>

Listed == DOMAIN peers
None == [u \in Urls |-> 0]
Asleep == [awake |-> FALSE, ping |-> {}, delete |-> {}]

\* save_peer and delete_peer, on the PEERS table.
Saved(S) == table \cup S
Deleted(u) == table \ {u}

\* canonicalize_peer_url and its trusted variant, on canonical URLs.
Strict(u) == u \notin Private
\* A URL the node may list: one it can name, and not its own.
Foreign(u) == u # NodeUrl

-----------------------------------------------------------------------------
\* Gossip::add_peer: a known URL keeps its age.
HasPlace(u) == u \in Listed \/ Cardinality(Listed) < MaxPeers
WithPeer(u) == [v \in Listed \cup {u} |-> IF v \in Listed THEN peers[v] ELSE 0]

\* add_peer_handler up to the list
AddPeer(u) ==
    /\ Strict(u) /\ Foreign(u) /\ HasPlace(u)
    /\ u \notin adding /\ Cardinality(adding) < MaxRequests
    /\ peers' = WithPeer(u)
    /\ adding' = adding \cup {u}
    /\ UNCHANGED <<table, spawned, active, running, health, restarts, raced>>

\* ... and the rest of it: save_peer, spawn_peer_subscription.
SavePeer(u) ==
    /\ u \in adding /\ spawned[u] < MaxSpawned
    /\ adding' = adding \ {u}
    /\ table' = Saved({u})
    /\ spawned' = [spawned EXCEPT ![u] = @ + 1]
    /\ raced' = raced \ {u}
    /\ UNCHANGED <<peers, active, running, health, restarts>>

\* try_start_subscription
TryStartSubscription(u) == u \notin active

\* A spawned task registers, or finds another one and returns.
StartTask(u) ==
    /\ spawned[u] > 0
    /\ spawned' = [spawned EXCEPT ![u] = @ - 1]
    /\ active' = active \cup {u}
    /\ running' = IF TryStartSubscription(u) THEN [running EXCEPT ![u] = @ + 1] ELSE running
    /\ UNCHANGED <<peers, table, adding, health, restarts, raced>>

\* Discovery at the end of the sync of a running task: what it finds goes to
\* its own list, which holds u already, and to the table.
Found(known) ==
    {S \in SUBSET {u \in Urls \ known : Foreign(u)} : Cardinality(S) <= MaxPeers - Cardinality(known)}
Discover(u) ==
    /\ running[u] > 0
    /\ \E S \in Found({u}) : table' = Saved(S) /\ raced' = raced \ S
    /\ UNCHANGED <<peers, adding, spawned, active, running, health, restarts>>

-----------------------------------------------------------------------------
\* The health check wakes up after an hour and pings the peers it then has.
\* (The list's ages grow with time, that is, here.)
Wake ==
    /\ ~health.awake
    /\ health' = [awake |-> TRUE, ping |-> Listed, delete |-> {}]
    /\ peers' = [u \in Listed |-> IF peers[u] > StaleAfter THEN peers[u] ELSE peers[u] + 1]
    /\ UNCHANGED <<table, adding, spawned, active, running, restarts, raced>>

\* ping_peers, one peer: it answers, and may have been evicted or not, or not.
Ping(u, answers) ==
    /\ u \in health.ping
    /\ health' = [health EXCEPT !.ping = @ \ {u}]
    /\ peers' = IF answers /\ u \in Listed THEN [peers EXCEPT ![u] = 0] ELSE peers
    /\ UNCHANGED <<table, adding, spawned, active, running, restarts, raced>>

\* Mutant: an evicted peer's subscription is forgotten, though its task runs on.
MutEvictStale ==
    /\ health.awake /\ health.ping = {} /\ health.delete = {}
    /\ LET stale == {u \in Listed : peers[u] > StaleAfter}
       IN  /\ peers' = Restrict(peers, Listed \ stale)
           /\ active' = active \ stale
           /\ health' = IF stale = {} THEN Asleep ELSE [health EXCEPT !.delete = stale]
    /\ UNCHANGED <<table, adding, spawned, running, restarts, raced>>

\* evict_stale
EvictStale ==
    /\ health.awake /\ health.ping = {} /\ health.delete = {}
    /\ LET stale == {u \in Listed : peers[u] > StaleAfter}
       IN  /\ peers' = Restrict(peers, Listed \ stale)
           /\ health' = IF stale = {} THEN Asleep ELSE [health EXCEPT !.delete = stale]
    /\ UNCHANGED <<table, adding, spawned, active, running, restarts, raced>>

\* delete_peer, for one evicted peer
DeletePeer(u) ==
    /\ u \in health.delete
    /\ table' = Deleted(u)
    /\ health' = IF health.delete = {u} THEN Asleep ELSE [health EXCEPT !.delete = @ \ {u}]
    /\ raced' = IF u \in Listed THEN raced \cup {u} ELSE raced
    /\ UNCHANGED <<peers, adding, spawned, active, running, restarts>>

-----------------------------------------------------------------------------
\* The peers of the environment and the safe ones of the table, all
\* of them saved, then what the startup sync discovers.
Configured(stored) == EnvPeers \cup {u \in stored : Strict(u) /\ Foreign(u)}

\* Mutant: discovered peers are only kept in memory.
MutBoot(stored) ==
    \E S \in Found(Configured(stored)) \cup {{}} :
        LET known == Configured(stored) \cup S
        IN  /\ peers' = [u \in known |-> 0]
            /\ table' = stored \cup Configured(stored)
            /\ spawned' = [u \in Urls |-> IF u \in known THEN 1 ELSE 0]

\* The start of the node.
Boot(stored) ==
    \E S \in Found(Configured(stored)) \cup {{}} :
        LET known == Configured(stored) \cup S
        IN  /\ peers' = [u \in known |-> 0]
            /\ table' = stored \cup known
            /\ spawned' = [u \in Urls |-> IF u \in known THEN 1 ELSE 0]

\* The process stops, at any point, and starts again.
Restart ==
    /\ restarts < MaxRestarts
    /\ Boot(table)
    /\ adding' = {} /\ active' = {} /\ running' = None
    /\ health' = Asleep
    /\ restarts' = restarts + 1
    /\ raced' = {}

Init ==
    /\ \E S \in Found(EnvPeers) \cup {{}} :
        LET known == EnvPeers \cup S
        IN  /\ peers = [u \in known |-> 0]
            /\ table = known
            /\ spawned = [u \in Urls |-> IF u \in known THEN 1 ELSE 0]
    /\ adding = {} /\ active = {} /\ running = None
    /\ health = Asleep
    /\ restarts = 0
    /\ raced = {}

Next ==
    \/ \E u \in Urls :
        \/ AddPeer(u) \/ SavePeer(u) \/ StartTask(u) \/ Discover(u)
        \/ DeletePeer(u) \/ \E answers \in BOOLEAN : Ping(u, answers)
    \/ Wake \/ EvictStale \/ Restart

Spec == Init /\ [][Next]_vars

-----------------------------------------------------------------------------
\* However startup, announcements and evictions interleave, at most one loop
\* follows a peer (api.rs:834-840), and no listed peer is left without one.
FollowedOnce ==
    \A u \in Urls :
        /\ running[u] <= 1
        /\ u \in Listed => running[u] = 1 \/ spawned[u] > 0 \/ u \in adding

\* A restart finds again every listed peer (main.rs:667-704), except where the
\* health check took out the row of a peer announced again meanwhile, and those
\* that only discovery may name: the table's rows are filtered more strictly.
ListSurvives == Listed \subseteq Configured(table) \cup adding \cup raced \cup Private

=============================================================================
