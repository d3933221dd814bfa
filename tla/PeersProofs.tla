----------------------------- MODULE PeersProofs -----------------------------
(***************************************************************************)
(* What module Peers promises, for every set of URLs, every list limit and *)
(* every number of concurrent requests and waiting tasks: an announced     *)
(* peer is followed by exactly one loop, and a restart finds it again.     *)
(***************************************************************************)
EXTENDS Peers, TLAPS

\* The kind of value each variable holds.
TypeOK ==
    /\ Listed \subseteq Urls /\ peers \in [Listed -> 0 .. StaleAfter + 1]
    /\ table \subseteq Urls /\ adding \subseteq Urls
    /\ active \subseteq Urls /\ raced \subseteq Urls
    /\ spawned \in [Urls -> Nat] /\ running \in [Urls -> Nat]
    /\ health \in [awake : BOOLEAN, ping : SUBSET Urls, delete : SUBSET Urls]
    /\ restarts \in Nat

\* Registration and loops go together: a URL has its one loop exactly while it
\* is in active_subscriptions.
Registered == \A u \in Urls : running[u] = IF u \in active THEN 1 ELSE 0

\* Every listed peer is registered, or about to be.
Followed == \A u \in Listed : u \in active \/ spawned[u] > 0 \/ u \in adding

\* Every listed peer has its row, is about to get it, or lost it to the health
\* check; and only the environment may name the node itself.
Recorded == Listed \subseteq table \cup adding \cup raced
OthersListed == \A u \in Listed : u \in EnvPeers \/ Foreign(u)

IInv == TypeOK /\ Registered /\ Followed /\ Recorded /\ OthersListed

-----------------------------------------------------------------------------
\* What a start with the rows stored leaves: all of IInv that Boot decides.
LEMMA BootFacts ==
    ASSUME NEW known \in SUBSET Urls, EnvPeers \subseteq known,
           \A u \in known : u \in EnvPeers \/ Foreign(u),
           NEW stored \in SUBSET Urls,
           peers' = [u \in known |-> 0], table' = stored \cup known,
           spawned' = [u \in Urls |-> IF u \in known THEN 1 ELSE 0],
           adding' = {}, active' = {}, running' = None, health' = Asleep,
           restarts' \in Nat, raced' = {}
    PROVE  IInv'
<1>1. Listed' = known
  BY DEF Listed
<1>2. TypeOK'
  BY <1>1, PeersAssumption DEF TypeOK, None, Asleep
<1>3. Registered' /\ Followed'
  BY <1>1 DEF Registered, Followed, None
<1>4. Recorded' /\ OthersListed'
  BY <1>1 DEF Recorded, OthersListed, Foreign
<1> QED
  BY <1>2, <1>3, <1>4 DEF IInv

\* Every start is one of these.
LEMMA KnownFacts ==
    ASSUME NEW stored \in SUBSET Urls, NEW S \in Found(Configured(stored)) \cup {{}}
    PROVE  /\ Configured(stored) \cup S \in SUBSET Urls
           /\ EnvPeers \subseteq Configured(stored) \cup S
           /\ \A u \in Configured(stored) \cup S : u \in EnvPeers \/ Foreign(u)
  BY PeersAssumption DEF Configured, Found

\* A node starts with its environment's peers and what they know.
LEMMA InitIInv == Init => IInv
<1> SUFFICES ASSUME Init PROVE IInv
  OBVIOUS
<1>1. PICK S \in Found(EnvPeers) \cup {{}} :
          /\ peers = [u \in EnvPeers \cup S |-> 0]
          /\ table = EnvPeers \cup S
          /\ spawned = [u \in Urls |-> IF u \in EnvPeers \cup S THEN 1 ELSE 0]
  BY DEF Init
<1>2. Listed = EnvPeers \cup S
  BY <1>1 DEF Listed
<1>3. EnvPeers \cup S \in SUBSET Urls /\ \A u \in S : Foreign(u)
  BY PeersAssumption DEF Found
<1>4. TypeOK
  BY <1>1, <1>2, <1>3, PeersAssumption DEF Init, TypeOK, None, Asleep
<1>5. Registered /\ Followed
  BY <1>1, <1>2, <1>3 DEF Init, Registered, Followed, None
<1>6. Recorded /\ OthersListed
  BY <1>1, <1>2, <1>3 DEF Init, Recorded, OthersListed
<1> QED
  BY <1>4, <1>5, <1>6 DEF IInv

\* Every step of a handler, a task, the health check or a restart keeps IInv.
LEMMA NextIInv == IInv /\ [Next]_vars => IInv'
<1> SUFFICES ASSUME IInv, [Next]_vars PROVE IInv'
  OBVIOUS
<1> USE PeersAssumption DEF IInv
<1>1. ASSUME NEW u \in Urls, AddPeer(u) PROVE IInv'
  <2>1. Listed' = Listed \cup {u}
    BY <1>1 DEF AddPeer, WithPeer, Listed
  <2>2. TypeOK'
    BY <1>1, <2>1 DEF AddPeer, WithPeer, TypeOK
  <2>3. Registered' /\ Followed'
    BY <1>1, <2>1 DEF AddPeer, Registered, Followed
  <2>4. Recorded' /\ OthersListed'
    BY <1>1, <2>1 DEF AddPeer, Recorded, OthersListed, Foreign
  <2> QED
    BY <2>2, <2>3, <2>4
<1>2. ASSUME NEW u \in Urls, SavePeer(u) PROVE IInv'
  <2>1. Listed' = Listed
    BY <1>2 DEF SavePeer, Listed
  <2>2. TypeOK'
    BY <1>2, <2>1 DEF SavePeer, Saved, TypeOK
  <2>3. Registered' /\ Followed'
    BY <1>2, <2>1 DEF SavePeer, Registered, Followed, TypeOK
  <2>4. Recorded' /\ OthersListed'
    BY <1>2, <2>1 DEF SavePeer, Saved, Recorded, OthersListed, Foreign
  <2> QED
    BY <2>2, <2>3, <2>4
<1>3. ASSUME NEW u \in Urls, StartTask(u) PROVE IInv'
  <2>1. Listed' = Listed
    BY <1>3 DEF StartTask, Listed
  <2>2. TypeOK'
    BY <1>3, <2>1 DEF StartTask, TypeOK
  <2>3. Registered' /\ Followed'
    BY <1>3, <2>1 DEF StartTask, TryStartSubscription, Registered, Followed, TypeOK
  <2>4. Recorded' /\ OthersListed'
    BY <1>3, <2>1 DEF StartTask, Recorded, OthersListed, Foreign
  <2> QED
    BY <2>2, <2>3, <2>4
<1>4. ASSUME NEW u \in Urls, Discover(u) PROVE IInv'
  <2>1. PICK S \in Found({u}) : table' = table \cup S /\ raced' = raced \ S
    BY <1>4 DEF Discover, Saved
  <2>2. Listed' = Listed /\ S \subseteq Urls
    BY <1>4 DEF Discover, Listed, Found
  <2>3. TypeOK'
    BY <1>4, <2>1, <2>2 DEF Discover, TypeOK
  <2>4. Registered' /\ Followed' /\ Recorded' /\ OthersListed'
    BY <1>4, <2>1, <2>2 DEF Discover, Registered, Followed, Recorded, OthersListed, Foreign
  <2> QED
    BY <2>3, <2>4
<1>5. ASSUME NEW u \in Urls, NEW answers \in BOOLEAN, Ping(u, answers) PROVE IInv'
  <2>1. Listed' = Listed
    BY <1>5 DEF Ping, Listed
  <2>2. TypeOK'
    BY <1>5, <2>1 DEF Ping, TypeOK
  <2>3. Registered' /\ Followed' /\ Recorded' /\ OthersListed'
    BY <1>5, <2>1 DEF Ping, Registered, Followed, Recorded, OthersListed, Foreign
  <2> QED
    BY <2>2, <2>3
<1>6. ASSUME NEW u \in Urls, DeletePeer(u) PROVE IInv'
  <2>1. Listed' = Listed
    BY <1>6 DEF DeletePeer, Listed
  <2>2. TypeOK'
    BY <1>6, <2>1 DEF DeletePeer, Deleted, Asleep, TypeOK
  <2>3. Registered' /\ Followed' /\ OthersListed'
    BY <1>6, <2>1 DEF DeletePeer, Registered, Followed, OthersListed, Foreign
  <2>4. Recorded'
    BY <1>6, <2>1 DEF DeletePeer, Deleted, Recorded
  <2> QED
    BY <2>2, <2>3, <2>4
<1>7. ASSUME Wake PROVE IInv'
  <2>1. Listed' = Listed
    BY <1>7 DEF Wake, Listed
  <2>2. TypeOK'
    BY <1>7, <2>1 DEF Wake, TypeOK
  <2>3. Registered' /\ Followed' /\ Recorded' /\ OthersListed'
    BY <1>7, <2>1 DEF Wake, Registered, Followed, Recorded, OthersListed, Foreign
  <2> QED
    BY <2>2, <2>3
<1>8. ASSUME EvictStale PROVE IInv'
  <2> DEFINE stale == {u \in Listed : peers[u] > StaleAfter}
  <2>1. peers' = [u \in Listed \ stale |-> peers[u]]
    BY <1>8 DEF EvictStale, Restrict
  <2>2. Listed' \subseteq Listed
    BY <2>1 DEF Listed
  <2>3. TypeOK'
    BY <1>8, <2>1, <2>2 DEF EvictStale, TypeOK, Asleep, Listed
  <2>4. Registered' /\ Followed' /\ Recorded' /\ OthersListed'
    BY <1>8, <2>2 DEF EvictStale, Registered, Followed, Recorded, OthersListed, Foreign
  <2> QED
    BY <2>3, <2>4
<1>9. ASSUME Restart PROVE IInv'
  <2>1. table \in SUBSET Urls
    BY DEF TypeOK
  <2>2. PICK S \in Found(Configured(table)) \cup {{}} :
            /\ peers' = [u \in Configured(table) \cup S |-> 0]
            /\ table' = table \cup (Configured(table) \cup S)
            /\ spawned' = [u \in Urls |-> IF u \in Configured(table) \cup S THEN 1 ELSE 0]
    BY <1>9 DEF Restart, Boot
  <2>3. /\ adding' = {} /\ active' = {} /\ running' = None /\ health' = Asleep
        /\ restarts' \in Nat /\ raced' = {}
    BY <1>9 DEF Restart, TypeOK
  <2> HIDE DEF IInv
  <2> QED
    BY <2>1, <2>2, <2>3, KnownFacts, BootFacts
<1>10. CASE UNCHANGED vars
  BY <1>10 DEF vars, TypeOK, Registered, Followed, Recorded, OthersListed, Listed, Foreign
<1> QED
  BY <1>1, <1>2, <1>3, <1>4, <1>5, <1>6, <1>7, <1>8, <1>9, <1>10 DEF Next

-----------------------------------------------------------------------------
\* IInv holds in every reachable state.
THEOREM AlwaysIInv == Spec => []IInv
  BY InitIInv, NextIInv, PTL DEF Spec

\* However startup, announcements, registrations and evictions interleave, no
\* URL has two loops and no listed peer is left without one (api.rs:834-840).
THEOREM OneLoopPerPeer == Spec => []FollowedOnce
<1>1. IInv => FollowedOnce
  BY DEF IInv, TypeOK, Registered, Followed, FollowedOnce
<1> QED
  BY <1>1, AlwaysIInv, PTL

\* A restart finds every listed peer again, but for the two exceptions the
\* property names (main.rs:667-704).
THEOREM RestartFindsList == Spec => []ListSurvives
<1>1. IInv => ListSurvives
  BY DEF IInv, TypeOK, Recorded, OthersListed, ListSurvives, Configured, Strict
<1> QED
  BY <1>1, AlwaysIInv, PTL

=============================================================================
