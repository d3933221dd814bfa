SPECIFICATION Spec
CONSTANTS
    Urls = {p, q, r, me}
    Private = {q}
    NodeUrl = me
    EnvPeers = {r}
    MaxPeers = 2
    StaleAfter = 1
    MaxRequests = 1
    MaxSpawned = 1
    MaxRestarts = 1
INVARIANTS
    FollowedOnce
    ListSurvives
