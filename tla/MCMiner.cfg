SPECIFICATION Spec
CONSTANTS
    u = u
    v = v
    Urls = {u, v}
    NodeUrls <- MCNodeUrls
    Txs = {t}
    Elsewhere <- MCElsewhere
    MaxHeight = 2
INVARIANTS
    RejectedOnlyIfOvertaken
PROPERTIES
    StaleWorkEnds
    ShutdownStops
CHECK_DEADLOCK FALSE
