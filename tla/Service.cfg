SPECIFICATION FairSpec
CONSTANTS
    aggregation = aggregation
    scoring = scoring
    persist = persist
    score = score
    probe = probe
    Layer <- TwoLayers
    Monitored = {aggregation}
    LoopsOf <- TwoLoops
    MaxCrashes = 2
    Call = {persist, score, probe}
    LoopCall = {persist, score}
    KindOf <- Kinds
    CallerOf <- Callers
    pool_size = 1
    db_max_retry = 2
    MaxDbFaults = 1
INVARIANTS
    NoLoopOutlivesClients
    OneTaskPerLayer
    ProbesAndConnectionsAreHeld
PROPERTIES
    ImplementsDbCall
    CrashedComesBack
    ShutdownEnds
CHECK_DEADLOCK FALSE
