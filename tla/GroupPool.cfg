SPECIFICATION FairSpec
CONSTANTS
    Loop = {Consumer, Reclaimer}
    g1 = g1
    g2 = g2
    g3 = g3
    w1 = w1
    w2 = w2
    w3 = w3
    w4 = w4
    w5 = w5
    Group = {g1, g2, g3}
    Work = {w1, w2, w3, w4, w5}
    GroupOf <- MCGroupOf
    Coroutine = {c1, c2}
    MAX_CONCURRENT = 2
    None = None
    MaxStops = 1
INVARIANTS
    PermitPerGroup
    NoIdlePermit
PROPERTIES
    ImplementsGroupQueues
    EveryWorkRuns
CHECK_DEADLOCK FALSE
