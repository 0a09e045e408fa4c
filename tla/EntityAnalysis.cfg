SPECIFICATION FairSpec
CONSTANTS
    m1 = m1
    m2 = m2
    m3 = m3
    c1 = c1
    c2 = c2
    c3 = c3
    u1 = u1
    s1 = s1
    s2 = s2
    Malformed = Malformed
    Consumer = Consumer
    Reclaimer = Reclaimer
    Message = {m1, m3}
    CleanedOf <- Cleanings
    SourceUrl <- OneArticle
    Stock = {s1, s2}
    BATCH_SIZE = 2
    MAX_CONCURRENT = 1
    MAX_RETRY = 3
    MaxFaults = 1
    MaxStops = 1
INVARIANTS
    InFlightOnce
    AckedIsFinal
    StoredIsOwed
CHECK_DEADLOCK FALSE
PROPERTIES
    EveryMessageSettles
