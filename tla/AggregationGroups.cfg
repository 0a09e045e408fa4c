SPECIFICATION Spec
CONSTANTS
    SLIDING_WINDOW = 1
    EVENT_MAX_TIMESPAN = 6
    DB_FLUSH_INTERVAL = 1
    NoEvent = NoEvent
    Malformed = Malformed
    Consumer = Consumer
    Reclaimer = Reclaimer
    m1 = m1
    m2 = m2
    m3 = m3
    m4 = m4
    g1 = g1
    g2 = g2
    e1 = e1
    e2 = e2
    e3 = e3
    i1 = i1
    i2 = i2
    i3 = i3
    Message = {m1, m2, m3}
    EntityOf <- OneEach
    EntityEvent = {e1, e2, e3}
    Known = {e1, e2}
    PublishedAt <- Far
    Group = {g1, g2}
    GroupOf <- TwoGroups
    EventId = {i1, i2, i3}
    BATCH_SIZE = 1
    AGG_MAX_RETRY = 2
    MaxFaults = 0
    MaxOutages = 0
    MaxStops = 1
    MaxOverdue = 0
INVARIANTS
    NothingAckedIsLost
    FlushedIsPublished
SYMMETRY EventIdSymmetry
