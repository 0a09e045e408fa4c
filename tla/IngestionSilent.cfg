SPECIFICATION Spec
CONSTANTS
    a1 = a1
    a2 = a2
    a3 = a3
    a4 = a4
    x1 = x1
    x2 = x2
    w1 = w1
    w2 = w2
    NoArticle = NoArticle
    NoMessage = NoMessage
    Article = {a4}
    TitleHash <- SameTitle
    Execution = {x1}
    SourceOf <- OtherSites
    Requested = {"MINGPAO"}
    max_concurrent = 1
    max_retry = 2
    Worker = {w1, w2}
    Rejected = {}
    MaxOverdue = 0
    MaxFaults = 1
    MaxStops = 0
INVARIANT AckedIsAnnounced
CHECK_DEADLOCK FALSE
