SPECIFICATION Spec
CONSTANTS
    a1 = a1
    a2 = a2
    a3 = a3
    a4 = a4
    x1 = x1
    x2 = x2
    w1 = w1
    w2 = w2
    NoArticle = NoArticle
    NoMessage = NoMessage
    Article = {a2, a3}
    TitleHash <- SameTitle
    Execution = {x1, x2}
    SourceOf <- OneSite
    Requested = {"AASTOCKS"}
    max_concurrent = 1
    max_retry = 1
    Worker = {w1, w2}
    Rejected = {a2}
    MaxOverdue = 1
    MaxFaults = 1
    MaxStops = 1
INVARIANTS
    AckedWasDecided
    OnlyFailuresSilence
    SecondRowIsOverdue
    SuccessIsStored
SYMMETRY Symmetry
CHECK_DEADLOCK FALSE
