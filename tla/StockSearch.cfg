SPECIFICATION Spec
CONSTANTS
    c1 = c1
    c2 = c2
    c3 = c3
    c4 = c4
    c8 = c8
    NoCode = NoCode
    NoRefresh = NoRefresh
    startup = startup
    Sync = {sync1, sync2}
    Code = {c1, c2, c3, c4, c8}
    RmbCode = {c8}
    Publication <- MCPublication
    CONNECT_RETRIES = 2
    MaxFetchFaults = 2
    Ascii <- Letters26
    EN_LEGAL_WORDS <- LegalWords
    EN_GENERIC_WORDS <- GenericWords
    Mention <- MCMention
    Output <- MCOutput
    Printed = {{}, {c1}}
INVARIANTS
    ShowsOneRefresh
    LoadedAsPublished
    ListedNamesAreFound
    SearchesAsMeasured
    EachStockOnce
PROPERTIES
    OlderOnlyByOverlap
SYMMETRY SyncSymmetry
CHECK_DEADLOCK FALSE
