CONSTANTS
    Me = me
    Other = other
    None = None
    p1 = p1
    p2 = p2
    MaxDepth = 1
    MaxRoots = 3
    PageSize = 2
    MaxPages = 2
    Feeds <- MCFeeds
    Arrivals <- MCArrivals
    Calls = {s1, s2, s3}
    MaxAttempts = 2
    Fragile = {s3}
    MaxParallel = 2
    LongSyncs = {s1}
SPECIFICATION Spec
INVARIANTS RowsTellWhatHappened WalkIsExact
PROPERTIES NoSendAfterCancel FetchEnds
CHECK_DEADLOCK FALSE
