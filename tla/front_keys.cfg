CONSTANTS
    SourceIds = {s1, s2}
    NoSource = NoSource
    Texts <- MCTexts
    MaxEdits = 2
    Clerks = {c1, c2}
    PersonIds = {p1, p2}
    IdentityIds = {i1}
    Actors = {a1}
    Nobody = Nobody
    MaxErrands = 3
    Reports = {r1, r2}
    NoReport = NoReport
    MaxBusy = 1
    Capacity = 2
    FlushInterval = 2
    MaxToasts = 7
    MaxTicks = 4
    Sweepers = {w1, w2}
    Never = Never
    DefaultDays = 1
    MinInterval = 2
    MaxClock = 3
    Dirs = {1, 2, 3, 4, 5}
    ParentOf <- MCParentOf
    RootLists <- MCRootLists
    MaxDepth = 2
    MaxRoots = 2
    Pickers = {k1, k2}
    Dests = {f1, f2}
    NoOwner = NoOwner
    MaxPicks = 3
    None = None
    Days = {d1, d2}
    Drafts = {n1}
    Kinds = {"text", "begin", "badbegin", "end", "fence3", "fence4", "info3"}
    Eols = {"lf", "crlf"}
    MaxTyped = 4
    MaxFront = 4
    MaxSaves = 1
    Versions = {v1, v2}
    NoHandle = NoHandle
    MaxAsks = 3
    Alphabets <- MCAlphabets
    MaxPieces = 5
    KeyPrefix = {2, 3}
    Origins = {o1, o2}
    EventsOf <- MCEventsOf
    Tries = {t1, t2}
    NoTry = NoTry
    MaxOpenings = 2
SPECIFICATION Spec
PROPERTIES UserKeysSurvive
CHECK_DEADLOCK FALSE
