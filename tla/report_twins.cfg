CONSTANTS
    Me = me
    Other = other
    None = None
    p1 = p1
    p2 = p2
    d1 = d1
    d2 = d2
    d3 = d3
    MaxDepth = 1
    MaxRoots = 3
    Days <- TwinDays
SPECIFICATION PipelineSpec
INVARIANTS EventsKeepTheirPlace
CHECK_DEADLOCK FALSE
