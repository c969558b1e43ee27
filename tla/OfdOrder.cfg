SPECIFICATION FairSpec
CONSTANTS
    o1 = o1
    o2 = o2
    o3 = o3
    d1 = d1
    d2 = d2
    x1 = x1
    x2 = x2
    x3 = x3
    None = None
    Ops = {o1, o2, o3}
    Files = {d1, d2}
    Entries = {x1, x2, x3}
    Menus <- Triples
    End = 1
INVARIANTS EntriesSound HeldByWorker
PROPERTY WaitersEnd
CHECK_DEADLOCK FALSE
