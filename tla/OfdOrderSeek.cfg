SPECIFICATION Spec
CONSTANTS
    o1 = o1
    o2 = o2
    o3 = o3
    d1 = d1
    d2 = d2
    x1 = x1
    x2 = x2
    x3 = x3
    None = None
    Ops = {o1, o2}
    Files = {d1}
    Entries = {x1, x2}
    Menus <- Pairs
    End = 2
INVARIANT PositionHeld
CHECK_DEADLOCK FALSE
