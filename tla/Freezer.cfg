SPECIFICATION FreezerSpec
CONSTANTS
    top = top
    cold = cold
    Groups = {top, cold}
    Root = top
    Up <- MCUp
    Members = {m1, m2}
    Leader = m1
    Limits = {}
    Watched = {}
    Menus <- MCMenus
    None = None
INVARIANTS HeldIsDue
PROPERTIES NoEscape ImplementsCgroup FreezeEnds ThawEnds
CHECK_DEADLOCK FALSE
