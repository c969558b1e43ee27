SPECIFICATION Spec
CONSTANTS
    top = top
    mid = mid
    leaf = leaf
    Groups = {top, mid, leaf}
    Root = top
    Up <- MCUp
    Members = {m1, m2}
    Leader = m1
    Limits = {1}
    Watched = {leaf}
    Menus <- MCMenus
    None = None
INVARIANTS CountsExact FreezerExact QuietMeansUnchanged
PROPERTIES RemovedIsEmpty NoInternalProcess BirthsRespectLimits RefusalIsHonest
CHECK_DEADLOCK FALSE
