SPECIFICATION Spec
CONSTANTS
    l1 = l1
    l2 = l2
    c1 = c1
    c2 = c2
    c3 = c3
    Launches = {l1, l2}
    Calls = {c1, c2, c3}
    LaunchOf <- ShareLaunch
    GroupOf <- ShareGroup
    NGroups = 2
    Sems <- Two
    Initial <- Ones
    Requests <- LockRequests
    Timed = {}
    Fallible = {c1}
    SEMVMX = 2
    SEMAEM = 2
INVARIANTS UndoConserved NoMissedWake WaitersAreBlocked
CHECK_DEADLOCK FALSE
