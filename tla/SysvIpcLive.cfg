SPECIFICATION FairSpec
CONSTANTS
    l1 = l1
    l2 = l2
    c1 = c1
    c2 = c2
    c3 = c3
    Launches = {l1, l2}
    Calls = {c1, c3}
    LaunchOf <- PairLaunch
    GroupOf <- PairGroup
    NGroups = 2
    Sems <- OneSem
    Initial <- OneUnit
    Requests <- MixedRequests
    Timed = {c3}
    Fallible = {c3}
    SEMVMX = 1
    SEMAEM = 1
PROPERTIES BlockedGoesOn DeadlineEnds
CHECK_DEADLOCK FALSE
