SPECIFICATION FairSpec
CONSTANTS
    l1 = l1
    l2 = l2
    c1 = c1
    c2 = c2
    c3 = c3
    Launches = {l1}
    Calls = {c1}
    LaunchOf <- SoleLaunch
    GroupOf <- SoleGroup
    NGroups = 1
    Sems <- Two
    Initial <- Zeros
    Requests <- PartialRequests
    Timed = {}
    Fallible = {}
    SEMVMX = 2
    SEMAEM = 2
PROPERTY BlockedRests
CHECK_DEADLOCK FALSE
