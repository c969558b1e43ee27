SPECIFICATION FairSpec
CONSTANTS
    p = p  c = c
    Works = {p, c}
    Control = {c}
    Launches <- MCAlone
    None = None
    Batch = 1
    MaxStages = 1
PROPERTY EveryWorkEnds
CHECK_DEADLOCK FALSE
