SPECIFICATION FairSpec
CONSTANTS
    t1 = t1
    t2 = t2
    t3 = t3
    Tasks = {t1, t2, t3}
    First = {t1, t2}
    MaxEvents = 4
INVARIANTS BarrierHolds OneCustodian
PROPERTIES RepairEnds StopsEnd
CHECK_DEADLOCK FALSE
