SPECIFICATION FairSpec
CONSTANTS
    a = a  b = b  c = c
    l1 = l1  l2 = l2
    Ops = {a, b, c}
    Loops = {l1, l2}
    Owner <- MCOwner
    NoLoop = NoLoop
INVARIANTS OrderInv NoLostWakeup TokensCounted
PROPERTIES ImplementsFifo EveryTurnComes
CHECK_DEADLOCK FALSE
