SPECIFICATION FairSpec
CONSTANTS
    p = p
    q = q
    i = i
    f = f
    g = g
    None = None
    Owners = {p, q, i}
    Inspectors = {i}
    Leaves = {f, g}
    MaxFaults = 4
INVARIANTS ReadsWhole RecoveryFinds CataloguedIsDurable WatchEnds
PROPERTIES MovesAreHidden Recovers
