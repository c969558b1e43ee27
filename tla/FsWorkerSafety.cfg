SPECIFICATION Spec
CONSTANTS
    p = p  c = c
    Works = {p, c}
    Control = {c}
    Launches <- MCTogether
    None = None
    Batch = 1
    MaxStages = 1
INVARIANTS OneCustodian PauseIsQuiet NoLostSignal ControlReferences
CHECK_DEADLOCK FALSE
