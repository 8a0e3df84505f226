\* A removal of a thumbnail that is not queued, then a request for it.
SPECIFICATION Spec
CONSTANTS
    gui = gui
    other = other
    run = run
    k1 = k1
    k2 = k2
    Callers <- OneCaller
    Worker = run
    NoThread = NoThread
    Keys <- TwoKeys
    Started = FALSE
    MaxRequests = 2
    MaxRemoves = 1
INVARIANT
    DropOnlyIfAsked
CHECK_DEADLOCK FALSE
