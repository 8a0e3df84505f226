\* One thread that uses the provider from before its first request until its
\* destruction, and callbacks that use it from the worker.
SPECIFICATION FairSpec
CONSTANTS
    gui = gui
    other = other
    run = run
    k1 = k1
    k2 = k2
    Callers <- OneCaller
    Worker = run
    NoThread = NoThread
    Keys <- TwoKeys
    Started = FALSE
    MaxRequests = 3
    MaxRemoves = 2
INVARIANTS
    IndInv
    NoRequestLost
    CancelHonoured
    EmptyTakeNeedsLateWake
PROPERTIES
    AnsweredInOrder
    EveryRequestAnswered
    DestroyReturns
CHECK_DEADLOCK FALSE
