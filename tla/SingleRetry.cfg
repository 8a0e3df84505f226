\* One key, no interval: a process that was refused tries again.
SPECIFICATION FairSpec
CONSTANTS
    a = a
    b = b
    c = c
    k1 = k1
    k2 = k2
    NoOne = NoOne
    NoKey = NoKey
    Procs = {a, b}
    Keys = {k1}
    Timeouts = FALSE
    MaxCalls = 4
PROPERTY
    AttemptTriggersSignal
CHECK_DEADLOCK FALSE
