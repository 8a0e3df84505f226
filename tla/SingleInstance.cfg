\* Three processes and two keys.
SPECIFICATION FairSpec
CONSTANTS
    a = a
    b = b
    c = c
    k1 = k1
    k2 = k2
    NoOne = NoOne
    NoKey = NoKey
    Procs = {a, b, c}
    Keys = {k1, k2}
    Timeouts = TRUE
    MaxCalls = 4
INVARIANTS
    IndInv
    OnePrimary
    PrimaryReachable
PROPERTY
    FirstCallAnswers
CHECK_DEADLOCK FALSE
