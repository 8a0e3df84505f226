SPECIFICATION Spec
CONSTANTS
    Uuids = {u1, u2}
    Clients = {c1, c2}
    Fields = {progress}
    Reports = {0, 1}
    Urls = {url}
    MaxSignals = 1
INVARIANTS
    ClientsFollow
PROPERTIES
    EndIsHeard
CHECK_DEADLOCK FALSE
