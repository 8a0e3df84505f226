SPECIFICATION Spec
CONSTANTS
    Uuids = {u1, u2}
    Clients = {c1, c2}
    Fields = {progress}
    Reports = {0, 1}
    Urls = {url}
    MaxSignals = 1
PROPERTIES
    SelfDeletionIsSafe
CHECK_DEADLOCK FALSE
