SPECIFICATION StoreSpec
CONSTANTS
    photo = photo
    gui = gui
    Files = {photo}
    Clients = {gui}
    Times = {1, 2, 3}
    MaxVersions = 3
INVARIANT StoreInv
PROPERTY ServedFresh
PROPERTY RefusedForCause
