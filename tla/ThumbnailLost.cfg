SPECIFICATION StoreSpec
CONSTANTS
    photo = photo
    gui = gui
    Files = {photo}
    Clients = {gui}
    Times = {1, 2}
    MaxVersions = 1
PROPERTY ReturnedThumbnailExists
