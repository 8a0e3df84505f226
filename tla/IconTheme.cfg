SPECIFICATION IconSpec
CONSTANTS
    Icons = {i1, i2}
    Themes <- MCThemes
    Starts <- MCStarts
    DciFiles <- MCDciFiles
    Requests <- MCRequests
    MaxEvents = 2
INVARIANTS
    EngineFits
    PicturesAreRight
SYMMETRY IconSymmetry
