\* Every call between any two steps of an animation.
SPECIFICATION Spec
CONSTANTS
    once = once
    endless = endless
    twice = twice
    still = still
    grey = grey
    blue = blue
    Images <- MCImages
    Frames <- MCFrames
    Loops <- MCLoops
    Tinted <- MCTinted
    ImageLists <- MCLists
    FlagSets <- MCFlagSets
    Palettes = {grey, blue}
    LoopCounts = {1, 2}
    CopiesDie = TRUE
    MaxDebt = 2
INVARIANTS
    PlayerOK
    ShownRight
    PaletteFresh
    DefinedUse
PROPERTIES
    NoFrameSkipped
    ContinueResumes
    AbortEndsLoops
CHECK_DEADLOCK FALSE
