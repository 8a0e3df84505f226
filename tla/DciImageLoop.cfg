\* One image whose animation is to be played twice.
SPECIFICATION FairSpec
CONSTANTS
    once = once
    endless = endless
    twice = twice
    still = still
    grey = grey
    blue = blue
    Images = {twice}
    Frames <- MCFrames
    Loops <- MCLoops
    Tinted = {}
    ImageLists <- TwiceList
    FlagSets = {{}}
    Palettes = {grey}
    LoopCounts = {}
    CopiesDie = FALSE
    MaxDebt = 1
PROPERTY
    EndlessLoopIsReported
CHECK_DEADLOCK FALSE
