SPECIFICATION IconPlayerSpec
CONSTANTS
    grey = grey
    blue = blue
    Images <- MCImages
    Tinted <- MCImages
    Frames <- MCFrames
    Loops <- MCLoops
    Looks = {"empty", "mixed"}
    Kind <- MCKind
    Palettes = {grey}
    PlayModes = {"Pressed"}
    PlayFlags = {{"IgnoreLastImageLoop"}}
    MaxJobs = 3
    MaxCalls = 2
    MaxMeddling = 1
INVARIANT SeamlessQueue
CHECK_DEADLOCK FALSE
