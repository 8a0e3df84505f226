SPECIFICATION IconPlayerSpec
CONSTANTS
    grey = grey
    blue = blue
    Images <- MCImages
    Tinted <- MCImages
    Frames <- MCFrames
    Loops <- MCLoops
    Looks = {"empty", "lively"}
    Kind <- MCKind
    Palettes = {grey}
    PlayModes = {"Pressed"}
    PlayFlags = {{"IgnoreLastImageLoop"}}
    MaxJobs = 2
    MaxCalls = 2
    MaxMeddling = 1
PROPERTY HoverEndsAtItsLastFrame
CHECK_DEADLOCK FALSE
