SPECIFICATION IconPlayerSpec
CONSTANTS
    grey = grey
    blue = blue
    Images <- MCImages
    Tinted <- MCImages
    Frames <- MCFrames
    Loops <- MCLoops
    Looks = {"empty", "still"}
    Kind <- MCKind
    Palettes = {grey, blue}
    PlayModes = {"Pressed"}
    PlayFlags = {{"IgnoreLastImageLoop"}}
    MaxJobs = 3
    MaxCalls = 3
    MaxMeddling = 5
INVARIANT PaletteShown
