SPECIFICATION IconPlayerSpec
CONSTANTS
    grey = grey
    blue = blue
    Images <- MCImages
    Tinted <- MCImages
    Frames <- MCFrames
    Loops <- MCLoops
    Looks = {"empty", "lively"}
    Kind <- MCKind
    Palettes = {grey}
    PlayModes = {"Pressed"}
    PlayFlags = {{"IgnoreLastImageLoop"}}
    MaxJobs = 2
    MaxCalls = 2
    MaxMeddling = 1
INVARIANT IconPlayerOK
INVARIANT NeverOutOfRange
INVARIANT LeadsToMode
INVARIANT UndisturbedQueueGoesOn
INVARIANT BusyEnds
INVARIANT RestImage
PROPERTY TurnsAround
