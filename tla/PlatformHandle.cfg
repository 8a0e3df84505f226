SPECIFICATION Spec
CONSTANTS
    h1 = h1
    h2 = h2
    Handles <- MCHandles
    Platforms = {"xcb", "treeland", "other"}
    MaxSurfaces = 3
    MaxCalls = 5
INVARIANT HandlesOK
INVARIANT RadiusFollowsTheme
PROPERTY ShowsWhatWasAsked
