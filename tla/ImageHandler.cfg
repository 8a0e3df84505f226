SPECIFICATION Spec
CONSTANTS
    Files = {"photo.jpg", "picture"}
    Suffix <- MCSuffix
    Shows = {"tree"}
    Formats = {"", "PNG", "GIF"}
    Contents <- MCContents
    Angles <- MCAngles
    QtPlugins = {"JPG", "JPEG", "PNG", "BMP", "SVG"}
    FreeImage = TRUE
    LibRaw = TRUE
INVARIANTS
    HandlerOK
    TableOK
    DetectionIsStable
    OptionsFit
    CacheIsOfTheFile
PROPERTY
    RotationsAreRight
CHECK_DEADLOCK FALSE
