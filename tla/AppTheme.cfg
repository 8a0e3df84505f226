SPECIFICATION Spec
CONSTANTS
    Platforms = {"xcb", "treeland"}
    Roles <- MCRoles
    Starts <- MCStarts
    MaxChanges = 2
    MaxEvents = 3
    MaxPosted = 1
    MaxApps = 2
CHECK_DEADLOCK FALSE
INVARIANTS
    AppThemeOK
    CacheFresh
    FollowersTold
PROPERTY
    ChangeReachesFollowers
