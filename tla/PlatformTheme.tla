--------------------------- MODULE PlatformTheme ---------------------------
(* DPlatformTheme: the settings of the desktop as a program sees them.  The   *)
(* getters and setters go to the interface of the platform: on X11 the        *)
(* XSETTINGS a platform plugin keeps up to date, on Wayland what Treeland's   *)
(* personalization protocol has told so far.  The theme caches a palette that *)
(* it fills when palette() is called or when a colour of it changes.          *)
(*                                                                            *)
(* A key stands for the getter, the setter and the change signal of one       *)
(* setting; those whose value only passes through (fonts, cursor, radius...)  *)
(* are as "name" is.  What has changed is read when the change is delivered.  *)
(* This is the build for DTK 5; that for DTK 6 has no colours of a palette.   *)
EXTENDS Integers

CONSTANTS
    Platforms,   \* the platforms to consider, of {"xcb", "treeland"}
    Roles,       \* the colour roles of a palette, "Window" one of them
    MaxChanges   \* bound on the changes of the desktop's settings

Looks == {"light", "dark"}
SizeModes == {"normal", "compact"}
None == "none"

ASSUME PlatformThemeAssumption ==
    /\ Platforms \subseteq {"xcb", "treeland"}
    /\ "Window" \in Roles
    /\ Roles \cap {"name", "active", "dark", "size"} = {}
    /\ MaxChanges \in Nat

Keys == {"name", "active", "dark", "size"} \cup Roles
Values(k) == IF k = "size" THEN SizeModes ELSE Looks
Settings == [Keys -> Looks \cup SizeModes \cup {None}]
Palettes == [Roles -> Looks \cup {None}]
NoPalette == <<>>

VARIABLES
    platform,
    desktop,     \* the settings in effect
    changes,     \* how many changes were made to them
    theme,       \* is there a DPlatformTheme
    manager,     \* Treeland's PersonalizationManager: "none", "bound" or "active"
    context,     \* is the platform's interface attached to the desktop
    seen,        \* what the theme's getters return
    late,        \* the keys whose change was not delivered yet
    cache,       \* d->palette
    loaded,      \* was the cache filled by palette()
    ticking,     \* notifyPaletteChangeTimer runs
    due          \* a colour changed since it last fired

server == <<platform, desktop, changes>>
interface == <<theme, manager, context, seen, late>>
paletteCache == <<cache, loaded, ticking, due>>
themeVars == <<server, interface, paletteCache>>

ThemeInit ==
    /\ platform \in Platforms
    /\ desktop = [k \in Keys |-> IF k = "size" THEN "normal"
                                 ELSE IF k \in {"name", "active"} THEN "light" ELSE None]
    /\ changes = 0
    /\ theme = FALSE /\ manager = "none" /\ context = FALSE
    /\ seen = [k \in Keys |-> None] /\ late = {}
    /\ cache = NoPalette /\ loaded = FALSE /\ ticking = FALSE /\ due = FALSE

-----------------------------------------------------------------------------
(* allKeys() is not empty                                                     *)
IsValidPalette(s) == \E r \in Roles : s[r] # None

IsValid(s) == s["name"] # None \/ IsValidPalette(s) \/ s["active"] # None

(* Treeland has one active colour; it is the dark one too.                    *)
DarkActiveColor(s) ==
    IF platform = "treeland" THEN s["active"] ELSE s["dark"]

(* getActiveColor                                                             *)
ActiveColorFor(s, type) ==
    IF type = "dark" /\ DarkActiveColor(s) # None THEN DarkActiveColor(s) ELSE s["active"]

(* fetchPalette takes the colours of the cache, not those of the settings.    *)
FetchPalette(s, c) ==
    IF IsValidPalette(s) /\ c # NoPalette THEN c ELSE [r \in Roles |-> None]

(* The settings that can change at all.                                       *)
Settable(k) == platform = "xcb" \/ k \in {"name", "active", "size"}

(* The settings whose changes are told: an interface that is not attached     *)
(* hears nothing, but the size mode is a preference (DConfig) on its own.     *)
Hears(k) == theme /\ (context \/ k = "size")

Written(k, v) ==
    /\ changes < MaxChanges
    /\ Settable(k) /\ desktop[k] # v
    /\ desktop' = [desktop EXCEPT ![k] = v]
    /\ changes' = changes + 1
    /\ late' = IF Hears(k) THEN late \cup {k} ELSE late
    /\ UNCHANGED <<platform, theme, manager, context, seen, paletteCache>>

(* The control center changes a setting, which is not read yet.               *)
DesktopChanges(k, v) == Written(k, v)

(* A setter of the theme writes to the desktop, and its effect comes back as  *)
(* any change does.  The setters of colours only warn on X11; on Wayland the  *)
(* interface has those of its contexts, the others are empty.                 *)
NotImplemented == Roles
XcbWrites(k) == k \notin NotImplemented
Empty == {"name", "dark"} \cup Roles
TreelandWrites(k) == context /\ k \notin Empty
Writes(k) == IF platform = "xcb" THEN XcbWrites(k) ELSE TreelandWrites(k)
SetColor(r, v) == Writes(r) /\ Written(r, v)
SetSetting(k, v) ==
    /\ theme /\ k # "size"
    /\ IF k \in Roles THEN SetColor(k, v) ELSE Writes(k) /\ Written(k, v)

(* The getters: XSETTINGS, or what the contexts were told, nothing at first.  *)
(* The size mode is the theme's own, the colours are native settings, which   *)
(* only X11 has.                                                              *)
NoSetting == None
XcbSetting(k) == desktop[k]
TreelandSetting(k) == NoSetting
NativeSetting(r) == IF platform = "xcb" THEN desktop[r] ELSE None

(* window(), base() and the other getters of colours, unlike palette(), ask   *)
(* the interface, which has none: those of X11 only warn.                     *)
XcbColor(r) == None
ThemeColor(r) == IF platform = "xcb" THEN XcbColor(r) ELSE NoSetting
ThemeSetting(k) ==
    IF k = "size" THEN desktop[k]
    ELSE IF k \in Roles THEN NativeSetting(k)
    ELSE IF platform = "xcb" THEN XcbSetting(k) ELSE TreelandSetting(k)

(* A DPlatformTheme is made.  On X11 the settings are there; on Wayland the   *)
(* interface waits for the manager to become active, and asks then.           *)
MakeTheme ==
    /\ theme' = TRUE
    /\ context' = (platform = "xcb")
    /\ manager' = IF platform = "treeland" /\ manager = "none" THEN "bound" ELSE manager
    /\ seen' = [k \in Keys |-> ThemeSetting(k)]
    /\ late' = {}
    /\ cache' = NoPalette /\ loaded' = FALSE /\ ticking' = FALSE /\ due' = FALSE
    /\ UNCHANGED server

DropTheme ==
    /\ theme' = FALSE /\ context' = FALSE /\ late' = {}
    /\ seen' = [k \in Keys |-> None]
    /\ cache' = NoPalette /\ loaded' = FALSE /\ ticking' = FALSE /\ due' = FALSE
    /\ UNCHANGED <<server, manager>>

(* The compositor announces the manager: initContext, the contexts ask.       *)
AskedFor == {"name", "active"}
ManagerActive ==
    /\ manager = "bound"
    /\ manager' = "active"
    /\ context' = theme
    /\ late' = IF theme THEN late \cup AskedFor ELSE late
    /\ UNCHANGED <<server, theme, seen, paletteCache>>

(* A change other than that of a colour of the palette is delivered.          *)
Deliver(k) ==
    /\ k \in late \ Roles
    /\ late' = late \ {k}
    /\ seen' = [seen EXCEPT ![k] = desktop[k]]
    /\ UNCHANGED <<server, theme, manager, context, paletteCache>>

(* Mutant: an old cache is left as it is.                                     *)
ColorInto_First(c, r, v) ==
    IF c = NoPalette THEN [q \in Roles |-> IF q = r THEN v ELSE None] ELSE c

(* onQtColorChanged, onDtkColorChanged: with no cache yet, one is made that   *)
(* has this colour and no other.                                              *)
ColorInto(c, r, v) ==
    IF c = NoPalette THEN [q \in Roles |-> IF q = r THEN v ELSE None]
    ELSE [c EXCEPT ![r] = v]

(* ... and notifyPaletteChanged: a timer that is not single-shot.             *)
DeliverColor(r) ==
    /\ r \in late \cap Roles
    /\ late' = late \ {r}
    /\ seen' = [seen EXCEPT ![r] = desktop[r]]
    /\ cache' = ColorInto(cache, r, desktop[r])
    /\ ticking' = TRUE /\ due' = TRUE
    /\ UNCHANGED <<server, theme, manager, context, loaded>>

(* The timer fires, and will again: paletteChanged is emitted.                *)
PaletteTick ==
    /\ ticking
    /\ due' = FALSE
    /\ UNCHANGED <<server, interface, cache, loaded, ticking>>

(* palette(): the first call fills the cache, unless a change has made one.   *)
ReadPalette ==
    /\ theme /\ IsValid(seen) /\ cache = NoPalette
    /\ cache' = [r \in Roles |-> seen[r]]
    /\ loaded' = TRUE
    /\ UNCHANGED <<server, interface, ticking, due>>

-----------------------------------------------------------------------------
ThemeOK ==
    /\ platform \in Platforms
    /\ desktop \in Settings /\ seen \in Settings
    /\ changes \in 0..MaxChanges
    /\ theme \in BOOLEAN /\ context \in BOOLEAN /\ (context => theme)
    /\ manager \in {"none", "bound", "active"} /\ (platform = "xcb" => manager = "none")
    /\ late \subseteq Keys /\ (~theme => late = {})
    /\ cache \in Palettes \cup {NoPalette}
    /\ loaded \in BOOLEAN /\ ticking \in BOOLEAN /\ due \in BOOLEAN
    /\ (due => ticking) /\ (ticking => cache # NoPalette)

(* A colour the cached palette has is the one of the settings, and a palette  *)
(* that palette() filled has them all: no order of the change signals and of  *)
(* the first call of palette() leaves an old colour in it.  One that a change *)
(* signal made lacks the other colours, for good.  No getter of a colour      *)
(* contradicts it: they return none at all.                                   *)
CacheFresh ==
    cache # NoPalette =>
        \A r \in Roles : /\ \/ cache[r] = seen[r]
                            \/ ~loaded /\ cache[r] = None
                         /\ ThemeColor(r) \in {None, cache[r]}

=============================================================================
