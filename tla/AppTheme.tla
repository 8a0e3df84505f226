------------------------------ MODULE AppTheme ------------------------------
(* DGuiApplicationHelper: the palette, the theme type and the size mode of an *)
(* application, and how those who follow them are told of a change.  The      *)
(* helper is made by the first call of instance(), before or after the        *)
(* application; it joins the theme of the desktop, the type the user saved    *)
(* (DConfig) and what the application sets itself.                            *)
(*                                                                            *)
(* Qt: processThemeChanged reads the palette again from the platform theme,   *)
(* which is Deepin's and returns applicationPalette(); when the palette of    *)
(* the application (gui) has changed, its change signal is emitted.           *)
EXTENDS PlatformTheme

CONSTANTS
    Starts,      \* what a program may start with: the platform, the attribute
                 \* DontSaveApplicationTheme, D_DTK_SIZEMODE and the saved type
    MaxEvents,   \* bound on the changes of the desktop and the application's calls
    MaxPosted,   \* bound on the posted notifications that are counted
    MaxApps      \* bound on the applications made one after the other

Types == Looks \cup {"unknown"}

ASSUME AppThemeAssumption ==
    /\ Starts \subseteq [platform : Platforms, dontSave : BOOLEAN,
                         env : SizeModes \cup {None}, saved : Types]
    /\ MaxEvents \in Nat /\ MaxPosted \in Nat \ {0} /\ MaxApps \in Nat

VARIABLES
    app, apps,       \* is there an application, how many were made
    helper,          \* is there a DGuiApplicationHelper
    preRoutine,      \* is staticInitApplication a pre-routine of Qt
    links,           \* how often the helper is connected to the theme
    dontSave,        \* the attribute DontSaveApplicationTheme
    env,             \* the size mode D_DTK_SIZEMODE gives
    saved, mine,     \* the type in DConfig, and as _d_dconfig has read it
    lateType,        \* a change of the saved type was not delivered yet
    paletteType, paletteTypeInited,
    appPalette,      \* the look of the palette the application has set
    gui,             \* the palette of QGuiApplication
    posted,          \* the queued calls of notifyAppThemeChanged
    delay,           \* the timer of 100 ms runs
    explicitSizeMode, systemSizeMode,
    toldPalette, toldType, toldSize,   \* what followers know
    calls,
    silent, silentSize   \* History: changes that are not announced

process == <<app, apps, helper, preRoutine, links, dontSave, env>>
config == <<saved, mine, lateType>>
kinds == <<paletteType, paletteTypeInited, appPalette>>
pending == <<posted, delay>>
sizes == <<explicitSizeMode, systemSizeMode, toldSize, silentSize>>
told == <<gui, toldPalette, toldType, silent>>
appVars == <<process, config, kinds, pending, sizes, told, calls>>
vars == <<themeVars, appVars>>

-----------------------------------------------------------------------------
IsCustomPalette == appPalette # None \/ paletteType # "unknown"

(* standardPalette: that of a look; none of an unknown type                   *)
StandardPalette(type) == IF type = "unknown" THEN None ELSE type

(* applicationPalette(type): what it is made of.                              *)
PaletteIn(own, type, s, c) ==
    LET look == IF type # "unknown" THEN type
                ELSE IF s["name"] = "dark" THEN "dark" ELSE "light"
    IN [own |-> own,
        look |-> StandardPalette(IF own # None THEN "unknown" ELSE look),
        active |-> IF own # None THEN None ELSE ActiveColorFor(s, look),
        roles |-> IF own = None /\ type = "unknown" THEN FetchPalette(s, c)
                  ELSE [r \in Roles |-> None]]
InForce == PaletteIn(appPalette, paletteType, seen, cache)

(* toColorType: dark unless the window's colour is bright.                    *)
ToColorType(p) ==
    IF p.own # None THEN p.own
    ELSE IF p.roles["Window"] # None THEN p.roles["Window"] ELSE p.look

ThemeType == IF paletteType # "unknown" THEN paletteType ELSE ToColorType(gui)

FetchSizeMode(explicit, system) ==
    IF explicit # None THEN explicit ELSE IF env # None THEN env ELSE system
SizeMode == FetchSizeMode(explicitSizeMode, systemSizeMode)

NoOneKnows == PaletteIn(None, "unknown", [k \in Keys |-> None], NoPalette)

Init ==
    /\ ThemeInit
    /\ app = FALSE /\ apps = 0 /\ helper = FALSE /\ preRoutine = FALSE /\ links = 0
    /\ \E s \in Starts : /\ platform = s.platform /\ dontSave = s.dontSave
                        /\ env = s.env /\ saved = s.saved
    /\ mine = saved /\ lateType = FALSE
    /\ paletteType = "unknown" /\ paletteTypeInited = FALSE /\ appPalette = None
    /\ gui = NoOneKnows /\ toldPalette = NoOneKnows /\ toldType = "light"
    /\ posted = 0 /\ delay = FALSE
    /\ explicitSizeMode = None /\ systemSizeMode = "normal" /\ toldSize = "normal"
    /\ calls = 0 /\ silent = FALSE /\ silentSize = FALSE

More == changes + calls < MaxEvents
Call == More /\ calls' = calls + 1
Running == app /\ helper

(* A step of the theme or of the helper that changes the palette (its own     *)
(* part is given first) ends with one of these.                               *)
(* processThemeChanged: those who follow are told at once unless the palette  *)
(* is a custom one.                                                           *)
Sync(old) ==
    /\ gui' = InForce'
    /\ IF gui' # old /\ ~IsCustomPalette'
       THEN toldPalette' = InForce' /\ toldType' = ToColorType(gui')
       ELSE UNCHANGED <<toldPalette, toldType>>
NoSync == UNCHANGED <<gui, toldPalette, toldType>>

Silently(b) == silent' = ((silent \/ b) /\ toldPalette' # InForce')
(* They carry no data: those beyond MaxPosted tell nothing more.              *)
Post(n) == posted' = IF posted + n > MaxPosted THEN MaxPosted ELSE posted + n

(* Mutant: only the event is sent.                                            *)
NotifyAppThemeChanged_EventOnly(n) == Sync(gui) /\ UNCHANGED posted

(* notifyAppThemeChanged, once for each of n connections                      *)
NotifyAppThemeChanged(n) == Sync(gui) /\ Post(n)

Unnoticed == NoSync /\ UNCHANGED posted

-----------------------------------------------------------------------------
(* initApplication: a theme is made, unless there is one, and joined.  The    *)
(* application reads its first palette; nobody is told of the size mode.      *)
InitApplication(n) ==
    /\ MakeTheme
    /\ links' = n
    /\ gui' = InForce' /\ toldPalette' = InForce' /\ toldType' = ToColorType(gui')
    /\ systemSizeMode' = seen'["size"]
    /\ toldSize' = IF helper THEN toldSize ELSE FetchSizeMode(explicitSizeMode, systemSizeMode')
    /\ silentSize' = (FetchSizeMode(explicitSizeMode, systemSizeMode') # toldSize')
    /\ posted' = 0 /\ delay' = FALSE /\ silent' = FALSE

(* instance() before there is an application: init() only registers           *)
InstanceEarly ==
    /\ ~app /\ ~helper /\ apps = 0
    /\ helper' = TRUE /\ preRoutine' = TRUE
    /\ toldSize' = SizeMode
    /\ UNCHANGED <<themeVars, app, apps, links, dontSave, env, config, kinds, pending,
                   explicitSizeMode, systemSizeMode, silentSize, told, calls>>

(* A QGuiApplication is constructed.  A pre-routine makes the helper of a     *)
(* second one, which is then connected twice.                                 *)
CreateApp ==
    /\ ~app /\ apps < MaxApps
    /\ UNCHANGED <<preRoutine, dontSave, env, config, kinds, explicitSizeMode, calls>>
    /\ app' = TRUE /\ apps' = apps + 1
    /\ IF preRoutine THEN /\ InitApplication(IF helper THEN 1 ELSE 2)
                          /\ helper' = TRUE
       ELSE UNCHANGED <<themeVars, helper, links, pending, sizes, told>>

Instance ==
    /\ app /\ ~helper
    /\ UNCHANGED <<app, apps, preRoutine, dontSave, env, config, kinds, explicitSizeMode, calls>>
    /\ helper' = TRUE
    /\ InitApplication(1)

(* Mutant: staticCleanApplication is not a post-routine.                      *)
DestroyApp_NotCleaned ==
    /\ Running /\ platform = "xcb"
    /\ app' = FALSE
    /\ UNCHANGED <<themeVars, apps, helper, preRoutine, links, dontSave, env, config, kinds,
                   pending, sizes, told, calls>>

(* staticCleanApplication: the helper goes with its application.  (What       *)
(* Treeland told the first one is not kept for a second.)                     *)
DestroyApp ==
    /\ Running /\ platform = "xcb"
    /\ app' = FALSE /\ helper' = FALSE /\ links' = 0
    /\ DropTheme
    /\ paletteType' = "unknown" /\ paletteTypeInited' = FALSE /\ appPalette' = None
    /\ lateType' = FALSE /\ posted' = 0 /\ delay' = FALSE
    /\ explicitSizeMode' = None /\ systemSizeMode' = "normal"
    /\ silent' = FALSE /\ silentSize' = FALSE
    /\ gui' = NoOneKnows /\ toldPalette' = NoOneKnows /\ toldType' = "light"
    /\ toldSize' = "normal"
    /\ UNCHANGED <<apps, preRoutine, dontSave, env, saved, mine, calls>>

-----------------------------------------------------------------------------
(* initPaletteType: the saved type is read at the first use of the type, and  *)
(* nobody is told.                                                            *)
ReadsSaved == ~dontSave /\ ~paletteTypeInited
TypeRead == IF ReadsSaved THEN saved ELSE paletteType
InitPaletteType ==
    /\ paletteTypeInited' = (paletteTypeInited \/ ~dontSave)
    /\ paletteType' = TypeRead
    /\ IF TypeRead # paletteType THEN Sync(gui) ELSE NoSync

(* themeType(), paletteType()                                                 *)
ThemeTypeCall ==
    /\ Running /\ ReadsSaved
    /\ UNCHANGED <<themeVars, process, config, appPalette, pending, sizes, calls>>
    /\ InitPaletteType
    /\ Silently(TypeRead # paletteType)

(* setPaletteType(type, emitSignal) from a type already read: when the        *)
(* application has a palette of its own no change of the palette is told.     *)
ChangePaletteType(from, type, old) ==
    /\ paletteType' = type
    /\ IF type # from /\ appPalette = None
       THEN Sync(old) /\ Post(1)
       ELSE /\ IF from # paletteType THEN Sync(gui) ELSE NoSync
            /\ UNCHANGED posted

(* setPaletteType(type): the saved type is read first, silently, and the      *)
(* change is only from that one.                                              *)
SetPaletteType(type) ==
    /\ Running /\ Call
    /\ UNCHANGED <<themeVars, process, lateType, appPalette, delay, sizes>>
    /\ paletteTypeInited' = (paletteTypeInited \/ ~dontSave)
    /\ ChangePaletteType(TypeRead, type,
                         IF TypeRead # paletteType
                         THEN PaletteIn(appPalette, TypeRead, seen, cache) ELSE gui)
    /\ IF dontSave THEN UNCHANGED <<saved, mine>> ELSE saved' = type /\ mine' = type
    /\ Silently(type = TypeRead /\ type # paletteType)

(* Another process of the application, or the control center, saves a type.   *)
OtherSaves(type) ==
    /\ changes < MaxChanges /\ More /\ saved # type
    /\ saved' = type /\ lateType' = helper
    /\ mine' = IF helper THEN mine ELSE type
    /\ changes' = changes + 1
    /\ UNCHANGED <<platform, desktop, interface, paletteCache, process, kinds, pending,
                   sizes, told, calls>>

(* _d_dconfig hears of it, and the helper if it has read the type once.       *)
TypeChanged ==
    /\ Running /\ lateType
    /\ UNCHANGED <<themeVars, process, saved, paletteTypeInited, appPalette, delay,
                   sizes, calls>>
    /\ lateType' = FALSE /\ mine' = saved
    /\ IF mine # saved /\ paletteTypeInited
       THEN ChangePaletteType(paletteType, saved, gui)
       ELSE Unnoticed /\ UNCHANGED paletteType
    /\ Silently(FALSE)

SetApplicationPalette(own) ==
    /\ Running /\ Call
    /\ UNCHANGED <<themeVars, process, config, paletteType, paletteTypeInited, delay, sizes>>
    /\ own # None \/ appPalette # None
    /\ appPalette' = own
    /\ NotifyAppThemeChanged(1)
    /\ Silently(FALSE)

(* The queued call: themeType() may read the saved type, then all are told.   *)
TellFollowers ==
    /\ Running /\ posted > 0
    /\ UNCHANGED <<themeVars, process, config, appPalette, delay, sizes, calls>>
    /\ posted' = posted - 1
    /\ paletteTypeInited' = (paletteTypeInited \/ ~dontSave)
    /\ paletteType' = TypeRead
    /\ gui' = IF TypeRead # paletteType THEN InForce' ELSE gui
    /\ toldPalette' = InForce' /\ toldType' = ThemeType'
    /\ silent' = FALSE

-----------------------------------------------------------------------------
(* Mutant: a colour for dark themes does not start the timer.                 *)
ThemeChanged_LightOnly(k) ==
    \/ /\ k = "name"
       /\ IF IsCustomPalette THEN Unnoticed ELSE NotifyAppThemeChanged(links)
       /\ UNCHANGED <<delay, sizes>>
    \/ /\ k \in {"active", "dark"}
       /\ delay' = (delay \/ k = "active")
       /\ Unnoticed /\ UNCHANGED sizes

(* The slots connected to the theme.                                          *)
ThemeChanged(k) ==
    \/ /\ k = "name"
       /\ IF IsCustomPalette THEN Unnoticed ELSE NotifyAppThemeChanged(links)
       /\ UNCHANGED <<delay, sizes>>
    \/ /\ k \in {"active", "dark"}
       /\ delay' = TRUE
       /\ Unnoticed /\ UNCHANGED sizes

(* _q_sizeModeChanged: told only when the mode in force changes               *)
TellSize(explicit, system) ==
    /\ toldSize' = IF FetchSizeMode(explicit, system) # SizeMode
                   THEN FetchSizeMode(explicit, system) ELSE toldSize
    /\ silentSize' = (silentSize /\ FetchSizeMode(explicit, system) = SizeMode)
SizeModeChanged(mode) ==
    /\ systemSizeMode' = mode
    /\ TellSize(explicitSizeMode, mode)
    /\ UNCHANGED <<explicitSizeMode, delay>> /\ Unnoticed

DeliverSetting(k) ==
    /\ Running
    /\ UNCHANGED <<process, config, kinds, calls>>
    /\ Deliver(k)
    /\ IF k = "size" THEN SizeModeChanged(desktop["size"]) ELSE ThemeChanged(k)
    /\ Silently(FALSE)

(* The signal of a colour only reaches the theme's own cache.                 *)
DeliverRole(r) ==
    /\ Running
    /\ UNCHANGED <<process, config, kinds, delay, sizes, calls>>
    /\ DeliverColor(r)
    /\ Unnoticed
    /\ Silently(FALSE)

(* paletteChanged, every 300 ms from the first change of a colour on          *)
ThemePaletteChanged ==
    /\ Running
    /\ UNCHANGED <<process, config, kinds, delay, sizes, calls>>
    /\ PaletteTick
    /\ IF IsCustomPalette THEN Unnoticed ELSE NotifyAppThemeChanged(links)
    /\ Silently(FALSE)

(* The timer of the active colours fires.                                     *)
DelayOver ==
    /\ Running /\ delay
    /\ UNCHANGED <<themeVars, process, config, kinds, sizes, calls>>
    /\ delay' = FALSE
    /\ IF appPalette # None THEN Unnoticed ELSE NotifyAppThemeChanged(links)
    /\ Silently(FALSE)

(* systemTheme()->palette(): what the cache now adds to the palette is not    *)
(* told.                                                                      *)
ThemePaletteCall ==
    /\ Running
    /\ UNCHANGED <<process, config, kinds, delay, sizes, calls>>
    /\ ReadPalette
    /\ Unnoticed
    /\ Silently(InForce' # InForce)

SetSizeMode(mode) ==
    /\ helper /\ Call
    /\ explicitSizeMode' = mode
    /\ TellSize(mode, systemSizeMode)
    /\ UNCHANGED <<themeVars, process, config, kinds, pending, systemSizeMode, told>>

ResetSizeMode ==
    /\ helper /\ Call
    /\ explicitSizeMode' = None
    /\ TellSize(None, systemSizeMode)
    /\ UNCHANGED <<themeVars, process, config, kinds, pending, systemSizeMode, told>>

ManagerActivated == ManagerActive /\ UNCHANGED appVars
DesktopChange(k, v) == More /\ DesktopChanges(k, v) /\ UNCHANGED appVars
ThemeSetter(k, v) == Running /\ More /\ SetSetting(k, v) /\ UNCHANGED appVars

-----------------------------------------------------------------------------
Lifecycle == InstanceEarly \/ CreateApp \/ Instance \/ DestroyApp
Calls ==
    \/ ThemeTypeCall \/ ThemePaletteCall \/ ResetSizeMode
    \/ \E type \in Types : SetPaletteType(type)
    \/ \E own \in {None, "dark"} : SetApplicationPalette(own)
    \/ \E mode \in SizeModes : SetSizeMode(mode)
    \/ \E k \in Keys : \E v \in Values(k) : ThemeSetter(k, v)
Outside ==
    \/ ManagerActivated
    \/ \E k \in Keys : \E v \in Values(k) : DesktopChange(k, v)
    \/ \E type \in Types : OtherSaves(type)
Deliveries ==
    \/ \E k \in Keys \ Roles : DeliverSetting(k)
    \/ \E r \in Roles : DeliverRole(r)
    \/ TypeChanged \/ TellFollowers \/ ThemePaletteChanged \/ DelayOver

Next == Lifecycle \/ Calls \/ Outside \/ Deliveries

(* The event loop runs: events are delivered, timers fire, queued calls are   *)
(* made.  The compositor announces its manager.                               *)
Fairness ==
    /\ \A k \in Keys \ Roles : WF_vars(DeliverSetting(k))
    /\ \A r \in Roles : WF_vars(DeliverRole(r))
    /\ WF_vars(TypeChanged) /\ WF_vars(TellFollowers)
    /\ WF_vars(ThemePaletteChanged) /\ WF_vars(DelayOver)
    /\ WF_vars(ManagerActivated)

Spec == Init /\ [][Next]_vars /\ Fairness

-----------------------------------------------------------------------------
AppThemeOK ==
    /\ ThemeOK
    /\ app \in BOOLEAN /\ apps \in 0..MaxApps /\ helper \in BOOLEAN
    /\ preRoutine \in BOOLEAN /\ links \in 0..2 /\ (theme <=> Running) /\ (links > 0 <=> Running)
    /\ dontSave \in BOOLEAN /\ env \in SizeModes \cup {None}
    /\ {saved, mine, paletteType} \subseteq Types /\ lateType \in BOOLEAN
    /\ paletteTypeInited \in BOOLEAN /\ appPalette \in Looks \cup {None}
    /\ posted \in 0..MaxPosted /\ delay \in BOOLEAN
    /\ explicitSizeMode \in SizeModes \cup {None}
    /\ {systemSizeMode, toldSize} \subseteq SizeModes /\ toldType \in Types
    /\ calls \in 0..MaxEvents /\ silent \in BOOLEAN /\ silentSize \in BOOLEAN

(* When every change has been delivered and every notification has run, those *)
(* who follow applicationPaletteChanged and themeTypeChanged know the palette *)
(* and the type in force, whatever the order of changes of the desktop, of    *)
(* the saved type and of the application's own palette and type.  Two changes *)
(* are never told (silent): that by the first read of the saved type, and     *)
(* that by the first call of the theme's palette().  The type is not told     *)
(* while the application has a palette of its own.  Those who follow          *)
(* sizeModeChanged know the mode in force at any time, except for what the    *)
(* application finds when it starts.                                          *)
Quiet == late = {} /\ ~lateType /\ posted = 0 /\ ~delay /\ ~due
FollowersTold ==
    /\ Running /\ Quiet /\ ~silent =>
          /\ toldPalette = InForce
          /\ toldType = ThemeType \/ appPalette # None
    /\ helper /\ ~silentSize => toldSize = SizeMode

(* Once the desktop and the application stop changing things, the followers   *)
(* learn the palette in force and the theme the settings of the desktop.      *)
ChangeReachesFollowers ==
    <>[](Running =>
            /\ silent \/ toldPalette = InForce
            /\ \A k \in Keys : Settable(k) => seen[k] = desktop[k])

=============================================================================
