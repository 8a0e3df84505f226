-------------------------- MODULE AppTheme_proofs ---------------------------
(* Machine-checked proofs about AppTheme, for any palette roles, any starts   *)
(* and any number of changes: the cached palette never holds an old colour,   *)
(* and who follows the helper knows what is in force when all is delivered.   *)
EXTENDS AppTheme, TLAPS

-----------------------------------------------------------------------------
(* The theme.                                                                 *)
ThemeTypes ==
    /\ desktop \in Settings /\ seen \in Settings /\ late \subseteq Keys
    /\ \A r \in Roles : {desktop[r], seen[r]} \subseteq Looks \cup {None}
    /\ cache \in Palettes \cup {NoPalette}
    /\ loaded \in BOOLEAN /\ due \in BOOLEAN
    /\ cache = NoPalette => ~loaded

ThemeInv == ThemeTypes /\ CacheFresh

LEMMA NoPaletteIsNone == NoPalette \notin Palettes
  <1>1. DOMAIN NoPalette = {}
    BY DEF NoPalette
  <1>2. \A p \in Palettes : DOMAIN p = Roles
    BY DEF Palettes
  <1> QED BY <1>1, <1>2, PlatformThemeAssumption

LEMMA KeysDiffer ==
    /\ Roles \subseteq Keys /\ {"name", "active", "dark", "size"} \subseteq Keys
    /\ \A r \in Roles : r \notin {"name", "active", "dark", "size"}
  BY PlatformThemeAssumption DEF Keys

LEMMA NoColorContradicts == \A r \in Roles : ThemeColor(r) = None /\ ThemeColor(r)' = None
  BY DEF ThemeColor, XcbColor, NoSetting

LEMMA ThemeInitInv == ThemeInit => ThemeInv
  <1> SUFFICES ASSUME ThemeInit PROVE ThemeInv
    OBVIOUS
  <1>1. desktop \in Settings /\ seen \in Settings
    BY DEF ThemeInit, Settings, Looks, SizeModes
  <1>2. \A r \in Roles : desktop[r] = None /\ seen[r] = None
    BY KeysDiffer DEF ThemeInit
  <1> QED BY <1>1, <1>2 DEF ThemeInit, ThemeInv, ThemeTypes, CacheFresh

LEMMA ThemeStutter ==
    ThemeInv /\ UNCHANGED <<desktop, seen, late, cache, loaded, due>> => ThemeInv'
  BY NoColorContradicts DEF ThemeInv, ThemeTypes, CacheFresh

LEMMA MakeThemeInv == ThemeInv /\ MakeTheme => ThemeInv' /\ platform' = platform
  <1> SUFFICES ASSUME ThemeInv, MakeTheme PROVE ThemeInv' /\ platform' = platform
    OBVIOUS
  <1>1. \A k \in Keys : ThemeSetting(k) \in Looks \cup SizeModes \cup {None}
    BY DEF ThemeInv, ThemeTypes, Settings, ThemeSetting, NativeSetting, XcbSetting, TreelandSetting, NoSetting
  <1>2. \A r \in Roles : ThemeSetting(r) \in Looks \cup {None}
    BY KeysDiffer DEF ThemeInv, ThemeTypes, ThemeSetting, NativeSetting
  <1>3. seen' \in Settings /\ \A r \in Roles : seen'[r] = ThemeSetting(r)
    BY <1>1, KeysDiffer DEF MakeTheme, Settings
  <1> QED BY <1>2, <1>3 DEF ThemeInv, ThemeTypes, MakeTheme, CacheFresh, server

LEMMA DropThemeInv == ThemeInv /\ DropTheme => ThemeInv' /\ platform' = platform
  <1> SUFFICES ASSUME ThemeInv, DropTheme PROVE ThemeInv' /\ platform' = platform
    OBVIOUS
  <1>1. seen' \in Settings /\ \A r \in Roles : seen'[r] = None
    BY KeysDiffer DEF DropTheme, Settings
  <1> QED BY <1>1 DEF ThemeInv, ThemeTypes, DropTheme, CacheFresh, server

LEMMA WrittenInv ==
    ASSUME ThemeInv, NEW k \in Keys, NEW v \in Values(k), Written(k, v)
    PROVE ThemeInv' /\ UNCHANGED <<platform, seen, cache, due>>
  <1>1. v \in Looks \cup SizeModes /\ (k \in Roles => v \in Looks)
    BY KeysDiffer DEF Values
  <1>2. desktop' = [desktop EXCEPT ![k] = v]
    BY DEF Written
  <1>3. desktop' \in Settings /\ \A r \in Roles : desktop'[r] \in Looks \cup {None}
    BY <1>1, <1>2, KeysDiffer DEF ThemeInv, ThemeTypes, Settings
  <1> QED BY <1>3, NoColorContradicts DEF ThemeInv, ThemeTypes, Written, CacheFresh, paletteCache

LEMMA ManagerActiveInv == ThemeInv /\ ManagerActive => ThemeInv' /\ UNCHANGED <<platform, seen, cache, due>>
  <1> SUFFICES ASSUME ThemeInv, ManagerActive PROVE ThemeInv' /\ UNCHANGED <<platform, seen, cache, due>>
    OBVIOUS
  <1>1. late' \subseteq Keys
    BY DEF ThemeInv, ThemeTypes, ManagerActive, AskedFor, Keys
  <1> QED BY <1>1, NoColorContradicts
          DEF ThemeInv, ThemeTypes, ManagerActive, CacheFresh, server, paletteCache

LEMMA DeliverInv ==
    ASSUME ThemeInv, NEW k \in Keys \ Roles, Deliver(k)
    PROVE  /\ ThemeInv' /\ UNCHANGED <<platform, cache, due>>
           /\ \A o \in Keys \ {k} : seen'[o] = seen[o]
  <1>1. seen' \in Settings /\ \A o \in Keys \ {k} : seen'[o] = seen[o]
    BY DEF ThemeInv, ThemeTypes, Deliver, Settings
  <1>2. \A r \in Roles : seen'[r] = seen[r]
    BY <1>1, KeysDiffer
  <1> QED BY <1>1, <1>2, NoColorContradicts
          DEF ThemeInv, ThemeTypes, Deliver, CacheFresh, server, paletteCache

LEMMA DeliverColorInv ==
    ASSUME ThemeInv, NEW r \in Roles, DeliverColor(r)
    PROVE  /\ ThemeInv' /\ platform' = platform /\ due' = TRUE /\ cache' # NoPalette
           /\ seen'["active"] = seen["active"] /\ seen'["dark"] = seen["dark"]
  <1>1. r \in Keys /\ seen' = [seen EXCEPT ![r] = desktop[r]]
    BY KeysDiffer DEF DeliverColor
  <1>2. seen' \in Settings /\ seen'[r] = desktop[r] /\ \A o \in Keys \ {r} : seen'[o] = seen[o]
    BY <1>1 DEF ThemeInv, ThemeTypes, Settings
  <1>3. desktop[r] \in Looks \cup {None}
    BY DEF ThemeInv, ThemeTypes
  <1>4. cache' = ColorInto(cache, r, desktop[r])
    BY DEF DeliverColor
  <1>5. cache' \in Palettes /\ cache'[r] = desktop[r]
    BY <1>3, <1>4 DEF ThemeInv, ThemeTypes, ColorInto, Palettes
  <1>6. \A q \in Roles \ {r} : cache'[q] = IF cache = NoPalette THEN None ELSE cache[q]
    BY <1>4 DEF ThemeInv, ThemeTypes, ColorInto, Palettes
  <1>7. cache' # NoPalette
    BY <1>5, NoPaletteIsNone
  <1>8. CacheFresh'
    BY <1>2, <1>5, <1>6, KeysDiffer, NoColorContradicts DEF ThemeInv, ThemeTypes, CacheFresh, DeliverColor
  <1>9. ThemeTypes'
    BY <1>2, <1>3, <1>5, <1>7, KeysDiffer DEF ThemeInv, ThemeTypes, DeliverColor, server
  <1> QED BY <1>2, <1>7, <1>8, <1>9, KeysDiffer DEF ThemeInv, DeliverColor, server

LEMMA PaletteTickInv == ThemeInv /\ PaletteTick => ThemeInv' /\ UNCHANGED <<platform, seen, cache>>
  <1> SUFFICES ASSUME ThemeInv, PaletteTick PROVE ThemeInv' /\ UNCHANGED <<platform, seen, cache>>
    OBVIOUS
  <1>1. UNCHANGED <<platform, desktop, seen, late, cache, loaded>> /\ due' = FALSE
    BY DEF PaletteTick, server, interface
  <1> QED BY <1>1, NoColorContradicts DEF ThemeInv, ThemeTypes, CacheFresh

LEMMA ReadPaletteInv ==
    ThemeInv /\ ReadPalette =>
        ThemeInv' /\ UNCHANGED <<platform, seen, due>> /\ cache = NoPalette /\ cache' # NoPalette
  <1> SUFFICES ASSUME ThemeInv, ReadPalette
               PROVE  ThemeInv' /\ UNCHANGED <<platform, seen, due>> /\ cache = NoPalette /\ cache' # NoPalette
    OBVIOUS
  <1>1. cache' \in Palettes /\ \A r \in Roles : cache'[r] = seen[r]
    BY DEF ThemeInv, ThemeTypes, ReadPalette, Palettes
  <1>2. cache' # NoPalette
    BY <1>1, NoPaletteIsNone
  <1> QED BY <1>1, <1>2, NoColorContradicts DEF ThemeInv, ThemeTypes, ReadPalette, CacheFresh, server, interface

(* A step of the theme in a step of the application. *)
LEMMA ThemeKeeps == ThemeInv /\ [Next]_vars => ThemeInv'
  <1> SUFFICES ASSUME ThemeInv, [Next]_vars PROVE ThemeInv'
    OBVIOUS
  <1>1. UNCHANGED themeVars => ThemeInv'
    BY ThemeStutter DEF themeVars, server, interface, paletteCache
  <1>2. CASE Lifecycle
    BY <1>1, <1>2, MakeThemeInv, DropThemeInv
       DEF Lifecycle, InstanceEarly, CreateApp, Instance, DestroyApp, InitApplication
  <1>3. CASE Calls
    <2>1. ASSUME NEW k \in Keys, NEW v \in Values(k), ThemeSetter(k, v) PROVE ThemeInv'
      BY <2>1, WrittenInv DEF ThemeSetter, SetSetting, SetColor
    <2> QED BY <1>1, <1>3, <2>1, ReadPaletteInv
            DEF Calls, ThemeTypeCall, ThemePaletteCall, ResetSizeMode, SetPaletteType, SetApplicationPalette, SetSizeMode
  <1>4. CASE Outside
    <2>1. ASSUME NEW k \in Keys, NEW v \in Values(k), DesktopChange(k, v) PROVE ThemeInv'
      BY <2>1, WrittenInv DEF DesktopChange, DesktopChanges
    <2>2. ASSUME NEW type \in Types, OtherSaves(type) PROVE ThemeInv'
      BY <2>2, ThemeStutter DEF OtherSaves, interface, paletteCache
    <2> QED BY <1>4, <2>1, <2>2, ManagerActiveInv DEF Outside, ManagerActivated
  <1>5. CASE Deliveries
    BY <1>1, <1>5, DeliverInv, DeliverColorInv, PaletteTickInv
       DEF Deliveries, DeliverSetting, DeliverRole, TypeChanged, TellFollowers, ThemePaletteChanged, DelayOver
  <1> QED BY <1>1, <1>2, <1>3, <1>4, <1>5 DEF Next, vars

(* A colour of the cached palette is the one of the settings, whatever the    *)
(* order of the change signals and of the first call of palette().            *)
THEOREM CacheIsFresh == Spec => []CacheFresh
  <1>1. Init => ThemeInv
    BY ThemeInitInv DEF Init
  <1>2. ThemeInv => CacheFresh
    BY DEF ThemeInv
  <1> QED BY <1>1, <1>2, ThemeKeeps, PTL DEF Spec

-----------------------------------------------------------------------------
(* The application.                                                           *)
(* What makes a notification certain.                                         *)
Pending == posted > 0 \/ (delay /\ appPalette = None) \/ (due /\ ~IsCustomPalette)

AppTypes ==
    /\ posted \in Nat /\ links \in Nat /\ (Running => links > 0)
    /\ paletteType \in Types /\ saved \in Types /\ appPalette \in Looks \cup {None}
    /\ {app, helper, preRoutine, paletteTypeInited, dontSave, delay, silent} \subseteq BOOLEAN

(* A helper without application waits for it; nothing is set before.          *)
Idle ==
    /\ ~app /\ helper => preRoutine
    /\ ~Running => paletteType = "unknown" /\ ~paletteTypeInited /\ appPalette = None

PaletteToldOrPending == Running /\ ~silent /\ ~Pending => toldPalette = InForce

TypeToldOrPending == Running /\ ~silent /\ ~Pending /\ appPalette = None => toldType = ThemeType

(* Until the saved type is read the type told is that of the palette told.    *)
UnreadType == Running /\ ReadsSaved => paletteType = "unknown" /\ toldType = ToColorType(toldPalette)

(* Where a change is not announced, a type was read or the cache was filled.  *)
SilentSince ==
    Running /\ silent /\ ~Pending /\ appPalette = None => paletteType # "unknown" \/ cache # NoPalette

SilentDiffers == Running /\ silent => toldPalette # InForce

Told == PaletteToldOrPending /\ TypeToldOrPending /\ UnreadType /\ SilentSince /\ SilentDiffers

SizeTold == silentSize \in BOOLEAN /\ (helper /\ ~silentSize => toldSize = SizeMode)

AppInv == ThemeInv /\ AppTypes /\ Idle /\ Told /\ SizeTold

LEMMA SameInputs ==
    UNCHANGED <<platform, seen, cache, appPalette, paletteType>> =>
        InForce' = InForce /\ (IsCustomPalette' <=> IsCustomPalette)
  BY DEF InForce, PaletteIn, StandardPalette, ActiveColorFor, DarkActiveColor, FetchPalette, IsValidPalette,
         IsCustomPalette

(* The application's own palette depends on nothing else.                     *)
LEMMA OwnPalette ==
    appPalette # None /\ appPalette' = appPalette => InForce' = InForce
  BY DEF InForce, PaletteIn, StandardPalette

(* That of a type which was set depends on the active colours only.           *)
LEMMA TypesPalette ==
    ASSUME paletteType # "unknown", UNCHANGED <<platform, appPalette, paletteType>>,
           seen'["active"] = seen["active"], seen'["dark"] = seen["dark"]
    PROVE  InForce' = InForce
  BY DEF InForce, PaletteIn, StandardPalette, ActiveColorFor, DarkActiveColor

(* The size mode is no part of it.                                            *)
LEMMA SizeIsNoInput ==
    ASSUME UNCHANGED <<platform, cache, appPalette, paletteType>>,
           \A k \in Keys \ {"size"} : seen'[k] = seen[k]
    PROVE  InForce' = InForce
  <1>1. /\ seen'["name"] = seen["name"] /\ seen'["active"] = seen["active"] /\ seen'["dark"] = seen["dark"]
        /\ \A r \in Roles : seen'[r] = seen[r]
    BY KeysDiffer
  <1> QED BY <1>1 DEF InForce, PaletteIn, StandardPalette, ActiveColorFor, DarkActiveColor, FetchPalette, IsValidPalette

LEMMA NothingTold ==
    ASSUME Told, Running' => Running,
           UNCHANGED <<platform, seen, cache, due, kinds, dontSave, pending, told>>
    PROVE  Told'
  <1>1. InForce' = InForce /\ (IsCustomPalette' <=> IsCustomPalette)
    BY SameInputs DEF kinds
  <1> QED BY <1>1 DEF Told, PaletteToldOrPending, TypeToldOrPending, UnreadType, SilentSince, SilentDiffers, Pending,
                      ThemeType,
                      ToColorType, ReadsSaved, kinds, pending, told

LEMMA AppInitInv == Init => AppInv
  <1> SUFFICES ASSUME Init PROVE AppInv
    OBVIOUS
  <1>1. PICK s \in Starts : dontSave = s.dontSave /\ saved = s.saved
    BY DEF Init
  <1>2. dontSave \in BOOLEAN /\ saved \in Types
    BY <1>1, AppThemeAssumption
  <1>3. ~Running /\ ~helper
    BY DEF Init, Running
  <1>4. AppTypes
    BY <1>2, <1>3 DEF Init, AppTypes, Types
  <1> QED BY <1>3, <1>4, ThemeInitInv
          DEF Init, AppInv, Idle, Told, PaletteToldOrPending, TypeToldOrPending, UnreadType, SilentSince, SilentDiffers,
              SizeTold

LEMMA Posts ==
    ASSUME AppTypes, NEW n \in Nat, Post(n)
    PROVE  posted' \in Nat /\ (n > 0 => posted' > 0)
  BY AppThemeAssumption DEF AppTypes, Post

(* The size mode: a change of the mode in force is told at once.              *)
LEMMA TellsSize ==
    ASSUME SizeTold, NEW explicit, NEW system, TellSize(explicit, system),
           explicitSizeMode' = explicit, systemSizeMode' = system, env' = env, helper' = helper
    PROVE  SizeTold'
  BY DEF TellSize, SizeTold, SizeMode, FetchSizeMode

LEMMA SizeStutter ==
    SizeTold /\ UNCHANGED <<sizes, env, helper>> => SizeTold'
  BY DEF SizeTold, SizeMode, FetchSizeMode, sizes

LEMMA SizeKeeps == SizeTold /\ [Next]_vars => SizeTold'
  <1> SUFFICES ASSUME SizeTold, [Next]_vars PROVE SizeTold'
    OBVIOUS
  <1>1. UNCHANGED <<sizes, env, helper>> => SizeTold'
    BY SizeStutter DEF sizes
  <1>2. UNCHANGED appVars => SizeTold'
    BY <1>1 DEF appVars, process
  <1>3. CASE Lifecycle
    <2>1. ASSUME NEW n, InitApplication(n), helper', UNCHANGED <<env, explicitSizeMode>>
          PROVE SizeTold'
      BY <2>1 DEF InitApplication, SizeTold, SizeMode, FetchSizeMode
    <2>2. CASE InstanceEarly
      BY <2>2 DEF InstanceEarly, SizeTold, SizeMode, FetchSizeMode
    <2>3. CASE CreateApp
      BY <2>3, <2>1, <1>1 DEF CreateApp
    <2>4. CASE Instance
      BY <2>4, <2>1 DEF Instance
    <2>5. CASE DestroyApp
      BY <2>5 DEF DestroyApp, SizeTold
    <2> QED BY <1>3, <2>2, <2>3, <2>4, <2>5 DEF Lifecycle
  <1>4. CASE Calls
    <2>1. ASSUME NEW mode \in SizeModes, SetSizeMode(mode) PROVE SizeTold'
      BY <2>1, TellsSize DEF SetSizeMode, process
    <2>2. CASE ResetSizeMode
      BY <2>2, TellsSize DEF ResetSizeMode, process
    <2>3. ASSUME NEW k \in Keys, NEW v \in Values(k), ThemeSetter(k, v) PROVE UNCHANGED appVars
      BY <2>3 DEF ThemeSetter
    <2> QED BY <1>1, <1>2, <1>4, <2>1, <2>2, <2>3
            DEF Calls, ThemeTypeCall, ThemePaletteCall, SetPaletteType, SetApplicationPalette, process
  <1>5. CASE Outside
    BY <1>1, <1>2, <1>5 DEF Outside, ManagerActivated, DesktopChange, OtherSaves, process
  <1>6. CASE Deliveries
    <2>1. ASSUME NEW k \in Keys \ Roles, DeliverSetting(k) PROVE SizeTold'
      <3>1. CASE k = "size"
        BY <2>1, <3>1, TellsSize DEF DeliverSetting, SizeModeChanged, process
      <3>2. CASE k # "size"
        BY <2>1, <3>2, <1>1 DEF DeliverSetting, ThemeChanged, process
      <3> QED BY <3>1, <3>2
    <2> QED BY <1>1, <1>6, <2>1
            DEF Deliveries, DeliverRole, TypeChanged, TellFollowers, ThemePaletteChanged, DelayOver, process
  <1> QED BY <1>2, <1>3, <1>4, <1>5, <1>6 DEF Next, vars

(* Steps that tell nothing because nothing about the palette changes.         *)
LEMMA QuietStep ==
    ASSUME AppInv, [Next]_vars, UNCHANGED <<platform, seen, cache, due, kinds, pending, told>>,
           UNCHANGED <<app, helper, preRoutine, links, dontSave>>, saved' \in Types
    PROVE  AppTypes' /\ Idle' /\ Told'
  <1>1. Running' <=> Running
    BY DEF Running
  <1> QED BY <1>1, NothingTold DEF AppInv, AppTypes, Idle, kinds, pending, told

LEMMA OutsideKeeps ==
    ASSUME AppInv, [Next]_vars,
           Outside \/ \E k \in Keys : \E v \in Values(k) : ThemeSetter(k, v)
    PROVE  AppTypes' /\ Idle' /\ Told'
  <1>1. UNCHANGED <<platform, seen, cache, due>>
    <2>1. ASSUME NEW k \in Keys, NEW v \in Values(k), ThemeSetter(k, v) \/ DesktopChange(k, v)
          PROVE  UNCHANGED <<platform, seen, cache, due>>
      BY <2>1, WrittenInv DEF AppInv, ThemeSetter, SetSetting, SetColor, DesktopChange, DesktopChanges
    <2>2. ASSUME NEW type \in Types, OtherSaves(type) PROVE UNCHANGED <<platform, seen, cache, due>>
      BY <2>2 DEF OtherSaves, interface, paletteCache
    <2> QED BY <2>1, <2>2, ManagerActiveInv DEF Outside, ManagerActivated, AppInv
  <1>2. UNCHANGED <<kinds, pending, told, app, helper, preRoutine, links, dontSave>> /\ saved' \in Types
    BY DEF Outside, ManagerActivated, DesktopChange, ThemeSetter, OtherSaves, appVars, process, config, AppInv, AppTypes
  <1> QED BY <1>1, <1>2, QuietStep

LEMMA StartKeeps ==
    ASSUME AppInv, NEW n \in Nat, n > 0, InitApplication(n), ~Running, app', helper',
           UNCHANGED <<preRoutine, dontSave, saved, kinds>>
    PROVE  AppTypes' /\ Idle' /\ Told'
  <1>1. paletteType' = "unknown" /\ appPalette' = None
    BY DEF AppInv, Idle, kinds
  <1>2. ThemeType' = toldType' /\ toldType' = ToColorType(toldPalette)'
    BY <1>1 DEF InitApplication, ThemeType, ToColorType
  <1>3. AppTypes'
    BY DEF AppInv, AppTypes, InitApplication, kinds
  <1>4. Idle'
    BY DEF Idle, Running
  <1> QED BY <1>1, <1>2, <1>3, <1>4
          DEF InitApplication, Told, PaletteToldOrPending, TypeToldOrPending, UnreadType, SilentSince, SilentDiffers

LEMMA LifecycleKeeps ==
    ASSUME AppInv, [Next]_vars, Lifecycle
    PROVE  AppTypes' /\ Idle' /\ Told'
  <1>1. ASSUME ~Running', AppTypes', Idle' PROVE Told'
    BY <1>1 DEF Told, PaletteToldOrPending, TypeToldOrPending, UnreadType, SilentSince, SilentDiffers
  <1>2. CASE InstanceEarly
    BY <1>1, <1>2 DEF InstanceEarly, AppInv, AppTypes, Idle, Running, config, kinds, pending, told
  <1>3. CASE CreateApp
    <2>1. CASE preRoutine
      <3>1. PICK n \in {1, 2} : InitApplication(n)
        BY <1>3, <2>1 DEF CreateApp
      <3> QED BY <1>3, <2>1, <3>1, StartKeeps DEF CreateApp, Running, config
    <2>2. CASE ~preRoutine
      BY <1>1, <1>3, <2>2 DEF CreateApp, AppInv, AppTypes, Idle, Running, config, kinds, pending, told
    <2> QED BY <2>1, <2>2
  <1>4. CASE Instance
    BY <1>4, StartKeeps DEF Instance, Running, config
  <1>5. CASE DestroyApp
    BY <1>1, <1>5 DEF DestroyApp, AppInv, AppTypes, Idle, Running, Types
  <1> QED BY <1>2, <1>3, <1>4, <1>5 DEF Lifecycle

(* A step after which a notification is certain. *)
LEMMA PendingStep ==
    ASSUME AppInv, Running, Pending', silent' => toldPalette' # InForce',
           \/ UNCHANGED <<toldPalette, toldType>>
           \/ toldPalette' = InForce' /\ toldType' = ToColorType(toldPalette)',
           ReadsSaved' => ReadsSaved /\ paletteType' = paletteType
    PROVE  Told'
  BY DEF AppInv, Told, PaletteToldOrPending, TypeToldOrPending, UnreadType, SilentSince, SilentDiffers, ToColorType

(* A step that tells nothing, as what is in force stays what it was.          *)
LEMMA UntoldStep ==
    ASSUME AppInv, Running, UNCHANGED <<gui, toldPalette, toldType, appPalette>>, InForce' = InForce,
           silent' = (silent /\ toldPalette' # InForce'), Pending => Pending',
           appPalette = None => paletteType' = paletteType,
           ReadsSaved' => ReadsSaved /\ paletteType' = paletteType,
           cache # NoPalette => cache' # NoPalette
    PROVE  Told'
  <1>1. silent' <=> silent
    BY DEF AppInv, Told, SilentDiffers
  <1>2. appPalette = None => ThemeType' = ThemeType
    BY DEF ThemeType, ToColorType
  <1>3. ToColorType(toldPalette)' = ToColorType(toldPalette)
    BY DEF ToColorType
  <1> QED BY <1>1, <1>2, <1>3 DEF AppInv, Told, PaletteToldOrPending, TypeToldOrPending, UnreadType, SilentSince, SilentDiffers

(* A change of the palette of the application is told unless it is a custom   *)
(* one.                                                                       *)
LEMMA SyncTells ==
    ASSUME NEW old, Sync(old)
    PROVE  /\ gui' = InForce'
           /\ \/ UNCHANGED <<toldPalette, toldType>>
              \/ toldPalette' = InForce' /\ toldType' = ToColorType(toldPalette)'
           /\ IsCustomPalette' => UNCHANGED <<toldPalette, toldType>>
  BY DEF Sync, ToColorType

LEMMA TypeOfPalette ==
    ASSUME appPalette' = None, paletteType' # "unknown"
    PROVE  ToColorType(InForce)' = paletteType'
  <1>1. InForce'.own = None /\ InForce'.look = paletteType' /\ InForce'.roles = [r \in Roles |-> None]
    BY DEF InForce, PaletteIn, StandardPalette
  <1> QED BY <1>1, PlatformThemeAssumption DEF ToColorType

LEMMA ThemeTypeCallKeeps == AppInv /\ ThemeTypeCall => AppTypes' /\ Idle' /\ Told'
  <1> SUFFICES ASSUME AppInv, ThemeTypeCall PROVE AppTypes' /\ Idle' /\ Told'
    OBVIOUS
  <1>1. Running /\ Running' /\ UNCHANGED <<process, config, appPalette, pending, platform, seen, cache, due>>
    BY DEF ThemeTypeCall, Running, process, themeVars, server, interface, paletteCache
  <1>2. paletteType' = TypeRead /\ paletteTypeInited' /\ paletteType = "unknown" /\ TypeRead = saved
    BY DEF ThemeTypeCall, InitPaletteType, AppInv, Told, UnreadType, TypeRead, ReadsSaved, AppTypes
  <1>3. AppTypes' /\ Idle' /\ ~ReadsSaved'
    BY <1>1, <1>2 DEF AppInv, AppTypes, Idle, ThemeTypeCall, InitPaletteType, Silently, ReadsSaved, process, config, pending, Running
  <1>4. CASE TypeRead = paletteType
    <2>1. InForce' = InForce /\ Pending' = Pending
      BY <1>1, <1>2, <1>4, SameInputs DEF Pending, IsCustomPalette, pending
    <2> QED BY <1>1, <1>2, <1>3, <1>4, <2>1, UntoldStep DEF ThemeTypeCall, InitPaletteType, NoSync, Silently
  <1>5. CASE TypeRead # paletteType
    <2>1. IsCustomPalette' /\ paletteType' # "unknown"
      BY <1>2, <1>5 DEF IsCustomPalette
    <2>2. UNCHANGED <<toldPalette, toldType>> /\ silent' = (toldPalette' # InForce')
      BY <1>5, <2>1, SyncTells DEF ThemeTypeCall, InitPaletteType, Silently
    <2>3. toldType = ToColorType(toldPalette)
      BY DEF AppInv, Told, UnreadType, ThemeTypeCall
    <2>4. ASSUME appPalette' = None, ~silent' PROVE toldType' = ThemeType'
      <3>1. ToColorType(InForce)' = paletteType'
        BY <2>1, <2>4, TypeOfPalette
      <3> QED BY <2>1, <2>2, <2>3, <2>4, <3>1 DEF ThemeType, ToColorType
    <2> QED BY <1>3, <2>1, <2>2, <2>4
            DEF Told, PaletteToldOrPending, TypeToldOrPending, UnreadType, SilentSince, SilentDiffers
  <1> QED BY <1>3, <1>4, <1>5

(* What a change of the type does once the saved one is read.                 *)
LEMMA ChangedTypeKeeps ==
    ASSUME AppInv, Running, NEW type \in Types, NEW old, ChangePaletteType(paletteType, type, old),
           UNCHANGED <<platform, seen, cache, due, appPalette, delay>>,
           silent' = (silent /\ toldPalette' # InForce'), ~ReadsSaved'
    PROVE  Told' /\ posted' \in Nat
  <1>1. CASE type # paletteType /\ appPalette = None
    <2>1. Sync(old) /\ Post(1)
      BY <1>1 DEF ChangePaletteType
    <2>2. posted' \in Nat /\ posted' > 0
      BY <2>1, Posts DEF AppInv
    <2>3. Pending'
      BY <2>2 DEF Pending
    <2> QED BY <2>1, <2>2, <2>3, SyncTells, PendingStep
  <1>2. CASE ~(type # paletteType /\ appPalette = None)
    <2>1. UNCHANGED <<gui, toldPalette, toldType, posted>> /\ paletteType' = type
      BY <1>2 DEF ChangePaletteType, NoSync
    <2>2. InForce' = InForce /\ (Pending => Pending')
      BY <1>2, <2>1, SameInputs, OwnPalette DEF Pending, IsCustomPalette
    <2> QED BY <1>2, <2>1, <2>2, UntoldStep DEF AppInv, AppTypes
  <1> QED BY <1>1, <1>2

LEMMA SetPaletteTypeKeeps ==
    ASSUME AppInv, NEW type \in Types, SetPaletteType(type)
    PROVE  AppTypes' /\ Idle' /\ Told'
  <1> DEFINE old == IF TypeRead # paletteType THEN PaletteIn(appPalette, TypeRead, seen, cache) ELSE gui
  <1>1. /\ Running /\ Running' /\ UNCHANGED <<process, lateType, appPalette, delay, platform, seen, cache, due>>
        /\ ChangePaletteType(TypeRead, type, old)
        /\ paletteTypeInited' = (paletteTypeInited \/ ~dontSave)
        /\ saved' \in {saved, type} /\ Silently(type = TypeRead /\ type # paletteType)
    BY DEF SetPaletteType, Running, process, themeVars, server, interface, paletteCache
  <1>2. ~ReadsSaved'
    BY <1>1 DEF ReadsSaved, process
  <1>3. ASSUME posted' \in Nat PROVE AppTypes' /\ Idle'
    BY <1>1, <1>3 DEF AppInv, AppTypes, Idle, ChangePaletteType, Silently, process, Running
  <1>4. CASE TypeRead = paletteType
    <2>1. silent' = (silent /\ toldPalette' # InForce')
      BY <1>1, <1>4 DEF Silently
    <2> HIDE DEF old
    <2>2. ChangePaletteType(paletteType, type, old)
      BY <1>1, <1>4
    <2> QED BY <1>1, <1>2, <1>3, <2>1, <2>2, ChangedTypeKeeps
  <1>5. CASE TypeRead # paletteType /\ type # TypeRead /\ appPalette = None
    <2>1. Sync(old) /\ Post(1)
      BY <1>1, <1>5 DEF ChangePaletteType
    <2>2. posted' \in Nat /\ posted' > 0
      BY <2>1, Posts DEF AppInv
    <2>3. Pending' /\ (silent' => toldPalette' # InForce')
      BY <1>1, <2>2 DEF Pending, Silently
    <2> QED BY <1>1, <1>2, <1>3, <2>1, <2>2, <2>3, SyncTells, PendingStep
  <1>6. CASE TypeRead # paletteType /\ (type = TypeRead \/ appPalette # None)
    <2>1. ReadsSaved /\ paletteType = "unknown" /\ TypeRead = saved /\ toldType = ToColorType(toldPalette)
      BY <1>1, <1>6 DEF AppInv, Told, UnreadType, TypeRead
    <2>2. paletteType' = type /\ posted' = posted /\ Sync(gui)
      BY <1>1, <1>6 DEF ChangePaletteType
    <2>3. IsCustomPalette'
      BY <1>1, <1>6, <2>1, <2>2 DEF IsCustomPalette
    <2>4. UNCHANGED <<toldPalette, toldType>>
      BY <2>2, <2>3, SyncTells
    <2>5. AppTypes' /\ Idle'
      BY <1>3, <2>2 DEF AppInv, AppTypes
    <2>6. CASE type = TypeRead
      <3>1. silent' = (toldPalette' # InForce') /\ paletteType' # "unknown"
        BY <1>1, <1>6, <2>1, <2>2, <2>6 DEF Silently
      <3>2. ASSUME appPalette' = None, ~silent' PROVE toldType' = ThemeType'
        <4>1. ToColorType(InForce)' = paletteType'
          BY <3>1, <3>2, TypeOfPalette
        <4> QED BY <2>1, <2>4, <3>1, <3>2, <4>1 DEF ThemeType, ToColorType
      <3> QED BY <1>2, <2>5, <3>1, <3>2
              DEF Told, PaletteToldOrPending, TypeToldOrPending, UnreadType, SilentSince, SilentDiffers
    <2>7. CASE type # TypeRead
      <3>1. appPalette # None /\ InForce' = InForce
        BY <1>1, <1>6, <2>7, OwnPalette
      <3>2. silent' = (silent /\ toldPalette' # InForce') /\ (Pending => Pending')
        BY <1>1, <2>2, <2>7, <3>1 DEF Silently, Pending, IsCustomPalette
      <3>3. gui' = InForce' /\ ThemeType' \in {paletteType', ToColorType(gui)'}
        BY <2>2, SyncTells DEF ThemeType
      <3> QED BY <1>1, <1>2, <2>4, <2>5, <3>1, <3>2
              DEF AppInv, Told, PaletteToldOrPending, TypeToldOrPending, UnreadType, SilentSince, SilentDiffers
    <2> QED BY <2>6, <2>7
  <1> QED BY <1>4, <1>5, <1>6

(* A call or a delivery tells nothing and leaves what is in force.            *)
LEMMA UnnoticedKeeps ==
    ASSUME AppInv, Running, UNCHANGED <<process, kinds, gui, toldPalette, toldType, posted, saved>>, delay' \in BOOLEAN,
           InForce' = InForce, silent' = (silent /\ toldPalette' # InForce'), Pending => Pending',
           cache # NoPalette => cache' # NoPalette
    PROVE  AppTypes' /\ Idle' /\ Told'
  <1>1. AppTypes' /\ Idle' /\ (ReadsSaved' => ReadsSaved)
    BY DEF AppInv, AppTypes, Idle, Running, process, kinds, ReadsSaved
  <1> QED BY <1>1, UntoldStep DEF kinds

(* One that tells of the palette, once for each connection.                   *)
LEMMA NotifiedKeeps ==
    ASSUME AppInv, Running, UNCHANGED <<process, paletteType, paletteTypeInited, saved>>,
           appPalette' \in Looks \cup {None}, delay' \in BOOLEAN, NEW n \in Nat, n > 0, NotifyAppThemeChanged(n),
           silent' = (silent /\ toldPalette' # InForce')
    PROVE  AppTypes' /\ Idle' /\ Told'
  <1>1. Sync(gui) /\ Post(n)
    BY DEF NotifyAppThemeChanged
  <1>2. posted' \in Nat /\ Pending'
    BY <1>1, Posts DEF AppInv, Pending
  <1>3. AppTypes' /\ Idle' /\ (ReadsSaved' => ReadsSaved)
    BY <1>2 DEF AppInv, AppTypes, Idle, Running, process, ReadsSaved
  <1> QED BY <1>1, <1>2, <1>3, SyncTells, PendingStep

(* One that only starts a timer that will tell.                               *)
LEMMA DelayedKeeps ==
    ASSUME AppInv, Running, UNCHANGED <<process, kinds, gui, toldPalette, toldType, posted, saved>>, delay' \in BOOLEAN,
           silent' = (silent /\ toldPalette' # InForce'), Pending'
    PROVE  AppTypes' /\ Idle' /\ Told'
  <1>1. AppTypes' /\ Idle' /\ (ReadsSaved' => ReadsSaved)
    BY DEF AppInv, AppTypes, Idle, Running, process, kinds, ReadsSaved
  <1> QED BY <1>1, PendingStep DEF kinds

LEMMA TypeChangedKeeps == AppInv /\ TypeChanged => AppTypes' /\ Idle' /\ Told'
  <1> SUFFICES ASSUME AppInv, TypeChanged PROVE AppTypes' /\ Idle' /\ Told'
    OBVIOUS
  <1>1. /\ Running /\ UNCHANGED <<process, saved, paletteTypeInited, appPalette, delay, platform, seen, cache, due>>
        /\ silent' = (silent /\ toldPalette' # InForce')
    BY DEF TypeChanged, Silently, themeVars, server, interface, paletteCache
  <1>2. CASE mine # saved /\ paletteTypeInited
    <2>1. ChangePaletteType(paletteType, saved, gui) /\ paletteType' = saved /\ ~ReadsSaved' /\ saved \in Types
      BY <1>1, <1>2 DEF TypeChanged, ChangePaletteType, ReadsSaved, AppInv, AppTypes
    <2>2. Told' /\ posted' \in Nat
      BY <1>1, <2>1, ChangedTypeKeeps
    <2> QED BY <1>1, <2>1, <2>2 DEF AppInv, AppTypes, Idle, Running, process
  <1>3. CASE ~(mine # saved /\ paletteTypeInited)
    <2>1. UNCHANGED <<kinds, gui, toldPalette, toldType, posted>>
      BY <1>1, <1>3 DEF TypeChanged, Unnoticed, NoSync, kinds
    <2>2. InForce' = InForce /\ (Pending => Pending') /\ delay' \in BOOLEAN
      BY <1>1, <2>1, SameInputs DEF Pending, IsCustomPalette, kinds, AppInv, AppTypes
    <2> QED BY <1>1, <2>1, <2>2, UnnoticedKeeps
  <1> QED BY <1>2, <1>3

LEMMA SetApplicationPaletteKeeps ==
    ASSUME AppInv, NEW own \in {None, "dark"}, SetApplicationPalette(own)
    PROVE  AppTypes' /\ Idle' /\ Told'
  <1>1. /\ Running /\ UNCHANGED <<process, paletteType, paletteTypeInited, saved>> /\ NotifyAppThemeChanged(1)
        /\ appPalette' \in Looks \cup {None} /\ delay' \in BOOLEAN
        /\ silent' = (silent /\ toldPalette' # InForce')
    BY DEF SetApplicationPalette, config, Looks, Silently, AppInv, AppTypes
  <1> QED BY <1>1, NotifiedKeeps

LEMMA TellFollowersKeeps == AppInv /\ TellFollowers => AppTypes' /\ Idle' /\ Told'
  <1> SUFFICES ASSUME AppInv, TellFollowers PROVE AppTypes' /\ Idle' /\ Told'
    OBVIOUS
  <1>1. /\ Running /\ Running' /\ UNCHANGED <<process, config, appPalette, delay>> /\ posted > 0 /\ posted' = posted - 1
        /\ paletteTypeInited' = (paletteTypeInited \/ ~dontSave) /\ paletteType' = TypeRead
        /\ toldPalette' = InForce' /\ toldType' = ThemeType' /\ silent' = FALSE
    BY DEF TellFollowers, Running, process
  <1>2. posted' \in Nat
    BY <1>1 DEF AppInv, AppTypes
  <1>3. paletteType' \in Types /\ paletteTypeInited' \in BOOLEAN /\ ~ReadsSaved'
    BY <1>1 DEF AppInv, AppTypes, process, ReadsSaved, TypeRead
  <1>4. AppTypes' /\ Idle'
    BY <1>1, <1>2, <1>3 DEF AppInv, AppTypes, Idle, Running, process, config
  <1> QED BY <1>1, <1>3, <1>4 DEF Told, PaletteToldOrPending, TypeToldOrPending, UnreadType, SilentSince, SilentDiffers

LEMMA DeliverSettingKeeps ==
    ASSUME AppInv, NEW k \in Keys \ Roles, DeliverSetting(k)
    PROVE  AppTypes' /\ Idle' /\ Told'
  <1>1. /\ Running /\ UNCHANGED <<process, kinds, saved>> /\ silent' = (silent /\ toldPalette' # InForce')
        /\ UNCHANGED <<platform, cache, due>> /\ \A o \in Keys \ {k} : seen'[o] = seen[o]
        /\ Deliver(k)
    BY DeliverInv DEF DeliverSetting, Silently, config, AppInv
  <1>2. UNCHANGED <<paletteType, appPalette, paletteTypeInited>> /\ (IsCustomPalette' <=> IsCustomPalette)
    BY <1>1 DEF kinds, IsCustomPalette
  <1>3. CASE k = "size"
    <2>1. UNCHANGED <<gui, toldPalette, toldType, posted, delay>>
      BY <1>3 DEF DeliverSetting, SizeModeChanged, Unnoticed, NoSync
    <2>2. InForce' = InForce /\ (Pending => Pending') /\ delay' \in BOOLEAN
      BY <1>1, <1>2, <1>3, <2>1, SizeIsNoInput DEF Pending, AppInv, AppTypes
    <2> QED BY <1>1, <2>1, <2>2, UnnoticedKeeps
  <1>4. CASE k = "name" /\ IsCustomPalette
    <2>1. UNCHANGED <<gui, toldPalette, toldType, posted, delay>>
      BY <1>4 DEF DeliverSetting, ThemeChanged, Unnoticed, NoSync
    <2>2. seen'["active"] = seen["active"] /\ seen'["dark"] = seen["dark"]
      BY <1>1, <1>4, KeysDiffer
    <2>3. InForce' = InForce
      BY <1>1, <1>2, <1>4, <2>2, OwnPalette, TypesPalette DEF IsCustomPalette
    <2>4. (Pending => Pending') /\ delay' \in BOOLEAN
      BY <1>1, <1>2, <2>1 DEF Pending, AppInv, AppTypes
    <2> QED BY <1>1, <2>1, <2>3, <2>4, UnnoticedKeeps
  <1>5. CASE k = "name" /\ ~IsCustomPalette
    <2>1. NotifyAppThemeChanged(links) /\ delay' \in BOOLEAN /\ links \in Nat /\ links > 0
          /\ appPalette' \in Looks \cup {None}
      BY <1>1, <1>2, <1>5 DEF DeliverSetting, ThemeChanged, AppInv, AppTypes
    <2> QED BY <1>1, <1>2, <2>1, NotifiedKeeps
  <1>6. CASE k \in {"active", "dark"}
    <2>1. UNCHANGED <<gui, toldPalette, toldType, posted>> /\ delay' = TRUE
      BY <1>6 DEF DeliverSetting, ThemeChanged, Unnoticed, NoSync
    <2>2. CASE appPalette = None
      BY <1>1, <1>2, <2>1, <2>2, DelayedKeeps DEF Pending
    <2>3. CASE appPalette # None
      <3>1. InForce' = InForce /\ (Pending => Pending')
        BY <1>1, <1>2, <2>1, <2>3, OwnPalette DEF Pending
      <3> QED BY <1>1, <2>1, <3>1, UnnoticedKeeps
    <2> QED BY <2>2, <2>3
  <1> QED BY <1>3, <1>4, <1>5, <1>6 DEF Keys

LEMMA DeliverRoleKeeps ==
    ASSUME AppInv, NEW r \in Roles, DeliverRole(r)
    PROVE  AppTypes' /\ Idle' /\ Told'
  <1>1. /\ Running /\ UNCHANGED <<process, kinds, saved, delay, gui, toldPalette, toldType, posted>>
        /\ silent' = (silent /\ toldPalette' # InForce') /\ DeliverColor(r) /\ delay' \in BOOLEAN
    BY DEF DeliverRole, Silently, config, AppInv, AppTypes, Unnoticed, NoSync
  <1>2. platform' = platform /\ due' = TRUE /\ cache' # NoPalette
        /\ seen'["active"] = seen["active"] /\ seen'["dark"] = seen["dark"]
    BY <1>1, DeliverColorInv DEF AppInv
  <1>3. UNCHANGED <<paletteType, appPalette>> /\ (IsCustomPalette' <=> IsCustomPalette)
    BY <1>1 DEF kinds, IsCustomPalette
  <1>4. CASE IsCustomPalette
    <2>1. InForce' = InForce
      BY <1>2, <1>3, <1>4, OwnPalette, TypesPalette DEF IsCustomPalette
    <2>2. Pending => Pending'
      BY <1>1, <1>3, <1>4 DEF Pending
    <2> QED BY <1>1, <1>2, <2>1, <2>2, UnnoticedKeeps
  <1>5. CASE ~IsCustomPalette
    <2>1. Pending'
      BY <1>2, <1>3, <1>5 DEF Pending
    <2> QED BY <1>1, <2>1, DelayedKeeps
  <1> QED BY <1>4, <1>5

LEMMA ThemePaletteChangedKeeps == AppInv /\ ThemePaletteChanged => AppTypes' /\ Idle' /\ Told'
  <1> SUFFICES ASSUME AppInv, ThemePaletteChanged PROVE AppTypes' /\ Idle' /\ Told'
    OBVIOUS
  <1>1. /\ Running /\ UNCHANGED <<process, kinds, saved, delay>> /\ UNCHANGED <<platform, seen, cache>>
        /\ silent' = (silent /\ toldPalette' # InForce') /\ delay' \in BOOLEAN
    BY PaletteTickInv DEF ThemePaletteChanged, Silently, config, AppInv, AppTypes
  <1>2. UNCHANGED <<paletteType, appPalette, paletteTypeInited>> /\ InForce' = InForce
        /\ (IsCustomPalette' <=> IsCustomPalette)
    BY <1>1, SameInputs DEF kinds
  <1>3. CASE IsCustomPalette
    <2>1. UNCHANGED <<gui, toldPalette, toldType, posted>>
      BY <1>3 DEF ThemePaletteChanged, Unnoticed, NoSync
    <2>2. Pending => Pending'
      BY <1>1, <1>2, <1>3, <2>1 DEF Pending
    <2> QED BY <1>1, <1>2, <2>1, <2>2, UnnoticedKeeps
  <1>4. CASE ~IsCustomPalette
    <2>1. NotifyAppThemeChanged(links) /\ links \in Nat /\ links > 0 /\ appPalette' \in Looks \cup {None}
      BY <1>1, <1>2, <1>4 DEF ThemePaletteChanged, AppInv, AppTypes
    <2> QED BY <1>1, <1>2, <2>1, NotifiedKeeps
  <1> QED BY <1>3, <1>4

LEMMA DelayOverKeeps == AppInv /\ DelayOver => AppTypes' /\ Idle' /\ Told'
  <1> SUFFICES ASSUME AppInv, DelayOver PROVE AppTypes' /\ Idle' /\ Told'
    OBVIOUS
  <1>1. /\ Running /\ UNCHANGED <<process, kinds, saved>> /\ UNCHANGED <<platform, seen, cache, due>>
        /\ silent' = (silent /\ toldPalette' # InForce') /\ delay' \in BOOLEAN
    BY DEF DelayOver, Silently, config, themeVars, server, interface, paletteCache
  <1>2. UNCHANGED <<paletteType, appPalette, paletteTypeInited>> /\ InForce' = InForce
        /\ (IsCustomPalette' <=> IsCustomPalette)
    BY <1>1, SameInputs DEF kinds
  <1>3. CASE appPalette # None
    <2>1. UNCHANGED <<gui, toldPalette, toldType, posted>>
      BY <1>3 DEF DelayOver, Unnoticed, NoSync
    <2>2. Pending => Pending'
      BY <1>1, <1>2, <1>3, <2>1 DEF Pending
    <2> QED BY <1>1, <1>2, <2>1, <2>2, UnnoticedKeeps
  <1>4. CASE appPalette = None
    <2>1. NotifyAppThemeChanged(links) /\ links \in Nat /\ links > 0 /\ appPalette' \in Looks \cup {None}
      BY <1>1, <1>2, <1>4 DEF DelayOver, AppInv, AppTypes
    <2> QED BY <1>1, <1>2, <2>1, NotifiedKeeps
  <1> QED BY <1>3, <1>4

(* The first call of palette() may add colours that nobody is told of.        *)
LEMMA ThemePaletteCallKeeps == AppInv /\ ThemePaletteCall => AppTypes' /\ Idle' /\ Told'
  <1> SUFFICES ASSUME AppInv, ThemePaletteCall PROVE AppTypes' /\ Idle' /\ Told'
    OBVIOUS
  <1>1. /\ Running /\ UNCHANGED <<process, kinds, saved, delay, gui, toldPalette, toldType, posted>>
        /\ Silently(InForce' # InForce) /\ delay' \in BOOLEAN
    BY DEF ThemePaletteCall, config, AppInv, AppTypes, Unnoticed, NoSync
  <1>2. UNCHANGED <<platform, seen, due>> /\ cache = NoPalette /\ cache' # NoPalette
    BY ReadPaletteInv DEF ThemePaletteCall, AppInv
  <1>3. UNCHANGED <<paletteType, appPalette, paletteTypeInited>> /\ (IsCustomPalette' <=> IsCustomPalette)
    BY <1>1 DEF kinds, IsCustomPalette
  <1>4. Pending' <=> Pending
    BY <1>1, <1>2, <1>3 DEF Pending
  <1>5. CASE InForce' = InForce
    BY <1>1, <1>2, <1>4, <1>5, UnnoticedKeeps DEF Silently
  <1>6. CASE InForce' # InForce
    <2>1. ~IsCustomPalette
      BY <1>2, <1>3, <1>6, OwnPalette, TypesPalette DEF IsCustomPalette
    <2>2. appPalette = None /\ paletteType = "unknown"
      BY <2>1 DEF IsCustomPalette
    <2>3. silent' = (toldPalette' # InForce')
      BY <1>1, <1>6 DEF Silently
    <2>4. ~silent' => Pending'
      BY <1>1, <1>2, <1>4, <1>6, <2>2, <2>3 DEF AppInv, Told, PaletteToldOrPending, SilentSince
    <2>5. AppTypes' /\ Idle'
      BY <1>1, <2>3 DEF AppInv, AppTypes, Idle, Running, process, kinds
    <2>6. UnreadType'
      BY <1>1, <1>3 DEF AppInv, Told, UnreadType, ReadsSaved, ToColorType, process, Running
    <2> QED BY <1>2, <2>3, <2>4, <2>5, <2>6
            DEF Told, PaletteToldOrPending, TypeToldOrPending, SilentSince, SilentDiffers
  <1> QED BY <1>5, <1>6

LEMMA NextKeepsAppInv == AppInv /\ [Next]_vars => AppInv'
  <1> SUFFICES ASSUME AppInv, [Next]_vars PROVE AppTypes' /\ Idle' /\ Told'
    BY ThemeKeeps, SizeKeeps DEF AppInv
  <1>1. UNCHANGED themeVars => UNCHANGED <<platform, seen, cache, due>>
    BY DEF themeVars, server, interface, paletteCache
  <1>2. ASSUME NEW mode \in SizeModes, SetSizeMode(mode) PROVE AppTypes' /\ Idle' /\ Told'
    BY <1>1, <1>2, QuietStep DEF SetSizeMode, process, config, AppInv, AppTypes
  <1>3. CASE ResetSizeMode
    BY <1>1, <1>3, QuietStep DEF ResetSizeMode, process, config, AppInv, AppTypes
  <1>4. CASE UNCHANGED vars
    BY <1>1, <1>4, QuietStep DEF vars, appVars, process, config, AppInv, AppTypes
  <1>5. CASE Lifecycle
    BY <1>5, LifecycleKeeps
  <1>6. CASE Calls
    BY <1>2, <1>3, <1>6, ThemeTypeCallKeeps, ThemePaletteCallKeeps, SetPaletteTypeKeeps, SetApplicationPaletteKeeps,
       OutsideKeeps DEF Calls
  <1>7. CASE Outside
    BY <1>7, OutsideKeeps
  <1>8. CASE Deliveries
    BY <1>8, DeliverSettingKeeps, DeliverRoleKeeps, TypeChangedKeeps, TellFollowersKeeps, ThemePaletteChangedKeeps,
       DelayOverKeeps DEF Deliveries
  <1> QED BY <1>4, <1>5, <1>6, <1>7, <1>8 DEF Next

-----------------------------------------------------------------------------
(* When every change has been delivered and every notification has run, those *)
(* who follow the helper know the palette, the type and the size mode in      *)
(* force, whatever the order of the changes.                                  *)
THEOREM FollowersAreTold == Spec => []FollowersTold
  <1>1. AppInv => FollowersTold
    <2> SUFFICES ASSUME AppInv PROVE FollowersTold
      OBVIOUS
    <2>1. posted \in Nat
      BY DEF AppInv, AppTypes
    <2>2. Quiet => ~Pending
      BY <2>1 DEF Quiet, Pending
    <2> QED BY <2>2 DEF FollowersTold, AppInv, Told, PaletteToldOrPending, TypeToldOrPending, SizeTold
  <1> QED BY <1>1, AppInitInv, NextKeepsAppInv, PTL DEF Spec

-----------------------------------------------------------------------------
(* The types, and what must be there together.                                *)
(* What is not a type of AppThemeOK: the size mode of the desktop is one, and *)
(* the palette of the application has a type.                                 *)
Sized == desktop["size"] \in SizeModes
Colored == ToColorType(gui) \in Looks

ThemeParts ==
    /\ platform \in Platforms /\ changes \in 0..MaxChanges
    /\ theme \in BOOLEAN /\ context \in BOOLEAN /\ (context => theme)
    /\ manager \in {"none", "bound", "active"} /\ (platform = "xcb" => manager = "none")
    /\ (~theme => late = {})
    /\ ticking \in BOOLEAN /\ (due => ticking) /\ (ticking => cache # NoPalette)
    /\ Sized

ProcessParts ==
    /\ apps \in 0..MaxApps /\ links \in 0..2 /\ (theme <=> Running) /\ (links > 0 <=> Running)
    /\ {app, helper, preRoutine, dontSave} \subseteq BOOLEAN
    /\ env \in SizeModes \cup {None}
    /\ calls \in 0..MaxEvents

KindParts ==
    /\ mine \in Types /\ lateType \in BOOLEAN
    /\ posted \in 0..MaxPosted /\ delay \in BOOLEAN

SizeParts ==
    /\ explicitSizeMode \in SizeModes \cup {None}
    /\ {systemSizeMode, toldSize} \subseteq SizeModes

ToldParts == toldType \in Types /\ silent \in BOOLEAN /\ Colored

OKInv == AppInv /\ ThemeParts /\ ProcessParts /\ KindParts /\ SizeParts /\ ToldParts

LEMMA OKInvIsOK == OKInv => AppThemeOK
  BY DEF OKInv, AppInv, ThemeInv, ThemeTypes, AppTypes, SizeTold, AppThemeOK, ThemeOK, ThemeParts, ProcessParts,
         KindParts, SizeParts, ToldParts

(* A palette has a type.                                                      *)
LEMMA PalettesColored ==
    ASSUME NEW p, p.own \in Looks \cup {None}, p.roles["Window"] \in Looks \cup {None},
           p.own = None => p.look \in Looks
    PROVE  ToColorType(p) \in Looks
  BY DEF ToColorType

LEMMA NoOneKnowsColored == ToColorType(NoOneKnows) \in Looks
  <1> DEFINE none == [k \in Keys |-> None]
             p == NoOneKnows
  <1>1. none["name"] = None /\ none["name"] # "dark"
    BY KeysDiffer DEF None
  <1>2. FetchPalette(none, NoPalette) = [r \in Roles |-> None]
    BY DEF FetchPalette
  <1>3. p = PaletteIn(None, "unknown", none, NoPalette)
    BY DEF NoOneKnows
  <1> HIDE DEF none, p
  <1>4. p.own = None /\ p.look = "light" /\ p.roles = [r \in Roles |-> None]
    BY <1>1, <1>2, <1>3 DEF PaletteIn, StandardPalette
  <1>5. p.roles["Window"] = None
    BY <1>4, PlatformThemeAssumption
  <1>6. ToColorType(p) \in Looks
    BY <1>4, <1>5, PalettesColored DEF Looks
  <1> QED BY <1>6 DEF p

LEMMA FetchedColors ==
    ASSUME NEW s, NEW c \in Palettes \cup {NoPalette}
    PROVE  FetchPalette(s, c)["Window"] \in Looks \cup {None}
  BY PlatformThemeAssumption DEF FetchPalette, Palettes

LEMMA InForceColored ==
    /\ AppInv => ToColorType(InForce) \in Looks
    /\ AppInv' => ToColorType(InForce') \in Looks
  <1>1. ASSUME AppInv PROVE ToColorType(InForce) \in Looks
    <2>1. /\ appPalette \in Looks \cup {None} /\ paletteType \in Types
          /\ cache \in Palettes \cup {NoPalette}
      BY <1>1 DEF AppInv, ThemeInv, ThemeTypes, AppTypes
    <2>2. InForce.own = appPalette /\ (appPalette = None => InForce.look \in Looks)
      BY <2>1 DEF InForce, PaletteIn, StandardPalette, Types, Looks
    <2>3. InForce.roles["Window"] \in Looks \cup {None}
      BY <2>1, FetchedColors, PlatformThemeAssumption DEF InForce, PaletteIn
    <2> QED BY <2>1, <2>2, <2>3, PalettesColored
  <1>2. ASSUME AppInv' PROVE ToColorType(InForce') \in Looks
    <2>1. /\ appPalette' \in Looks \cup {None} /\ paletteType' \in Types
          /\ cache' \in Palettes \cup {NoPalette}
      BY <1>2 DEF AppInv, ThemeInv, ThemeTypes, AppTypes
    <2>2. InForce'.own = appPalette' /\ (appPalette' = None => InForce'.look \in Looks)
      BY <2>1 DEF InForce, PaletteIn, StandardPalette, Types, Looks
    <2>3. InForce'.roles["Window"] \in Looks \cup {None}
      BY <2>1, FetchedColors, PlatformThemeAssumption DEF InForce, PaletteIn
    <2> QED BY <2>1, <2>2, <2>3, PalettesColored
  <1> QED BY <1>1, <1>2

LEMMA OKInit == Init => OKInv
  <1> SUFFICES ASSUME Init PROVE OKInv
    OBVIOUS
  <1>1. PICK s \in Starts : platform = s.platform /\ dontSave = s.dontSave /\ env = s.env /\ saved = s.saved
    BY DEF Init
  <1>2. platform \in Platforms /\ dontSave \in BOOLEAN /\ env \in SizeModes \cup {None} /\ saved \in Types
    BY <1>1, AppThemeAssumption
  <1>3. ThemeParts
    <2>1. desktop["size"] = "normal"
      BY KeysDiffer DEF Init, ThemeInit
    <2>2. /\ changes = 0 /\ theme = FALSE /\ context = FALSE /\ manager = "none" /\ late = {}
          /\ ticking = FALSE /\ due = FALSE
      BY DEF Init, ThemeInit
    <2>3. changes \in 0..MaxChanges
      BY <2>2, PlatformThemeAssumption
    <2> QED BY <1>2, <2>1, <2>2, <2>3, Zenon DEF ThemeParts, Sized, SizeModes
  <1>4. ToColorType(gui) \in Looks
    BY NoOneKnowsColored DEF Init
  <1>5. ProcessParts
    <2>1. apps \in 0..MaxApps /\ links \in 0..2 /\ calls \in 0..MaxEvents /\ ~(links > 0)
      BY AppThemeAssumption DEF Init
    <2>2. app = FALSE /\ helper = FALSE /\ preRoutine = FALSE /\ theme = FALSE
      BY DEF Init, ThemeInit
    <2> QED BY <1>2, <2>1, <2>2, Zenon DEF ProcessParts, Running
  <1>6. KindParts /\ SizeParts /\ ToldParts
    <2>1. posted \in 0..MaxPosted
      BY AppThemeAssumption DEF Init
    <2>2. mine \in Types /\ toldType \in Types
      BY <1>2 DEF Init, Types, Looks
    <2> QED BY <1>4, <2>1, <2>2 DEF Init, KindParts, SizeParts, ToldParts, Colored, SizeModes
  <1> QED BY <1>3, <1>5, <1>6, AppInitInv DEF OKInv

(* The theme's part, by the steps of the theme.                               *)
LEMMA MakeThemeParts == ThemeParts /\ MakeTheme => ThemeParts'
  BY DEF ThemeParts, Sized, MakeTheme, server

LEMMA DropThemeParts == ThemeParts /\ DropTheme => ThemeParts'
  BY DEF ThemeParts, Sized, DropTheme, server

LEMMA WrittenParts ==
    ASSUME ThemeInv, ThemeParts, NEW k \in Keys, NEW v \in Values(k), Written(k, v) PROVE ThemeParts'
  <1>1. desktop'["size"] \in SizeModes
    BY KeysDiffer DEF ThemeInv, ThemeTypes, Settings, ThemeParts, Sized, Written, Values
  <1>2. changes' \in 0..MaxChanges
    BY PlatformThemeAssumption DEF ThemeParts, Written
  <1> QED BY <1>1, <1>2 DEF ThemeParts, Sized, Written, Hears, paletteCache

LEMMA DeliveredParts ==
    ASSUME ThemeParts,
           \/ ManagerActive \/ PaletteTick \/ ReadPalette
           \/ \E k \in Keys \ Roles : Deliver(k)
    PROVE  ThemeParts'
  <1>1. ASSUME NEW k \in Keys \ Roles, Deliver(k) PROVE ThemeParts'
    BY <1>1 DEF ThemeParts, Sized, Deliver, server, paletteCache
  <1>2. CASE ManagerActive
    BY <1>2 DEF ThemeParts, Sized, ManagerActive, server, paletteCache
  <1>3. CASE PaletteTick
    BY <1>3 DEF ThemeParts, Sized, PaletteTick, server, interface
  <1>4. CASE ReadPalette
    <2>1. cache' # NoPalette
      <3>1. cache' = [r \in Roles |-> seen[r]] /\ DOMAIN cache' = Roles
        BY <1>4 DEF ReadPalette
      <3> QED BY <3>1, PlatformThemeAssumption DEF NoPalette
    <2> QED BY <1>4, <2>1 DEF ThemeParts, Sized, ReadPalette, server, interface
  <1> QED BY <1>1, <1>2, <1>3, <1>4

LEMMA ColorParts ==
    ASSUME ThemeInv, ThemeParts, NEW r \in Roles, DeliverColor(r) PROVE ThemeParts'
  <1>1. cache' # NoPalette
    BY DeliverColorInv
  <1> QED BY <1>1 DEF ThemeParts, Sized, DeliverColor, server

LEMMA ThemePartsKept == OKInv /\ [Next]_vars => ThemeParts'
  <1> SUFFICES ASSUME OKInv, [Next]_vars PROVE ThemeParts'
    OBVIOUS
  <1>1. ThemeInv /\ ThemeParts
    BY DEF OKInv, AppInv
  <1>2. UNCHANGED themeVars => ThemeParts'
    BY <1>1 DEF ThemeParts, Sized, themeVars, server, interface, paletteCache
  <1>3. CASE Lifecycle
    BY <1>1, <1>2, <1>3, MakeThemeParts, DropThemeParts
       DEF Lifecycle, InstanceEarly, CreateApp, Instance, DestroyApp, InitApplication
  <1>4. CASE Calls
    <2>1. ASSUME NEW k \in Keys, NEW v \in Values(k), ThemeSetter(k, v) PROVE ThemeParts'
      BY <1>1, <2>1, WrittenParts DEF ThemeSetter, SetSetting, SetColor
    <2> QED BY <1>1, <1>2, <1>4, <2>1, DeliveredParts
            DEF Calls, ThemeTypeCall, ThemePaletteCall, ResetSizeMode, SetPaletteType, SetApplicationPalette, SetSizeMode
  <1>5. CASE Outside
    <2>1. ASSUME NEW k \in Keys, NEW v \in Values(k), DesktopChange(k, v) PROVE ThemeParts'
      BY <1>1, <2>1, WrittenParts DEF DesktopChange, DesktopChanges
    <2>2. ASSUME NEW type \in Types, OtherSaves(type) PROVE ThemeParts'
      BY <1>1, <2>2, PlatformThemeAssumption DEF OtherSaves, ThemeParts, Sized, interface, paletteCache
    <2> QED BY <1>1, <1>5, <2>1, <2>2, DeliveredParts DEF Outside, ManagerActivated
  <1>6. CASE Deliveries
    BY <1>1, <1>2, <1>6, DeliveredParts, ColorParts
       DEF Deliveries, DeliverSetting, DeliverRole, TypeChanged, TellFollowers, ThemePaletteChanged, DelayOver
  <1> QED BY <1>2, <1>3, <1>4, <1>5, <1>6 DEF Next, vars

(* Which objects there are.                                                   *)
LEMMA ProcessPartsKept == OKInv /\ [Next]_vars => ProcessParts'
  <1> SUFFICES ASSUME OKInv, [Next]_vars PROVE ProcessParts'
    OBVIOUS
  <1>1. ProcessParts /\ (~app /\ helper => preRoutine)
    BY DEF OKInv, AppInv, Idle
  <1>2. UNCHANGED <<theme, process, calls>> => ProcessParts'
    BY <1>1 DEF ProcessParts, Running, process
  <1>3. UNCHANGED themeVars => UNCHANGED theme
    BY DEF themeVars, interface
  <1>4. UNCHANGED <<theme, process>> /\ Call => ProcessParts'
    <2>1. More /\ calls' = calls + 1 => calls' \in 0..MaxEvents
      BY <1>1, PlatformThemeAssumption, AppThemeAssumption DEF OKInv, ThemeParts, ProcessParts, More
    <2> QED BY <1>1, <2>1 DEF ProcessParts, Running, process, Call
  <1>5. CASE InstanceEarly
    BY <1>1, <1>3, <1>5 DEF InstanceEarly, ProcessParts, Running
  <1>6. CASE CreateApp
    <2>1. apps' \in 0..MaxApps
      BY <1>1, <1>6, AppThemeAssumption DEF ProcessParts, CreateApp
    <2>2. CASE preRoutine
      <3>1. PICK n \in {1, 2} : InitApplication(n) /\ helper' = TRUE
        BY <1>6, <2>2 DEF CreateApp
      <3> QED BY <1>1, <1>6, <2>1, <3>1 DEF CreateApp, InitApplication, MakeTheme, ProcessParts, Running
    <2>3. CASE ~preRoutine
      BY <1>1, <1>3, <1>6, <2>1, <2>3 DEF CreateApp, ProcessParts, Running
    <2> QED BY <2>2, <2>3
  <1>7. CASE Instance
    BY <1>1, <1>7 DEF Instance, InitApplication, MakeTheme, ProcessParts, Running
  <1>8. CASE DestroyApp
    <2>1. ~theme' /\ ~Running' /\ links' = 0 /\ {app', helper'} \subseteq BOOLEAN
      BY <1>8 DEF DestroyApp, DropTheme, Running
    <2>2. links' \in 0..2 /\ ~(links' > 0)
      BY <2>1
    <2>3. UNCHANGED <<apps, preRoutine, dontSave, env, calls>> /\ theme' \in BOOLEAN
      BY <1>8 DEF DestroyApp, DropTheme
    <2> QED BY <1>1, <2>1, <2>2, <2>3 DEF ProcessParts
  <1>9. CASE Calls
    <2>1. ASSUME NEW k \in Keys, NEW v \in Values(k), ThemeSetter(k, v) PROVE ProcessParts'
      BY <1>2, <2>1 DEF ThemeSetter, SetSetting, SetColor, Written, appVars
    <2> QED BY <1>2, <1>3, <1>4, <1>9, <2>1
            DEF Calls, ThemeTypeCall, ThemePaletteCall, ReadPalette, interface, ResetSizeMode, SetPaletteType,
                SetApplicationPalette, SetSizeMode
  <1>10. CASE Outside
    BY <1>2, <1>10 DEF Outside, ManagerActivated, ManagerActive, DesktopChange, DesktopChanges, Written, OtherSaves,
                       interface, appVars
  <1>11. CASE Deliveries
    BY <1>2, <1>3, <1>11
       DEF Deliveries, DeliverSetting, Deliver, DeliverRole, DeliverColor, TypeChanged, TellFollowers,
           ThemePaletteChanged, PaletteTick, interface, DelayOver
  <1> QED BY <1>2, <1>3, <1>5, <1>6, <1>7, <1>8, <1>9, <1>10, <1>11 DEF Next, Lifecycle, vars, appVars

(* What is posted stays within its bound.                                     *)
LEMMA PostBound == ASSUME KindParts, NEW n \in Nat, Post(n) PROVE posted' \in 0..MaxPosted
  BY AppThemeAssumption DEF KindParts, Post

LEMMA KindPartsKept == OKInv /\ [Next]_vars => KindParts'
  <1> SUFFICES ASSUME OKInv, [Next]_vars PROVE KindParts'
    OBVIOUS
  <1>1. KindParts /\ links \in Nat /\ saved \in Types /\ helper \in BOOLEAN
    BY DEF OKInv, AppInv, AppTypes
  <1>2. UNCHANGED <<config, pending>> => KindParts'
    BY <1>1 DEF KindParts, config, pending
  <1>3. CASE Lifecycle
    <2>1. 0 \in 0..MaxPosted
      BY AppThemeAssumption
    <2> QED BY <1>1, <1>2, <1>3, <2>1
            DEF Lifecycle, InstanceEarly, CreateApp, Instance, DestroyApp, InitApplication, KindParts, config
  <1>4. CASE Outside
    BY <1>1, <1>2, <1>4
       DEF Outside, ManagerActivated, DesktopChange, OtherSaves, appVars, KindParts, pending, Types, Looks
  <1>5. CASE Calls
    <2>1. ASSUME NEW type \in Types, SetPaletteType(type) PROVE KindParts'
      <3>1. posted' \in 0..MaxPosted
        BY <1>1, <2>1, PostBound DEF SetPaletteType, ChangePaletteType, KindParts
      <3> QED BY <1>1, <2>1, <3>1 DEF SetPaletteType, KindParts
    <2>2. ASSUME NEW own \in {None, "dark"}, SetApplicationPalette(own) PROVE KindParts'
      BY <1>1, <2>2, PostBound DEF SetApplicationPalette, NotifyAppThemeChanged, KindParts, config
    <2> QED BY <1>1, <1>2, <1>5, <2>1, <2>2
            DEF Calls, ThemeTypeCall, ThemePaletteCall, Unnoticed, ResetSizeMode, SetSizeMode, ThemeSetter, appVars,
                KindParts, config, pending
  <1>6. CASE Deliveries
    <2>1. CASE TypeChanged
      <3>1. posted' \in 0..MaxPosted
        BY <1>1, <2>1, PostBound DEF TypeChanged, ChangePaletteType, Unnoticed, KindParts
      <3> QED BY <1>1, <2>1, <3>1 DEF TypeChanged, KindParts
    <2>2. CASE TellFollowers
      BY <1>1, <2>2, AppThemeAssumption DEF TellFollowers, KindParts, config
    <2>3. ASSUME NEW k \in Keys \ Roles, DeliverSetting(k) PROVE KindParts'
      <3>1. posted' \in 0..MaxPosted /\ delay' \in BOOLEAN
        BY <1>1, <2>3, PostBound
           DEF DeliverSetting, SizeModeChanged, ThemeChanged, NotifyAppThemeChanged, Unnoticed, KindParts
      <3> QED BY <1>1, <2>3, <3>1 DEF DeliverSetting, KindParts, config
    <2>4. CASE ThemePaletteChanged
      BY <1>1, <2>4, PostBound DEF ThemePaletteChanged, NotifyAppThemeChanged, Unnoticed, KindParts, config
    <2>5. CASE DelayOver
      BY <1>1, <2>5, PostBound DEF DelayOver, NotifyAppThemeChanged, Unnoticed, KindParts, config
    <2>6. ASSUME NEW r \in Roles, DeliverRole(r) PROVE KindParts'
      BY <1>1, <2>6 DEF DeliverRole, Unnoticed, KindParts, config
    <2> QED BY <1>6, <2>1, <2>2, <2>3, <2>4, <2>5, <2>6 DEF Deliveries
  <1> QED BY <1>2, <1>3, <1>4, <1>5, <1>6 DEF Next, vars, appVars

(* The size mode is one, wherever it is kept.                                 *)
LEMMA SizePartsKept == OKInv /\ [Next]_vars => SizeParts'
  <1> SUFFICES ASSUME OKInv, [Next]_vars PROVE SizeParts'
    OBVIOUS
  <1>1. SizeParts /\ Sized /\ env \in SizeModes \cup {None} /\ None \notin SizeModes
    BY DEF OKInv, ThemeParts, ProcessParts, SizeModes, None
  <1>2. \A explicit \in SizeModes \cup {None}, system \in SizeModes :
            FetchSizeMode(explicit, system) \in SizeModes
    BY <1>1 DEF FetchSizeMode
  <1>3. \A explicit \in SizeModes \cup {None}, system \in SizeModes :
            TellSize(explicit, system) => toldSize' \in SizeModes
    BY <1>1, <1>2 DEF TellSize, SizeParts
  <1>4. UNCHANGED sizes => SizeParts'
    BY <1>1 DEF SizeParts, sizes
  <1>5. ASSUME NEW n \in Nat, InitApplication(n), UNCHANGED explicitSizeMode PROVE SizeParts'
    <2>1. systemSizeMode' \in SizeModes
      BY <1>1, <1>5, KeysDiffer DEF InitApplication, MakeTheme, ThemeSetting, Sized
    <2> QED BY <1>1, <1>2, <1>5, <2>1 DEF InitApplication, SizeParts
  <1>6. CASE Lifecycle
    <2>1. CASE InstanceEarly
      BY <1>1, <1>2, <2>1 DEF InstanceEarly, SizeParts, SizeMode
    <2>2. CASE CreateApp
      BY <1>4, <1>5, <2>2 DEF CreateApp
    <2>3. CASE Instance
      BY <1>5, <2>3 DEF Instance
    <2>4. CASE DestroyApp
      BY <2>4 DEF DestroyApp, SizeParts, SizeModes
    <2> QED BY <1>6, <2>1, <2>2, <2>3, <2>4 DEF Lifecycle
  <1>7. ASSUME NEW mode \in SizeModes, SetSizeMode(mode) PROVE SizeParts'
    BY <1>1, <1>3, <1>7 DEF SetSizeMode, SizeParts
  <1>8. CASE ResetSizeMode
    BY <1>1, <1>3, <1>8 DEF ResetSizeMode, SizeParts
  <1>9. ASSUME NEW k \in Keys \ Roles, DeliverSetting(k) PROVE SizeParts'
    BY <1>1, <1>3, <1>4, <1>9 DEF DeliverSetting, SizeModeChanged, ThemeChanged, SizeParts, Sized
  <1>10. CASE Calls
    BY <1>4, <1>7, <1>8, <1>10
       DEF Calls, ThemeTypeCall, ThemePaletteCall, SetPaletteType, SetApplicationPalette, ThemeSetter, appVars
  <1>11. CASE Outside
    BY <1>4, <1>11 DEF Outside, ManagerActivated, DesktopChange, OtherSaves, appVars
  <1>12. CASE Deliveries
    BY <1>4, <1>9, <1>12
       DEF Deliveries, DeliverRole, TypeChanged, TellFollowers, ThemePaletteChanged, DelayOver
  <1> QED BY <1>4, <1>6, <1>10, <1>11, <1>12 DEF Next, vars, appVars

(* What followers are told is a type.                                         *)
LEMMA SyncColored ==
    ASSUME ToldParts, AppInv', NoSync \/ \E old : Sync(old)
    PROVE  ToldParts'
  <1>1. ToColorType(InForce') \in Looks /\ silent' \in BOOLEAN
    BY InForceColored DEF AppInv, AppTypes
  <1>2. CASE NoSync
    BY <1>1, <1>2 DEF NoSync, ToldParts, Colored
  <1>3. ASSUME NEW old, Sync(old) PROVE ToldParts'
    BY <1>1, <1>3 DEF Sync, ToldParts, Colored, Types
  <1> QED BY <1>2, <1>3

LEMMA StartColored ==
    ASSUME AppInv', NEW n \in Nat, InitApplication(n)
    PROVE  ToldParts'
  <1>1. ToColorType(InForce') \in Looks /\ silent' \in BOOLEAN
    BY InForceColored DEF AppInv, AppTypes
  <1> QED BY <1>1 DEF InitApplication, ToldParts, Colored, Types

LEMMA ToldPartsKept == OKInv /\ [Next]_vars => ToldParts'
  <1> SUFFICES ASSUME OKInv, [Next]_vars PROVE ToldParts'
    OBVIOUS
  <1>1. ToldParts /\ AppInv'
    BY NextKeepsAppInv DEF OKInv
  <1>2. UNCHANGED told => ToldParts'
    BY <1>1 DEF ToldParts, Colored, told
  <1>3. NoSync \/ (\E old : Sync(old)) => ToldParts'
    BY <1>1, SyncColored
  <1>4. CASE Lifecycle
    <2>1. CASE DestroyApp
      BY <2>1, NoOneKnowsColored DEF DestroyApp, ToldParts, Colored, Types, Looks
    <2> QED BY <1>1, <1>2, <1>4, <2>1, StartColored DEF Lifecycle, InstanceEarly, CreateApp, Instance
  <1>5. CASE TellFollowers
    <2>1. ToColorType(gui') \in Looks
      BY <1>1, <1>5, InForceColored DEF TellFollowers, ToldParts, Colored
    <2>2. toldType' \in Types
      BY <1>1, <1>5, <2>1 DEF TellFollowers, ThemeType, AppInv, AppTypes, Types
    <2> QED BY <1>5, <2>1, <2>2 DEF TellFollowers, ToldParts, Colored
  <1>6. CASE Calls
    BY <1>2, <1>3, <1>6
       DEF Calls, ThemeTypeCall, InitPaletteType, ThemePaletteCall, Unnoticed, ResetSizeMode, SetPaletteType,
           ChangePaletteType, SetApplicationPalette, NotifyAppThemeChanged, SetSizeMode, ThemeSetter, appVars
  <1>7. CASE Outside
    BY <1>2, <1>7 DEF Outside, ManagerActivated, DesktopChange, OtherSaves, appVars
  <1>8. CASE Deliveries
    BY <1>3, <1>5, <1>8
       DEF Deliveries, DeliverSetting, SizeModeChanged, ThemeChanged, DeliverRole, TypeChanged, ChangePaletteType,
           ThemePaletteChanged, DelayOver, Unnoticed, NotifyAppThemeChanged
  <1> QED BY <1>2, <1>4, <1>6, <1>7, <1>8 DEF Next, vars, appVars

(* There is a theme, joined once or twice, just when there are a helper and   *)
(* its application; a theme that is gone hears nothing; the timer of the      *)
(* palette runs only over a palette; and what is stored and told are types,   *)
(* palettes and size modes: none of them is the one that stands for nothing.  *)
THEOREM AppThemeIsOK == Spec => []AppThemeOK
  <1>1. OKInv /\ [Next]_vars => OKInv'
    BY NextKeepsAppInv, ThemePartsKept, ProcessPartsKept, KindPartsKept, SizePartsKept, ToldPartsKept DEF OKInv
  <1> QED BY <1>1, OKInit, OKInvIsOK, PTL DEF Spec
=============================================================================
