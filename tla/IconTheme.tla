----------------------------- MODULE IconTheme ------------------------------
(* The icons a program gets by name: DIconTheme looks the file of a DCI icon  *)
(* up and caches its path, DIconProxyEngine holds the engine that fits the    *)
(* icon theme (DCI, built-in, XDG or Qt's own) and changes it with the theme, *)
(* DDciIconEngine caches pixmaps, DBuiltinIconEngine follows the theme type.  *)
(*                                                                            *)
(* One icon name.  DDciIcon::fromTheme asks for "application/name" first, the *)
(* proxy for "name".  Qt's and libxdg's engines follow the theme themselves.  *)
EXTENDS DciIcon

CONSTANTS
    Icons,       \* the QIcons (their engines) of the program
    Themes,      \* the icon themes
    Starts,      \* what may be there: files, what may be installed later, the
                 \* types with built-in images, the themes XDG has the icon in
    DciFiles,    \* what the DCI file in a place holds
    Requests,    \* the sizes and modes asked for
    MaxEvents    \* bound on the changes of themes, types and files

None == "none"

(* The places of a DCI file, in the order of the search.                      *)
OwnPlace(t) == <<t, "own">>
ThemePlace(t) == <<t, "all">>
PlainPlace == <<None, "all">>
BuiltInPlace == <<None, "built-in">>
IconPlaces == {OwnPlace(t) : t \in Themes} \cup {ThemePlace(t) : t \in Themes}
              \cup {PlainPlace, BuiltInPlace}
NoPath == <<>>

ASSUME IconThemeAssumption ==
    /\ None \notin Themes /\ Requests \subseteq Nat \X Modes /\ MaxEvents \in Nat
    /\ DOMAIN DciFiles = IconPlaces /\ \A p \in IconPlaces : InOrder(DciFiles[p])
    /\ Starts \subseteq [files : SUBSET IconPlaces, later : SUBSET IconPlaces,
                         builtin : SUBSET LookTypes, xdg : SUBSET Themes, qt : BOOLEAN]

NoIcon == [kind |-> "no icon"]
NoEngine == [kind |-> None]
NoPicture == [kind |-> None]

VARIABLES
    files, later, builtin, xdg, qt,   \* as the start has them
    iconTheme, themeType,
    paths,         \* dciIconPathCache
    nonBuiltin,    \* non_builtin_icon_cache has the name
    nonCache,      \* the themes for which the name is in nonCache
    pixmaps,       \* QPixmapCache: the DCI pixmaps
    icons,         \* an icon's proxy engine: its theme, options and engine
    events,
    shown,         \* what the last step handed out, and when
    early          \* History: a pixmap was asked of an engine of another theme

installation == <<files, later, builtin, xdg, qt>>
themes == <<iconTheme, themeType>>
caches == <<paths, nonBuiltin, nonCache, pixmaps>>
iconVars == <<installation, themes, caches, icons, events, shown, early>>

IconInit ==
    /\ \E s \in Starts : /\ files = s.files /\ later = s.later /\ builtin = s.builtin
                        /\ xdg = s.xdg /\ qt = s.qt
    /\ iconTheme \in Themes /\ themeType = "light"
    /\ paths = <<>> /\ nonBuiltin = FALSE /\ nonCache = {} /\ pixmaps = <<>>
    /\ icons = [i \in Icons |-> NoIcon]
    /\ events = 0 /\ shown = NoPicture /\ early = FALSE

-----------------------------------------------------------------------------
(* DIconTheme::findDciIconFile: the theme with the application's name, the    *)
(* theme without, no theme, what is built in.                                 *)
SearchOrder(own, t) ==
    (IF own THEN <<OwnPlace(t)>> ELSE <<>>) \o <<ThemePlace(t), PlainPlace, BuiltInPlace>>

FindDciIconFile(own, t) ==
    LET order == SearchOrder(own, t)
        found == {n \in DOMAIN order : order[n] \in files}
    IN IF found = {} THEN NoPath ELSE order[Min(found)]

(* DIconTheme::Cached::findDciIconFile keeps what it found, be it nothing.    *)
PathOf(own, t) == IF <<own, t>> \in DOMAIN paths THEN paths[<<own, t>>] ELSE FindDciIconFile(own, t)

Cached(lookups) ==
    [q \in DOMAIN paths \cup lookups |->
        IF q \in DOMAIN paths THEN paths[q] ELSE FindDciIconFile(q[1], q[2])]

(* DDciIcon::fromTheme *)
FromTheme(t) == PathOf(TRUE, t)
Nodes(file) == IF file = NoPath THEN <<>> ELSE LoadIconList(DciFiles[file])

-----------------------------------------------------------------------------
(* The engines.                                                               *)
DciEngine(t) == [kind |-> "dci", theme |-> t, file |-> FromTheme(t)]
BuiltinEngine(type) == [kind |-> "builtin", key |-> type, ready |-> TRUE, loaded |-> type,
                        follows |-> TRUE]

(* ensureEngine: dci, built-in, xdg, the platform's.                          *)
CreateEngine(t, ignoreDci) ==
    IF ~ignoreDci /\ ~IsEmpty(Nodes(FromTheme(t))) THEN DciEngine(t)
    ELSE IF ~nonBuiltin /\ themeType \in builtin THEN BuiltinEngine(themeType)
    ELSE IF t \in xdg THEN [kind |-> "xdg"]
    ELSE IF qt THEN [kind |-> "qt"] ELSE NoEngine

(* Mutant: only a DCI engine is looked at.                                    *)
KeepsEngine_NotDci(e, t) == e.kind # "dci" \/ PathOf(FALSE, t) # NoPath

(* dci => dci and others => others keep the engine.                           *)
KeepsEngine(e, t) == (PathOf(FALSE, t) # NoPath) = (e.kind = "dci")

UpToDate(icon) == icon.theme = iconTheme /\ icon.engine # NoEngine
GivenUp(icon) == iconTheme \in nonCache

Ensured(icon) ==
    IF UpToDate(icon) \/ GivenUp(icon) THEN icon
    ELSE IF icon.engine # NoEngine /\ KeepsEngine(icon.engine, iconTheme)
    THEN [icon EXCEPT !.theme = iconTheme]
    ELSE LET e == CreateEngine(iconTheme, icon.ignoreDci)
         IN [icon EXCEPT !.engine = e, !.theme = IF e = NoEngine THEN icon.theme ELSE iconTheme]

(* The paths that are looked up on the way, and the failures kept.            *)
Creates(icon) ==
    /\ ~UpToDate(icon) /\ ~GivenUp(icon)
    /\ icon.engine = NoEngine \/ ~KeepsEngine(icon.engine, iconTheme)

EnsureLookups(icon) ==
    (IF UpToDate(icon) \/ GivenUp(icon) \/ icon.engine = NoEngine THEN {}
     ELSE {<<FALSE, iconTheme>>})
        \cup (IF Creates(icon) /\ ~icon.ignoreDci THEN {<<TRUE, iconTheme>>} ELSE {})

EnsureFailures(icon) ==
    LET e == Ensured(icon).engine
    IN /\ nonBuiltin' = (nonBuiltin \/ (Creates(icon) /\ e.kind # "dci" /\ themeType \notin builtin))
       /\ nonCache' = IF Creates(icon) /\ e = NoEngine THEN nonCache \cup {iconTheme} ELSE nonCache

(* Mutant: it is not called.                                                  *)
EnsureIconTheme_No(e) == e

(* DDciIconEngine::ensureIconTheme.                                           *)
EnsureIconTheme(e) == IF e.theme = iconTheme THEN e ELSE DciEngine(iconTheme)

(* DBuiltinIconEngine::ensureLoaded *)
EnsureLoaded(e) ==
    LET stale == e.follows /\ e.key # themeType
        key == IF stale THEN themeType ELSE e.key
    IN IF e.ready /\ ~stale THEN e
       ELSE [e EXCEPT !.key = key, !.ready = TRUE, !.loaded = IF key \in builtin THEN key ELSE None]

(* The copy constructors: the options are forgotten, a built-in engine's copy *)
(* takes itself for loaded and has nothing.                                   *)
CopyEngine(e) ==
    IF e.kind = "builtin" THEN [e EXCEPT !.loaded = None, !.follows = e.ready] ELSE e

-----------------------------------------------------------------------------
(* QIcon(DIconProxyEngine(name, options)) *)
NewIcon(i, ignoreDci) ==
    LET icon == [theme |-> None, ignoreDci |-> ignoreDci, engine |-> NoEngine, copy |-> FALSE]
    IN /\ icons[i] = NoIcon
       /\ icons' = [icons EXCEPT ![i] = Ensured(icon)]
       /\ EnsureFailures(icon)
       /\ paths' = Cached(EnsureLookups(icon))
       /\ shown' = NoPicture /\ UNCHANGED <<installation, themes, pixmaps, events, early>>

(* DIconProxyEngine::clone *)
CopyIcon(i, j) ==
    /\ icons[i] # NoIcon /\ icons[j] = NoIcon /\ icons[i].engine # NoEngine
    /\ LET icon == [theme |-> icons[i].theme, ignoreDci |-> FALSE,
                    engine |-> CopyEngine(icons[i].engine), copy |-> TRUE]
       IN /\ icons' = [icons EXCEPT ![j] = Ensured(icon)]
          /\ EnsureFailures(icon)
          /\ paths' = Cached(EnsureLookups(icon))
    /\ shown' = NoPicture /\ UNCHANGED <<installation, themes, pixmaps, events, early>>

DropIcon(i) ==
    /\ icons[i] # NoIcon
    /\ icons' = [icons EXCEPT ![i] = NoIcon]
    /\ shown' = NoPicture /\ UNCHANGED <<installation, themes, caches, events, early>>

(* What a DCI engine makes of its icon: a pixmap, or a picture that is        *)
(* painted, whose paddings count as size.                                     *)
Render(e, size, mode, padded) ==
    [kind |-> "dci", file |-> e.file,
     image |-> Image(TryMatchIcon(Nodes(e.file), size, themeType, mode, padded, TRUE), 1)]

Show(i, picture, size, mode, padded) ==
    shown' = [picture |-> picture, theme |-> iconTheme, type |-> themeType, size |-> size,
              mode |-> mode, padded |-> padded, kind |-> icons'[i].engine.kind,
              copy |-> icons'[i].copy]

(* DDciIconEngine::pixmap.  The key is made before ensureIconTheme is called, *)
(* which the scaled variant (virtual_hook) has done already.                  *)
DciPixmap(i, size, mode, scaled) ==
    LET icon == Ensured(icons[i])
        e == IF scaled THEN EnsureIconTheme(icon.engine) ELSE icon.engine
        key == <<e.theme, themeType, size, mode>>
        hit == key \in DOMAIN pixmaps
        used == IF hit THEN e ELSE EnsureIconTheme(e)
        picture == IF hit THEN pixmaps[key] ELSE Render(used, size, mode, FALSE)
        asked == IF used = icon.engine THEN {} ELSE {<<TRUE, iconTheme>>}
    IN /\ icon.engine.kind = "dci"
       /\ icons' = [icons EXCEPT ![i] = [icon EXCEPT !.engine = used]]
       /\ EnsureFailures(icons[i])
       /\ paths' = Cached(EnsureLookups(icons[i]) \cup asked)
       /\ pixmaps' = IF hit \/ picture.image = NoEntry THEN pixmaps
                     ELSE [k \in DOMAIN pixmaps \cup {key} |-> IF k = key THEN picture ELSE pixmaps[k]]
       /\ early' = (early \/ (~scaled /\ icon.engine.theme # iconTheme))
       /\ Show(i, picture, size, mode, FALSE)
       /\ UNCHANGED <<installation, themes, events>>

(* DDciIconEngine::paint *)
DciPaint(i, size, mode) ==
    LET icon == Ensured(icons[i])
        e == EnsureIconTheme(icon.engine)
        asked == IF e = icon.engine THEN {} ELSE {<<TRUE, iconTheme>>}
    IN /\ icon.engine.kind = "dci"
       /\ icons' = [icons EXCEPT ![i] = [icon EXCEPT !.engine = e]]
       /\ EnsureFailures(icons[i])
       /\ paths' = Cached(EnsureLookups(icons[i]) \cup asked)
       /\ Show(i, Render(e, size, mode, TRUE), size, mode, TRUE)
       /\ UNCHANGED <<installation, themes, pixmaps, events, early>>

(* A pixmap of another engine. *)
OtherPixmap(i, size, mode) ==
    LET icon == Ensured(icons[i])
        e == IF icon.engine.kind = "builtin" THEN EnsureLoaded(icon.engine) ELSE icon.engine
        picture == IF e.kind = "builtin" THEN [kind |-> e.kind, type |-> e.loaded]
                   ELSE IF e = NoEngine THEN NoPicture ELSE [kind |-> e.kind, theme |-> iconTheme]
    IN /\ icon.engine.kind # "dci"
       /\ icons' = [icons EXCEPT ![i] = [icon EXCEPT !.engine = e]]
       /\ EnsureFailures(icons[i])
       /\ paths' = Cached(EnsureLookups(icons[i]))
       /\ Show(i, picture, size, mode, FALSE)
       /\ UNCHANGED <<installation, themes, pixmaps, events, early>>

Use(i, size, mode) ==
    /\ icons[i] # NoIcon
    /\ \/ \E scaled \in BOOLEAN : DciPixmap(i, size, mode, scaled)
       \/ DciPaint(i, size, mode)
       \/ OtherPixmap(i, size, mode)

-----------------------------------------------------------------------------
Event == events < MaxEvents /\ events' = events + 1

(* The icon theme, or the theme type, of the application changes.             *)
ThemeChange(t) ==
    /\ Event
    /\ t # iconTheme /\ iconTheme' = t
    /\ shown' = NoPicture /\ UNCHANGED <<installation, themeType, caches, icons, early>>

TypeChange ==
    /\ Event
    /\ themeType' = IF themeType = "light" THEN "dark" ELSE "light"
    /\ shown' = NoPicture /\ UNCHANGED <<installation, iconTheme, caches, icons, early>>

(* DCI files are installed. *)
Install ==
    /\ Event
    /\ later # {}
    /\ files' = files \cup later /\ later' = {}
    /\ shown' = NoPicture /\ UNCHANGED <<builtin, xdg, qt, themes, caches, icons, early>>

IconNext ==
    \/ \E i \in Icons : \/ \E ignoreDci \in BOOLEAN : NewIcon(i, ignoreDci)
                        \/ \E j \in Icons : CopyIcon(i, j)
                        \/ DropIcon(i)
                        \/ \E r \in Requests : Use(i, r[1], r[2])
    \/ \E t \in Themes : ThemeChange(t)
    \/ TypeChange
    \/ Install

IconSpec == IconInit /\ [][IconNext]_iconVars

-----------------------------------------------------------------------------
(* The engine of an icon fits the theme it was last brought up to date with,  *)
(* whatever the order of theme changes and of the uses of this icon and of    *)
(* others: it is a DCI engine only if there is a DCI icon, and is one if all  *)
(* applications have it.  (When the theme changes, an icon only this          *)
(* application has, "application/name", does not replace another engine; a    *)
(* copy has forgotten that DCI icons were not wanted.)                        *)
EngineFits ==
    \A i \in Icons : (icons[i] # NoIcon /\ icons[i].engine # NoEngine) =>
        LET t == icons[i].theme
        IN /\ icons[i].engine.kind = "dci" =>
                  PathOf(TRUE, t) # NoPath \/ PathOf(FALSE, t) # NoPath
           /\ (~icons[i].ignoreDci /\ ~icons[i].copy /\ PathOf(FALSE, t) # NoPath
                  /\ ~IsEmpty(Nodes(PathOf(TRUE, t)))) => icons[i].engine.kind = "dci"

(* What is handed out is the image for the theme, the type, the size and the  *)
(* mode at that time, cached or not - unless an unscaled pixmap was ever      *)
(* asked of an engine that had not heard of a change of the theme: its cache  *)
(* key names the old theme, and is wrong for good.  A built-in icon that is   *)
(* not a copy is of the type at that time.                                    *)
PicturesAreRight ==
    shown # NoPicture =>
        /\ (shown.kind = "dci" /\ ~early) =>
              /\ shown.picture.file = PathOf(TRUE, shown.theme)
              /\ (shown.picture.file # NoPath /\ ~shown.padded) =>
                    RightMatch(DciFiles[shown.picture.file], shown.picture.image,
                               shown.size, shown.type, shown.mode)
        /\ (shown.kind = "builtin" /\ ~shown.copy) =>
              shown.picture.type = (IF shown.type \in builtin THEN shown.type ELSE None)

=============================================================================
