----------------------------- MODULE XcbWindow ------------------------------
(* DXCBPlatformWindowInterface: what is asked for a window is a dynamic       *)
(* property of the QWindow, which the dxcb plugin reads.  The interfaces of    *)
(* all handles of the window watch these properties.  The radius follows the  *)
(* one of the desktop's theme until the program sets one.                     *)
(*                                                                            *)
(* The dxcb plugin gives and takes the titlebar (setEnableNoTitlebar) where   *)
(* the window manager can.  A property stands for all that pass through as    *)
(* "border" does.                                                             *)
EXTENDS Integers

CONSTANT Handles       \* the handles there may be of the window

Properties == {"radius", "border"}
Radii == 0..2
None == -1
NothingSet == [p \in Properties |-> None]

VARIABLES
    capable,       \* the plugin has setEnableNoTitlebar, and it works
    created,       \* QWindow::handle
    noTitlebar,
    creatorFilter, \* a CreatorWindowEventFilter waits for the window
    property,      \* the properties of the window, None where invalid
    resolved,      \* the bit WindowRadius of the property _d_resolve_mask
    following,     \* _d_uniqueueConnectionFlag: the theme's radius is followed
    themeRadius,   \* DPlatformTheme::windowRadius(12)
    heard,         \* the values the followers of a handle have read
    setByProgram   \* History: the radius last set by the program

xcbVars == <<capable, created, noTitlebar, creatorFilter, property, resolved,
             following, themeRadius, heard, setByProgram>>

XcbInit ==
    /\ capable \in BOOLEAN /\ created = FALSE
    /\ noTitlebar = FALSE /\ creatorFilter = FALSE
    /\ property = NothingSet /\ resolved = FALSE
    /\ following = FALSE /\ themeRadius = 1
    /\ heard = [h \in Handles |-> [p \in Properties |-> 0]]
    /\ setByProgram = None

-----------------------------------------------------------------------------
(* A getter: 0 where the property is invalid.                                 *)
GetXcb(p) == IF property[p] = None THEN 0 ELSE property[p]

(* eventFilter: the interface of each handle sees the properties change, and  *)
(* tells the followers of its handle, who read the property.  Those of a new  *)
(* handle read what there is.                                                 *)
EventFilter(handles, new) ==
    heard' = [h \in Handles |-> [p \in Properties |->
                 IF h \in new \/ (h \in handles /\ property'[p] # property[p])
                 THEN GetXcb(p)' ELSE heard[h][p]]]

(* setWindowProperty *)
SetProperty(p, v) == property' = [property EXCEPT ![p] = v]

(* Mutant: a radius that was set is not kept.                                 *)
HasRadius_No == FALSE

(* initWindowRadius.                                                          *)
HasRadius == property["radius"] # None

InitWindowRadius ==
    IF HasRadius THEN UNCHANGED <<property, following>>
    ELSE SetProperty("radius", themeRadius) /\ following' = TRUE

(* setEnabled(true), which every handle begins with, and then                 *)
(* setEnabledNoTitlebar(on): the titlebar is taken, and may be given back.    *)
SetEnabledNoTitlebar(on) ==
    IF ~capable THEN UNCHANGED <<noTitlebar, creatorFilter, property, following>>
    ELSE /\ noTitlebar' = on
         /\ creatorFilter' = (creatorFilter \/ (~noTitlebar /\ ~created))
         /\ IF ~noTitlebar /\ created THEN InitWindowRadius
            ELSE UNCHANGED <<property, following>>

EnableXcb(on, handles, new) ==
    /\ SetEnabledNoTitlebar(on)
    /\ EventFilter(handles, new)
    /\ UNCHANGED <<capable, created, resolved, themeRadius, setByProgram>>

(* A setter.  That of the radius resolves it.                                 *)
SetXcb(p, v, handles) ==
    /\ SetProperty(p, v)
    /\ EventFilter(handles, {})
    /\ resolved' = (resolved \/ p = "radius")
    /\ setByProgram' = IF p = "radius" THEN v ELSE setByProgram
    /\ UNCHANGED <<capable, created, noTitlebar, creatorFilter, following, themeRadius>>

-----------------------------------------------------------------------------
(* The window is made: the filter starts its radius.                          *)
CreateWindow(handles) ==
    /\ ~created /\ created' = TRUE
    /\ IF creatorFilter THEN InitWindowRadius ELSE UNCHANGED <<property, following>>
    /\ EventFilter(handles, {})
    /\ UNCHANGED <<capable, noTitlebar, creatorFilter, resolved, themeRadius, setByProgram>>

DestroyWindow ==
    /\ created /\ created' = FALSE
    /\ UNCHANGED <<capable, noTitlebar, creatorFilter, property, resolved, following,
                   themeRadius, heard, setByProgram>>

(* windowRadiusChanged of the theme.                                          *)
ThemeRadius(v, handles) ==
    /\ v # themeRadius
    /\ themeRadius' = v
    /\ IF following /\ ~resolved THEN SetProperty("radius", v) ELSE UNCHANGED property
    /\ EventFilter(handles, {})
    /\ UNCHANGED <<capable, created, noTitlebar, creatorFilter, resolved, following, setByProgram>>

-----------------------------------------------------------------------------
XcbOK ==
    /\ capable \in BOOLEAN /\ created \in BOOLEAN
    /\ noTitlebar \in BOOLEAN /\ (noTitlebar => capable)
    /\ creatorFilter \in BOOLEAN /\ following \in BOOLEAN /\ resolved \in BOOLEAN
    /\ property \in [Properties -> Radii \cup {None}]
    /\ themeRadius \in Radii
    /\ heard \in [Handles -> [Properties -> Radii]]
    /\ setByProgram \in Radii \cup {None}

(* A window without titlebar has the radius the program set last, if it ever  *)
(* did, before or after the window was made or its titlebar taken, and else   *)
(* that of the theme, now and after each change of the theme.                 *)
RadiusFollows ==
    /\ (setByProgram # None => property["radius"] = setByProgram)
    /\ (setByProgram = None /\ created /\ noTitlebar => property["radius"] = themeRadius)

=============================================================================
