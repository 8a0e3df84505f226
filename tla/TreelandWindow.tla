--------------------------- MODULE TreelandWindow ---------------------------
(* DTreeLandPlatformWindowHelper: what was asked for a window is kept beside   *)
(* it and sent to the compositor over a personalization context of its        *)
(* Wayland surface.  The surface comes and goes as the window is shown and    *)
(* hidden, the personalization manager becomes active at some time, and the   *)
(* helper hears of either only once it is connected.                          *)
(*                                                                            *)
(* Qt and the compositor: a QWindow gets a platform window (native), which    *)
(* has a surface while it is visible; a context outlives its surface, what is *)
(* sent over it then has no effect; a new surface has the plain look.         *)
EXTENDS Integers

CONSTANT MaxSurfaces   \* bound on the surfaces a window has had

Features == {"titlebar", "radius", "blur", "border", "effect"}
Effected == {"radius", "border"}
Values == 0..1

ASSUME TreelandWindowAssumption == MaxSurfaces \in Nat

VARIABLES
    supported,     \* PersonalizationManager::isSupported
    active,        \* ... and isActive
    notice,        \* a queued call of onActiveChanged is on its way
    native,        \* QWindow::handle
    surface,       \* the surface the platform window has, 0 for none
    surfaces,      \* how many there were
    helper,        \* is there a DTreeLandPlatformWindowHelper for the window
    linked,        \* is the helper connected to the platform window
    context,       \* the surface m_windowContext was made for, 0 for none
    member,        \* m_noTitlebar, m_radius, m_blur, ...
    initialized, dirty,
    look,          \* the look the compositor gives the surface
    lost           \* History: a surface went unseen and left its context

compositor == <<supported, active>>
qwindow == <<native, surface, surfaces>>
asked == <<member, initialized>>
sent == <<context, dirty, look>>
treelandVars == <<compositor, notice, qwindow, helper, linked, asked, sent, lost>>

PlainLook == [f \in Features |-> 0]

TreelandInit ==
    /\ supported \in BOOLEAN /\ active = FALSE /\ notice = FALSE
    /\ native = FALSE /\ surface = 0 /\ surfaces = 0
    /\ helper = FALSE /\ linked = FALSE /\ context = 0
    /\ member = PlainLook /\ initialized = {} /\ dirty = {}
    /\ look = PlainLook /\ lost = FALSE

-----------------------------------------------------------------------------
(* The requests of applyPending, in their order: an effect, which is sent     *)
(* last, takes the corners and the border away.                               *)
Painted(l, m, features) ==
    [f \in Features |->
        IF f \in Effected /\ "effect" \in features /\ m["effect"] # 0 THEN 0
        ELSE IF f \in features THEN m[f] ELSE l[f]]

(* windowContext(): the one there is, else one of the surface there is.       *)
WindowContext(s) == IF context # 0 THEN context ELSE s

(* applyPending, which scheduleApply calls at once.                           *)
Apply(m, features, s) ==
    LET c == WindowContext(s)
    IN /\ context' = c
       /\ dirty' = IF c = 0 THEN features ELSE {}
       /\ look' = IF c # 0 /\ c = s THEN Painted(look, m, features) ELSE look

(* updateFeature, for each of the features that are given values.             *)
UpdateFeature(values) ==
    LET given == DOMAIN values
    IN /\ member' = [f \in Features |-> IF f \in given THEN values[f] ELSE member[f]]
       /\ initialized' = initialized \cup given
       /\ Apply(member', dirty \cup given, surface)

(* Mutant: only what was not sent yet.                                        *)
OnSurfaceCreated_Dirty(s) == Apply(member, dirty, s)

(* onSurfaceCreated: all that was ever asked for is sent.                     *)
OnSurfaceCreated(s) == Apply(member, initialized, s)

(* onSurfaceDestroyed is called only when the helper is connected.            *)
SurfaceGone ==
    /\ surface' = 0
    /\ look' = PlainLook
    /\ context' = IF linked THEN 0 ELSE context
    /\ lost' = (~linked /\ context # 0)

(* DTreeLandPlatformWindowHelper::get, which makes the helper.                *)
GetHelper ==
    /\ helper' = (helper \/ supported)
    /\ linked' = IF helper \/ ~supported THEN linked ELSE native

(* A getter of the interface, which asks the helper.                          *)
GetTreeland(f) == IF supported THEN member[f] ELSE 0

(* One setter of the interface, or two in a call.                             *)
SetTreeland(values) ==
    /\ GetHelper
    /\ IF supported THEN UpdateFeature(values) ELSE UNCHANGED <<asked, sent>>
    /\ UNCHANGED <<compositor, notice, qwindow, lost>>

-----------------------------------------------------------------------------
(* The events of the window and of the compositor.                            *)

(* Mutant: it does not connect.                                               *)
LinkOnCreation_No == linked' = FALSE

(* The platform window is made, mostly with a surface, and the event filter   *)
(* is told.                                                                   *)
LinkOnCreation == linked' = (helper /\ active)

CreateNative(visible) ==
    /\ ~native /\ native' = TRUE
    /\ visible => surfaces < MaxSurfaces
    /\ surfaces' = IF visible THEN surfaces + 1 ELSE surfaces
    /\ surface' = IF visible THEN surfaces + 1 ELSE 0
    /\ LinkOnCreation
    /\ IF helper /\ active THEN OnSurfaceCreated(surface') ELSE UNCHANGED sent
    /\ UNCHANGED <<compositor, notice, helper, asked, lost>>

ShowSurface ==
    /\ native /\ surface = 0 /\ surfaces < MaxSurfaces
    /\ surface' = surfaces + 1 /\ surfaces' = surfaces + 1
    /\ IF linked THEN OnSurfaceCreated(surface') ELSE UNCHANGED sent
    /\ UNCHANGED <<compositor, notice, native, helper, linked, asked, lost>>

HideSurface ==
    /\ surface # 0
    /\ SurfaceGone
    /\ UNCHANGED <<compositor, notice, native, surfaces, helper, linked, asked, dirty>>

DestroyNative ==
    /\ native /\ native' = FALSE
    /\ IF surface # 0 THEN SurfaceGone ELSE UNCHANGED <<surface, look, context, lost>>
    /\ linked' = FALSE
    /\ UNCHANGED <<compositor, notice, surfaces, helper, asked, dirty>>

(* activeChanged; a helper made before is told by a queued call.              *)
ManagerActive ==
    /\ supported /\ ~active
    /\ active' = TRUE
    /\ notice' = helper
    /\ UNCHANGED <<supported, qwindow, helper, linked, asked, sent, lost>>

OnActiveChanged ==
    /\ notice
    /\ notice' = FALSE
    /\ linked' = native
    /\ IF native THEN OnSurfaceCreated(surface) ELSE UNCHANGED sent
    /\ UNCHANGED <<compositor, qwindow, helper, asked, lost>>

TreelandEvent ==
    \/ \E visible \in BOOLEAN : CreateNative(visible)
    \/ ShowSurface
    \/ HideSurface
    \/ DestroyNative
    \/ ManagerActive
    \/ OnActiveChanged

-----------------------------------------------------------------------------
TreelandOK ==
    /\ supported \in BOOLEAN /\ active \in BOOLEAN /\ (active => supported)
    /\ notice \in BOOLEAN /\ (notice => active /\ helper)
    /\ native \in BOOLEAN /\ (linked => native /\ helper)
    /\ surfaces \in 0..MaxSurfaces /\ surface \in {0, surfaces} /\ (surface # 0 => native)
    /\ helper \in BOOLEAN /\ (helper => supported)
    /\ linked \in BOOLEAN /\ context \in 0..surfaces
    /\ member \in [Features -> Values] /\ look \in [Features -> Values]
    /\ initialized \subseteq Features /\ dirty \subseteq initialized
    /\ lost \in BOOLEAN

(* Once the helper has heard that the manager is active, all that was asked   *)
(* of a window has been sent to the surface it has, whatever the order of     *)
(* settings, surfaces and the manager - unless a surface was destroyed before *)
(* the helper was connected, whose context the helper still uses.             *)
ReachesTheSurface ==
    /\ (helper /\ active /\ ~notice /\ native => linked)
    /\ (context \notin {0, surface} => lost)
    /\ (helper /\ active /\ ~notice /\ surface # 0 /\ ~lost
            => context = surface /\ dirty = {})

(* The window as its helper shows it.  Before the helper is connected the     *)
(* window may have some of the look that was asked for: a setting makes a     *)
(* context of the surface there is, and what an earlier surface was told is   *)
(* not told again until the helper hears that the manager is active.          *)
Shown == linked /\ context # 0 /\ context = surface

Look == INSTANCE WindowLook WITH
    want <- [f \in Features |-> GetTreeland(f)], effects <- "effect" \in initialized,
    shown <- Shown, look <- IF Shown THEN look ELSE PlainLook

=============================================================================
