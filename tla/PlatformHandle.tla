--------------------------- MODULE PlatformHandle ---------------------------
(* DPlatformHandle: a handle of a window.  It has the interface of the        *)
(* platform (createWindowInterface), takes the window's titlebar when it is   *)
(* made, and passes on what it is asked; the static functions make a handle,  *)
(* ask it and drop it.  A window may have several handles, which share what   *)
(* the platform keeps for the window.  On a platform that is neither X11 nor  *)
(* Wayland the interface is the base class, which does nothing.               *)
EXTENDS TreelandWindow, XcbWindow

CONSTANTS
    Platforms,   \* those to consider, of {"xcb", "treeland", "other"}
    MaxCalls     \* bound on the calls of a program and the theme's changes

ASSUME PlatformHandleAssumption ==
    Platforms \subseteq {"xcb", "treeland", "other"} /\ MaxCalls \in Nat

VARIABLES
    platform,
    handles,     \* the handles there are
    calls

vars == <<platform, handles, calls, treelandVars, xcbVars>>

Init ==
    /\ platform \in Platforms
    /\ handles = {} /\ calls = 0
    /\ TreelandInit /\ XcbInit
    /\ (supported => platform = "treeland") /\ (capable => platform = "xcb")

Call == calls < MaxCalls /\ calls' = calls + 1 /\ UNCHANGED platform

(* DPlatformWindowInterface: no radius, no border.                            *)
Default == -1

(* setEnabled(true), and setEnabledNoTitlebar(on) unless on is what it is.    *)
Enable(on, new) ==
    \/ /\ platform = "xcb"
       /\ EnableXcb(on, handles, new)
       /\ UNCHANGED treelandVars
    \/ /\ platform = "treeland"
       /\ SetTreeland([titlebar |-> IF on THEN 1 ELSE 0])
       /\ UNCHANGED xcbVars
    \/ /\ platform = "other"
       /\ UNCHANGED <<treelandVars, xcbVars>>

(* The constructor.  Who follows the handle reads what there is.            *)
NewHandle(h) ==
    /\ Call
    /\ h \notin handles
    /\ handles' = handles \cup {h}
    /\ Enable(TRUE, {h})

DeleteHandle(h) ==
    /\ h \in handles
    /\ handles' = handles \ {h}
    /\ UNCHANGED <<platform, calls, treelandVars, xcbVars>>

(* isEnabledDXcb, isEnabledNoTitlebar, enableDXcbForWindow,                   *)
(* setEnabledNoTitlebarForWindow: the handle that is made takes the titlebar, *)
(* also when it only asks.                                                    *)
CallStatic(on) ==
    /\ Call
    /\ Enable(on, {})
    /\ UNCHANGED handles

(* setWindowBlurAreaByWM: on X11 the plugin is asked, and nothing is kept; on *)
(* Treeland the whole window is blurred, whatever the area.                   *)
BlurArea ==
    /\ Call
    /\ IF platform = "treeland"
       THEN SetTreeland([titlebar |-> 1, blur |-> 1]) /\ UNCHANGED xcbVars
       ELSE Enable(TRUE, {})
    /\ UNCHANGED handles

(* A getter of a handle.                                                      *)
Get(f) ==
    IF platform = "treeland" THEN GetTreeland(f)
    ELSE IF f \notin Properties THEN 0
    ELSE IF platform = "xcb" THEN GetXcb(f) ELSE Default

(* A setter of a handle.                                                      *)
Set(h, f, v) ==
    /\ Call
    /\ h \in handles
    /\ \/ /\ platform = "xcb" /\ f \in Properties
          /\ SetXcb(f, v, handles)
          /\ UNCHANGED treelandVars
       \/ /\ platform = "treeland" /\ f # "titlebar"
          /\ SetTreeland([g \in {f} |-> v])
          /\ UNCHANGED xcbVars
       \/ /\ platform = "other"
          /\ UNCHANGED <<treelandVars, xcbVars>>
    /\ UNCHANGED handles

(* The window, the compositor and the theme.                                  *)
Environment ==
    \/ /\ platform = "treeland"
       /\ TreelandEvent
       /\ UNCHANGED <<platform, handles, calls, xcbVars>>
    \/ /\ platform # "treeland"
       /\ CreateWindow(handles) \/ DestroyWindow
       /\ UNCHANGED <<platform, handles, calls, treelandVars>>
    \/ /\ platform = "xcb" /\ Call
       /\ \E v \in Radii : ThemeRadius(v, handles)
       /\ UNCHANGED <<handles, treelandVars>>

Next ==
    \/ \E h \in Handles : NewHandle(h) \/ DeleteHandle(h)
    \/ \E on \in BOOLEAN : CallStatic(on)
    \/ BlurArea
    \/ \E h \in Handles, f \in Features, v \in Values : Set(h, f, v)
    \/ Environment

Spec == Init /\ [][Next]_vars

-----------------------------------------------------------------------------
(* Whatever changes a property, the followers of every handle of the window   *)
(* hear of it and know what the getters return.                               *)
EveryHandleHears ==
    platform = "xcb" => \A h \in handles, p \in Properties : heard[h][p] = Get(p)

(* The state has its type; on Treeland what was asked for has reached the     *)
(* surface there is (ReachesTheSurface), on X11 every handle's followers know *)
(* the properties of the window (EveryHandleHears).                           *)
HandlesOK ==
    /\ platform \in Platforms /\ handles \subseteq Handles /\ calls \in 0..MaxCalls
    /\ TreelandOK /\ XcbOK
    /\ ReachesTheSurface
    /\ EveryHandleHears

(* On X11 the radius of a window is the program's, else the theme's.          *)
RadiusFollowsTheme == RadiusFollows

(* On Treeland a window that is shown looks as it was last asked to, in every *)
(* order of settings, handles, surfaces and the manager: the helper with its  *)
(* contexts implements WindowLook.                                            *)
ShowsWhatWasAsked == Look!Spec

=============================================================================
