----------------------------- MODULE WindowLook -----------------------------
(* What a DPlatformHandle promises of the look of a window: a program may ask *)
(* for it at any time, before the window has a surface, while it is hidden or *)
(* while it is shown, and whenever it is shown it looks as it was last asked  *)
(* to.  An effect ("no radius", "no border") that was ever asked for may      *)
(* override the features it is about at any time, also when these were asked  *)
(* for later.  Nothing else changes what was asked for.                       *)
EXTENDS Integers

CONSTANTS
    Features,   \* what can be asked for; "effect" is one of them
    Values,     \* the values that can be asked for
    Effected    \* the features an effect switches off

VARIABLES
    want,       \* what was asked for, 0 to begin with
    effects,    \* has an effect been asked for
    shown,
    look        \* what is seen

vars == <<want, effects, shown, look>>

Plain == [f \in Features |-> 0]

(* A look that is as it was asked for.                                        *)
AsAsked(l, w, e) ==
    \A f \in Features \ {"effect"} :
        l[f] = w[f] \/ (e /\ f \in Effected /\ l[f] = 0)

Init ==
    /\ want = Plain /\ effects = FALSE
    /\ shown = FALSE /\ look = Plain

(* A program asks for some features.  A shown window looks so at once; a      *)
(* window may turn out to be there only now.                                  *)
Ask(features) ==
    /\ want' \in [Features -> Values]
    /\ \A f \in Features \ features : want'[f] = want[f]
    /\ effects' = (effects \/ "effect" \in features)
    /\ shown' \in {shown, TRUE}
    /\ IF shown' THEN AsAsked(look', want', effects') ELSE look' = look

Show ==
    /\ ~shown /\ shown'
    /\ AsAsked(look', want, effects)
    /\ UNCHANGED <<want, effects>>

Hide ==
    /\ shown /\ ~shown'
    /\ look' = Plain
    /\ UNCHANGED <<want, effects>>

Next == (\E features \in SUBSET Features : Ask(features)) \/ Show \/ Hide

Spec == Init /\ [][Next]_vars

=============================================================================
