----------------------- MODULE PlatformHandle_proofs ------------------------
(* Machine-checked proofs about PlatformHandle, for any handles and bounds:   *)
(* every handle's followers know the properties, the radius is the program's  *)
(* or the theme's, what was asked reaches the surface, and the helper of a    *)
(* Treeland window implements WindowLook.                                     *)
EXTENDS PlatformHandle, TLAPS

-----------------------------------------------------------------------------
(* X11.  Why the radius follows: a window without titlebar has one, or a      *)
(* filter waits to give it one; a radius that is there is the program's, or   *)
(* the theme's and followed.                                                  *)
RadiusKept ==
    /\ resolved <=> setByProgram # None
    /\ following => HasRadius
    /\ HasRadius /\ setByProgram = None => following /\ property["radius"] = themeRadius
    /\ noTitlebar => HasRadius \/ (creatorFilter /\ ~created)

XcbInv == XcbOK /\ RadiusFollows /\ RadiusKept

LEMMA RadiiAre == /\ Radii = {0, 1, 2} /\ None = -1 /\ None \notin Radii
                  /\ Properties = {"radius", "border"} /\ Values = {0, 1} /\ Values \subseteq Radii
  BY DEF Radii, None, Properties, Values

(* Whoever writes a property, the followers of all handles hear of it.        *)
Hears(hs) == \A h \in hs, p \in Properties : heard[h][p] = GetXcb(p)

LEMMA EventHeard ==
    ASSUME NEW hs, NEW new, XcbOK, property' \in [Properties -> Radii \cup {None}],
           EventFilter(hs, new), Hears(hs)
    PROVE /\ heard' \in [Handles -> [Properties -> Radii]]
          /\ \A h \in Handles \cap (hs \cup new), p \in Properties : heard'[h][p] = GetXcb(p)'
  <1>1. \A p \in Properties : GetXcb(p)' \in Radii
    BY RadiiAre DEF GetXcb
  <1>2. heard' = [h \in Handles |-> [p \in Properties |->
                    IF h \in new \/ (h \in hs /\ property'[p] # property[p])
                    THEN GetXcb(p)' ELSE heard[h][p]]]
    BY DEF EventFilter
  <1>3. heard \in [Handles -> [Properties -> Radii]]
    BY DEF XcbOK
  <1>4. heard' \in [Handles -> [Properties -> Radii]]
    BY <1>1, <1>2, <1>3
  <1>5. ASSUME NEW h \in Handles \cap (hs \cup new), NEW p \in Properties
        PROVE heard'[h][p] = GetXcb(p)'
    <2>1. heard'[h][p] = IF h \in new \/ (h \in hs /\ property'[p] # property[p])
                         THEN GetXcb(p)' ELSE heard[h][p]
      BY <1>2
    <2>2. h \in hs => heard[h][p] = GetXcb(p)
      BY DEF Hears
    <2>3. property'[p] = property[p] => GetXcb(p)' = GetXcb(p)
      BY DEF GetXcb
    <2> QED BY <2>1, <2>2, <2>3
  <1> QED BY <1>4, <1>5

LEMMA XcbInitOK == XcbInit => XcbInv
  <1> SUFFICES ASSUME XcbInit PROVE XcbInv
    OBVIOUS
  <1>1. property \in [Properties -> Radii \cup {None}] /\ property["radius"] = None
    BY RadiiAre DEF XcbInit, NothingSet
  <1>2. heard \in [Handles -> [Properties -> Radii]]
    BY RadiiAre DEF XcbInit
  <1>3. XcbOK
    BY <1>1, <1>2, RadiiAre DEF XcbInit, XcbOK
  <1>4. RadiusFollows /\ RadiusKept
    BY <1>1, RadiiAre DEF XcbInit, RadiusFollows, RadiusKept, HasRadius
  <1> QED BY <1>3, <1>4 DEF XcbInv

(* What XcbInv says of everything but what followers heard.                   *)
LEMMA EnableKeeps ==
    ASSUME XcbInv, NEW on \in BOOLEAN, NEW hs, NEW new, EnableXcb(on, hs, new), Hears(hs)
    PROVE XcbInv' /\ \A h \in Handles \cap (hs \cup new), p \in Properties : heard'[h][p] = GetXcb(p)'
  <1>1. property' \in [Properties -> Radii \cup {None}]
    BY RadiiAre DEF EnableXcb, SetEnabledNoTitlebar, InitWindowRadius, SetProperty, XcbInv, XcbOK
  <1>2. /\ heard' \in [Handles -> [Properties -> Radii]]
        /\ \A h \in Handles \cap (hs \cup new), p \in Properties : heard'[h][p] = GetXcb(p)'
    BY <1>1, EventHeard DEF EnableXcb, XcbInv
  <1>3. XcbOK'
    BY <1>1, <1>2 DEF EnableXcb, SetEnabledNoTitlebar, InitWindowRadius, XcbInv, XcbOK
  <1>4. RadiusFollows' /\ RadiusKept'
    BY RadiiAre DEF EnableXcb, SetEnabledNoTitlebar, InitWindowRadius, SetProperty, HasRadius, XcbInv,
       XcbOK, RadiusFollows, RadiusKept
  <1> QED BY <1>2, <1>3, <1>4 DEF XcbInv

LEMMA SetKeeps ==
    ASSUME XcbInv, NEW p \in Properties, NEW v \in Values, NEW hs, SetXcb(p, v, hs), Hears(hs)
    PROVE XcbInv' /\ \A h \in Handles \cap hs, q \in Properties : heard'[h][q] = GetXcb(q)'
  <1>1. property' \in [Properties -> Radii \cup {None}]
    BY RadiiAre DEF SetXcb, SetProperty, XcbInv, XcbOK
  <1>2. /\ heard' \in [Handles -> [Properties -> Radii]]
        /\ \A h \in Handles \cap (hs \cup {}), q \in Properties : heard'[h][q] = GetXcb(q)'
    BY <1>1, EventHeard DEF SetXcb, XcbInv
  <1>3. XcbOK'
    BY <1>1, <1>2, RadiiAre DEF SetXcb, XcbInv, XcbOK
  <1>4. RadiusFollows' /\ RadiusKept'
    BY RadiiAre DEF SetXcb, SetProperty, HasRadius, XcbInv, XcbOK, RadiusFollows, RadiusKept
  <1> QED BY <1>2, <1>3, <1>4 DEF XcbInv

LEMMA CreateKeeps ==
    ASSUME XcbInv, NEW hs, CreateWindow(hs), Hears(hs)
    PROVE XcbInv' /\ \A h \in Handles \cap hs, q \in Properties : heard'[h][q] = GetXcb(q)'
  <1>1. property' \in [Properties -> Radii \cup {None}]
    BY RadiiAre DEF CreateWindow, InitWindowRadius, SetProperty, XcbInv, XcbOK
  <1>2. /\ heard' \in [Handles -> [Properties -> Radii]]
        /\ \A h \in Handles \cap (hs \cup {}), q \in Properties : heard'[h][q] = GetXcb(q)'
    BY <1>1, EventHeard DEF CreateWindow, XcbInv
  <1>3. XcbOK'
    BY <1>1, <1>2, RadiiAre DEF CreateWindow, InitWindowRadius, XcbInv, XcbOK
  <1>4. RadiusFollows' /\ RadiusKept'
    BY RadiiAre DEF CreateWindow, InitWindowRadius, SetProperty, HasRadius, XcbInv, XcbOK, RadiusFollows, RadiusKept
  <1> QED BY <1>2, <1>3, <1>4 DEF XcbInv

(* ... and where nobody has heard of anything.                                *)
LEMMA CreateOther ==
    ASSUME XcbInv, NEW hs, CreateWindow(hs)
    PROVE XcbInv'
  <1>1. property' \in [Properties -> Radii \cup {None}]
    BY RadiiAre DEF CreateWindow, InitWindowRadius, SetProperty, XcbInv, XcbOK
  <1>2. heard' \in [Handles -> [Properties -> Radii]]
    <2>1. \A p \in Properties : GetXcb(p)' \in Radii
      BY <1>1, RadiiAre DEF GetXcb
    <2>2. heard \in [Handles -> [Properties -> Radii]]
      BY DEF XcbInv, XcbOK
    <2> QED BY <2>1, <2>2 DEF CreateWindow, EventFilter
  <1>3. XcbOK'
    BY <1>1, <1>2, RadiiAre DEF CreateWindow, InitWindowRadius, XcbInv, XcbOK
  <1>4. RadiusFollows' /\ RadiusKept'
    BY RadiiAre DEF CreateWindow, InitWindowRadius, SetProperty, HasRadius, XcbInv, XcbOK, RadiusFollows, RadiusKept
  <1> QED BY <1>3, <1>4 DEF XcbInv

LEMMA ThemeKeeps ==
    ASSUME XcbInv, NEW v \in Radii, NEW hs, ThemeRadius(v, hs), Hears(hs)
    PROVE XcbInv' /\ \A h \in Handles \cap hs, q \in Properties : heard'[h][q] = GetXcb(q)'
  <1>1. property' \in [Properties -> Radii \cup {None}]
    BY RadiiAre DEF ThemeRadius, SetProperty, XcbInv, XcbOK
  <1>2. /\ heard' \in [Handles -> [Properties -> Radii]]
        /\ \A h \in Handles \cap (hs \cup {}), q \in Properties : heard'[h][q] = GetXcb(q)'
    BY <1>1, EventHeard DEF ThemeRadius, XcbInv
  <1>3. XcbOK'
    BY <1>1, <1>2, RadiiAre DEF ThemeRadius, XcbInv, XcbOK
  <1>4. RadiusFollows' /\ RadiusKept'
    BY RadiiAre DEF ThemeRadius, SetProperty, HasRadius, XcbInv, XcbOK, RadiusFollows, RadiusKept
  <1> QED BY <1>2, <1>3, <1>4 DEF XcbInv

LEMMA DestroyKeeps ==
    ASSUME XcbInv, DestroyWindow
    PROVE XcbInv'
  BY DEF DestroyWindow, XcbInv, XcbOK, RadiusFollows, RadiusKept, HasRadius

-----------------------------------------------------------------------------
(* Treeland.  Nothing is sent that was not asked for; a helper that is        *)
(* connected has sent all to the surface there is.                            *)
SentWhatWasAsked ==
    /\ ~helper => initialized = {} /\ context = 0
    /\ \A f \in Features \ initialized : member[f] = 0 /\ look[f] = 0
    /\ surface = 0 => look = PlainLook
    /\ linked /\ surface # 0 => context # 0 /\ dirty = {}
    /\ lost => context # 0
    /\ Shown => Look!AsAsked(look, member, "effect" \in initialized)

TreelandInv == TreelandOK /\ ReachesTheSurface /\ SentWhatWasAsked

LEMMA FeaturesAre ==
    /\ Features = {"titlebar", "radius", "blur", "border", "effect"}
    /\ Effected \subseteq Features /\ "effect" \notin Effected /\ Values = {0, 1}
    /\ PlainLook \in [Features -> Values] /\ \A f \in Features : PlainLook[f] = 0
  BY DEF Features, Effected, Values, PlainLook

LEMMA TreelandInitOK == TreelandInit => TreelandInv
  <1> SUFFICES ASSUME TreelandInit PROVE TreelandInv
    OBVIOUS
  <1>1. member \in [Features -> Values] /\ look \in [Features -> Values]
    BY FeaturesAre DEF TreelandInit
  <1>2. surfaces \in 0..MaxSurfaces /\ context \in 0..surfaces /\ surface \in {0, surfaces}
    BY TreelandWindowAssumption DEF TreelandInit
  <1>3. TreelandOK
    BY <1>1, <1>2 DEF TreelandInit, TreelandOK
  <1>4. ReachesTheSurface /\ SentWhatWasAsked
    BY FeaturesAre DEF TreelandInit, ReachesTheSurface, SentWhatWasAsked, Shown
  <1> QED BY <1>3, <1>4 DEF TreelandInv

(* What is painted has its type, and looks as asked where all that was asked  *)
(* is sent, or the rest did before.                                           *)
LEMMA PaintedType ==
    ASSUME NEW l \in [Features -> Values], NEW m \in [Features -> Values], NEW fs \in SUBSET Features
    PROVE /\ Painted(l, m, fs) \in [Features -> Values]
          /\ \A f \in Features \ fs : Painted(l, m, fs)[f] = l[f] \/ Painted(l, m, fs)[f] = 0
  BY FeaturesAre DEF Painted

LEMMA PaintedAsAsked ==
    ASSUME NEW l \in [Features -> Values], NEW m \in [Features -> Values], NEW fs \in SUBSET Features,
           NEW all \in SUBSET Features, fs \subseteq all,
           \A f \in Features \ fs : f = "effect" \/ l[f] = m[f]
                \/ ("effect" \in all /\ f \in Effected /\ l[f] = 0)
    PROVE Look!AsAsked(Painted(l, m, fs), m, "effect" \in all)
  BY FeaturesAre DEF Painted, Look!AsAsked

(* applyPending, of what is to be sent: the context is the one there is or    *)
(* one of the surface.                                                        *)
LEMMA ApplyKeeps ==
    ASSUME NEW m \in [Features -> Values], NEW fs \in SUBSET Features, NEW s \in Nat,
           TreelandInv, Apply(m, fs, s)
    PROVE /\ look' \in [Features -> Values]
          /\ context' = IF context # 0 THEN context ELSE s
          /\ dirty' = IF context' = 0 THEN fs ELSE {}
          /\ \A f \in Features \ fs : look[f] = 0 => look'[f] = 0
          /\ ~(context' # 0 /\ context' = s) => look' = look
          /\ context' # 0 /\ context' = s => look' = Painted(look, m, fs)
  BY PaintedType DEF Apply, WindowContext, TreelandInv, TreelandOK

(* A setter, whether the helper is made for it or there already.              *)
LEMMA SetTreelandKeeps ==
    ASSUME TreelandInv, NEW given \in SUBSET Features, NEW values \in [given -> Values],
           SetTreeland(values)
    PROVE TreelandInv'
  <1>1. CASE ~supported
    <2>1. UNCHANGED treelandVars
      BY <1>1 DEF SetTreeland, GetHelper, TreelandInv, TreelandOK, treelandVars, compositor, qwindow, asked, sent
    <2> QED BY <2>1 DEF TreelandInv, TreelandOK, ReachesTheSurface, SentWhatWasAsked, Shown,
        treelandVars, compositor, qwindow, asked, sent
  <1>2. CASE supported
    <2> DEFINE fs == dirty \cup given
    <2>1. /\ helper' = TRUE /\ linked' = (IF helper THEN linked ELSE native)
          /\ UNCHANGED <<supported, active, notice, native, surface, surfaces, lost>>
      BY <1>2 DEF SetTreeland, GetHelper, compositor, qwindow, TreelandInv, TreelandOK
    <2>2. /\ member' = [f \in Features |-> IF f \in given THEN values[f] ELSE member[f]]
          /\ initialized' = initialized \cup given /\ Apply(member', fs, surface)
      BY <1>2 DEF SetTreeland, UpdateFeature
    <2>3. member' \in [Features -> Values]
      BY <2>2 DEF TreelandInv, TreelandOK
    <2>4. surface \in Nat /\ fs \in SUBSET Features
      BY DEF TreelandInv, TreelandOK
    <2> HIDE DEF fs
    <2>5. /\ look' \in [Features -> Values]
          /\ context' = IF context # 0 THEN context ELSE surface
          /\ dirty' = IF context' = 0 THEN fs ELSE {}
          /\ \A f \in Features \ fs : look[f] = 0 => look'[f] = 0
          /\ ~(context' # 0 /\ context' = surface) => look' = look
          /\ context' # 0 /\ context' = surface => look' = Painted(look, member', fs)
      BY <2>2, <2>3, <2>4, ApplyKeeps
    <2>6. fs \subseteq initialized' /\ given \subseteq fs
      BY <2>2 DEF fs, TreelandInv, TreelandOK
    <2>7. TreelandOK'
      BY <1>2, <2>1, <2>2, <2>3, <2>5, <2>6 DEF TreelandInv, TreelandOK
    <2>8. ReachesTheSurface'
      BY <2>1, <2>5 DEF TreelandInv, TreelandOK, ReachesTheSurface, SentWhatWasAsked
    <2>9. \A f \in Features \ initialized' : member'[f] = 0 /\ look'[f] = 0
      BY <2>2, <2>5, <2>6 DEF TreelandInv, SentWhatWasAsked
    <2>10. surface' = 0 => look' = PlainLook
      BY <2>1, <2>5 DEF TreelandInv, SentWhatWasAsked
    <2>11. ASSUME Shown' PROVE Look!AsAsked(look', member', "effect" \in initialized')
      <3>1. look' = Painted(look, member', fs)
        BY <2>1, <2>5, <2>11 DEF Shown
      <3>2. ASSUME NEW f \in Features \ fs, f # "effect"
            PROVE look[f] = member'[f] \/ ("effect" \in initialized' /\ f \in Effected /\ look[f] = 0)
        <4>1. member'[f] = member[f]
          BY <2>2, <2>6, <3>2
        <4>2. CASE helper
          <5>1. Shown
            BY <2>1, <2>5, <2>11, <4>2 DEF Shown, TreelandInv, SentWhatWasAsked
          <5> QED BY <2>2, <3>2, <4>1, <5>1 DEF TreelandInv, SentWhatWasAsked, Look!AsAsked
        <4>3. CASE ~helper
          BY <3>2, <4>1, <4>3 DEF TreelandInv, SentWhatWasAsked
        <4> QED BY <4>2, <4>3
      <3>3. look \in [Features -> Values] /\ initialized' \in SUBSET Features /\ fs \in SUBSET Features
        BY <2>4, <2>7 DEF TreelandInv, TreelandOK
      <3> QED BY <2>3, <2>6, <3>1, <3>2, <3>3, PaintedAsAsked
    <2>12. SentWhatWasAsked'
      BY <2>1, <2>5, <2>9, <2>10, <2>11 DEF TreelandInv, TreelandOK, SentWhatWasAsked
    <2> QED BY <2>7, <2>8, <2>12 DEF TreelandInv
  <1> QED BY <1>1, <1>2

(* onSurfaceCreated of a helper that is being connected: all is sent to the   *)
(* surface there is.                                                          *)
LEMMA CreatedKeeps ==
    ASSUME TreelandInv, TreelandOK', helper, ~lost => context \in {0, surface'},
           OnSurfaceCreated(surface'), UNCHANGED <<helper, lost, member, initialized>>,
           surface' = 0 => surface = 0
    PROVE linked' => ReachesTheSurface' /\ SentWhatWasAsked'
  <1>1. initialized \in SUBSET Features /\ member \in [Features -> Values] /\ look \in [Features -> Values]
    BY DEF TreelandInv, TreelandOK
  <1>2. surface' \in Nat
    BY TreelandWindowAssumption DEF TreelandOK
  <1>3. /\ context' = IF context # 0 THEN context ELSE surface'
        /\ dirty' = IF context' = 0 THEN initialized ELSE {}
        /\ \A f \in Features \ initialized : look[f] = 0 => look'[f] = 0
        /\ ~(context' # 0 /\ context' = surface') => look' = look
        /\ context' # 0 /\ context' = surface' => look' = Painted(look, member, initialized)
    BY <1>1, <1>2, ApplyKeeps DEF OnSurfaceCreated
  <1>4. Shown' => Look!AsAsked(look', member', "effect" \in initialized')
    <2> SUFFICES ASSUME Shown' PROVE Look!AsAsked(look', member', "effect" \in initialized')
      OBVIOUS
    <2>1. look' = Painted(look, member, initialized)
      BY <1>3 DEF Shown
    <2>2. \A f \in Features \ initialized : look[f] = member[f]
      BY DEF TreelandInv, SentWhatWasAsked
    <2> QED BY <1>1, <2>1, <2>2, PaintedAsAsked
  <1>5. linked' => ReachesTheSurface'
    BY <1>3 DEF ReachesTheSurface, TreelandInv
  <1>6. SentWhatWasAsked'
    BY <1>3, <1>4 DEF SentWhatWasAsked, TreelandInv
  <1> QED BY <1>5, <1>6

(* A surface that is no more.                                                 *)
LEMMA GoneKeeps ==
    ASSUME TreelandInv, TreelandOK', surface # 0, SurfaceGone,
           UNCHANGED <<helper, active, notice, member, initialized, dirty>>,
           linked' \in {linked, FALSE}, native' => linked' = linked /\ native
    PROVE ReachesTheSurface' /\ SentWhatWasAsked'
  <1>1. surface' = 0 /\ look' = PlainLook /\ context' = (IF linked THEN 0 ELSE context)
        /\ lost' = (~linked /\ context # 0)
    BY DEF SurfaceGone
  <1>2. ReachesTheSurface'
    BY <1>1 DEF ReachesTheSurface, TreelandInv
  <1>3. SentWhatWasAsked'
    BY <1>1, FeaturesAre DEF SentWhatWasAsked, TreelandInv, TreelandOK, Shown
  <1> QED BY <1>2, <1>3

LEMMA EventTyped == TreelandInv /\ TreelandEvent => TreelandOK'
  <1> SUFFICES ASSUME TreelandInv, TreelandEvent PROVE TreelandOK'
    OBVIOUS
  <1>1. \A s \in Nat : OnSurfaceCreated(s) =>
            /\ look' \in [Features -> Values] /\ context' \in {context, s}
            /\ dirty' \subseteq initialized
    BY ApplyKeeps DEF OnSurfaceCreated, TreelandInv, TreelandOK
  <1>2. surfaces \in Nat /\ surface \in Nat /\ MaxSurfaces \in Nat
    BY TreelandWindowAssumption DEF TreelandInv, TreelandOK
  <1>3. CASE \E visible \in BOOLEAN : CreateNative(visible)
    BY <1>1, <1>2, <1>3 DEF CreateNative, LinkOnCreation, TreelandInv, TreelandOK, compositor, asked, sent
  <1>4. CASE ShowSurface
    BY <1>1, <1>2, <1>4 DEF ShowSurface, TreelandInv, TreelandOK, compositor, asked, sent
  <1>5. CASE HideSurface
    BY <1>2, <1>5, FeaturesAre DEF HideSurface, SurfaceGone, TreelandInv, TreelandOK, compositor, asked
  <1>6. CASE DestroyNative
    <2>1. surface' = 0 /\ look' \in [Features -> Values] /\ context' \in {0, context} /\ lost' \in BOOLEAN
      <3>1. CASE surface = 0
        BY <1>6, <3>1 DEF DestroyNative, TreelandInv, TreelandOK
      <3>2. CASE surface # 0
        <4>1. /\ surface' = 0 /\ look' = PlainLook /\ context' = (IF linked THEN 0 ELSE context)
              /\ lost' = (~linked /\ context # 0)
          BY <1>6, <3>2 DEF DestroyNative, SurfaceGone
        <4>2. lost' \in BOOLEAN
          BY <4>1, Zenon
        <4> QED BY <4>1, <4>2, FeaturesAre
      <3> QED BY <3>1, <3>2
    <2>2. native' = FALSE /\ linked' = FALSE /\ UNCHANGED <<supported, active, notice, surfaces, helper, member, initialized, dirty>>
      BY <1>6 DEF DestroyNative, compositor, asked
    <2>3. context' \in 0..surfaces' /\ dirty' \subseteq initialized'
      BY <1>2, <2>1, <2>2 DEF TreelandInv, TreelandOK
    <2> QED BY <2>1, <2>2, <2>3 DEF TreelandInv, TreelandOK
  <1>7. CASE ManagerActive
    BY <1>7 DEF ManagerActive, TreelandInv, TreelandOK, qwindow, asked, sent
  <1>8. CASE OnActiveChanged
    <2>1. /\ notice /\ notice' = FALSE /\ linked' = native
          /\ UNCHANGED <<supported, active, native, surface, surfaces, helper, member, initialized, lost>>
      BY <1>8 DEF OnActiveChanged, compositor, qwindow, asked
    <2>2. look' \in [Features -> Values] /\ context' \in {context, surface} /\ dirty' \subseteq initialized
      <3>1. CASE native
        <4>1. OnSurfaceCreated(surface)
          BY <1>8, <3>1 DEF OnActiveChanged
        <4> QED BY <1>1, <1>2, <4>1 DEF TreelandInv
      <3>2. CASE ~native
        BY <1>8, <3>2 DEF OnActiveChanged, sent, TreelandInv, TreelandOK
      <3> QED BY <3>1, <3>2 DEF TreelandInv, TreelandOK
    <2>3. context' \in 0..surfaces' /\ dirty' \subseteq initialized' /\ surface' \in {0, surfaces'}
      BY <1>2, <2>1, <2>2 DEF TreelandInv, TreelandOK
    <2>4. linked' \in BOOLEAN /\ (linked' => native' /\ helper') /\ (notice' => active' /\ helper')
      BY <2>1 DEF TreelandInv, TreelandOK
    <2> QED BY <2>1, <2>2, <2>3, <2>4 DEF TreelandInv, TreelandOK
  <1> QED BY <1>3, <1>4, <1>5, <1>6, <1>7, <1>8 DEF TreelandEvent

LEMMA EventKeeps == TreelandInv /\ TreelandEvent => TreelandInv'
  <1> SUFFICES ASSUME TreelandInv, TreelandEvent PROVE ReachesTheSurface' /\ SentWhatWasAsked'
    BY EventTyped DEF TreelandInv
  <1>0. TreelandOK'
    BY EventTyped
  <1>1. ASSUME NEW visible \in BOOLEAN, CreateNative(visible)
        PROVE ReachesTheSurface' /\ SentWhatWasAsked'
    <2>1. /\ ~native /\ surface = 0 /\ ~linked /\ linked' = (helper /\ active)
          /\ UNCHANGED <<active, notice, helper, member, initialized, lost>>
      BY <1>1 DEF CreateNative, LinkOnCreation, TreelandInv, TreelandOK, compositor, asked
    <2>2. CASE helper /\ active
      <3>1. OnSurfaceCreated(surface')
        BY <1>1, <2>2 DEF CreateNative
      <3> QED BY <1>0, <2>1, <2>2, <3>1, CreatedKeeps DEF TreelandInv, ReachesTheSurface
    <2>3. CASE ~(helper /\ active)
      <3>1. UNCHANGED <<context, dirty, look>>
        BY <1>1, <2>3 DEF CreateNative, sent
      <3> QED BY <2>1, <2>3, <3>1 DEF TreelandInv, ReachesTheSurface, SentWhatWasAsked, Shown
    <2> QED BY <2>2, <2>3
  <1>2. CASE ShowSurface
    <2>1. /\ native /\ surface = 0 /\ UNCHANGED <<active, notice, native, helper, linked, member, initialized, lost>>
      BY <1>2 DEF ShowSurface, compositor, asked
    <2>2. CASE linked
      <3>1. OnSurfaceCreated(surface') /\ helper
        BY <1>2, <2>2 DEF ShowSurface, TreelandInv, TreelandOK
      <3> QED BY <1>0, <2>1, <2>2, <3>1, CreatedKeeps DEF TreelandInv, ReachesTheSurface
    <2>3. CASE ~linked
      <3>1. UNCHANGED <<context, dirty, look>>
        BY <1>2, <2>3 DEF ShowSurface, sent
      <3>2. surface' # 0
        BY <1>2, TreelandWindowAssumption DEF ShowSurface, TreelandInv, TreelandOK
      <3> QED BY <2>1, <2>3, <3>1, <3>2 DEF TreelandInv, ReachesTheSurface, SentWhatWasAsked, Shown
    <2> QED BY <2>2, <2>3
  <1>3. CASE HideSurface
    BY <1>0, <1>3, GoneKeeps DEF HideSurface, compositor, asked, TreelandInv, TreelandOK
  <1>4. CASE DestroyNative
    <2>1. CASE surface # 0
      BY <1>0, <1>4, <2>1, GoneKeeps DEF DestroyNative, compositor, asked, TreelandInv, TreelandOK
    <2>2. CASE surface = 0
      BY <1>4, <2>2 DEF DestroyNative, compositor, asked, TreelandInv, TreelandOK, ReachesTheSurface,
         SentWhatWasAsked, Shown
    <2> QED BY <2>1, <2>2
  <1>5. CASE ManagerActive
    <2>1. /\ active' /\ notice' = helper
          /\ UNCHANGED <<native, surface, helper, linked, context, member, initialized, dirty, look, lost>>
      BY <1>5 DEF ManagerActive, qwindow, asked, sent
    <2> QED BY <2>1 DEF TreelandInv, ReachesTheSurface, SentWhatWasAsked, Shown
  <1>6. CASE OnActiveChanged
    <2>1. /\ notice /\ helper /\ active /\ ~notice' /\ linked' = native
          /\ UNCHANGED <<active, native, surface, helper, member, initialized, lost>>
      BY <1>6 DEF OnActiveChanged, compositor, qwindow, asked, TreelandInv, TreelandOK
    <2>2. CASE native
      <3>1. OnSurfaceCreated(surface')
        BY <1>6, <2>1, <2>2 DEF OnActiveChanged
      <3> QED BY <1>0, <2>1, <2>2, <3>1, CreatedKeeps DEF TreelandInv, ReachesTheSurface
    <2>3. CASE ~native
      <3>1. UNCHANGED <<context, dirty, look>> /\ ~linked /\ surface = 0
        BY <1>6, <2>3 DEF OnActiveChanged, sent, TreelandInv, TreelandOK
      <3> QED BY <2>1, <2>3, <3>1 DEF TreelandInv, ReachesTheSurface, SentWhatWasAsked, Shown
    <2> QED BY <2>2, <2>3
  <1> QED BY <1>1, <1>2, <1>3, <1>4, <1>5, <1>6 DEF TreelandEvent

-----------------------------------------------------------------------------
(* The handles.                                                               *)
Inv ==
    /\ platform \in Platforms /\ handles \subseteq Handles /\ calls \in 0..MaxCalls
    /\ TreelandInv /\ XcbInv /\ EveryHandleHears

LEMMA TreelandSame == TreelandInv /\ UNCHANGED treelandVars => TreelandInv'
  BY DEF TreelandInv, TreelandOK, ReachesTheSurface, SentWhatWasAsked, Shown,
     treelandVars, compositor, qwindow, asked, sent

LEMMA XcbSame == XcbInv /\ UNCHANGED xcbVars => XcbInv'
  BY DEF XcbInv, XcbOK, RadiusFollows, RadiusKept, HasRadius, xcbVars

LEMMA GetIs == platform = "xcb" => \A p \in Properties : Get(p) = GetXcb(p)
  BY DEF Get

(* Every call of a handle, and the rest of a step, in one of the platforms.   *)
LEMMA EnableInv ==
    ASSUME Inv, NEW on \in BOOLEAN, NEW new \in SUBSET Handles, Call, Enable(on, new),
           handles' = handles \cup new
    PROVE Inv'
  <1>1. platform' = platform /\ calls' \in 0..MaxCalls /\ handles' \subseteq Handles
    BY PlatformHandleAssumption DEF Inv, Call
  <1>2. CASE platform = "xcb" /\ EnableXcb(on, handles, new) /\ UNCHANGED treelandVars
    <2>1. Hears(handles)
      BY <1>2, GetIs DEF Inv, EveryHandleHears, Hears
    <2>2. XcbInv' /\ \A h \in Handles \cap (handles \cup new), p \in Properties : heard'[h][p] = GetXcb(p)'
      BY <1>2, <2>1, EnableKeeps DEF Inv
    <2>3. TreelandInv'
      BY <1>2, TreelandSame DEF Inv
    <2>4. EveryHandleHears'
      BY <1>1, <2>2, GetIs DEF EveryHandleHears, Get
    <2> QED BY <1>1, <2>2, <2>3, <2>4 DEF Inv
  <1>3. CASE /\ platform = "treeland" /\ SetTreeland([titlebar |-> IF on THEN 1 ELSE 0])
             /\ UNCHANGED xcbVars
    <2> DEFINE values == [titlebar |-> IF on THEN 1 ELSE 0]
    <2>1. values \in [{"titlebar"} -> Values] /\ {"titlebar"} \in SUBSET Features
      BY FeaturesAre
    <2>2. TreelandInv'
      BY <1>3, <2>1, SetTreelandKeeps DEF Inv
    <2> QED BY <1>1, <1>3, <2>2, XcbSame DEF Inv, EveryHandleHears
  <1>4. CASE platform = "other" /\ UNCHANGED <<treelandVars, xcbVars>>
    BY <1>1, <1>4, TreelandSame, XcbSame DEF Inv, EveryHandleHears
  <1> QED BY <1>2, <1>3, <1>4 DEF Enable

LEMMA InitInv == Init => Inv
  <1> SUFFICES ASSUME Init PROVE Inv
    OBVIOUS
  <1>1. TreelandInv /\ XcbInv
    BY TreelandInitOK, XcbInitOK DEF Init
  <1> QED BY <1>1, PlatformHandleAssumption DEF Init, Inv, EveryHandleHears

LEMMA NextInv == Inv /\ [Next]_vars => Inv'
  <1> SUFFICES ASSUME Inv, [Next]_vars PROVE Inv'
    OBVIOUS
  <1>0. platform = "xcb" => Hears(handles)
    BY GetIs DEF Inv, EveryHandleHears, Hears
  <1>1. ASSUME NEW h \in Handles, NewHandle(h) PROVE Inv'
    BY <1>1, EnableInv DEF NewHandle
  <1>2. ASSUME NEW h \in Handles, DeleteHandle(h) PROVE Inv'
    <2>1. TreelandInv' /\ XcbInv'
      BY <1>2, TreelandSame, XcbSame DEF DeleteHandle, Inv
    <2>2. EveryHandleHears'
      BY <1>2 DEF DeleteHandle, Inv, EveryHandleHears, Get, GetXcb, xcbVars
    <2> QED BY <1>2, <2>1, <2>2 DEF DeleteHandle, Inv
  <1>3. ASSUME NEW on \in BOOLEAN, CallStatic(on) PROVE Inv'
    BY <1>3, EnableInv DEF CallStatic
  <1>4. CASE BlurArea
    <2>1. CASE platform = "treeland"
      <3> DEFINE values == [titlebar |-> 1, blur |-> 1]
      <3>1. values \in [{"titlebar", "blur"} -> Values] /\ {"titlebar", "blur"} \in SUBSET Features
        BY FeaturesAre
      <3>2. TreelandInv' /\ XcbInv'
        BY <1>4, <2>1, <3>1, SetTreelandKeeps, XcbSame DEF BlurArea, Inv
      <3> QED BY <1>4, <2>1, <3>2, PlatformHandleAssumption DEF BlurArea, Call, Inv, EveryHandleHears
    <2>2. CASE platform # "treeland"
      BY <1>4, <2>2, EnableInv DEF BlurArea
    <2> QED BY <2>1, <2>2
  <1>5. ASSUME NEW h \in Handles, NEW f \in Features, NEW v \in Values, Set(h, f, v) PROVE Inv'
    <2>1. platform' = platform /\ calls' \in 0..MaxCalls /\ handles' = handles
      BY <1>5, PlatformHandleAssumption DEF Set, Call, Inv
    <2>2. CASE platform = "xcb" /\ f \in Properties /\ SetXcb(f, v, handles) /\ UNCHANGED treelandVars
      <3>1. XcbInv' /\ \A g \in Handles \cap handles, q \in Properties : heard'[g][q] = GetXcb(q)'
        BY <1>0, <2>2, SetKeeps DEF Inv
      <3>2. EveryHandleHears'
        BY <2>1, <3>1 DEF EveryHandleHears, Get, Inv
      <3> QED BY <2>1, <2>2, <3>1, <3>2, TreelandSame DEF Inv
    <2>3. CASE platform = "treeland" /\ SetTreeland([g \in {f} |-> v]) /\ UNCHANGED xcbVars
      <3>1. [g \in {f} |-> v] \in [{f} -> Values] /\ {f} \in SUBSET Features
        OBVIOUS
      <3>2. TreelandInv'
        BY <2>3, <3>1, SetTreelandKeeps DEF Inv
      <3> QED BY <2>1, <2>3, <3>2, XcbSame DEF Inv, EveryHandleHears
    <2>4. CASE platform = "other" /\ UNCHANGED <<treelandVars, xcbVars>>
      BY <2>1, <2>4, TreelandSame, XcbSame DEF Inv, EveryHandleHears
    <2> QED BY <1>5, <2>2, <2>3, <2>4 DEF Set
  <1>6. CASE Environment
    <2>1. CASE platform = "treeland" /\ TreelandEvent /\ UNCHANGED <<platform, handles, calls, xcbVars>>
      BY <2>1, EventKeeps, XcbSame DEF Inv, EveryHandleHears
    <2>2. CASE /\ platform # "treeland" /\ CreateWindow(handles)
               /\ UNCHANGED <<platform, handles, calls, treelandVars>>
      <3>1. CASE platform = "xcb"
        <4>1. XcbInv' /\ \A g \in Handles \cap handles, q \in Properties : heard'[g][q] = GetXcb(q)'
          BY <1>0, <2>2, <3>1, CreateKeeps DEF Inv
        <4>2. EveryHandleHears'
          BY <2>2, <4>1 DEF EveryHandleHears, Get, Inv
        <4> QED BY <2>2, <4>1, <4>2, TreelandSame DEF Inv
      <3>2. CASE platform # "xcb"
        <4>1. XcbInv'
          BY <2>2, <3>2, CreateOther DEF Inv
        <4> QED BY <2>2, <3>2, <4>1, TreelandSame DEF Inv, EveryHandleHears
      <3> QED BY <3>1, <3>2
    <2>3. CASE /\ DestroyWindow /\ UNCHANGED <<platform, handles, calls, treelandVars>>
      <3>1. EveryHandleHears'
        BY <2>3 DEF DestroyWindow, Inv, EveryHandleHears, Get, GetXcb
      <3> QED BY <2>3, <3>1, DestroyKeeps, TreelandSame DEF Inv
    <2>4. ASSUME platform = "xcb", Call, NEW v \in Radii, ThemeRadius(v, handles),
                 UNCHANGED <<handles, treelandVars>>
          PROVE Inv'
      <3>1. XcbInv' /\ \A g \in Handles \cap handles, q \in Properties : heard'[g][q] = GetXcb(q)'
        BY <1>0, <2>4, ThemeKeeps DEF Inv
      <3>2. platform' = platform /\ calls' \in 0..MaxCalls /\ handles' = handles
        BY <2>4, PlatformHandleAssumption DEF Call, Inv
      <3>3. EveryHandleHears'
        BY <2>4, <3>1, <3>2 DEF EveryHandleHears, Get, Inv
      <3> QED BY <2>4, <3>1, <3>2, <3>3, TreelandSame DEF Inv
    <2> QED BY <1>6, <2>1, <2>2, <2>3, <2>4 DEF Environment
  <1>7. CASE UNCHANGED vars
    <2>1. TreelandInv' /\ XcbInv'
      BY <1>7, TreelandSame, XcbSame DEF Inv, vars
    <2> QED BY <1>7, <2>1 DEF Inv, EveryHandleHears, Get, GetXcb, vars, xcbVars
  <1> QED BY <1>1, <1>2, <1>3, <1>4, <1>5, <1>6, <1>7 DEF Next

(* The state has its type; followers of every handle know the properties of a *)
(* window on X11; what was asked has reached the surface on Treeland.         *)
THEOREM HandlesInvariant == Spec => []HandlesOK
  <1>1. Inv => HandlesOK
    BY DEF Inv, HandlesOK, TreelandInv, XcbInv
  <1> QED BY InitInv, NextInv, <1>1, PTL DEF Spec

(* The radius of a window on X11 is the program's, else the theme's.          *)
THEOREM RadiusIsFollowed == Spec => []RadiusFollowsTheme
  <1>1. Inv => RadiusFollowsTheme
    BY DEF Inv, XcbInv, RadiusFollowsTheme
  <1> QED BY InitInv, NextInv, <1>1, PTL DEF Spec

-----------------------------------------------------------------------------
(* The refinement.  The abstract want is the helper's members, and the look   *)
(* that of the surface while the helper shows it.                             *)
Wanted == [f \in Features |-> GetTreeland(f)]
Seen == IF Shown THEN look ELSE PlainLook

WantedOK == TreelandInv => Wanted \in [Features -> Values] /\ (supported => Wanted = member)
SeenOK == TreelandInv /\ Shown => Look!AsAsked(Seen, Wanted, "effect" \in initialized)

LEMMA WantedIsMember == WantedOK
  BY FeaturesAre DEF WantedOK, Wanted, GetTreeland, TreelandInv, TreelandOK

LEMMA SeenAsAsked == SeenOK
  <1> USE DEF SeenOK
  <1> SUFFICES ASSUME TreelandInv, Shown PROVE Look!AsAsked(Seen, Wanted, "effect" \in initialized)
    OBVIOUS
  <1>1. supported
    BY DEF Shown, TreelandInv, TreelandOK
  <1>2. Seen = look /\ Wanted = member
    BY <1>1, WantedIsMember DEF Seen, WantedOK
  <1> QED BY <1>2 DEF TreelandInv, SentWhatWasAsked

LEMMA AndThen == WantedOK' /\ SeenOK'
  BY WantedIsMember, SeenAsAsked, PTL

LEMMA ShownIs == Shown \in BOOLEAN /\ Shown' \in BOOLEAN
  BY DEF Shown

LEMMA StaysTheSame == UNCHANGED treelandVars => [Look!Next]_(Look!vars)
  BY DEF Look!vars, GetTreeland, Shown, treelandVars, compositor, qwindow, asked, sent

(* A setter asks for what it is given.                                        *)
LEMMA SetterAsks ==
    ASSUME TreelandInv, TreelandInv', NEW given \in SUBSET Features, NEW values \in [given -> Values],
           SetTreeland(values)
    PROVE [Look!Next]_(Look!vars)
  <1>1. CASE ~supported
    <2>1. UNCHANGED treelandVars
      BY <1>1 DEF SetTreeland, GetHelper, TreelandInv, TreelandOK, treelandVars, compositor, qwindow, asked, sent
    <2> QED BY <2>1, StaysTheSame
  <1>2. CASE supported
    <2>1. /\ member' = [f \in Features |-> IF f \in given THEN values[f] ELSE member[f]]
          /\ initialized' = initialized \cup given /\ supported' = supported
          /\ Apply(member', dirty \cup given, surface)
      BY <1>2 DEF SetTreeland, UpdateFeature, compositor
    <2>2. Wanted' \in [Features -> Values] /\ Wanted' = member' /\ Wanted = member
      BY <1>2, <2>1, WantedIsMember, AndThen DEF WantedOK
    <2>3. \A f \in Features \ given : Wanted'[f] = Wanted[f]
      BY <2>1, <2>2
    <2>4. ("effect" \in initialized') = ("effect" \in initialized \/ "effect" \in given)
      BY <2>1
    <2>5. Shown => Shown'
      BY <2>1 DEF SetTreeland, GetHelper, qwindow, Apply, WindowContext, Shown, TreelandInv, TreelandOK
    <2>6. Shown' => Look!AsAsked(Seen', Wanted', "effect" \in initialized')
      BY AndThen DEF SeenOK
    <2>7. ~Shown' => Seen' = Seen
      BY <2>5 DEF Seen, PlainLook
    <2>8. Look!Ask(given)
      BY <2>2, <2>3, <2>4, <2>5, <2>6, <2>7, ShownIs DEF Look!Ask, Wanted, Seen
    <2> QED BY <2>8 DEF Look!Next
  <1> QED BY <1>1, <1>2

(* A surface that comes or goes is shown or hidden, as long as the helper is  *)
(* connected; what is told again is asked for again.                          *)
LEMMA EventShows ==
    ASSUME TreelandInv, TreelandInv', UNCHANGED <<supported, member, initialized>>
    PROVE [Look!Next]_(Look!vars)
  <1>1. Wanted' = Wanted /\ Wanted' \in [Features -> Values]
    BY AndThen DEF WantedOK, Wanted, GetTreeland
  <1>2. Shown' => Look!AsAsked(Seen', Wanted, "effect" \in initialized)
    BY <1>1, AndThen DEF SeenOK
  <1>3. CASE Shown /\ Shown'
    <2>1. Look!Ask({})
      BY <1>1, <1>2, <1>3 DEF Look!Ask, Wanted, Seen
    <2> QED BY <2>1 DEF Look!Next
  <1>4. CASE ~Shown /\ Shown'
    <2>1. Look!Show
      BY <1>1, <1>2, <1>4 DEF Look!Show, Wanted, Seen
    <2> QED BY <2>1 DEF Look!Next
  <1>5. CASE Shown /\ ~Shown'
    <2>1. Look!Hide
      BY <1>1, <1>5 DEF Look!Hide, Look!Plain, PlainLook, Wanted
    <2> QED BY <2>1 DEF Look!Next
  <1>6. CASE ~Shown /\ ~Shown'
    BY <1>1, <1>6, ShownIs DEF Look!vars, PlainLook, Wanted
  <1> QED BY <1>3, <1>4, <1>5, <1>6

LEMMA LookStep == Inv /\ Inv' /\ [Next]_vars => [Look!Next]_(Look!vars)
  <1> SUFFICES ASSUME Inv, Inv', [Next]_vars PROVE [Look!Next]_(Look!vars)
    OBVIOUS
  <1>0. TreelandInv /\ TreelandInv'
    BY DEF Inv
  <1>1. CASE UNCHANGED treelandVars
    BY <1>1, StaysTheSame
  <1>2. ASSUME NEW given \in SUBSET Features, NEW values \in [given -> Values], SetTreeland(values)
        PROVE [Look!Next]_(Look!vars)
    BY <1>0, <1>2, SetterAsks
  <1>3. CASE TreelandEvent
    <2>1. UNCHANGED <<supported, member, initialized>>
      BY <1>3 DEF TreelandEvent, CreateNative, ShowSurface, HideSurface, DestroyNative, ManagerActive,
         OnActiveChanged, compositor, asked
    <2> QED BY <1>0, <2>1, EventShows
  <1>4. ASSUME NEW on \in BOOLEAN, NEW new, Enable(on, new) PROVE [Look!Next]_(Look!vars)
    <2> DEFINE values == [titlebar |-> IF on THEN 1 ELSE 0]
    <2>1. values \in [{"titlebar"} -> Values] /\ {"titlebar"} \in SUBSET Features
      BY FeaturesAre
    <2>2. SetTreeland(values) => [Look!Next]_(Look!vars)
      BY <1>2, <2>1
    <2> QED BY <1>1, <1>4, <2>2 DEF Enable
  <1>5. CASE BlurArea
    <2> DEFINE values == [titlebar |-> 1, blur |-> 1]
    <2>1. values \in [{"titlebar", "blur"} -> Values] /\ {"titlebar", "blur"} \in SUBSET Features
      BY FeaturesAre
    <2>2. SetTreeland(values) => [Look!Next]_(Look!vars)
      BY <1>2, <2>1
    <2> QED BY <1>4, <1>5, <2>2 DEF BlurArea
  <1>6. ASSUME NEW h \in Handles, NEW f \in Features, NEW v \in Values, Set(h, f, v)
        PROVE [Look!Next]_(Look!vars)
    <2>1. [g \in {f} |-> v] \in [{f} -> Values] /\ {f} \in SUBSET Features
      OBVIOUS
    <2>2. SetTreeland([g \in {f} |-> v]) => [Look!Next]_(Look!vars)
      BY <1>2, <2>1
    <2> QED BY <1>1, <1>6, <2>2 DEF Set
  <1>7. CASE Environment
    BY <1>1, <1>3, <1>7 DEF Environment
  <1>8. CASE UNCHANGED vars
    BY <1>1, <1>8 DEF vars
  <1>9. ASSUME NEW h \in Handles, NewHandle(h) \/ DeleteHandle(h) PROVE [Look!Next]_(Look!vars)
    BY <1>1, <1>4, <1>9 DEF NewHandle, DeleteHandle
  <1> QED BY <1>4, <1>5, <1>6, <1>7, <1>8, <1>9 DEF Next, CallStatic

(* The helper of a Treeland window implements WindowLook: whenever the window *)
(* is shown it looks as it was last asked to.                                 *)
THEOREM LookImplemented == Spec => ShowsWhatWasAsked
  <1>1. Init => Look!Init
    <2> SUFFICES ASSUME Init PROVE Look!Init
      OBVIOUS
    <2>1. ~Shown /\ initialized = {} /\ Wanted = Look!Plain
      BY FeaturesAre DEF Init, TreelandInit, Shown, Wanted, GetTreeland, Look!Plain
    <2> QED BY <2>1 DEF Look!Init, Look!Plain, PlainLook, Wanted
  <1> QED BY InitInv, NextInv, LookStep, <1>1, PTL DEF Spec, ShowsWhatWasAsked, Look!Spec
=============================================================================
