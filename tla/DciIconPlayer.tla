--------------------------- MODULE DciIconPlayer ---------------------------
(* DDciIconPlayer: shows the image of an icon's mode and plays the animations *)
(* that lead from one mode to the next, one after another, with a             *)
(* DDciIconImagePlayer.  A request is put into animationJobs; when nothing is *)
(* playing, it is played by a call queued in the event loop, otherwise by the *)
(* handler of finished().  Everything happens in the GUI thread: one call,    *)
(* one queued call or one timer event is one step, with all the signals it    *)
(* emits.  A timer can always be started, and no client calls the player from *)
(* one of its signals.                                                        *)
EXTENDS ImagePlayerOps, FiniteSets

Ext == INSTANCE SequencesExt

CONSTANTS
    Looks,       \* what icon, theme, size and device pixel ratio amount to
    Kind,        \* Kind[l][m]: "animated", "still" or "none", the image of mode m
    PlayModes,   \* the modes ...
    PlayFlags,   \* ... and flags it gives to play(mode, flags)
    MaxJobs,     \* bound on the length of animationJobs
    MaxCalls,    \* bound on the number of queued calls
    MaxMeddling  \* bound on the kinds of other calls between two rests

Modes == {"Normal", "Hover", "Pressed", "Disabled"}

(* The DDciIconImage objects an image player gets, those with an animation:   *)
(* what they show and which time they were loaded.                            *)
ASSUME IconAssumption ==
    /\ Images = {i \in Looks \X Modes \X {0, 1} : Kind[i[1]][i[2]] = "animated"}
    /\ PlayModes \subseteq Modes
    /\ PlayFlags \subseteq SUBSET Flags
    /\ Kind \in [Looks -> [Modes -> {"animated", "still", "none"}]]
    /\ \A i \in Images : Frames[i] > 0
    /\ Tinted = Images
    /\ MaxJobs \in Nat /\ MaxCalls \in Nat /\ MaxMeddling \in Nat

VARIABLES
    d,       \* the icon player
    calls,   \* calls of _q_playFromQueue in the event loop: the extra flags of each
    \* History:
    meddled  \* what else than setMode was called since the player was last at rest

iconPlayerVars == <<d, calls, meddled>>

Meddling == {"restyled", "recoloured", "played", "stopped", "aborted"}

(* The look of an icon without images, the one the player begins with.        *)
Null(l) == \A m \in Modes : Kind[l][m] = "none"

NoImage == [image |-> <<>>, frame |-> 0, palette |-> "none"]

IconPlayerInit ==
    /\ \E l \in {l \in Looks : Null(l)}, pal \in Palettes :
        d = [player |-> NewPlayer(pal), look |-> l, loaded |-> FALSE, load |-> 0,
             mode |-> "Normal", lastMode |-> "Normal", state |-> "Idle",
             animationJobs |-> <<>>, saveImageForHoverModeOnFinished |-> FALSE,
             image |-> NoImage, finishedImage |-> NoImage,
             hoverModeLastImage |-> NoImage]
    /\ calls = <<>>
    /\ meddled = {}

IsPlaying(e) == e.player.state \in {"WaitingRead", "Running"}
Undef(e) == e.player.state = "undefined"

-----------------------------------------------------------------------------
(* The images of the four modes, as getImage(mode) finds them.                *)
ImageOf(e, m) == <<e.look, m, e.load>>
Has(e, m) == e.loaded /\ Kind[e.look][m] # "none"
IsAnimated(e, m) == e.loaded /\ Kind[e.look][m] = "animated"

(* ensureInit: new objects, other than those the image player may still have. *)
EnsureInit(e) ==
    IF e.loaded \/ Kind[e.look]["Normal"] = "none" THEN e
    ELSE [e EXCEPT !.loaded = TRUE,
             !.load = IF \E j \in DOMAIN e.player.images : e.player.images[j][3] = 0
                      THEN 1 ELSE 0]

(* What icon.pixmap() and toImage() of an image at its beginning give for a   *)
(* mode; a mode without image has that of Normal.                             *)
Still(e, m) ==
    LET shown == IF Kind[e.look][m] = "none" THEN "Normal" ELSE m
    IN [image |-> <<e.look, shown>>, frame |-> 0, palette |-> e.player.palette]

(* A frame the image player read, without the identity of the image object.   *)
Picture(shot) == [shot EXCEPT !.image = <<@[1], @[2]>>]

SetImage(e, m) == [e EXCEPT !.image = Still(e, m)]
SetFinishedImage(e, m) == [e EXCEPT !.finishedImage = Still(e, m)]

(* The handler of updated(): the frame is read, and shown.                    *)
ShowFrame(e, p) ==
    [e EXCEPT !.player = ReadImage(p, TRUE), !.image = Picture(FrameRead(p))]

(* Mutant: the player is not Busy.                                            *)
Started_Idle(e, p, forMode, flags) ==
    IF p.state = "WaitingRead" THEN ShowFrame(e, p) ELSE [e EXCEPT !.player = p]

(* start(), which succeeds if p, the image player it started, waits for its   *)
(* first frame to be read: it is, from within the call.                       *)
Started(e, p, forMode, flags) ==
    IF p.state # "WaitingRead" THEN [e EXCEPT !.player = p]
    ELSE [ShowFrame(e, p) EXCEPT
             !.state = "Busy",
             !.saveImageForHoverModeOnFinished =
                 @ \/ (forMode = "Hover" /\ "InvertedOrder" \notin flags)]

(* The images of animated modes in ms are given to the player, in order, and  *)
(* start() is called; the copies made for the call are destroyed, which       *)
(* rewinds the images.                                                        *)
StartPlayer(e, ms, forMode, flags) ==
    LET given == SetImages(e.player, [k \in DOMAIN ms |-> ImageOf(e, ms[k])])
    IN Started(e, Start([given EXCEPT !.number = [i \in Images |-> 0]], flags),
               forMode, flags)

(* ensureHoverModeLastImage: a fresh copy of the Hover image is run to its    *)
(* end, unless the one at hand is already there, which is then not used.      *)
EnsureHoverModeLastImage(e) ==
    LET i == ImageOf(e, "Hover") IN
    IF \/ e.hoverModeLastImage # NoImage
       \/ ~IsAnimated(e, "Hover")
       \/ e.player.number[i] = Frames[i] - 1
    THEN e
    ELSE [e EXCEPT !.hoverModeLastImage =
             Picture(Shot(i, Frames[i] - 1, e.player.palette))]

Backward == {"InvertedOrder", "IgnoreLastImageLoop"}

(* Hover and Pressed are played together when both are animated.              *)
ThroughHover(e) == IF IsAnimated(e, "Hover") THEN <<"Hover", "Pressed">>
                   ELSE <<"Pressed">>

(* What a transition comes to: nothing, a still image, or the animations of   *)
(* some modes, with the mode whose image is the finishedImage.                *)
Stay == [does |-> "nothing"]
Show(m) == [does |-> "show", mode |-> m]
Animate(ms, flags, end) ==
    [does |-> "animate", modes |-> ms, flags |-> flags, finished |-> end]

(* The animation of mode m, or its still image.                               *)
Enter(e, m, flags) ==
    IF IsAnimated(e, m) THEN Animate(<<m>>, flags, "none") ELSE Show(m)

(* play(from, to): the rules of transition.                                   *)
FromNormal(e, to) ==
    IF to # "Normal" /\ ~Has(e, to) THEN Stay
    ELSE IF to = "Pressed" /\ IsAnimated(e, to)
    THEN Animate(ThroughHover(e), {"CacheAll"}, "none")
    ELSE IF to = "Normal" THEN Show(to)
    ELSE Enter(e, to, IF to = "Disabled" THEN {"IgnoreLastImageLoop"}
                                         ELSE {"CacheAll"})

ToDisabled(e) ==
    IF Has(e, "Disabled") THEN Enter(e, "Disabled", {"IgnoreLastImageLoop"})
    ELSE Show("Normal")

FromHover(e, to) ==
    CASE to = "Normal" ->
            IF IsAnimated(e, "Hover")
            THEN Animate(<<"Hover">>, Backward \cup {"ClearCacheOnStop"}, "Normal")
            ELSE Show("Normal")
      [] to = "Hover" -> Stay
      [] to = "Pressed" ->
            IF Has(e, "Pressed") THEN Enter(e, "Pressed", {"CacheAll"})
            ELSE IF IsAnimated(e, "Hover") THEN Animate(<<"Hover">>, Backward, "none")
            ELSE Show("Normal")
      [] to = "Disabled" -> ToDisabled(e)

FromPressed(e, to) ==
    CASE to = "Normal" ->
            IF IsAnimated(e, "Pressed")
            THEN Animate(ThroughHover(e), Backward, "Normal") ELSE Show("Normal")
      [] to = "Hover" ->
            IF ~Has(e, "Pressed") THEN Enter(e, "Hover", {"CacheAll"})
            ELSE IF IsAnimated(e, "Pressed")
            THEN Animate(<<"Pressed">>, Backward, "Hover") ELSE Show("Hover")
      [] to = "Pressed" -> Stay
      [] to = "Disabled" -> ToDisabled(e)

FromDisabled(e) ==
    IF IsAnimated(e, "Disabled") THEN Animate(<<"Disabled">>, Backward, "Normal")
    ELSE Show("Normal")

Transition(e, from, to) ==
    CASE from = "Normal" -> FromNormal(e, to)
      [] from = "Hover" -> FromHover(e, to)
      [] from = "Pressed" -> FromPressed(e, to)
      [] from = "Disabled" -> FromDisabled(e)

(* The image an animation is to end with, when it is not its own last frame.  *)
PrepareFinished(e, end) ==
    LET f == EnsureHoverModeLastImage(e) IN
    CASE end = "Hover" -> [f EXCEPT !.finishedImage = f.hoverModeLastImage]
      [] end = "Normal" -> SetFinishedImage(e, "Normal")
      [] end = "none" -> e

(* Mutant: the extra flags are dropped.                                       *)
Perform_FromStart(e, plan, to, extra) ==
    CASE plan.does = "nothing" -> e
      [] plan.does = "show" -> SetImage(e, plan.mode)
      [] plan.does = "animate" ->
            StartPlayer(PrepareFinished(e, plan.finished), plan.modes, to, plan.flags)

Perform(e, plan, to, extra) ==
    CASE plan.does = "nothing" -> e
      [] plan.does = "show" -> SetImage(e, plan.mode)
      [] plan.does = "animate" ->
            StartPlayer(PrepareFinished(e, plan.finished), plan.modes, to,
                        plan.flags \cup extra)

(* It returns true when the result is Playing.                                *)
PlayPair(d0, from, to, extra) ==
    LET e == [EnsureInit(d0) EXCEPT !.finishedImage = NoImage] IN
    IF ~Has(e, "Normal") THEN [e EXCEPT !.image = NoImage]
    ELSE Perform(e, Transition(e, from, to), to, extra)

-----------------------------------------------------------------------------
(* _q_playFromQueue: the first job is played.  It stays in the queue while    *)
(* its animation plays, and leaves it at once when there is none.             *)
KeepIfPlaying(e) ==
    IF IsPlaying(e) \/ Undef(e) THEN e ELSE [e EXCEPT !.animationJobs = Tail(@)]

PlayFromQueue(e, extra) ==
    IF IsPlaying(e) \/ e.animationJobs = <<>> THEN e
    ELSE LET job == Head(e.animationJobs)
         IN KeepIfPlaying(PlayPair(e, job.from, job.to, extra))

(* The handler of finished(), ...                                             *)
RememberHover(e) ==
    IF e.saveImageForHoverModeOnFinished
    THEN [e EXCEPT !.saveImageForHoverModeOnFinished = FALSE,
                   !.hoverModeLastImage = e.image]
    ELSE e

(* Mutants: the player stays Busy; the image to end with is forgotten.        *)
ComeToRest_Busy(e) ==
    [e EXCEPT
        !.image = IF e.finishedImage = NoImage THEN @ ELSE e.finishedImage,
        !.finishedImage = NoImage,
        !.player = IF e.mode \in {"Normal", "Disabled"} THEN ClearCache(@) ELSE @]
ComeToRest_Forgets(e) ==
    [e EXCEPT
        !.finishedImage = NoImage,
        !.player = IF e.mode \in {"Normal", "Disabled"} THEN ClearCache(@) ELSE @,
        !.state = "Idle"]

(* ... when no other job follows, ...                                         *)
ComeToRest(e) ==
    [e EXCEPT
        !.image = IF e.finishedImage = NoImage THEN @ ELSE e.finishedImage,
        !.finishedImage = NoImage,
        !.player = IF e.mode \in {"Normal", "Disabled"} THEN ClearCache(@) ELSE @,
        !.state = "Idle"]

(* Mutant: the next job is not played.                                        *)
GoOn_Waits(e) == IF e.animationJobs # <<>> THEN e ELSE ComeToRest(e)

GoOn(e) == IF e.animationJobs # <<>> THEN PlayFromQueue(e, {}) ELSE ComeToRest(e)

Finished(e) ==
    GoOn([RememberHover(e) EXCEPT !.animationJobs = IF @ = <<>> THEN @ ELSE Tail(@)])

StopPlayer(e) == [e EXCEPT !.player = Stop(@)]

(* reset(): the images are given up, hence rewound.                           *)
Reset(e) ==
    [StopPlayer(e) EXCEPT !.loaded = FALSE, !.hoverModeLastImage = NoImage,
                          !.player.number = [i \in Images |-> 0]]

-----------------------------------------------------------------------------
(* playToQueue, the end of every operation that asks for an animation.        *)
Request(e) == [from |-> e.lastMode, to |-> e.mode]
Opposite(job) == [from |-> job.to, to |-> job.from]
LastJob(e) == e.animationJobs[Len(e.animationJobs)]

(* Mutant: the cache is given up while the animation plays.                   *)
Enqueue_Clears(e, extra) ==
    LET f == [e EXCEPT !.animationJobs = Append(@, Request(e))] IN
    /\ Len(f.animationJobs) <= MaxJobs
    /\ IF IsPlaying(f)
       THEN /\ d' = [f EXCEPT !.player = ClearCache(AbortLoop(@))]
            /\ UNCHANGED calls
       ELSE /\ Len(calls) < MaxCalls
            /\ d' = f
            /\ calls' = Append(calls, extra)

(* The request takes its place in the queue.  A playing animation is made to  *)
(* end soon, otherwise a call is queued.                                      *)
Enqueue(e, extra) ==
    LET f == [e EXCEPT !.animationJobs = Append(@, Request(e))] IN
    /\ Len(f.animationJobs) <= MaxJobs
    /\ IF IsPlaying(f)
       THEN d' = [f EXCEPT !.player = AbortLoop(@)] /\ UNCHANGED calls
       ELSE /\ Len(calls) < MaxCalls
            /\ d' = f
            /\ calls' = Append(calls, extra)

(* Mutant: an opposite request is ignored, and the job it offsets stays.      *)
PlayToQueue_Keeps(e) ==
    LET jobs == e.animationJobs
        ignored == jobs # <<>> /\ LastJob(e) \in {Request(e), Opposite(Request(e))}
    IN IF ignored THEN d' = e /\ UNCHANGED calls
       ELSE Enqueue(IF jobs = <<>> THEN StopPlayer(e) ELSE e, {})

(* The same request as the last one is ignored, the opposite one removes a    *)
(* job that is not played yet or turns the one that is played.                *)
PlayToQueue(e) ==
    LET jobs == e.animationJobs
        same == jobs # <<>> /\ LastJob(e) = Request(e)
        opposite == jobs # <<>> /\ LastJob(e) = Opposite(Request(e)) /\ ~same
        offset == opposite /\ Len(jobs) > 1
        turned == opposite /\ Len(jobs) = 1 /\ IsPlaying(e)
    IN IF same \/ offset
       THEN /\ d' = IF same THEN e ELSE [e EXCEPT !.animationJobs = Ext!Front(@)]
            /\ UNCHANGED calls
       ELSE Enqueue(IF jobs = <<>> \/ turned
                    THEN [StopPlayer(e) EXCEPT !.animationJobs = <<>>] ELSE e,
                    IF turned THEN {"Continue"} ELSE {})

Abort(e) == [StopPlayer(e) EXCEPT !.animationJobs = <<>>, !.state = "Idle"]

-----------------------------------------------------------------------------
(* Nothing plays and nothing will; calls of other operations than setMode     *)
(* count until the player is quiet with the right image.                      *)
Quiet == calls = <<>> /\ d.animationJobs = <<>> /\ ~IsPlaying(d)
Clean(S) == meddled \cap S = {}

(* What the transition to mode ends with: the last frame of its animation, or *)
(* its still image.                                                           *)
EndOf(e) ==
    IF e.mode # "Normal" /\ IsAnimated(e, e.mode)
    THEN LET i == ImageOf(e, e.mode)
         IN Picture(Shot(i, Frames[i] - 1, e.player.palette))
    ELSE Still(e, e.mode)

Meddle(what) ==
    /\ meddled' = meddled \cup {what}
    /\ Cardinality(meddled') <= MaxMeddling

Restyle(l) ==
    /\ ~Undef(d)
    /\ PlayToQueue(Reset([d EXCEPT !.look = l]))
    /\ Meddle("restyled")

setIcon(l) == ~Null(l) /\ Restyle(l)

(* setTheme, setIconSize and setDevicePixelRatio: the icon stays null or not. *)
setLook(l) == (Null(l) <=> Null(d.look)) /\ Restyle(l)

setMode(m) ==
    LET e == [d EXCEPT !.lastMode = d.mode, !.mode = m] IN
    /\ ~Undef(d)
    /\ m # d.mode
    /\ PlayToQueue(IF m = "Disabled" THEN Abort(e) ELSE e)
    /\ meddled' = IF Quiet /\ d.state = "Idle" /\ d.image = EndOf(d) THEN {} ELSE meddled

(* Mutant: the image is not shown anew.                                       *)
setIconPalette_Quietly(pal) ==
    /\ ~Undef(d)
    /\ pal # d.player.palette
    /\ d' = [d EXCEPT
                !.player = SetPalette(@, pal),
                !.hoverModeLastImage = IF Has(d, "Hover") THEN NoImage ELSE @]
    /\ UNCHANGED calls
    /\ Meddle("recoloured")

(* setPalette: the image is shown or played anew.                             *)
setIconPalette(pal) ==
    LET e == [d EXCEPT
                !.player = SetPalette(@, pal),
                !.hoverModeLastImage = IF Has(d, "Hover") THEN NoImage ELSE @]
    IN /\ ~Undef(d)
       /\ pal # d.player.palette
       /\ IF Has(d, d.mode) THEN PlayToQueue(e) ELSE d' = e /\ UNCHANGED calls
       /\ Meddle("recoloured")

(* play(mode, flags): at once, outside the queue.                             *)
play(m, flags) ==
    LET e == EnsureInit(d)
        f == [StopPlayer(e) EXCEPT !.animationJobs = <<>>, !.finishedImage = NoImage]
    IN /\ ~Undef(d)
       /\ d' = IF ~Has(e, "Normal") THEN e
               ELSE IF IsAnimated(e, m) THEN StartPlayer(f, <<m>>, m, flags) ELSE f
       /\ Meddle("played")
       /\ UNCHANGED calls

(* stop(): the jobs stay in the queue.                                        *)
stopIcon ==
    /\ ~Undef(d)
    /\ d' = [StopPlayer(d) EXCEPT !.state = "Idle"]
    /\ Meddle("stopped")
    /\ UNCHANGED calls

abort ==
    /\ ~Undef(d)
    /\ d' = Abort(d)
    /\ Meddle("aborted")
    /\ UNCHANGED calls

(* The event loop makes the next queued call.                                 *)
InvokeQueued ==
    /\ ~Undef(d)
    /\ calls # <<>>
    /\ d' = PlayFromQueue(d, Head(calls))
    /\ calls' = Tail(calls)
    /\ UNCHANGED meddled

(* A timer event of the image player leaves it with another frame, which      *)
(* updated() has read at once, or at the end.                                 *)
PlayOn(e, p) ==
    CASE p.state = "NotRunning" -> Finished([e EXCEPT !.player = p])
      [] p.state = "WaitingRead" -> ShowFrame(e, p)
      [] p.state = "undefined" -> [e EXCEPT !.player = p]

TimerFires ==
    /\ d.player.timer
    /\ d' = PlayOn(d, TimerEvent(d.player))
    /\ UNCHANGED <<calls, meddled>>

IconPlayerNext ==
    \/ \E l \in Looks : setIcon(l) \/ setLook(l)
    \/ \E m \in Modes : setMode(m)
    \/ \E pal \in Palettes : setIconPalette(pal)
    \/ \E m \in PlayModes, flags \in PlayFlags : play(m, flags)
    \/ stopIcon
    \/ abort
    \/ InvokeQueued
    \/ TimerFires

IconPlayerSpec == IconPlayerInit /\ [][IconPlayerNext]_iconPlayerVars
-----------------------------------------------------------------------------
(* Type invariant and bounds of the icon player, its queue and the calls; a   *)
(* playing image player makes it Busy, and has the images of the icon.        *)
IconPlayerOK ==
    /\ d.player.state \in {"NotRunning", "Running"}
    /\ d.player.timer <=> IsPlaying(d)
    /\ d.mode \in Modes /\ d.lastMode \in Modes /\ d.look \in Looks
    /\ d.animationJobs \in Seq([from : Modes, to : Modes])
    /\ Len(d.animationJobs) <= MaxJobs /\ Len(calls) <= MaxCalls
    /\ meddled \subseteq Meddling
    /\ IsPlaying(d) => d.state = "Busy" /\ d.loaded

(* The calls of the icon player never make its image player index the cache   *)
(* out of range, though clients of the image player can: see DefinedUse.      *)
NeverOutOfRange == ~Undef(d)

(* The last job in the queue leads to the mode that was set last, whatever    *)
(* was offset, ignored or replaced on the way (playToQueue), unless the same  *)
(* transition is asked for again by another call.                             *)
LeadsToMode ==
    Clean({"restyled", "recoloured"}) /\ d.animationJobs # <<>>
        => LastJob(d).to = d.mode

(* A queued job is on its way: it plays, or a call that will play it is in    *)
(* the event loop.                                                            *)
QueueGoesOn == d.animationJobs # <<>> => IsPlaying(d) \/ calls # <<>>

(* "... the Pressed animation will be played automatically when the current   *)
(* one is over" (ddciiconplayer.zh_CN.dox): nothing but setMode is called.    *)
SeamlessQueue == Clean(Meddling) => QueueGoesOn

(* The transition is animated; the icons where an animated transition is      *)
(* followed by animated ones, but to Disabled, which empties the queue.       *)
Animates(l, from, to) ==
    LET e == [look |-> l, loaded |-> TRUE] IN
    Has(e, "Normal") /\ Transition(e, from, to).does = "animate"
Fluent == {l \in Looks : \A a, b, c \in Modes :
              a # b /\ b # c /\ c # "Disabled" /\ Animates(l, a, b) => Animates(l, b, c)}

(* ... if nothing but setMode, setPalette, play and abort was called, of an   *)
(* icon whose animated modes follow animated modes.                           *)
UndisturbedQueueGoesOn ==
    Clean({"restyled", "stopped"}) /\ d.look \in Fluent => QueueGoesOn

(* Busy comes to an end: something plays or will (finished, stop, abort), for *)
(* such an icon.                                                              *)
BusyEnds ==
    Clean({"restyled", "played"}) /\ d.look \in Fluent /\ d.state = "Busy" =>
        IsPlaying(d) \/ calls # <<>>

(* When the player is quiet after calls of setMode alone, whatever they       *)
(* interrupted, offset or turned around, the image is the one of the mode.    *)
(* Pressed shows the image of Normal when it comes from Disabled; for Hover   *)
(* see HoverEndsAtItsLastFrame. An icon without an image for Pressed or for   *)
(* Disabled "stays" on the way there (initState) and may keep the frame of an *)
(* animation that setMode has just aborted.                                   *)
Complete ==
    {l \in Looks : Kind[l]["Pressed"] # "none" /\ Kind[l]["Disabled"] # "none"}
RestImage ==
    Clean(Meddling) /\ Quiet /\ d.look \in Complete /\ d.loaded /\ d.mode # "Hover" =>
        \/ d.image = EndOf(d)
        \/ d.mode = "Pressed" /\ d.image = Still(d, "Normal")

(* "When from Pressed mode to Hover mode, needs stop at the hover mode        *)
(* animation last frame" (the comment in start).                              *)
HoverEndsAtItsLastFrame ==
    [][ /\ Clean(Meddling)'
        /\ d.animationJobs = <<[from |-> "Pressed", to |-> "Hover"]>>
        /\ IsPlaying(d) /\ ~IsPlaying(d')
        /\ d'.mode = "Hover" /\ IsAnimated(d', "Hover")
        => d'.image = EndOf(d') ]_iconPlayerVars

(* An animation turned around by the opposite mode goes on from the frame     *)
(* that is shown, when the call it has queued comes next.  A cache that is    *)
(* given up with its frames out of order (see DefinedUse) is an exception.    *)
TurnsAround ==
    [][ LET resumed == PlayFromQueue(d', {"Continue"}) IN
        /\ Clean({"recoloured"})'
        /\ calls = <<>> /\ calls' = <<{"Continue"}>>
        /\ "ClearCacheOnStop" \in d.player.flags =>
              d.image.frame = d.player.currentFrameNumber
        => IsPlaying(resumed) /\ resumed.image = d.image ]_iconPlayerVars

(* The image at rest is of the palette that was set last, for an icon without *)
(* animations.                                                                *)
PaletteShown ==
    (\A m \in Modes : Kind[d.look][m] = "still") /\ Clean({"aborted", "played"})
        /\ Quiet /\ d.loaded => d.image.palette = d.player.palette
=============================================================================
