--------------------------- MODULE DciImagePlayer ---------------------------
(* DDciIconImagePlayer: plays the frames of a list of images.  The player     *)
(* announces a frame (updated), its client reads it (readImage), which starts *)
(* a timer, and the timer's event moves to the next frame.  Any public method *)
(* may be called between two of these steps.  Everything happens in the GUI   *)
(* thread: one call, or one timer event, is one step.                         *)
EXTENDS ImagePlayerOps

CONSTANTS
    ImageLists,   \* the lists of images a client plays
    FlagSets,     \* the flags it starts them with
    LoopCounts,   \* the loop counts it asks for
    CopiesDie,    \* are there other DDciIconImage copies, destroyed at any time
    MaxDebt       \* bound on how far loopCount may fall below zero

ASSUME ClientAssumption ==
    /\ ImageLists \subseteq Seq(Images)
    /\ FlagSets \subseteq SUBSET Flags
    /\ LoopCounts \subseteq Nat \ {0}
    /\ CopiesDie \in BOOLEAN
    /\ MaxDebt \in Nat

VARIABLES
    p,          \* the player
    \* History:
    shown,      \* the frame last read
    paused,     \* where the last animation was interrupted, if it was
    aborted,    \* abortLoop was called during this animation, no setLoopCount since
    usage       \* what was done with the present cache

vars == <<p, shown, paused, aborted, usage>>

(* "cached" and "plain": it was played with and without CacheAll; "cleared":  *)
(* clearCache was called during an animation; "rewound": a copy of one of the *)
(* images was destroyed.                                                      *)
Usages == {"cached", "plain", "cleared", "rewound"}

NoShot == [image |-> "none", frame |-> -1]
Nowhere == [current |-> -1, frame |-> -1]
Here == [current |-> p.current, frame |-> p.currentFrameNumber]
Playing == p.state \in {"WaitingRead", "Running"}
Defined == p.state # "undefined"

Init ==
    /\ \E pal \in Palettes : p = NewPlayer(pal)
    /\ shown = NoShot
    /\ paused = Nowhere
    /\ aborted = FALSE
    /\ usage = {}

-----------------------------------------------------------------------------
(* The player becomes q, something having been done to it.                    *)
Becomes(q, done) ==
    /\ p' = q
    /\ usage' = IF q.state = "NotRunning" /\ q.cachedFrames = <<>>
                THEN {} ELSE usage \cup done

StillAborted == aborted' = (aborted /\ p'.state # "NotRunning")

setImages(images) ==
    /\ Defined
    /\ images # p.images
    /\ Becomes(SetImages(p, images), {})
    /\ paused' = Nowhere
    /\ StillAborted
    /\ UNCHANGED shown

setPalette(pal) ==
    /\ Defined
    /\ Becomes(SetPalette(p, pal), {})
    /\ UNCHANGED <<shown, paused, aborted>>

setLoopCount(count) ==
    /\ Defined
    /\ Becomes(SetLoopCount(p, count), {})
    /\ p'.loopCount >= -MaxDebt
    /\ aborted' = FALSE
    /\ UNCHANGED <<shown, paused>>

abortLoop ==
    /\ Playing
    /\ Becomes(AbortLoop(p), {})
    /\ aborted' = TRUE
    /\ UNCHANGED <<shown, paused>>

clearCache ==
    /\ Defined
    /\ Becomes(ClearCache(p), {"cleared"})
    /\ UNCHANGED <<shown, paused, aborted>>

start(flags) ==
    /\ p.state = "NotRunning"
    /\ p.images # <<>>
    /\ Becomes(Start(p, flags), {IF flags \cap {"CacheAll", "InvertedOrder"} = {}
                                  THEN "plain" ELSE "cached"})
    /\ paused' = Nowhere
    /\ UNCHANGED <<shown, aborted>>

stop ==
    /\ Playing
    /\ Becomes(Stop(p), {})
    /\ paused' = Here
    /\ StillAborted
    /\ UNCHANGED shown

(* The client reads the frame; the timer can be started or cannot.            *)
readImage(timerStarts) ==
    /\ p.state = "WaitingRead"
    /\ Becomes(ReadImage(p, timerStarts), {})
    /\ shown' = FrameRead(p)
    /\ paused' = IF timerStarts THEN paused ELSE Here
    /\ StillAborted

timerEvent ==
    /\ p.timer
    /\ p.loopCount > -MaxDebt
    /\ Becomes(TimerEvent(p), {})
    /\ StillAborted
    /\ UNCHANGED <<shown, paused>>

(* Copies of a DDciIconImage share their data, and ~DDciIconImage resets it:  *)
(* the end of a copy (of currentImage(), of the client's list) rewinds the    *)
(* image the player has.                                                      *)
copyDestroyed(i) ==
    /\ CopiesDie
    /\ Defined
    /\ \E j \in DOMAIN p.images : p.images[j] = i
    /\ Becomes([p EXCEPT !.number[i] = 0], {"rewound"})
    /\ UNCHANGED <<shown, paused, aborted>>

Next ==
    \/ \E images \in ImageLists : setImages(images)
    \/ \E pal \in Palettes : setPalette(pal)
    \/ \E count \in LoopCounts : setLoopCount(count)
    \/ abortLoop
    \/ clearCache
    \/ \E flags \in FlagSets : start(flags)
    \/ stop
    \/ \E ok \in BOOLEAN : readImage(ok)
    \/ timerEvent
    \/ \E i \in Images : copyDestroyed(i)

(* A client that reads every frame announced, and an event loop that delivers *)
(* timer events.                                                              *)
Fairness == WF_vars(readImage(TRUE)) /\ WF_vars(timerEvent)

Spec == Init /\ [][Next]_vars
FairSpec == Spec /\ Fairness

-----------------------------------------------------------------------------
(* The client keeps to one way of caching, and clears the cache only when     *)
(* nothing plays.                                                             *)
OneWayOfCaching == "cleared" \notin usage /\ ~({"cached", "plain"} \subseteq usage)
AllAnimated == \A j \in DOMAIN p.images : Animated(p.images[j])

TypeOK ==
    /\ p \in Players
    /\ p.loopCount >= -MaxDebt
    /\ p.current \in -1..Len(p.images)
    /\ shown \in Shots \cup {NoShot}
    /\ paused \in [current : Int, frame : Int]
    /\ aborted \in BOOLEAN
    /\ usage \subseteq Usages

(* Exactly one timer is pending between a read and the next frame, and none   *)
(* at any other time, whatever stopped the animation.                         *)
TimerDiscipline == p.timer <=> p.state = "Running"

(* While it plays, the player is at a frame that its current image has, and   *)
(* when it is stopped it stays there: no sequence of starts, loops, stops and *)
(* cache clearing leaves it elsewhere.                                        *)
PositionOK ==
    /\ Playing => InRange(p)
    /\ Defined /\ InRange(p) => p.currentFrameNumber \in 0..(Frames[Image(p)] - 1)
    /\ Defined /\ p.current < 0 => p.currentFrameNumber = -1

(* The flags, the counters and the history agree.                             *)
LoopsOK ==
    /\ Playing => p.loopCount <= p.userLoopCount
    /\ aborted => /\ p.state # "NotRunning" /\ p.loopCount = 0 /\ p.currentLoopCount \in {0, 1}
                  /\ "IgnoreLastImageLoop" \in p.flags /\ "AllowNonLastImageLoop" \notin p.flags
    /\ Playing => paused = Nowhere
    /\ p.state = "NotRunning" /\ paused # Nowhere => InRange(p) /\ paused = Here

(* An animation that runs backward is cached, and who caches is known.        *)
WaysOK ==
    /\ Reversed(p) => "CacheAll" \in p.flags
    /\ Playing => (IF "CacheAll" \in p.flags THEN "cached" ELSE "plain") \in usage
    /\ p.cachedFrames # <<>> => "cached" \in usage

(* The cache has at most the frames of the images, each in the place of its   *)
(* image.                                                                     *)
CacheFits ==
    /\ Len(p.cachedFrames) <= Len(p.images)
    /\ \A j \in DOMAIN p.cachedFrames :
          /\ Len(p.cachedFrames[j]) <= Frames[p.images[j]]
          /\ \A n \in DOMAIN p.cachedFrames[j] : p.cachedFrames[j][n].image = p.images[j]

(* What is cached of the current image reaches as far as the animation has    *)
(* come, if there is a place for it.                                          *)
HasSlot == p.current + 1 \in DOMAIN p.cachedFrames
Slot == p.cachedFrames[p.current + 1]
SlotReaches ==
    /\ p.state = "Running" /\ "CacheAll" \in p.flags /\ HasSlot => Slot # <<>>
    /\ Playing /\ "CacheAll" \in p.flags /\ OneWayOfCaching => p.cachedFrames # <<>>
    /\ Defined /\ OneWayOfCaching /\ InRange(p) /\ p.cachedFrames # <<>> =>
          IF HasSlot
          THEN Len(Slot) >= p.currentFrameNumber + (IF p.state = "Running" THEN 1 ELSE 0)
          ELSE p.currentFrameNumber = 0 /\ p.state # "Running"

(* Frames are cached one after the other; what is not in the cache is what    *)
(* the image is at.                                                           *)
CacheRight ==
    OneWayOfCaching /\ "rewound" \notin usage =>
        \A j \in DOMAIN p.cachedFrames : \A n \in DOMAIN p.cachedFrames[j] :
            p.cachedFrames[j][n].frame = n - 1
NumberRight ==
    p.state = "WaitingRead" /\ usage \cap {"cleared", "rewound"} = {} =>
        CurrentHasCache(p) \/ p.number[Image(p)] = p.currentFrameNumber

(* No frame of another palette is cached, unless the cache is given up when   *)
(* the animation ends.                                                        *)
PaletteKnown ==
    Defined =>
        \A j \in DOMAIN p.cachedFrames : \A n \in DOMAIN p.cachedFrames[j] :
            \/ p.cachedFrames[j][n].image \notin Tinted
            \/ p.cachedFrames[j][n].palette = p.palette
            \/ Playing /\ "ClearCacheOnStop" \in p.flags

(* If all images are animated, the player is never beyond the last, and the   *)
(* cache has places for all images up to the current one, none of them empty  *)
(* but the last, or it has all places.                                        *)
PlacesOK ==
    Defined /\ AllAnimated =>
        /\ p.current = Len(p.images) => p.images = <<>>
        /\ OneWayOfCaching /\ p.cachedFrames # <<>> /\ Len(p.cachedFrames) < Len(p.images) =>
              /\ p.current \in 0..(Len(p.cachedFrames) - 1)
              /\ \A j \in 1..(Len(p.cachedFrames) - 1) : p.cachedFrames[j] # <<>>

(* The state is well formed.                                                  *)
PlayerOK ==
    /\ TypeOK /\ TimerDiscipline /\ PositionOK /\ LoopsOK /\ WaysOK
    /\ CacheFits /\ SlotReaches /\ CacheRight /\ NumberRight /\ PaletteKnown /\ PlacesOK

(* readImage returns the frame the player is at, of the image the player is   *)
(* at (the assertions in readImage), from the image itself or from the cache, *)
(* provided the client keeps to one way of caching and no copy of the image   *)
(* was destroyed meanwhile.                                                   *)
ShownRight ==
    p.state = "Running" /\ OneWayOfCaching /\ "rewound" \notin usage =>
        shown.image = Image(p) /\ shown.frame = p.currentFrameNumber

(* When nothing plays, no cached frame has another palette than the player's, *)
(* though setPalette during an animation leaves the cache alone until the end *)
(* and start, stop and abortLoop change the flags that remember it.           *)
PaletteFresh ==
    p.state = "NotRunning" =>
        \A j \in DOMAIN p.cachedFrames :
            \A shot \in {p.cachedFrames[j][n] : n \in DOMAIN p.cachedFrames[j]} :
                shot.image \in Tinted => shot.palette = p.palette

(* A client that keeps to one way of caching, gives images that are all       *)
(* animated, has them played once and does not lower the loop count after     *)
(* abortLoop, which takes loopCount below zero, never makes the player index  *)
(* a vector out of its range.  Each of the four conditions is needed.         *)
DefinedUse ==
    ~Defined =>
        \/ ~OneWayOfCaching
        \/ \E j \in DOMAIN p.images : ~Animated(p.images[j])
        \/ p.userLoopCount > 1
        \/ p.loopCount < 0

(* A timer event leaves a frame for the one beside it, in the direction of    *)
(* play, or that frame was the last of its image: none is skipped, repeated   *)
(* or played after the end of the animation.                                  *)
NoFrameSkipped ==
    [][timerEvent /\ p'.state # "undefined" /\ OneWayOfCaching =>
          \/ p'.current = p.current /\ p'.currentFrameNumber = NextFrame(p)
          \/ p.currentFrameNumber = (IF Reversed(p) THEN 0 ELSE Frames[Image(p)] - 1)
      ]_vars

(* An animation that was interrupted and is started with Continue, forward or *)
(* backward, goes on at the very frame where it was interrupted, whatever was *)
(* called in between and whatever is left of the cache.                       *)
ContinueResumes ==
    [][p.state = "NotRunning" /\ p'.state # "NotRunning"
       /\ paused # Nowhere /\ "Continue" \in p'.flags =>
          /\ p'.state = "WaitingRead"
          /\ p'.current = paused.current
          /\ p'.currentFrameNumber = paused.frame]_vars

(* What is left to play, when nothing is played twice.                        *)
ImagesLeft(q) == IF Reversed(q) THEN q.current ELSE Len(q.images) - 1 - q.current
FramesLeft(q) == IF Reversed(q) THEN q.currentFrameNumber
                 ELSE Frames[Image(q)] - 1 - q.currentFrameNumber

(* After abortLoop, whatever else is called but setLoopCount, each timer event *)
(* finishes the animation or brings its end nearer: no loop of an image or of *)
(* the list goes on.                                                          *)
AbortEndsLoops ==
    [][aborted /\ timerEvent /\ p'.state = "WaitingRead" =>
          \/ ImagesLeft(p') < ImagesLeft(p)
          \/ ImagesLeft(p') = ImagesLeft(p) /\ FramesLeft(p') < FramesLeft(p)
      ]_vars

(* "Returns true if the image being played is in an endless loop" (the        *)
(* documentation of currentLoopForever): a player that plays one image for    *)
(* ever says so in the end.                                                   *)
EndlessLoopIsReported ==
    \A i \in Images :
        <>[](Playing /\ p.images = <<i>>) => <>[]CurrentLoopForever(p)
=============================================================================
