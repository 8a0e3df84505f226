--------------------------- MODULE ImagePlayerOps ---------------------------
(* What the functions of DDciIconImagePlayer do to the player's data, as      *)
(* operators on a record p.  Indices are the code's, from 0; a TLA+ sequence  *)
(* starts at 1.  Out-of-range indexing of a QVector is undefined behaviour:   *)
(* the state becomes "undefined" and nothing is said of what follows.  The    *)
(* debugging variable D_DTK_DCI_PLAYER_IGNORE_ANIMATION_LOOP is not set, and  *)
(* the speed, which only scales the delay between frames, is left out.        *)
EXTENDS Integers, Sequences

CONSTANTS
    Images,   \* the DDciIconImage objects
    Frames,   \* their number of frames, 0 for an image without animation
    Loops,    \* their loopCount(), -1 for endless
    Tinted,   \* the images with a palette
    Palettes  \* the palettes clients use

ASSUME ImagesAssumption ==
    /\ Frames \in [Images -> Nat]
    /\ Loops \in [Images -> Int]
    /\ Tinted \subseteq Images

Flags == {"Continue", "CacheAll", "InvertedOrder", "IgnoreLastImageLoop",
          "AllowNonLastImageLoop", "ClearCacheOnStop"}

Animated(i) == Frames[i] > 0
Shot(i, n, pal) == [image |-> i, frame |-> n, palette |-> pal]

(* The players there can be, and the frames they can have cached.             *)
Shots == [image : Images, frame : Nat, palette : Palettes]
Players ==
    [images : Seq(Images), palette : Palettes,
     state : {"NotRunning", "WaitingRead", "Running", "undefined"},
     flags : SUBSET Flags, userLoopCount : Nat \ {0},
     cachedFrames : Seq(Seq(Shots)), timer : BOOLEAN, loopCount : Int, current : Int,
     currentLoopCount : Int, currentFrameNumber : Int, number : [Images -> Nat]]

NewPlayer(pal) ==
    [images |-> <<>>, palette |-> pal, state |-> "NotRunning", flags |-> {},
     userLoopCount |-> 1, cachedFrames |-> <<>>, timer |-> FALSE,
     loopCount |-> 1, current |-> 0, currentLoopCount |-> 0,
     currentFrameNumber |-> 0,
     number |-> [i \in Images |-> 0]]  \* each image's currentImageNumber()

Undefined(p) == [p EXCEPT !.state = "undefined"]

Reversed(p) == "InvertedOrder" \in p.flags
Toward(p) == IF Reversed(p) THEN -1 ELSE 1
InRange(p) == p.current \in 0..(Len(p.images) - 1)
Image(p) == p.images[p.current + 1]

HasCache(p, i, n) ==
    i + 1 \in DOMAIN p.cachedFrames /\ n + 1 \in DOMAIN p.cachedFrames[i + 1]
CurrentHasCache(p) == HasCache(p, p.current, p.currentFrameNumber)

(* Mutant: an image that is already past frame n is not rewound.              *)
JumpTo_NoRewind(p, n) ==
    LET i == Image(p) IN
    [p EXCEPT !.number[i] = IF n < @ THEN @
                            ELSE IF n < Frames[i] THEN n ELSE Frames[i] - 1]

(* jumpImageTo: the image rewinds if it must, then goes forward as far as n,   *)
(* or to its last frame if there is no frame n.                               *)
JumpTo(p, n) ==
    LET i == Image(p) IN
    [p EXCEPT !.number[i] = IF n < Frames[i] THEN n ELSE Frames[i] - 1]

-----------------------------------------------------------------------------
(* initCurrent *)
CacheMissing(p) ==
    /\ Animated(Image(p)) /\ Reversed(p) /\ p.currentFrameNumber < 0
    /\ p.current >= Len(p.cachedFrames)

FirstFrame(p) ==
    IF p.currentFrameNumber >= 0 THEN p.currentFrameNumber
    ELSE IF Reversed(p) THEN Len(p.cachedFrames[p.current + 1]) - 1 ELSE 0

CanInit(p) ==
    /\ Animated(Image(p))
    /\ \/ HasCache(p, p.current, FirstFrame(p))
       \/ FirstFrame(p) \in 0..(Frames[Image(p)] - 1)

(* How often the current image is played.                                     *)
ImageLoops(p) ==
    LET own == IF Loops[Image(p)] = 0 THEN 1 ELSE Loops[Image(p)]
        last == p.current = Len(p.images) - 1
    IN IF IF last THEN "IgnoreLastImageLoop" \notin p.flags
                  ELSE "AllowNonLastImageLoop" \in p.flags
       THEN own ELSE 1

(* Mutant: off by one.                                                        *)
CacheSlot_TooFew(p) ==
    IF "CacheAll" \in p.flags /\ Len(p.cachedFrames) < p.current
    THEN Append(p.cachedFrames, <<>>) ELSE p.cachedFrames

(* A place for the frames of the current image.                               *)
CacheSlot(p) ==
    IF "CacheAll" \in p.flags /\ Len(p.cachedFrames) <= p.current
    THEN Append(p.cachedFrames, <<>>) ELSE p.cachedFrames

InitCurrent(p) ==
    LET n == FirstFrame(p)
        q == IF HasCache(p, p.current, n) THEN p ELSE JumpTo(p, n)
    IN IF CacheMissing(p) THEN Undefined(p)
       ELSE IF ~CanInit(p) THEN [p EXCEPT !.currentFrameNumber = n]
       ELSE [q EXCEPT !.currentFrameNumber = n,
                      !.currentLoopCount = ImageLoops(p),
                      !.cachedFrames = CacheSlot(p)]

(* ensureCurrent: the nearest image that can be played, from the current one  *)
(* on.  It returns true when the result is InRange.                           *)
At(p, i) == IF i = p.current THEN p
            ELSE [p EXCEPT !.current = i, !.currentFrameNumber = -1]

EnsureCurrent(p) ==
    LET ahead == {i \in 0..(Len(p.images) - 1) :
                      IF Reversed(p) THEN i <= p.current ELSE i >= p.current}
        usable == {i \in ahead : CacheMissing(At(p, i)) \/ CanInit(At(p, i))}
        nearest == CHOOSE i \in usable :
                      \A j \in usable : IF Reversed(p) THEN j <= i ELSE i <= j
    IN IF ~InRange(p) THEN p
       ELSE IF usable = {}
       THEN At(p, IF Reversed(p) THEN -1 ELSE Len(p.images))
       ELSE InitCurrent(At(p, nearest))

-----------------------------------------------------------------------------
ClearCache(p) == [p EXCEPT !.cachedFrames = <<>>]

(* Mutant: the timer is not killed.                                           *)
Stop_KeepTimer(p) ==
    IF p.state = "NotRunning" THEN p
    ELSE [p EXCEPT !.state = "NotRunning",
             !.cachedFrames = IF "ClearCacheOnStop" \in p.flags THEN <<>> ELSE @]

Stop(p) ==
    IF p.state = "NotRunning" THEN p
    ELSE [p EXCEPT !.timer = FALSE, !.state = "NotRunning",
             !.cachedFrames = IF "ClearCacheOnStop" \in p.flags THEN <<>> ELSE @]

(* Images that are given up are rewound by ~DDciIconImage.                    *)
SetImages(p, images) ==
    IF images = p.images THEN p
    ELSE [ClearCache(Stop(p)) EXCEPT
             !.images = images, !.current = -1, !.currentFrameNumber = -1,
             !.number = [i \in Images |->
                 IF \E j \in DOMAIN p.images : p.images[j] = i THEN 0 ELSE @[i]]]

HasPalette(p) == \E i \in DOMAIN p.images : p.images[i] \in Tinted

(* Mutant: nothing is noted when an animation is playing.                     *)
SetPalette_NotMarked(p, pal) ==
    LET q == [p EXCEPT !.palette = pal] IN
    IF pal # p.palette /\ HasPalette(p) /\ p.state = "NotRunning"
    THEN ClearCache(q) ELSE q

(* Returns true when the palette differs.                                     *)
SetPalette(p, pal) ==
    LET q == [p EXCEPT !.palette = pal] IN
    IF pal = p.palette \/ ~HasPalette(p) THEN q
    ELSE IF p.state = "NotRunning" THEN ClearCache(q)
    ELSE [q EXCEPT !.flags = @ \cup {"ClearCacheOnStop"}]

SetLoopCount(p, count) ==
    [p EXCEPT !.userLoopCount = count,
              !.loopCount = IF p.state = "NotRunning" THEN @
                            ELSE @ + (count - p.userLoopCount)]

(* Mutant: the flags that decide later loops are left alone.                  *)
AbortLoop_CountsOnly(p) ==
    IF p.state = "NotRunning" THEN p
    ELSE [p EXCEPT !.currentLoopCount = 0, !.loopCount = 0]

AbortLoop(p) ==
    IF p.state = "NotRunning" THEN p
    ELSE [p EXCEPT !.flags = (@ \cup {"IgnoreLastImageLoop"})
                                 \ {"AllowNonLastImageLoop"},
                   !.currentLoopCount = 0, !.loopCount = 0]

(* currentLoopForever() *)
CurrentLoopForever(p) == p.state # "NotRunning" /\ p.currentLoopCount < 0

-----------------------------------------------------------------------------
(* readImage, up to the start of the timer: the frame it returns, ...         *)
FrameRead(p) ==
    IF CurrentHasCache(p)
    THEN p.cachedFrames[p.current + 1][p.currentFrameNumber + 1]
    ELSE Shot(Image(p), p.number[Image(p)], p.palette)

(* ... and the cache it leaves behind.                                        *)
CacheRead(p) ==
    IF CurrentHasCache(p) \/ "CacheAll" \notin p.flags THEN p
    ELSE IF p.current >= Len(p.cachedFrames) THEN Undefined(p)
    ELSE [p EXCEPT !.cachedFrames[p.current + 1] = Append(@, FrameRead(p))]

(* The timer is started, or cannot be and the animation is stopped.           *)
ReadImage(p, timerStarts) ==
    LET q == CacheRead(p) IN
    IF q.state = "undefined" THEN q
    ELSE IF timerStarts THEN [q EXCEPT !.timer = TRUE, !.state = "Running"]
    ELSE Stop(q)

-----------------------------------------------------------------------------
(* start: the frames of an image, from frame n, are read into its cache.      *)
FramesFrom(p, i, n) ==
    [k \in 1..(IF n < Frames[i] THEN Frames[i] - n ELSE 0) |->
        Shot(i, n + k - 1, p.palette)]

(* The cache of every image whose index is in S is completed.                 *)
FillCache(p, S) ==
    LET cached(j) == IF j \in DOMAIN p.cachedFrames THEN p.cachedFrames[j] ELSE <<>>
    IN [p EXCEPT
           !.cachedFrames = [j \in 1..Len(p.images) |->
               IF j - 1 \in S THEN cached(j) \o FramesFrom(p, p.images[j], Len(cached(j)))
                              ELSE cached(j)],
           !.number = [i \in Images |->
               IF Animated(i) /\ \E k \in S : p.images[k + 1] = i
               THEN Frames[i] - 1 ELSE @[i]]]

PrepareReversed(p) ==
    LET last == Len(p.images) - 1
        cached == Len(p.cachedFrames)
        q == FillCache(p, (cached - 1)..last)
    IN IF cached = 0
       THEN IF p.current > last THEN Undefined(p) ELSE FillCache(p, 0..p.current)
       ELSE IF "Continue" \in p.flags THEN p
       ELSE [q EXCEPT !.currentFrameNumber =
                          Len(q.cachedFrames[q.current + 1]) - 1]

PrepareForward(p) ==
    LET q == IF "Continue" \in p.flags THEN p
             ELSE [p EXCEPT !.current = 0, !.currentFrameNumber = 0]
    IN IF "CacheAll" \notin q.flags \/ q.cachedFrames # <<>>
          \/ (q.current <= 0 /\ q.currentFrameNumber <= 0)
       THEN q
       ELSE IF InRange(q) THEN FillCache(q, {q.current}) ELSE Undefined(q)

(* Mutant: Continue goes on with the first image.                             *)
StartAt_First(p, flags) ==
    IF "InvertedOrder" \in flags THEN Len(p.images) - 1 ELSE 0

(* The image to begin with.                                                   *)
StartAt(p, flags) ==
    IF "Continue" \in flags /\ p.current >= 0 THEN p.current
    ELSE IF "InvertedOrder" \in flags THEN Len(p.images) - 1 ELSE 0

(* start returns true when the result is not "NotRunning".                    *)
Start(p, flags) ==
    LET q == [p EXCEPT
                !.flags = flags \cup (IF "InvertedOrder" \in flags THEN {"CacheAll"} ELSE {}),
                !.current = StartAt(p, flags)]
        r == IF Reversed(q) THEN PrepareReversed(q) ELSE PrepareForward(q)
        e == EnsureCurrent([r EXCEPT !.loopCount = r.userLoopCount])
    IN IF p.state # "NotRunning" \/ p.images = <<>> THEN p
       ELSE IF r.state = "undefined" THEN r
       ELSE IF e.state = "undefined" \/ ~InRange(e) THEN e
       ELSE [e EXCEPT !.state = "WaitingRead"]

-----------------------------------------------------------------------------
(* timerEvent: the next frame of the current image, ...                       *)
NextFrame(p) == p.currentFrameNumber + Toward(p)

(* Mutant: off by one.                                                        *)
HasNextFrame_Short(p) ==
    \/ HasCache(p, p.current, NextFrame(p))
    \/ ~Reversed(p) /\ NextFrame(p) < Frames[Image(p)] - 1

HasNextFrame(p) ==
    \/ HasCache(p, p.current, NextFrame(p))
    \/ ~Reversed(p) /\ NextFrame(p) < Frames[Image(p)]

AdvanceFrame(p) ==
    [(IF HasCache(p, p.current, NextFrame(p)) THEN p ELSE JumpTo(p, NextFrame(p)))
        EXCEPT !.currentFrameNumber = NextFrame(p)]

(* ... the current image again, ...                                           *)
Replay(p) ==
    InitCurrent([p EXCEPT !.currentLoopCount = @ - 1, !.currentFrameNumber = -1])

(* ... the nearest image after it, ...                                        *)
HasNextImage(p) == p.current + Toward(p) \in 0..(Len(p.images) - 1)
NextImage(p) ==
    EnsureCurrent([p EXCEPT !.currentLoopCount = 0, !.currentFrameNumber = -1,
                            !.current = @ + Toward(p)])

(* ... or all the images again, from the first one to be played.              *)
PlayAgain(p) ==
    EnsureCurrent([p EXCEPT
        !.loopCount = @ - 1, !.currentFrameNumber = -1,
        !.current = IF Reversed(p) THEN Len(p.images) - 1 ELSE 0])

(* After its last frame an image is followed by the first of these that       *)
(* applies; the animation is finished when none does.                         *)
TimerEvent(p) ==
    LET e == [p EXCEPT !.timer = FALSE]
        q == IF Reversed(p) THEN e ELSE JumpTo(e, NextFrame(e))
        next == NextImage(q)
        over == IF HasNextImage(q) THEN next ELSE [q EXCEPT !.currentLoopCount = 0]
        again == PlayAgain(over)
        Waiting(r) == IF r.state = "undefined" THEN r
                      ELSE [r EXCEPT !.state = "WaitingRead"]
    IN IF HasNextFrame(e) THEN Waiting(AdvanceFrame(e))
       ELSE IF q.currentLoopCount \notin {0, 1} THEN Waiting(Replay(q))
       ELSE IF InRange(next) THEN Waiting(next)
       ELSE IF q.loopCount \in {0, 1} THEN Stop([over EXCEPT !.loopCount = 0])
       ELSE IF InRange(again) THEN Waiting(again) ELSE Stop(again)
=============================================================================
