-------------------------- MODULE IconPlayer_proofs --------------------------
(* Machine-checked proofs about DciIconPlayer and the image player it plays   *)
(* with, from the lemmas about image players.                                 *)
EXTENDS ImagePlayer_proofs, DciIconPlayer

-----------------------------------------------------------------------------
(* The icon player.  Its image player: its images are animated, one or two,   *)
(* they are played once, and two are never played without being cached.       *)
Sound(q) ==
    /\ q \in Players /\ Fits(q) /\ Placed(q)
    /\ q.userLoopCount = 1 /\ q.state # "undefined"
    /\ q.timer = (q.state = "Running")
    /\ Len(q.images) <= 2
    /\ q.images # <<>> => q.current < Len(q.images)
    /\ q.cachedFrames # <<>> /\ Len(q.cachedFrames) < Len(q.images) =>
          q.current \in 0..(Len(q.cachedFrames) - 1)
    /\ q.current < 0 /\ q.cachedFrames # <<>> => q.cachedFrames[Len(q.images)] # <<>>
    /\ q.state # "NotRunning" =>
          /\ InRange(q) /\ q.loopCount \in {0, 1}
          /\ Len(q.images) = 2 \/ Reversed(q) => "CacheAll" \in q.flags
          /\ "CacheAll" \in q.flags => q.current < Len(q.cachedFrames)
    /\ q.state = "Running" /\ "CacheAll" \in q.flags => q.cachedFrames[q.current + 1] # <<>>

(* What is asked for leads from a mode to another, but for the first time.     *)
Leads(from, to) == from # to \/ to = "Normal"
Jobs == {job \in [from : Modes, to : Modes] : Leads(job.from, job.to)}
IconFields ==
    {"player", "look", "loaded", "load", "mode", "lastMode", "state", "animationJobs",
     "saveImageForHoverModeOnFinished", "image", "finishedImage", "hoverModeLastImage"}

(* An icon player in the midst of a step.                                     *)
IconOK(e) ==
    /\ DOMAIN e = IconFields
    /\ Sound(e.player)
    /\ e.look \in Looks /\ e.loaded \in BOOLEAN /\ e.load \in {0, 1}
    /\ e.mode \in Modes /\ e.lastMode \in Modes /\ e.state \in {"Idle", "Busy"}
    /\ e.animationJobs \in Seq(Jobs) /\ Leads(e.lastMode, e.mode)
    /\ IsPlaying(e) => e.state = "Busy" /\ e.loaded

(* ... and at the end of one: it has read its frame.                          *)
Settled(e) == IconOK(e) /\ e.player.state \in {"NotRunning", "Running"}

(* Each job begins where the one before it ends, and the last leads to m.     *)
Chained(jobs, m) ==
    /\ \A k \in DOMAIN jobs : k > 1 => jobs[k].from = jobs[k - 1].to
    /\ jobs # <<>> => jobs[Len(jobs)].to = m

(* The calls in the event loop, with the flags of each.                       *)
CallsOK(cs) == cs \in Seq(SUBSET Flags) /\ Len(cs) <= MaxCalls

IconInv ==
    /\ Settled(d) /\ CallsOK(calls)
    /\ Len(d.animationJobs) <= MaxJobs
    /\ meddled \subseteq Meddling
    /\ Clean({"restyled", "recoloured"}) => Chained(d.animationJobs, d.mode)

LEMMA SoundIs ==
    ASSUME NEW q, Sound(q)
    PROVE /\ q \in Players /\ Fits(q) /\ Placed(q) /\ q.userLoopCount = 1
          /\ q.images \in Seq(Images) /\ Len(q.images) \in Nat /\ ~SomeStill(q)
          /\ q.cachedFrames \in Seq(Seq(Shots)) /\ Len(q.cachedFrames) \in Nat
          /\ Len(q.cachedFrames) <= Len(q.images) /\ q.current \in Int
          /\ q.images # <<>> => q.current # Len(q.images)
          /\ q.flags \in SUBSET Flags
  <1>1. q \in Players /\ Fits(q) /\ Placed(q) /\ q.userLoopCount = 1
    BY DEF Sound
  <1>2. /\ q.images \in Seq(Images) /\ q.cachedFrames \in Seq(Seq(Shots)) /\ q.current \in Int
        /\ q.flags \in SUBSET Flags
    BY <1>1 DEF Players
  <1>3. ~SomeStill(q)
    BY <1>2, IconAssumption, ImagesAssumption DEF SomeStill, Animated
  <1>4. q.images # <<>> => q.current # Len(q.images)
    BY <1>2 DEF Sound
  <1> QED BY <1>1, <1>2, <1>3, <1>4 DEF Fits

LEMMA SameLength ==
    ASSUME NEW S, NEW b \in Seq(S), NEW c \in Seq(S), DOMAIN b = DOMAIN c
    PROVE Len(b) = Len(c)
  <1> DEFINE m == Len(b)
             n == Len(c)
  <1>1. m \in Nat /\ n \in Nat /\ 1..m = 1..n
    OBVIOUS
  <1> HIDE DEF m, n
  <1>2. ~(m < n)
    <2>1. m < n => n \in 1..n /\ n \notin 1..m
      BY <1>1
    <2> QED BY <1>1, <2>1
  <1>3. ~(n < m)
    <2>1. n < m => m \in 1..m /\ m \notin 1..n
      BY <1>1
    <2> QED BY <1>1, <2>1
  <1>4. m = n
    BY <1>1, <1>2, <1>3
  <1> QED BY <1>4 DEF m, n

(* An image can be played whose frames are all cached, ...                    *)
LEMMA FilledIsUsable ==
    ASSUME NEW q \in Players, Fits(q), Reversed(q), NEW i \in 0..(Len(q.images) - 1),
           i = q.current => q.currentFrameNumber < 0, Frames[q.images[i + 1]] > 0,
           i + 1 \in DOMAIN q.cachedFrames, q.cachedFrames[i + 1] # <<>>
    PROVE Usable(q, i)
  <1> DEFINE a == At(q, i)
  <1>1. i \in Int
    <2>1. Len(q.images) \in Nat
      BY DEF Players
    <2> QED BY <2>1
  <1>2. /\ a \in Players /\ Same(q, a) /\ a.current = i /\ a.cachedFrames = q.cachedFrames
        /\ a.currentFrameNumber < 0
    <2>1. a.currentFrameNumber = IF i = q.current THEN q.currentFrameNumber ELSE -1
      BY <1>1, AtIs
    <2>2. a.currentFrameNumber < 0
      BY <2>1
    <2> HIDE DEF a
    <2> QED BY <1>1, <2>2, AtIs DEF a
  <1>3. At(a, i) = a
    BY <1>2 DEF At
  <1> HIDE DEF a
  <1>4. InRange(a) /\ Fits(a) /\ Reversed(a) /\ Image(a) = q.images[i + 1]
    BY <1>2 DEF InRange, Fits, Reversed, Same, Image
  <1>5. Usable(a, a.current)
    BY <1>2, <1>4, UsableIs DEF Animated
  <1> QED BY <1>2, <1>3, <1>5 DEF Usable, a

(* ... and start finds one: it does not return without playing.               *)
LEMMA StartSucceeds ==
    ASSUME NEW q, Sound(q), q.state = "NotRunning", q.images # <<>>, NEW flags \in SUBSET Flags
    PROVE Start(q, flags).state # "NotRunning"
  <1> DEFINE N == Len(q.images)
             F == flags \cup (IF "InvertedOrder" \in flags THEN {"CacheAll"} ELSE {})
             s == Begun(q, flags)
             t == Prepared(s)
             u == [t EXCEPT !.loopCount = t.userLoopCount]
             e == EnsureCurrent(u)
             r == Start(q, flags)
  <1>1. /\ q \in Players /\ Fits(q) /\ Placed(q) /\ N \in Nat /\ N \in {1, 2}
        /\ Len(q.cachedFrames) \in Nat /\ Len(q.cachedFrames) <= N /\ q.current \in Int
        /\ q.current \in -1..(N - 1) /\ q.images \in Seq(Images)
        /\ q.current < 0 => q.currentFrameNumber = -1
        /\ q.current >= 0 => InRange(q) /\ q.currentFrameNumber \in 0..(Frames[Image(q)] - 1)
        /\ q.cachedFrames # <<>> /\ q.current < 0 =>
              Len(q.cachedFrames) = N /\ q.cachedFrames[N] # <<>>
    <2>1. /\ q \in Players /\ Fits(q) /\ Placed(q) /\ N \in Nat /\ q.images \in Seq(Images)
          /\ Len(q.cachedFrames) \in Nat /\ Len(q.cachedFrames) <= N /\ q.current \in Int
      BY SoundIs
    <2>2. N > 0 /\ N <= 2 /\ q.current < N /\ q.current \in -1..N
      BY <2>1 DEF Sound, Placed
    <2>3. N \in {1, 2} /\ q.current \in -1..(N - 1)
      <3> HIDE DEF N
      <3> QED BY <2>1, <2>2
    <2> QED BY <2>1, <2>3 DEF Sound, Placed, InRange
  <1>2. r = IF t.state = "undefined" THEN t
            ELSE IF e.state = "undefined" \/ ~InRange(e) THEN e ELSE [e EXCEPT !.state = "WaitingRead"]
    BY DEF Start, Begun, Prepared
  <1>3. /\ s \in Players /\ s.images = q.images /\ s.cachedFrames = q.cachedFrames
        /\ s.currentFrameNumber = q.currentFrameNumber /\ s.state = "NotRunning"
        /\ s.flags = F /\ s.current = StartAt(q, flags)
    BY <1>1, BegunIs
  <1> HIDE DEF s
  <1>4. /\ Reversed(s) <=> "InvertedOrder" \in flags
        /\ "Continue" \in F <=> "Continue" \in flags
        /\ Reversed(s) => "CacheAll" \in F
    BY <1>3 DEF Reversed
  <1>5. /\ s.current \in 0..(N - 1) /\ s.current \in 0..Len(s.images) /\ s.current # Len(s.images)
        /\ s.current = IF "Continue" \in flags /\ q.current >= 0 THEN q.current
                       ELSE IF Reversed(s) THEN N - 1 ELSE 0
    BY <1>1, <1>3, <1>4 DEF StartAt
  <1>6. Fits(s) /\ s.images # <<>>
    BY <1>1, <1>3 DEF Fits
  <1>7. /\ t \in Players /\ Same(s, t) /\ Fits(t) /\ t.state = "NotRunning"
        /\ t.current = (IF "Continue" \in flags \/ Reversed(s) THEN s.current ELSE 0)
        /\ "Continue" \in flags => t.currentFrameNumber = s.currentFrameNumber
        /\ ~Reversed(s) /\ "Continue" \notin flags => t.currentFrameNumber = 0
        /\ \/ /\ t.cachedFrames = s.cachedFrames
              /\ Reversed(s) => "Continue" \in flags /\ s.cachedFrames # <<>>
           \/ /\ Len(t.cachedFrames) = Len(s.images)
              /\ Len(t.cachedFrames[t.current + 1]) = Frames[Image(t)]
    BY <1>3, <1>4, <1>5, <1>6, PreparedIs
  <1>8. /\ u \in Players /\ Same(s, u) /\ Fits(u) /\ u.state = "NotRunning"
        /\ u.cachedFrames = t.cachedFrames /\ u.current = t.current
        /\ u.currentFrameNumber = t.currentFrameNumber
    <2>1. t.userLoopCount \in Int
      BY <1>7 DEF Players
    <2>2. /\ u \in Players /\ Same(t, u) /\ u.state = t.state
          /\ u.cachedFrames = t.cachedFrames /\ u.current = t.current
          /\ u.currentFrameNumber = t.currentFrameNumber
      BY <1>7, <2>1 DEF Players, Same
    <2> HIDE DEF t, u
    <2> QED BY <1>7, <2>2 DEF Fits, Same
  <1>9. /\ u.images = q.images /\ (Reversed(u) <=> Reversed(s)) /\ u.current = s.current
        /\ u.current \in 0..(N - 1) /\ InRange(u) /\ Image(u) = q.images[u.current + 1]
        /\ Image(u) = Image(t) /\ u.current \in Int
    BY <1>1, <1>3, <1>5, <1>7, <1>8 DEF Same, Reversed, InRange, Image
  <1>10. \A k \in 1..N : Frames[q.images[k]] \in Nat /\ Frames[q.images[k]] > 0
    BY <1>1, IconAssumption, ImagesAssumption
  <1>11. Frames[Image(u)] \in Nat /\ Frames[Image(u)] > 0 /\ u.current + 1 \in 1..N
    BY <1>1, <1>9, <1>10
  <1>12. \E i \in 0..(Len(u.images) - 1) : Ahead(u, i) /\ Usable(u, i)
    <2>1. Ahead(u, u.current) /\ u.current \in 0..(Len(u.images) - 1)
      BY <1>9 DEF Ahead
    <2>2. CASE "Continue" \in flags /\ q.current >= 0
      <3>1. u.current = q.current /\ u.currentFrameNumber = q.currentFrameNumber
        BY <1>3, <1>5, <1>7, <1>8, <1>9, <2>2
      <3>2. Image(u) = Image(q)
        BY <1>9, <3>1 DEF Image
      <3>3. Usable(u, u.current)
        BY <1>1, <1>8, <1>9, <2>2, <3>1, <3>2, UsableIs
      <3> QED BY <2>1, <3>3
    <2>3. CASE ~("Continue" \in flags /\ q.current >= 0) /\ ~Reversed(s)
      <3>1. u.currentFrameNumber \in {-1, 0}
        BY <1>1, <1>3, <1>7, <1>8, <2>3
      <3>2. Usable(u, u.current)
        BY <1>8, <1>9, <1>11, <2>3, <3>1, UsableIs DEF Animated
      <3> QED BY <2>1, <3>2
    <2>4. CASE ~("Continue" \in flags /\ q.current >= 0) /\ Reversed(s)
      <3>1. u.current = N - 1
        BY <1>5, <1>9, <2>4
      <3>2. u.cachedFrames \in Seq(Seq(Shots)) /\ u.cachedFrames = t.cachedFrames
        BY <1>8 DEF Players
      (* The frames of the last image are cached.                             *)
      <3>3. /\ u.current + 1 \in DOMAIN u.cachedFrames /\ u.cachedFrames[u.current + 1] # <<>>
            /\ \/ "Continue" \in flags
               \/ Len(u.cachedFrames[u.current + 1]) = Frames[Image(u)]
        <4>1. CASE /\ t.cachedFrames = s.cachedFrames
                   /\ "Continue" \in flags /\ s.cachedFrames # <<>>
          BY <1>1, <1>3, <1>8, <2>4, <3>1, <4>1
        <4>2. CASE /\ Len(t.cachedFrames) = Len(s.images)
                   /\ Len(t.cachedFrames[t.current + 1]) = Frames[Image(t)]
          <5>1. Len(u.cachedFrames) = N /\ Len(u.cachedFrames[u.current + 1]) = Frames[Image(u)]
            BY <1>3, <1>8, <1>9, <4>2
          <5>2. u.current + 1 \in DOMAIN u.cachedFrames
            BY <1>11, <3>2, <5>1
          <5> QED BY <1>11, <5>1, <5>2
        <4> QED BY <1>7, <2>4, <4>1, <4>2
      <3>4. CASE u.currentFrameNumber < 0
        <4>1. Usable(u, u.current)
          BY <1>8, <1>9, <1>11, <2>4, <3>3, <3>4, FilledIsUsable
        <4> QED BY <2>1, <4>1
      <3>5. CASE ~(u.currentFrameNumber < 0)
        <4>1. q.current >= 0 \/ "Continue" \notin flags
          BY <1>1, <1>3, <1>7, <1>8, <3>5
        <4>2. "Continue" \notin flags
          BY <2>4, <4>1
        <4>3. u.currentFrameNumber \in Int
          BY <1>8 DEF Players
        <4>4. t = PrepareReversed(s) /\ "Continue" \notin s.flags
          BY <1>3, <1>4, <2>4, <4>2 DEF Prepared
        <4>5. CASE Len(s.cachedFrames) # 0
          <5> DEFINE z == FillCache(s, (Len(s.cachedFrames) - 1)..(Len(s.images) - 1))
          <5>1. t = [z EXCEPT !.currentFrameNumber = Len(z.cachedFrames[z.current + 1]) - 1]
            BY <4>4, <4>5 DEF PrepareReversed
          <5>2. z \in Players
            <6> DEFINE S == (Len(s.cachedFrames) - 1)..(Len(s.images) - 1)
            <6>1. S \in SUBSET Int
              BY <1>1, <1>3
            <6> HIDE DEF S
            <6> QED BY <1>3, <1>6, <6>1, FillCacheIs DEF S
          <5> HIDE DEF z
          <5>3. t.currentFrameNumber = Len(t.cachedFrames[t.current + 1]) - 1
            BY <5>1, <5>2 DEF Players
          <5>4. u.currentFrameNumber \in 0..(Frames[Image(u)] - 1)
            BY <1>8, <1>11, <3>3, <4>2, <5>3
          <5>5. Usable(u, u.current)
            BY <1>8, <1>9, <5>4, UsableIs
          <5> QED BY <2>1, <5>5
        <4>6. CASE Len(s.cachedFrames) = 0
          <5>1. t = FillCache(s, 0..s.current)
            BY <1>5, <4>4, <4>6 DEF PrepareReversed
          <5>2. /\ t.currentFrameNumber = s.currentFrameNumber
                /\ \A i \in 0..s.current : i + 1 \in 1..Len(s.images) =>
                       Len(t.cachedFrames[i + 1]) = Frames[s.images[i + 1]]
                /\ Len(t.cachedFrames) = Len(s.images)
            <6> DEFINE S == 0..s.current
            <6>1. S \in SUBSET Int /\ \A i \in 0..s.current : i \in S
              BY <1>1, <1>5
            <6> HIDE DEF S
            <6> QED BY <1>3, <1>6, <5>1, <6>1, FillCacheIs, ZenonT(40) DEF S
          <5>3. q.current \in 0..(N - 1) /\ u.currentFrameNumber = q.currentFrameNumber
            BY <1>1, <1>3, <1>8, <3>5, <5>2
          <5>4. CASE q.current = N - 1
            <6>1. Image(u) = Image(q)
              BY <1>9, <3>1, <5>4 DEF Image
            <6>2. u.currentFrameNumber \in 0..(Frames[Image(u)] - 1)
              BY <1>1, <5>3, <6>1
            <6>3. Usable(u, u.current)
              BY <1>8, <1>9, <6>2, UsableIs
            <6> QED BY <2>1, <6>3
          <5>5. CASE q.current # N - 1
            <6>1. N = 2 /\ u.current = 1 /\ s.current = 1 /\ Len(s.images) = 2
              BY <1>1, <1>3, <1>9, <3>1, <5>3, <5>5
            <6>2. 0 \in 0..(Len(u.images) - 1) /\ Ahead(u, 0) /\ 0 # u.current /\ 0 + 1 = 1
              BY <1>9, <2>4, <6>1 DEF Ahead
            <6>3. 0 \in 0..s.current /\ 1 \in 1..Len(s.images)
              BY <6>1
            <6>4. Len(u.cachedFrames[1]) = Frames[q.images[1]] /\ Len(u.cachedFrames) = 2
              BY <1>3, <3>2, <5>2, <6>1, <6>2, <6>3
            <6>5. 1 \in DOMAIN u.cachedFrames
              BY <3>2, <6>4
            <6>6. Frames[u.images[1]] > 0 /\ u.cachedFrames[1] # <<>>
              BY <1>1, <1>9, <1>10, <6>1, <6>4
            <6>7. Usable(u, 0)
              BY <1>8, <1>9, <2>4, <6>2, <6>5, <6>6, FilledIsUsable
            <6> QED BY <6>2, <6>7
          <5> QED BY <5>4, <5>5
        <4> QED BY <4>5, <4>6
      <3> QED BY <3>4, <3>5
    <2> QED BY <2>2, <2>3, <2>4
  <1>13. e.state = "undefined" \/ InRange(e)
    <2> HIDE DEF u
    <2> QED BY <1>8, <1>9, <1>12, EnsureCurrentIs DEF AtFrame, HasFrame
  <1>14. e \in Players
    <2> HIDE DEF u
    <2> QED BY <1>8, <1>9, EnsureCurrentIs
  <1> HIDE DEF e, t
  <1> QED BY <1>2, <1>7, <1>13, <1>14 DEF Players

LEMMA StartKeepsSound ==
    ASSUME NEW q, Sound(q), q.state = "NotRunning", q.images # <<>>, NEW flags \in SUBSET Flags,
           Len(q.images) = 2 => flags \cap {"CacheAll", "InvertedOrder"} # {}
    PROVE LET r == Start(q, flags) IN
          Sound(r) /\ r.state = "WaitingRead" /\ r.palette = q.palette
  <1> DEFINE r == Start(q, flags)
             N == Len(q.images)
             c == q.cachedFrames
  <1>1. /\ q \in Players /\ Fits(q) /\ Placed(q) /\ q.userLoopCount = 1 /\ N \in Nat /\ ~SomeStill(q)
        /\ Len(c) \in Nat /\ Len(c) <= N /\ q.current \in Int /\ q.current # N /\ N <= 2
        /\ q.timer = FALSE /\ q.images \in Seq(Images)
    BY SoundIs DEF Sound
  <1>2. /\ r \in Players /\ r.images = q.images /\ r.palette = q.palette
        /\ r.userLoopCount = 1 /\ r.timer = FALSE
        /\ r.flags = flags \cup (IF "InvertedOrder" \in flags THEN {"CacheAll"} ELSE {})
        /\ Fits(r) /\ r.current \in -1..Len(r.images)
        /\ Len(c) <= Len(r.cachedFrames)
        /\ StartFails(q, r, flags) \/ StartIdles(q, r) \/ StartPlays(q, r, flags)
    BY <1>1, StartIs
  <1>8. r.state # "NotRunning"
    BY StartSucceeds
  <1> HIDE DEF r
  <1>3. /\ N = Len(r.images) /\ r.cachedFrames \in Seq(Seq(Shots)) /\ Len(r.cachedFrames) \in Nat
        /\ Len(r.cachedFrames) <= N /\ r.current \in Int /\ r.images \in Seq(Images)
    BY <1>1, <1>2 DEF Players, Fits
  <1>4. c # <<>> => (InRange(q) /\ q.current < Len(c)) \/ Len(c) = N
    BY <1>1 DEF Sound, InRange
  <1>5. c # <<>> => Len(c) > 0
    BY <1>1, SoundIs
  <1>6. r.cachedFrames # <<>> => Len(r.cachedFrames) > 0
    BY <1>3
  <1>7. ~StartFails(q, r, flags)
    BY <1>1, <1>4 DEF StartFails
  <1>9. ASSUME StartPlays(q, r, flags) PROVE Sound(r) /\ r.state = "WaitingRead"
    <2>1. /\ r.state = "WaitingRead" /\ InRange(r) /\ r.loopCount = 1
          /\ r.currentFrameNumber \in 0..(Frames[Image(r)] - 1)
          /\ "CacheAll" \in r.flags => r.cachedFrames # <<>>
      BY <1>1, <1>9 DEF StartPlays, AtFrame, HasFrame
    <2>2. r.current \in 0..(N - 1)
      BY <1>2, <2>1 DEF InRange
    <2>3. r.cachedFrames # <<>> => r.current < Len(r.cachedFrames)
      <3>1. \/ Len(r.cachedFrames) = N \/ r.cachedFrames = <<>>
            \/ c = <<>> /\ r.current = 0 /\ Len(r.cachedFrames) = 1
            \/ /\ c # <<>>
               /\ InRange(q) => r.current \in {0, q.current}
        BY <1>1, <1>9 DEF StartPlays
      <3> QED BY <1>1, <1>2, <1>3, <1>4, <1>5, <1>6, <2>2, <3>1
    <2>4. Placed(r)
      BY <1>2, <2>1, <2>2 DEF Placed
    <2>5. Len(r.images) = 2 \/ Reversed(r) => "CacheAll" \in r.flags
      BY <1>2 DEF Reversed
    <2>6. /\ r.images # <<>> => r.current < Len(r.images)
          /\ r.cachedFrames # <<>> /\ Len(r.cachedFrames) < Len(r.images) =>
                r.current \in 0..(Len(r.cachedFrames) - 1)
          /\ "CacheAll" \in r.flags => r.current < Len(r.cachedFrames)
          /\ Len(r.images) <= 2
      BY <1>1, <1>3, <2>1, <2>2, <2>3
    <2>7. r.timer = (r.state = "Running")
      BY <1>2, <2>1
    <2>8. ~(r.current < 0)
      BY <1>1, <2>2
    <2> QED BY <1>2, <2>1, <2>4, <2>5, <2>6, <2>7, <2>8 DEF Sound
  <1> QED BY <1>2, <1>7, <1>8, <1>9 DEF StartIdles, r

LEMMA ReadKeepsSound ==
    ASSUME NEW q, Sound(q), q.state = "WaitingRead"
    PROVE LET r == ReadImage(q, TRUE) IN
          Sound(r) /\ r.state = "Running" /\ r.palette = q.palette /\ r.images = q.images
  <1> DEFINE r == ReadImage(q, TRUE)
             c == q.cachedFrames
             k == q.current + 1
  <1>1. /\ q \in Players /\ Fits(q) /\ Placed(q) /\ q.userLoopCount = 1
        /\ Len(q.images) \in Nat /\ Len(q.images) <= 2
        /\ c \in Seq(Seq(Shots)) /\ Len(c) \in Nat /\ Len(c) <= Len(q.images) /\ q.current \in Int
        /\ q.images \in Seq(Images)
    BY SoundIs DEF Sound
  <1>2. /\ InRange(q) /\ q.loopCount \in {0, 1}
        /\ Len(q.images) = 2 \/ Reversed(q) => "CacheAll" \in q.flags
        /\ "CacheAll" \in q.flags => q.current < Len(c)
        /\ c # <<>> /\ Len(c) < Len(q.images) => q.current \in 0..(Len(c) - 1)
        /\ q.currentFrameNumber \in 0..(Frames[Image(q)] - 1)
    BY <1>1 DEF Sound, Placed
  <1>3. /\ r \in Players /\ Same(q, r) /\ Fits(r)
        /\ r.current = q.current /\ r.currentFrameNumber = q.currentFrameNumber
        /\ r.loopCount = q.loopCount
        /\ \/ "CacheAll" \in q.flags /\ Len(c) <= q.current
           \/ r.state = "Running" /\ r.timer = TRUE /\ CachedAt(q, r.cachedFrames)
    BY <1>1, <1>2, ReadIs
  <1> HIDE DEF r
  <1>4. r.state = "Running" /\ r.timer = TRUE /\ CachedAt(q, r.cachedFrames)
    BY <1>1, <1>2, <1>3
  <1>5. r.cachedFrames \in Seq(Seq(Shots)) /\ Len(r.cachedFrames) = Len(c)
    <2>1. r.cachedFrames \in Seq(Seq(Shots))
      BY <1>3 DEF Players
    <2>2. DOMAIN r.cachedFrames = DOMAIN c
      BY <1>4 DEF CachedAt
    <2>3. Len(r.cachedFrames) = Len(c)
      BY <1>1, <2>1, <2>2, SameLength
    <2> QED BY <2>1, <2>3
  <1>6. "CacheAll" \in q.flags => r.cachedFrames[k] # <<>>
    <2>1. SUFFICES ASSUME "CacheAll" \in q.flags PROVE r.cachedFrames[k] # <<>>
      OBVIOUS
    <2>2. k \in 1..Len(c) /\ c[k] \in Seq(Shots)
      BY <1>1, <1>2, <2>1 DEF InRange
    <2>3. CASE r.cachedFrames = c /\ CurrentHasCache(q)
      <3>1. q.currentFrameNumber + 1 \in DOMAIN c[k]
        BY <2>3 DEF CurrentHasCache, HasCache
      <3> QED BY <2>2, <2>3, <3>1
    <2>4. CASE r.cachedFrames[k] = Append(c[k], FrameRead(q))
      <3>1. FrameRead(q) \in Shots
        BY <1>1, <1>2, FrameReadIs
      <3> QED BY <2>2, <2>4, <3>1
    <2> QED BY <1>4, <2>1, <2>2, <2>3, <2>4 DEF CachedAt
  <1>7. InRange(r) /\ Placed(r)
    BY <1>1, <1>2, <1>3 DEF Same, InRange, Placed, Image
  <1>8. r.cachedFrames # <<>> => c # <<>>
    BY <1>1, <1>5
  <1>9. ~(r.current < 0)
    BY <1>1, <1>2, <1>3 DEF InRange
  <1> QED BY <1>1, <1>2, <1>3, <1>4, <1>5, <1>6, <1>7, <1>8, <1>9 DEF Sound, Same, Reversed, r

LEMMA StopKeepsSound ==
    ASSUME NEW q, Sound(q)
    PROVE LET r == Stop(q) IN
          /\ Sound(r) /\ r.state = "NotRunning" /\ r.palette = q.palette /\ r.images = q.images
  <1> DEFINE r == Stop(q)
  <1>1. CASE q.state = "NotRunning"
    BY <1>1 DEF Stop
  <1>2. CASE q.state # "NotRunning"
    <2>1. q \in Players /\ Fits(q) /\ Placed(q)
      BY SoundIs
    <2>2. /\ r \in Players /\ Same(q, r) /\ Fits(r)
          /\ r.state = "NotRunning" /\ r.timer = FALSE
          /\ r.current = q.current /\ r.currentFrameNumber = q.currentFrameNumber
          /\ r.cachedFrames = (IF "ClearCacheOnStop" \in q.flags THEN <<>> ELSE q.cachedFrames)
          /\ InRange(r) <=> InRange(q)
      BY <1>2, <2>1, StopIs
    <2> HIDE DEF r
    <2>3. Placed(r)
      BY <2>1, <2>2 DEF Same, Placed, Image
    <2> QED BY <2>2, <2>3 DEF Sound, Same, r
  <1> QED BY <1>1, <1>2

LEMMA ClearCacheKeepsSound ==
    ASSUME NEW q, Sound(q), q.state = "NotRunning"
    PROVE LET r == ClearCache(q) IN Sound(r) /\ r.state = "NotRunning" /\ r.palette = q.palette
  <1> DEFINE r == ClearCache(q)
  <1>1. q \in Players /\ Placed(q)
    BY SoundIs
  <1>2. /\ r \in Players /\ StaysPut(q, r) /\ Same(q, r) /\ r.state = q.state /\ r.timer = q.timer
        /\ r.cachedFrames = <<>>
    BY <1>1, ClearCacheIs
  <1> HIDE DEF r
  <1>3. Fits(r)
    BY <1>1, <1>2, EmptyFits
  <1>4. Placed(r)
    BY <1>1, <1>2 DEF StaysPut, Placed, InRange, Image
  <1> QED BY <1>2, <1>3, <1>4 DEF Sound, Same, StaysPut, r

LEMMA SetImagesKeepsSound ==
    ASSUME NEW q, Sound(q), q.state = "NotRunning", NEW images \in Seq(Images),
           Len(images) \in {1, 2}
    PROVE LET r == SetImages(q, images) IN
          /\ Sound(r) /\ r.state = "NotRunning" /\ r.palette = q.palette /\ r.images = images
  <1> DEFINE r == SetImages(q, images)
  <1>1. CASE images = q.images
    BY <1>1 DEF SetImages
  <1>2. CASE images # q.images
    <2>1. q \in Players /\ Fits(q) /\ q.timer = FALSE /\ q.userLoopCount = 1
      BY SoundIs DEF Sound
    <2>2. /\ r \in Players /\ r.state = "NotRunning" /\ r.timer = FALSE /\ r.images = images
          /\ r.current = -1 /\ r.currentFrameNumber = -1 /\ r.cachedFrames = <<>>
          /\ r.palette = q.palette /\ r.userLoopCount = q.userLoopCount
      BY <1>2, <2>1, SetImagesIs
    <2> HIDE DEF r
    <2>3. Fits(r)
      BY <2>1, <2>2, EmptyFits
    <2>4. Placed(r)
      BY <2>2 DEF Placed, InRange
    <2>5. Len(r.images) <= 2 /\ r.current < Len(r.images)
      <3> DEFINE n == Len(images)
      <3>1. n = 1 \/ n = 2
        OBVIOUS
      <3> HIDE DEF n
      <3>2. n <= 2 /\ -1 < n
        BY <3>1
      <3> QED BY <2>2, <3>2 DEF n
    <2>6. r.timer = (r.state = "Running")
      BY <2>2
    <2>7. Sound(r)
      BY <2>1, <2>2, <2>3, <2>4, <2>5, <2>6 DEF Sound
    <2> QED BY <2>2, <2>7 DEF r
  <1> QED BY <1>1, <1>2

LEMMA RewindingKeepsSound ==
    ASSUME NEW q, Sound(q), NEW number \in [Images -> Nat]
    PROVE LET r == [q EXCEPT !.number = number] IN
          /\ Sound(r) /\ r.state = q.state /\ r.palette = q.palette /\ r.images = q.images
  <1> DEFINE r == [q EXCEPT !.number = number]
  <1>1. q \in Players /\ Fits(q) /\ Placed(q)
    BY SoundIs
  <1>2. /\ r \in Players /\ Same(q, r) /\ r.state = q.state /\ r.timer = q.timer
        /\ r.loopCount = q.loopCount /\ r.current = q.current
        /\ r.currentFrameNumber = q.currentFrameNumber /\ r.cachedFrames = q.cachedFrames
    BY <1>1 DEF Players, Same
  <1> HIDE DEF r
  <1>3. Fits(r) /\ Placed(r)
    BY <1>1, <1>2 DEF Fits, Placed, InRange, Image, Same
  <1>4. InRange(r) <=> InRange(q)
    BY <1>2 DEF InRange, Same
  <1> QED BY <1>2, <1>3, <1>4 DEF Sound, Same, Reversed, r

(* A call that leaves the player where it is.                                 *)
LEMMA StayingKeepsSound ==
    ASSUME NEW q, Sound(q), NEW r \in Players, StaysPut(q, r), r.state = q.state, r.timer = q.timer,
           r.userLoopCount = q.userLoopCount, r.loopCount \in {q.loopCount, 0},
           q.state # "NotRunning" => r.cachedFrames = q.cachedFrames
    PROVE Sound(r)
  <1>1. q \in Players /\ Fits(q) /\ Placed(q)
    BY SoundIs
  <1>2. Fits(r)
    <2>1. CASE r.cachedFrames = <<>>
      BY <1>1, <2>1, EmptyFits
    <2>2. CASE r.cachedFrames = q.cachedFrames
      BY <1>1, <2>2 DEF Fits, StaysPut
    <2> QED BY <2>1, <2>2 DEF StaysPut
  <1>3. Placed(r) /\ (InRange(r) <=> InRange(q))
    BY <1>1 DEF StaysPut, Placed, InRange, Image
  <1>4. /\ Reversed(r) <=> Reversed(q)
        /\ "CacheAll" \in r.flags <=> "CacheAll" \in q.flags
    BY DEF StaysPut, Reversed
  <1> QED BY <1>2, <1>3, <1>4 DEF Sound, StaysPut

LEMMA SetPaletteKeepsSound ==
    ASSUME NEW q, Sound(q), NEW pal \in Palettes
    PROVE LET r == SetPalette(q, pal) IN Sound(r) /\ r.state = q.state
  <1> DEFINE r == SetPalette(q, pal)
  <1>1. q \in Players
    BY SoundIs
  <1>2. /\ r \in Players /\ StaysPut(q, r) /\ r.state = q.state /\ r.timer = q.timer
        /\ r.loopCount = q.loopCount /\ r.userLoopCount = q.userLoopCount
        /\ q.state # "NotRunning" => r.cachedFrames = q.cachedFrames
    BY <1>1, SetPaletteIs
  <1> HIDE DEF r
  <1>3. Sound(r)
    BY <1>2, StayingKeepsSound
  <1> QED BY <1>2, <1>3 DEF r

LEMMA AbortLoopKeepsSound ==
    ASSUME NEW q, Sound(q), q.state # "NotRunning"
    PROVE LET r == AbortLoop(q) IN Sound(r) /\ r.state = q.state /\ r.palette = q.palette
  <1> DEFINE r == AbortLoop(q)
  <1>1. q \in Players
    BY SoundIs
  <1>2. /\ r \in Players /\ StaysPut(q, r) /\ r.state = q.state /\ r.timer = q.timer
        /\ r.loopCount = 0 /\ r.palette = q.palette /\ r.userLoopCount = q.userLoopCount
        /\ r.cachedFrames = q.cachedFrames
    BY <1>1, AbortLoopIs
  <1> HIDE DEF r
  <1>3. Sound(r)
    BY <1>2, StayingKeepsSound
  <1> QED BY <1>2, <1>3 DEF r

LEMMA NewIsSound ==
    ASSUME NEW pal \in Palettes
    PROVE Sound(NewPlayer(pal)) /\ NewPlayer(pal).state = "NotRunning"
  <1> DEFINE r == NewPlayer(pal)
  <1>1. /\ r.images = <<>> /\ r.palette = pal /\ r.state = "NotRunning" /\ r.flags = {}
        /\ r.userLoopCount = 1 /\ r.cachedFrames = <<>> /\ r.timer = FALSE /\ r.loopCount = 1
        /\ r.current = 0 /\ r.currentLoopCount = 0 /\ r.currentFrameNumber = 0
    BY DEF NewPlayer
  <1>2. r \in Players
    <2>1. /\ <<>> \in Seq(Images) /\ <<>> \in Seq(Seq(Shots)) /\ [i \in Images |-> 0] \in [Images -> Nat]
          /\ 1 \in Nat \ {0} /\ 1 \in Int /\ 0 \in Int /\ {} \in SUBSET Flags /\ FALSE \in BOOLEAN
      OBVIOUS
    <2> QED BY <2>1 DEF NewPlayer, Players
  <1> HIDE DEF r
  <1>3. Fits(r)
    BY <1>1, <1>2, EmptyFits
  <1>4. Placed(r)
    BY <1>1 DEF Placed, InRange
  <1>5. Len(r.images) = 0 /\ r.timer = (r.state = "Running") /\ r.images = <<>>
    BY <1>1
  <1> QED BY <1>1, <1>2, <1>3, <1>4, <1>5 DEF Sound, r

LEMMA TimerKeepsSound ==
    ASSUME NEW q, Sound(q), q.state = "Running"
    PROVE LET r == TimerEvent(q) IN
          Sound(r) /\ r.state \in {"NotRunning", "WaitingRead"} /\ r.palette = q.palette
  <1> DEFINE r == TimerEvent(q)
             N == Len(q.images)
             c == q.cachedFrames
  <1>1. /\ q \in Players /\ Fits(q) /\ Placed(q) /\ q.userLoopCount = 1 /\ N \in Nat /\ ~SomeStill(q)
        /\ Len(c) \in Nat /\ Len(c) <= N /\ q.current \in Int /\ N <= 2 /\ c \in Seq(Seq(Shots))
        /\ q.images \in Seq(Images)
    BY SoundIs DEF Sound
  <1>2. /\ InRange(q) /\ q.loopCount \in {0, 1}
        /\ N = 2 \/ Reversed(q) => "CacheAll" \in q.flags
        /\ "CacheAll" \in q.flags => q.current < Len(c) /\ c[q.current + 1] # <<>>
        /\ c # <<>> /\ Len(c) < N => q.current \in 0..(Len(c) - 1)
        /\ q.currentFrameNumber \in 0..(Frames[Image(q)] - 1)
        /\ q.current \in 0..(N - 1)
    BY <1>1 DEF Sound, Placed, InRange
  <1>3. /\ r \in Players /\ Same(q, r) /\ r.timer = FALSE /\ Fits(r)
        /\ r.current \in -1..Len(r.images)
        /\ TimerAdvances(q, r) \/ TimerMoves(q, r) \/ TimerEnds(q, r) \/ TimerFails(q, r)
    BY <1>1, <1>2, TimerIs
  <1> HIDE DEF r
  <1>4. /\ Len(r.images) = N /\ r.images = q.images /\ r.flags = q.flags /\ r.userLoopCount = 1
        /\ r.palette = q.palette /\ (Reversed(r) <=> Reversed(q)) /\ r.current \in Int
        /\ r.cachedFrames \in Seq(Seq(Shots)) /\ Len(r.cachedFrames) \in Nat
        /\ Len(r.cachedFrames) <= N
    BY <1>1, <1>3 DEF Same, Reversed, Fits, Players
  <1>5. ~TimerFails(q, r)
    BY <1>1, <1>2, <1>4 DEF TimerFails
  <1>6. ASSUME r.state = "WaitingRead", InRange(r), r.loopCount = q.loopCount,
               r.currentFrameNumber \in 0..(Frames[Image(r)] - 1),
               r.cachedFrames # <<>> => r.current < Len(r.cachedFrames),
               "CacheAll" \in q.flags => r.cachedFrames # <<>>
        PROVE Sound(r)
    <2>1. r.current \in 0..(N - 1)
      BY <1>4, <1>6 DEF InRange
    <2>2. Placed(r)
      BY <1>3, <1>6, <2>1 DEF Placed
    <2>3. /\ r.images # <<>> => r.current < Len(r.images)
          /\ r.cachedFrames # <<>> /\ Len(r.cachedFrames) < Len(r.images) =>
                r.current \in 0..(Len(r.cachedFrames) - 1)
          /\ Len(r.images) <= 2
      BY <1>1, <1>4, <1>6, <2>1
    <2>4. /\ "CacheAll" \in r.flags => r.current < Len(r.cachedFrames)
          /\ Len(r.images) = 2 \/ Reversed(r) => "CacheAll" \in r.flags
      BY <1>2, <1>4, <1>6
    <2>5. r.timer = (r.state = "Running")
      BY <1>3, <1>6
    <2>6. ~(r.current < 0)
      BY <1>1, <2>1
    <2> QED BY <1>2, <1>3, <1>4, <1>6, <2>2, <2>3, <2>4, <2>5, <2>6 DEF Sound
  <1>7. c # <<>> => q.current < Len(c)
    BY <1>1, <1>2
  <1>8. ASSUME TimerAdvances(q, r) PROVE Sound(r) /\ r.state = "WaitingRead"
    <2>1. /\ r.state = "WaitingRead" /\ InRange(r) /\ r.loopCount = q.loopCount
          /\ r.currentFrameNumber \in 0..(Frames[Image(r)] - 1)
          /\ r.current = q.current /\ r.cachedFrames = c
      BY <1>8 DEF TimerAdvances, HasFrame
    <2>2. "CacheAll" \in q.flags => c # <<>>
      BY <1>1, <1>2
    <2> HIDE DEF c
    <2> QED BY <1>6, <1>7, <2>1, <2>2
  <1>9. ASSUME TimerMoves(q, r) PROVE Sound(r) /\ r.state = "WaitingRead"
    <2>1. /\ r.state = "WaitingRead" /\ InRange(r) /\ Entered(q, r) /\ r.loopCount = q.loopCount
          /\ \/ r.current = q.current
             \/ IF Reversed(q) THEN r.current < q.current ELSE r.current = q.current + 1
      BY <1>1, <1>2, <1>9 DEF TimerMoves
    <2>2. /\ r.currentFrameNumber \in 0..(Frames[Image(r)] - 1)
          /\ "CacheAll" \in q.flags => r.cachedFrames # <<>>
          /\ PlaceMade(q.flags, c, r.cachedFrames, r.current)
      BY <1>4, <2>1 DEF Entered, AtFrame, HasFrame
    <2>3. r.current \in 0..(N - 1)
      BY <1>4, <2>1 DEF InRange
    <2>4. ASSUME r.cachedFrames # <<>> PROVE r.current < Len(r.cachedFrames)
      <3>1. CASE "CacheAll" \in q.flags
        <4>1. \/ r.current < Len(r.cachedFrames)
              \/ Len(c) <= r.current /\ Len(r.cachedFrames) = Len(c) + 1
          BY <2>2, <3>1 DEF PlaceMade, OneMore
        <4>2. q.current < Len(c)
          BY <1>2, <3>1
        <4> QED BY <1>1, <1>2, <1>4, <2>1, <4>1, <4>2
      <3>2. CASE "CacheAll" \notin q.flags
        <4>1. N = 1
          <5> HIDE DEF N, c
          <5> QED BY <1>1, <1>2, <3>2
        <4>2. Len(r.cachedFrames) > 0
          BY <1>4, <2>4
        <4> QED BY <1>4, <2>3, <4>1, <4>2
      <3> QED BY <3>1, <3>2
    <2> QED BY <1>6, <2>1, <2>2, <2>4
  <1>10. ASSUME TimerEnds(q, r) PROVE Sound(r) /\ r.state = "NotRunning"
    <2>1. /\ r.state = "NotRunning"
          /\ r.cachedFrames \in {<<>>, c}
          /\ \/ r.current = q.current /\ r.currentFrameNumber = q.currentFrameNumber
             \/ /\ r.current = -1 /\ r.currentFrameNumber = -1
                /\ \/ Len(c) = N
                   \/ Reversed(q) /\ q.current \in DOMAIN c
      BY <1>1, <1>10 DEF TimerEnds
    <2>2. Placed(r)
      BY <1>1, <1>2, <1>3, <1>4, <2>1 DEF Placed, InRange, Image
    <2>3. r.current < N
      BY <1>2, <2>1
    <2>4. r.current # q.current => Len(c) = N
      <3>1. SUFFICES ASSUME Reversed(q), q.current \in DOMAIN c PROVE Len(c) = N
        BY <2>1
      <3>2. q.current \in 1..Len(c) /\ q.current < Len(c)
        BY <1>1, <1>2, <3>1
      <3> QED BY <1>1, <3>2
    <2>5. r.cachedFrames # <<>> /\ Len(r.cachedFrames) < Len(r.images) =>
                r.current \in 0..(Len(r.cachedFrames) - 1)
      BY <1>1, <1>2, <1>4, <2>1, <2>4
    <2>6. r.timer = (r.state = "Running")
      BY <1>3, <2>1
    <2>7. r.current < 0 /\ r.cachedFrames # <<>> => r.cachedFrames[Len(r.images)] # <<>>
      <3>1. SUFFICES ASSUME r.current = -1, r.cachedFrames = c PROVE c[N] # <<>>
        BY <1>2, <1>4, <2>1
      <3>2. Reversed(q) /\ q.current \in DOMAIN c
        BY <1>1, <1>2, <1>10, <3>1 DEF TimerEnds
      <3>3. q.current + 1 = N /\ "CacheAll" \in q.flags
        BY <1>1, <1>2, <3>2
      <3> QED BY <1>2, <3>3
    <2> HIDE DEF c
    <2> QED BY <1>1, <1>3, <1>4, <2>1, <2>2, <2>3, <2>5, <2>6, <2>7 DEF Sound
  <1> QED BY <1>3, <1>4, <1>5, <1>8, <1>9, <1>10 DEF r

-----------------------------------------------------------------------------
(* r is e but for the fields in S.                                            *)
Differ(e, r, S) == DOMAIN r = IconFields /\ \A f \in IconFields \ S : r[f] = e[f]

Pictures == {"saveImageForHoverModeOnFinished", "image", "finishedImage", "hoverModeLastImage"}
Playables == Pictures \cup {"player", "state", "loaded", "load"}

LEMMA DifferTrans ==
    ASSUME NEW e, NEW r, NEW s, NEW S, NEW T, NEW U, Differ(e, r, S), Differ(r, s, T),
           S \subseteq U, T \subseteq U
    PROVE Differ(e, s, U)
  BY DEF Differ

LEMMA OnlyPictures ==
    ASSUME NEW e, IconOK(e), NEW r, Differ(e, r, Pictures)
    PROVE IconOK(r) /\ r.player = e.player /\ r.state = e.state /\ r.loaded = e.loaded
          /\ r.load = e.load /\ r.look = e.look /\ r.mode = e.mode /\ r.lastMode = e.lastMode
          /\ r.animationJobs = e.animationJobs
  <1>1. /\ DOMAIN r = IconFields /\ r.player = e.player /\ r.state = e.state /\ r.loaded = e.loaded
        /\ r.load = e.load /\ r.look = e.look /\ r.mode = e.mode /\ r.lastMode = e.lastMode
        /\ r.animationJobs = e.animationJobs
    BY DEF Differ, IconFields, Pictures
  <1> QED BY <1>1 DEF IconOK, IsPlaying

(* The image player may change too, while nothing plays.                      *)
LEMMA OnlyPlayer ==
    ASSUME NEW e, IconOK(e), NEW r, Differ(e, r, Pictures \cup {"player"}), Sound(r.player),
           IsPlaying(r) => IsPlaying(e)
    PROVE IconOK(r) /\ r.state = e.state /\ r.loaded = e.loaded
          /\ r.load = e.load /\ r.look = e.look /\ r.mode = e.mode /\ r.lastMode = e.lastMode
          /\ r.animationJobs = e.animationJobs
  <1>1. /\ DOMAIN r = IconFields /\ r.state = e.state /\ r.loaded = e.loaded
        /\ r.load = e.load /\ r.look = e.look /\ r.mode = e.mode /\ r.lastMode = e.lastMode
        /\ r.animationJobs = e.animationJobs
    BY DEF Differ, IconFields, Pictures
  <1> QED BY <1>1 DEF IconOK, IsPlaying

LEMMA EnsureInitIs ==
    ASSUME NEW e, IconOK(e)
    PROVE LET r == EnsureInit(e) IN
          /\ IconOK(r) /\ Differ(e, r, {"loaded", "load"}) /\ r.player = e.player
          /\ r.state = e.state /\ r.animationJobs = e.animationJobs /\ r.mode = e.mode
  <1> DEFINE n == IF \E j \in DOMAIN e.player.images : e.player.images[j][3] = 0 THEN 1 ELSE 0
             r == EnsureInit(e)
  <1>1. n \in {0, 1} /\ DOMAIN e = IconFields
    BY DEF IconOK
  <1> HIDE DEF n
  <1>2. \/ r = e
        \/ r = [e EXCEPT !.loaded = TRUE, !.load = n]
    BY DEF EnsureInit, n
  <1>3. CASE r = e
    BY <1>3 DEF IconOK, Differ
  <1>4. CASE r = [e EXCEPT !.loaded = TRUE, !.load = n]
    <2>1. Differ(e, r, {"loaded", "load"}) /\ r.loaded = TRUE /\ r.load = n
      BY <1>1, <1>4 DEF Differ, IconFields
    <2> HIDE DEF r
    <2>2. /\ DOMAIN r = IconFields /\ r.player = e.player /\ r.state = e.state
          /\ r.look = e.look /\ r.mode = e.mode /\ r.lastMode = e.lastMode
          /\ r.animationJobs = e.animationJobs
      BY <2>1 DEF Differ, IconFields
    <2>3. IconOK(r)
      BY <1>1, <2>1, <2>2 DEF IconOK, IsPlaying
    <2> QED BY <2>1, <2>2, <2>3 DEF r
  <1> QED BY <1>2, <1>3, <1>4

LEMMA ImageOfIs ==
    ASSUME NEW e, IconOK(e), NEW m \in Modes, IsAnimated(e, m)
    PROVE ImageOf(e, m) \in Images
  <1>1. e.look \in Looks /\ e.load \in {0, 1} /\ Kind[e.look][m] = "animated"
    BY DEF IconOK, IsAnimated
  <1> DEFINE i == <<e.look, m, e.load>>
  <1>2. i \in Looks \X Modes \X {0, 1} /\ i[1] = e.look /\ i[2] = m
    BY <1>1
  <1>3. i \in Images
    BY <1>1, <1>2, IconAssumption
  <1> QED BY <1>3 DEF ImageOf

(* The handler of updated() while the icon player is busy.                    *)
LEMMA ShowFrameIs ==
    ASSUME NEW e, IconOK(e), NEW q, Sound(q), q.state = "WaitingRead"
    PROVE LET r == ShowFrame(e, q) IN
          Differ(e, r, {"player", "image"}) /\ Sound(r.player) /\ r.player.state = "Running"
  <1> DEFINE r == ShowFrame(e, q)
  <1>1. Differ(e, r, {"player", "image"}) /\ r.player = ReadImage(q, TRUE)
    BY DEF ShowFrame, Differ, IconFields, IconOK
  <1>2. Sound(ReadImage(q, TRUE)) /\ ReadImage(q, TRUE).state = "Running"
    BY ReadKeepsSound
  <1> HIDE DEF r
  <1> QED BY <1>1, <1>2 DEF r

LEMMA StartedIs ==
    ASSUME NEW e, IconOK(e), e.loaded, NEW q, Sound(q), q.state = "WaitingRead",
           NEW m, NEW flags
    PROVE LET r == Started(e, q, m, flags) IN
          /\ IconOK(r) /\ Differ(e, r, Pictures \cup {"player", "state"})
          /\ r.player.state = "Running"
  <1> DEFINE r == Started(e, q, m, flags)
             f == ShowFrame(e, q)
             b == f.saveImageForHoverModeOnFinished
                    \/ (m = "Hover" /\ "InvertedOrder" \notin flags)
  <1>1. r = [f EXCEPT !.state = "Busy", !.saveImageForHoverModeOnFinished = b]
    BY DEF Started
  <1>2. Differ(e, f, {"player", "image"}) /\ Sound(f.player) /\ f.player.state = "Running"
    BY ShowFrameIs
  <1> HIDE DEF f, b
  <1>3. Differ(f, r, {"state", "saveImageForHoverModeOnFinished"}) /\ r.state = "Busy"
    BY <1>1, <1>2 DEF Differ, IconFields
  <1> HIDE DEF r
  <1>4. /\ r.player = f.player /\ r.loaded = e.loaded /\ r.load = e.load /\ r.look = e.look
        /\ r.mode = e.mode /\ r.lastMode = e.lastMode /\ r.animationJobs = e.animationJobs
        /\ DOMAIN r = IconFields
    BY <1>2, <1>3 DEF Differ, IconFields
  <1>5. IconOK(r)
    BY <1>2, <1>3, <1>4 DEF IconOK
  <1>6. Differ(e, r, Pictures \cup {"player", "state"})
    BY <1>2, <1>3 DEF Differ, Pictures
  <1> QED BY <1>2, <1>4, <1>5, <1>6 DEF r

(* The images given to the player make it start: it plays.                    *)
LEMMA StartPlayerIs ==
    ASSUME NEW e, IconOK(e), e.loaded, e.player.state = "NotRunning",
           NEW ms \in Seq(Modes), Len(ms) \in {1, 2}, \A k \in DOMAIN ms : IsAnimated(e, ms[k]),
           NEW m, NEW flags \in SUBSET Flags,
           Len(ms) = 2 => flags \cap {"CacheAll", "InvertedOrder"} # {}
    PROVE LET r == StartPlayer(e, ms, m, flags) IN
          /\ IconOK(r) /\ Differ(e, r, Pictures \cup {"player", "state"})
          /\ r.player.state = "Running"
  <1> DEFINE images == [k \in DOMAIN ms |-> ImageOf(e, ms[k])]
             given == SetImages(e.player, images)
             rewound == [given EXCEPT !.number = [i \in Images |-> 0]]
             started == Start(rewound, flags)
             r == StartPlayer(e, ms, m, flags)
  <1>1. \A k \in DOMAIN ms : ImageOf(e, ms[k]) \in Images
    BY ImageOfIs
  <1>2. images \in Seq(Images) /\ Len(images) = Len(ms)
    <2>1. DOMAIN ms = 1..Len(ms) /\ Len(ms) \in Nat
      OBVIOUS
    <2>2. images \in [1..Len(ms) -> Images]
      BY <1>1, <2>1
    <2> QED BY <2>1, <2>2
  <1>3. Sound(e.player)
    BY DEF IconOK
  <1> HIDE DEF images
  <1>4. Sound(given) /\ given.state = "NotRunning" /\ given.images = images
    BY <1>2, <1>3, SetImagesKeepsSound
  <1> HIDE DEF given
  <1>5. [i \in Images |-> 0] \in [Images -> Nat]
    OBVIOUS
  <1>6. Sound(rewound) /\ rewound.state = "NotRunning" /\ rewound.images = images
    BY <1>4, <1>5, RewindingKeepsSound
  <1> HIDE DEF rewound
  <1>7. images # <<>>
    BY <1>2
  <1>8. Sound(started) /\ started.state = "WaitingRead"
    BY <1>2, <1>6, <1>7, StartKeepsSound
  <1>9. r = Started(e, started, m, flags)
    BY DEF StartPlayer, images, given, rewound
  <1> HIDE DEF started, r
  <1> QED BY <1>8, <1>9, StartedIs DEF r

LEMMA PrepareFinishedIs ==
    ASSUME NEW e, IconOK(e), NEW end \in {"none", "Normal", "Hover"}
    PROVE LET r == PrepareFinished(e, end) IN Differ(e, r, Pictures)
  <1>1. DOMAIN e = IconFields
    BY DEF IconOK
  <1> DEFINE f == EnsureHoverModeLastImage(e)
  <1>2. Differ(e, f, {"hoverModeLastImage"})
    BY <1>1 DEF EnsureHoverModeLastImage, Differ, IconFields
  <1> HIDE DEF f
  <1>3. CASE end = "Hover"
    BY <1>1, <1>2, <1>3 DEF PrepareFinished, f, Differ, IconFields, Pictures
  <1>4. CASE end = "Normal"
    BY <1>1, <1>4 DEF PrepareFinished, SetFinishedImage, Differ, IconFields, Pictures
  <1>5. CASE end = "none"
    BY <1>1, <1>5 DEF PrepareFinished, Differ
  <1> QED BY <1>3, <1>4, <1>5

(* What a transition may come to: animated modes only, and two are cached.    *)
Planned(e, plan) ==
    \/ plan.does \in {"nothing", "show"}
    \/ /\ plan.does = "animate"
       /\ plan.modes \in Seq(Modes) /\ Len(plan.modes) \in {1, 2}
       /\ \A k \in DOMAIN plan.modes : IsAnimated(e, plan.modes[k])
       /\ plan.flags \in SUBSET Flags
       /\ Len(plan.modes) = 2 => plan.flags \cap {"CacheAll", "InvertedOrder"} # {}
       /\ plan.finished \in {"none", "Normal", "Hover"}

LEMMA OthersArePlanned ==
    ASSUME NEW e
    PROVE Planned(e, Stay) /\ \A m : Planned(e, Show(m))
  BY DEF Planned, Stay, Show

LEMMA OneIsPlanned ==
    ASSUME NEW e, NEW m \in Modes, IsAnimated(e, m), NEW flags \in SUBSET Flags,
           NEW end \in {"none", "Normal", "Hover"}
    PROVE Planned(e, Animate(<<m>>, flags, end))
  <1> DEFINE plan == Animate(<<m>>, flags, end)
  <1>1. plan.does = "animate" /\ plan.modes = <<m>> /\ plan.flags = flags /\ plan.finished = end
    BY DEF Animate
  <1> HIDE DEF plan
  <1>2. plan.modes \in Seq(Modes) /\ Len(plan.modes) = 1
    BY <1>1
  <1>3. \A k \in DOMAIN plan.modes : IsAnimated(e, plan.modes[k])
    BY <1>1
  <1>4. Planned(e, plan)
    BY <1>1, <1>2, <1>3 DEF Planned
  <1> QED BY <1>4 DEF plan

LEMMA ThroughHoverIsPlanned ==
    ASSUME NEW e, IsAnimated(e, "Pressed"), NEW flags \in SUBSET Flags,
           flags \cap {"CacheAll", "InvertedOrder"} # {}, NEW end \in {"none", "Normal", "Hover"}
    PROVE Planned(e, Animate(ThroughHover(e), flags, end))
  <1> DEFINE plan == Animate(ThroughHover(e), flags, end)
  <1>1. /\ plan.does = "animate" /\ plan.modes = ThroughHover(e) /\ plan.flags = flags
        /\ plan.finished = end
    BY DEF Animate
  <1> HIDE DEF plan
  <1>2. CASE IsAnimated(e, "Hover")
    <2>1. plan.modes = <<"Hover", "Pressed">>
      BY <1>1, <1>2 DEF ThroughHover
    <2>2. plan.modes \in Seq(Modes) /\ Len(plan.modes) = 2 /\ DOMAIN plan.modes = {1, 2}
      BY <2>1 DEF Modes
    <2>3. \A k \in DOMAIN plan.modes : IsAnimated(e, plan.modes[k])
      <3>1. plan.modes[1] = "Hover" /\ plan.modes[2] = "Pressed"
        BY <2>1
      <3> QED BY <1>2, <2>2, <3>1
    <2> QED BY <1>1, <2>2, <2>3 DEF Planned, plan
  <1>3. CASE ~IsAnimated(e, "Hover")
    <2>1. plan.modes = <<"Pressed">>
      BY <1>1, <1>3 DEF ThroughHover
    <2>2. plan.modes \in Seq(Modes) /\ Len(plan.modes) = 1
      BY <2>1 DEF Modes
    <2>3. \A k \in DOMAIN plan.modes : IsAnimated(e, plan.modes[k])
      BY <2>1
    <2> QED BY <1>1, <2>2, <2>3 DEF Planned, plan
  <1> QED BY <1>2, <1>3

LEMMA EnterIsPlanned ==
    ASSUME NEW e, NEW m \in Modes, NEW flags \in SUBSET Flags
    PROVE Planned(e, Enter(e, m, flags))
  BY OneIsPlanned, OthersArePlanned DEF Enter

LEMMA TransitionIs ==
    ASSUME NEW e, NEW from \in Modes, NEW to \in Modes
    PROVE Planned(e, Transition(e, from, to))
  <1>1. /\ {"CacheAll"} \in SUBSET Flags /\ {"IgnoreLastImageLoop"} \in SUBSET Flags
        /\ Backward \in SUBSET Flags /\ Backward \cup {"ClearCacheOnStop"} \in SUBSET Flags
        /\ "InvertedOrder" \in Backward
        /\ "Normal" \in Modes /\ "Hover" \in Modes /\ "Pressed" \in Modes /\ "Disabled" \in Modes
    BY DEF Flags, Backward, Modes
  <1>2. CASE from = "Normal"
    <2> DEFINE F == IF to = "Disabled" THEN {"IgnoreLastImageLoop"} ELSE {"CacheAll"}
    <2>1. Planned(e, Enter(e, to, F))
      BY <1>1, EnterIsPlanned
    <2>2. ASSUME IsAnimated(e, "Pressed")
          PROVE Planned(e, Animate(ThroughHover(e), {"CacheAll"}, "none"))
      BY <1>1, <2>2, ThroughHoverIsPlanned
    <2>3. Planned(e, FromNormal(e, to))
      BY <2>1, <2>2, OthersArePlanned DEF FromNormal
    <2> QED BY <1>2, <2>3 DEF Transition
  <1>3. Planned(e, ToDisabled(e))
    BY <1>1, EnterIsPlanned, OthersArePlanned DEF ToDisabled
  <1>4. CASE from = "Hover"
    <2>1. Planned(e, Enter(e, "Pressed", {"CacheAll"}))
      BY <1>1, EnterIsPlanned
    <2>2. ASSUME IsAnimated(e, "Hover")
          PROVE /\ Planned(e, Animate(<<"Hover">>, Backward, "none"))
                /\ Planned(e, Animate(<<"Hover">>, Backward \cup {"ClearCacheOnStop"}, "Normal"))
      BY <1>1, <2>2, OneIsPlanned
    <2>3. CASE to = "Normal"
      BY <1>4, <2>2, <2>3, OthersArePlanned DEF Transition, FromHover
    <2>4. CASE to = "Hover"
      BY <1>4, <2>4, OthersArePlanned DEF Transition, FromHover
    <2>5. CASE to = "Pressed"
      BY <1>4, <2>1, <2>2, <2>5, OthersArePlanned DEF Transition, FromHover
    <2>6. CASE to = "Disabled"
      BY <1>3, <1>4, <2>6 DEF Transition, FromHover
    <2> QED BY <2>3, <2>4, <2>5, <2>6 DEF Modes
  <1>5. CASE from = "Pressed"
    <2>1. Planned(e, Enter(e, "Hover", {"CacheAll"}))
      BY <1>1, EnterIsPlanned
    <2>2. ASSUME IsAnimated(e, "Pressed")
          PROVE /\ Planned(e, Animate(<<"Pressed">>, Backward, "Hover"))
                /\ Planned(e, Animate(ThroughHover(e), Backward, "Normal"))
      BY <1>1, <2>2, OneIsPlanned, ThroughHoverIsPlanned
    <2>3. CASE to = "Normal"
      BY <1>5, <2>2, <2>3, OthersArePlanned DEF Transition, FromPressed
    <2>4. CASE to = "Hover"
      BY <1>5, <2>1, <2>2, <2>4, OthersArePlanned DEF Transition, FromPressed
    <2>5. CASE to = "Pressed"
      BY <1>5, <2>5, OthersArePlanned DEF Transition, FromPressed
    <2>6. CASE to = "Disabled"
      BY <1>3, <1>5, <2>6 DEF Transition, FromPressed
    <2> QED BY <2>3, <2>4, <2>5, <2>6 DEF Modes
  <1>6. CASE from = "Disabled"
    <2>1. ASSUME IsAnimated(e, "Disabled")
          PROVE Planned(e, Animate(<<"Disabled">>, Backward, "Normal"))
      BY <1>1, <2>1, OneIsPlanned
    <2>2. Planned(e, FromDisabled(e))
      BY <2>1, OthersArePlanned DEF FromDisabled
    <2> QED BY <1>6, <2>2 DEF Transition
  <1> QED BY <1>2, <1>4, <1>5, <1>6 DEF Modes

LEMMA PerformIs ==
    ASSUME NEW e, IconOK(e), e.loaded, e.player.state = "NotRunning", NEW plan, Planned(e, plan),
           NEW to, NEW extra \in SUBSET Flags
    PROVE LET r == Perform(e, plan, to, extra) IN
          /\ Settled(r) /\ Differ(e, r, Pictures \cup {"player", "state"})
          /\ IF plan.does = "animate" THEN r.player.state = "Running"
             ELSE r.player = e.player /\ r.state = e.state
  <1> DEFINE r == Perform(e, plan, to, extra)
  <1>1. DOMAIN e = IconFields
    BY DEF IconOK
  <1>2. CASE plan.does = "nothing"
    <2>1. r = e
      BY <1>2 DEF Perform
    <2> QED BY <1>1, <1>2, <2>1 DEF Differ, Settled
  <1>3. CASE plan.does = "show"
    <2>1. r = SetImage(e, plan.mode)
      BY <1>3 DEF Perform
    <2>2. Differ(e, r, {"image"})
      BY <1>1, <2>1 DEF SetImage, Differ, IconFields
    <2> HIDE DEF r
    <2>3. Differ(e, r, Pictures) /\ Differ(e, r, Pictures \cup {"player", "state"})
      BY <2>2 DEF Differ, Pictures
    <2>4. IconOK(r) /\ r.player = e.player /\ r.state = e.state
      BY <2>3, OnlyPictures
    <2> QED BY <1>3, <2>3, <2>4 DEF r, Settled
  <1>4. CASE plan.does = "animate"
    <2> DEFINE f == PrepareFinished(e, plan.finished)
               F == plan.flags \cup extra
    <2>1. /\ plan.modes \in Seq(Modes) /\ Len(plan.modes) \in {1, 2}
          /\ \A k \in DOMAIN plan.modes : IsAnimated(e, plan.modes[k])
          /\ plan.flags \in SUBSET Flags
          /\ Len(plan.modes) = 2 => plan.flags \cap {"CacheAll", "InvertedOrder"} # {}
          /\ plan.finished \in {"none", "Normal", "Hover"}
      BY <1>4 DEF Planned
    <2>2. r = StartPlayer(f, plan.modes, to, F)
      BY <1>4 DEF Perform
    <2>3. Differ(e, f, Pictures)
      BY <2>1, PrepareFinishedIs
    <2> HIDE DEF f, r
    <2>4. IconOK(f) /\ f.player = e.player /\ f.loaded = e.loaded /\ f.look = e.look
      BY <2>3, OnlyPictures
    <2>5. \A k \in DOMAIN plan.modes : IsAnimated(f, plan.modes[k])
      BY <2>1, <2>4 DEF IsAnimated
    <2>6. F \in SUBSET Flags /\ (Len(plan.modes) = 2 => F \cap {"CacheAll", "InvertedOrder"} # {})
      BY <2>1
    <2> HIDE DEF F
    <2>7. /\ IconOK(r) /\ Differ(f, r, Pictures \cup {"player", "state"})
          /\ r.player.state = "Running"
      BY <2>1, <2>2, <2>4, <2>5, <2>6, StartPlayerIs
    <2>8. Differ(e, r, Pictures \cup {"player", "state"})
      BY <2>3, <2>7, DifferTrans
    <2> QED BY <1>4, <2>7, <2>8 DEF r, Settled
  <1> QED BY <1>2, <1>3, <1>4 DEF Planned

(* A transition is decided by the look, and by whether it has been loaded.    *)
LEMMA TransitionOfLooks ==
    ASSUME NEW e, NEW g, g.look = e.look, g.loaded = e.loaded, NEW from \in Modes, NEW to \in Modes
    PROVE Transition(e, from, to) = Transition(g, from, to)
  <1>1. \A m : (Has(e, m) <=> Has(g, m)) /\ (IsAnimated(e, m) <=> IsAnimated(g, m))
    BY DEF Has, IsAnimated
  <1>2. ThroughHover(e) = ThroughHover(g) /\ \A m, flags : Enter(e, m, flags) = Enter(g, m, flags)
    BY <1>1 DEF ThroughHover, Enter
  <1>3. ToDisabled(e) = ToDisabled(g)
    BY <1>1, <1>2 DEF ToDisabled
  <1>4. FromNormal(e, to) = FromNormal(g, to) /\ FromDisabled(e) = FromDisabled(g)
    BY <1>1, <1>2 DEF FromNormal, FromDisabled
  <1>5. FromHover(e, to) = FromHover(g, to)
    BY <1>1, <1>2, <1>3 DEF FromHover, Modes
  <1>6. FromPressed(e, to) = FromPressed(g, to)
    BY <1>1, <1>2, <1>3 DEF FromPressed, Modes
  <1> QED BY <1>3, <1>4, <1>5, <1>6 DEF Transition, Modes

(* ... hence by the look alone, once the images are loaded.                   *)
LEMMA TransitionOfLook ==
    ASSUME NEW e, e.loaded, Has(e, "Normal"), NEW from \in Modes, NEW to \in Modes
    PROVE Animates(e.look, from, to) <=> Transition(e, from, to).does = "animate"
  <1> DEFINE g == [look |-> e.look, loaded |-> TRUE]
  <1>1. g.look = e.look /\ g.loaded = e.loaded
    OBVIOUS
  <1>2. Animates(e.look, from, to) <=> Has(g, "Normal") /\ Transition(g, from, to).does = "animate"
    BY DEF Animates
  <1> HIDE DEF g
  <1> QED BY <1>1, <1>2, TransitionOfLooks DEF Has

LEMMA PlayPairIs ==
    ASSUME NEW e, IconOK(e), e.player.state = "NotRunning", NEW from \in Modes, NEW to \in Modes,
           NEW extra \in SUBSET Flags
    PROVE LET r == PlayPair(e, from, to, extra) IN
          /\ Settled(r) /\ Differ(e, r, Playables)
          /\ IF Animates(e.look, from, to) THEN r.player.state = "Running"
             ELSE r.player = e.player /\ r.state = e.state
  <1> DEFINE a == EnsureInit(e)
             b == [a EXCEPT !.finishedImage = NoImage]
             r == PlayPair(e, from, to, extra)
  <1>1. /\ IconOK(a) /\ Differ(e, a, {"loaded", "load"}) /\ a.player = e.player
    BY EnsureInitIs
  <1> HIDE DEF a
  <1>2. Differ(a, b, {"finishedImage"}) /\ Differ(a, b, Pictures)
    BY <1>1 DEF Differ, IconFields, Pictures
  <1> HIDE DEF b
  <1>3. /\ IconOK(b) /\ b.player = e.player /\ b.loaded = a.loaded /\ b.state = e.state
        /\ b.look = e.look
    BY <1>1, <1>2, OnlyPictures DEF Differ, IconFields
  <1>4. Differ(e, b, {"loaded", "load", "finishedImage"}) /\ Differ(e, b, Playables)
    BY <1>1, <1>2 DEF Differ, Playables, Pictures
  <1>5. b.loaded \/ Kind[b.look]["Normal"] = "none"
    <2>1. e.look = b.look /\ DOMAIN e = IconFields
      BY <1>3 DEF IconOK
    <2>2. CASE e.loaded
      BY <1>3, <2>2 DEF EnsureInit, a
    <2>3. CASE ~e.loaded /\ Kind[e.look]["Normal"] # "none"
      BY <1>3, <2>1, <2>3 DEF EnsureInit, a, IconFields
    <2> QED BY <2>1, <2>2, <2>3
  <1>6. CASE ~Has(b, "Normal")
    <2>1. r = [b EXCEPT !.image = NoImage]
      BY <1>6 DEF PlayPair, a, b
    <2>2. Differ(b, r, {"image"})
      BY <1>4, <2>1 DEF Differ, IconFields
    <2> HIDE DEF r
    <2>3. Differ(b, r, Pictures) /\ Differ(b, r, Playables)
      BY <2>2 DEF Differ, Pictures, Playables
    <2>4. IconOK(r) /\ r.player = e.player /\ r.state = e.state
      BY <1>3, <2>3, OnlyPictures
    <2>5. Differ(e, r, Playables)
      BY <1>4, <2>3, DifferTrans
    <2>6. ~Animates(e.look, from, to)
      BY <1>3, <1>6, <1>5 DEF Has, Animates
    <2> QED BY <2>4, <2>5, <2>6 DEF r, Settled
  <1>7. CASE Has(b, "Normal")
    <2> DEFINE plan == Transition(b, from, to)
    <2>1. r = Perform(b, plan, to, extra)
      BY <1>7 DEF PlayPair, a, b
    <2>2. b.loaded
      BY <1>7 DEF Has
    <2>3. Planned(b, plan)
      BY TransitionIs
    <2>4. Animates(e.look, from, to) <=> plan.does = "animate"
      BY <1>3, <1>7, <2>2, TransitionOfLook
    <2> HIDE DEF plan, r
    <2>5. /\ Settled(r) /\ Differ(b, r, Pictures \cup {"player", "state"})
          /\ IF plan.does = "animate" THEN r.player.state = "Running"
             ELSE r.player = b.player /\ r.state = b.state
      BY <1>3, <2>1, <2>2, <2>3, PerformIs
    <2>6. Differ(e, r, Playables)
      BY <1>4, <2>5, DifferTrans DEF Playables
    <2> QED BY <1>3, <2>5, <2>6, <2>4 DEF r
  <1> QED BY <1>6, <1>7

-----------------------------------------------------------------------------
(* Jobs that leave the queue from its front leave the others chained.         *)
Fewer(jobs, left) ==
    /\ left \in Seq(Jobs) /\ Len(left) <= Len(jobs)
    /\ \A m \in Modes : Chained(jobs, m) => Chained(left, m)

LEMMA TailIsFewer ==
    ASSUME NEW jobs \in Seq(Jobs), jobs # <<>>
    PROVE Fewer(jobs, Tail(jobs)) /\ Len(Tail(jobs)) = Len(jobs) - 1
  <1> DEFINE left == Tail(jobs)
  <1>1. /\ Len(jobs) \in Nat /\ Len(jobs) > 0 /\ left \in Seq(Jobs) /\ Len(left) = Len(jobs) - 1
        /\ \A k \in 1..Len(left) : left[k] = jobs[k + 1]
    OBVIOUS
  <1> HIDE DEF left
  <1>2. ASSUME NEW m \in Modes, Chained(jobs, m) PROVE Chained(left, m)
    <2>1. DOMAIN left = 1..Len(left) /\ DOMAIN jobs = 1..Len(jobs)
      BY <1>1
    <2>2. ASSUME NEW k \in DOMAIN left, k > 1 PROVE left[k].from = left[k - 1].to
      <3>1. k \in 1..Len(left) /\ k - 1 \in 1..Len(left) /\ k + 1 \in DOMAIN jobs /\ k + 1 > 1
        BY <1>1, <2>1, <2>2
      <3>2. left[k] = jobs[k + 1] /\ left[k - 1] = jobs[(k - 1) + 1] /\ (k - 1) + 1 = (k + 1) - 1
        BY <1>1, <3>1
      <3>3. jobs[k + 1].from = jobs[(k + 1) - 1].to
        BY <1>2, <3>1 DEF Chained
      <3> QED BY <3>2, <3>3
    <2>3. ASSUME left # <<>> PROVE left[Len(left)].to = m
      <3>1. Len(left) \in 1..Len(left) /\ Len(left) + 1 = Len(jobs)
        BY <1>1, <2>3
      <3>2. left[Len(left)] = jobs[Len(jobs)]
        BY <1>1, <3>1
      <3> QED BY <1>2, <3>2 DEF Chained
    <2> QED BY <2>2, <2>3 DEF Chained
  <1> QED BY <1>1, <1>2 DEF Fewer, left

LEMMA FewerTrans ==
    ASSUME NEW a \in Seq(Jobs), NEW b, NEW c2, Fewer(a, b), Fewer(b, c2)
    PROVE Fewer(a, c2)
  <1>1. Len(a) \in Nat /\ Len(b) \in Nat /\ Len(c2) \in Nat
    BY DEF Fewer
  <1> QED BY <1>1 DEF Fewer

LEMMA FewerSelf ==
    ASSUME NEW a \in Seq(Jobs)
    PROVE Fewer(a, a)
  BY DEF Fewer

LEMMA SeqOfMore ==
    ASSUME NEW S, NEW T, S \subseteq T, NEW s \in Seq(S)
    PROVE s \in Seq(T)
  <1>1. Len(s) \in Nat /\ s \in [1..Len(s) -> T]
    OBVIOUS
  <1> QED BY <1>1

LEMMA SettledIs ==
    ASSUME NEW e, Settled(e)
    PROVE /\ IconOK(e) /\ Sound(e.player) /\ DOMAIN e = IconFields /\ e.animationJobs \in Seq(Jobs)
          /\ e.look \in Looks /\ e.mode \in Modes /\ e.lastMode \in Modes
          /\ Leads(e.lastMode, e.mode) /\ e.player.state \in {"NotRunning", "Running"}
  BY DEF Settled, IconOK

(* What the queue does to the player as a whole: jobs leave at the front.     *)
Advanced(e, r) ==
    /\ Settled(r) /\ Fewer(e.animationJobs, r.animationJobs)
    /\ r.mode = e.mode /\ r.lastMode = e.lastMode /\ r.look = e.look

LEMMA OnlyJobs ==
    ASSUME NEW e, Settled(e), NEW r, Differ(e, r, {"animationJobs"}), r.animationJobs \in Seq(Jobs)
    PROVE /\ Settled(r) /\ r.mode = e.mode /\ r.lastMode = e.lastMode /\ r.look = e.look
          /\ r.player = e.player
  <1>1. /\ DOMAIN r = IconFields /\ r.player = e.player /\ r.state = e.state /\ r.loaded = e.loaded
        /\ r.load = e.load /\ r.look = e.look /\ r.mode = e.mode /\ r.lastMode = e.lastMode
    BY DEF Differ, IconFields
  <1> QED BY <1>1 DEF Settled, IconOK, IsPlaying

(* Playing the first of the jobs: an animation plays and the job stays, or    *)
(* the job leaves and nothing plays.                                          *)
Smooth(l, job) == Animates(l, job.from, job.to)
Resumed(l, jobs, state, r) ==
    IF Smooth(l, jobs[1])
    THEN r.animationJobs = jobs /\ IsPlaying(r)
    ELSE r.animationJobs = Tail(jobs) /\ ~IsPlaying(r) /\ r.state = state

LEMMA PlayFromQueueIs ==
    ASSUME NEW e, Settled(e), NEW extra \in SUBSET Flags
    PROVE LET r == PlayFromQueue(e, extra) IN
          /\ Advanced(e, r)
          /\ IF IsPlaying(e) \/ e.animationJobs = <<>> THEN r = e
             ELSE Resumed(e.look, e.animationJobs, e.state, r)
  <1> DEFINE r == PlayFromQueue(e, extra)
             jobs == e.animationJobs
             job == Head(jobs)
             played == PlayPair(e, job.from, job.to, extra)
  <1>1. IconOK(e) /\ jobs \in Seq(Jobs)
    BY DEF Settled, IconOK
  <1>2. CASE IsPlaying(e) \/ jobs = <<>>
    <2>1. r = e
      BY <1>2 DEF PlayFromQueue
    <2> QED BY <1>1, <1>2, <2>1, FewerSelf DEF Advanced
  <1>3. CASE ~IsPlaying(e) /\ jobs # <<>>
    <2> DEFINE smooth == Smooth(e.look, job)
    <2>1. r = KeepIfPlaying(played)
      BY <1>3 DEF PlayFromQueue
    <2>2. job \in Jobs
      BY <1>1, <1>3
    <2>3. job.from \in Modes /\ job.to \in Modes
      BY <2>2 DEF Jobs
    <2>4. e.player.state = "NotRunning"
      BY <1>3 DEF Settled, IsPlaying
    <2> HIDE DEF job
    <2>5. /\ Settled(played) /\ Differ(e, played, Playables)
          /\ IF smooth THEN played.player.state = "Running"
             ELSE played.player = e.player /\ played.state = e.state
      BY <1>1, <2>3, <2>4, PlayPairIs DEF Smooth
    <2> HIDE DEF played, r
    <2>6. /\ played.mode = e.mode /\ played.lastMode = e.lastMode /\ played.look = e.look /\ played.animationJobs = jobs
          /\ DOMAIN played = IconFields
      BY <2>5 DEF Differ, IconFields, Playables, Pictures
    <2>7. IsPlaying(played) <=> smooth
      BY <2>4, <2>5 DEF IsPlaying
    <2>8. job = jobs[1]
      BY <1>1, <1>3 DEF job
    <2>9. r = IF smooth THEN played ELSE [played EXCEPT !.animationJobs = Tail(@)]
      BY <2>1, <2>5, <2>7 DEF KeepIfPlaying, Undef, Settled
    <2>10. CASE smooth
      <3>1. r = played
        BY <2>9, <2>10
      <3>2. Resumed(e.look, jobs, e.state, r)
        BY <2>6, <2>7, <2>8, <2>10, <3>1 DEF Resumed
      <3> QED BY <1>1, <1>3, <2>5, <2>6, <3>1, <3>2, FewerSelf DEF Advanced, r
    <2>11. CASE ~smooth
      <3>1. Differ(played, r, {"animationJobs"}) /\ r.animationJobs = Tail(jobs)
        BY <2>6, <2>9, <2>11 DEF Differ, IconFields
      <3>2. Fewer(jobs, Tail(jobs))
        BY <1>1, <1>3, TailIsFewer
      <3>3. Settled(r) /\ r.mode = played.mode /\ r.lastMode = played.lastMode /\ r.look = played.look
        BY <2>5, <3>1, <3>2, OnlyJobs DEF Fewer
      <3>4. r.player = played.player /\ r.state = played.state
        BY <3>1 DEF Differ, IconFields
      <3>5. Resumed(e.look, jobs, e.state, r)
        BY <2>5, <2>7, <2>8, <2>11, <3>1, <3>4 DEF Resumed, IsPlaying
      <3> QED BY <1>3, <2>6, <3>1, <3>2, <3>3, <3>5 DEF Advanced, r
    <2> QED BY <2>10, <2>11
  <1> QED BY <1>2, <1>3

LEMMA RememberHoverIs ==
    ASSUME NEW e, Settled(e)
    PROVE Differ(e, RememberHover(e), Pictures)
  <1>1. DOMAIN e = IconFields
    BY DEF Settled, IconOK
  <1> QED BY <1>1 DEF RememberHover, Differ, IconFields, Pictures

LEMMA ComeToRestIs ==
    ASSUME NEW e, Settled(e), e.player.state = "NotRunning"
    PROVE LET r == ComeToRest(e) IN
          Settled(r) /\ Differ(e, r, Playables) /\ r.state = "Idle"
  <1> DEFINE r == ComeToRest(e)
             q == IF e.mode \in {"Normal", "Disabled"} THEN ClearCache(e.player) ELSE e.player
  <1>1. DOMAIN e = IconFields /\ Sound(e.player)
    BY DEF Settled, IconOK
  <1>2. /\ Differ(e, r, {"image", "finishedImage", "player", "state"}) /\ r.player = q
        /\ r.state = "Idle"
    BY <1>1 DEF ComeToRest, Differ, IconFields
  <1> HIDE DEF r
  <1>3. Sound(q) /\ q.state = "NotRunning"
    BY <1>1, ClearCacheKeepsSound
  <1> HIDE DEF q
  <1>4. Differ(e, r, Playables)
    BY <1>2 DEF Differ, Playables, Pictures
  <1>5. /\ DOMAIN r = IconFields /\ r.loaded = e.loaded /\ r.animationJobs = e.animationJobs
        /\ r.load = e.load /\ r.look = e.look /\ r.mode = e.mode /\ r.lastMode = e.lastMode
    BY <1>2 DEF Differ, IconFields
  <1>6. IconOK(r)
    BY <1>2, <1>3, <1>5 DEF Settled, IconOK, IsPlaying
  <1> QED BY <1>2, <1>3, <1>4, <1>6 DEF Settled, r

LEMMA FinishedIs ==
    ASSUME NEW e, Settled(e), e.player.state = "NotRunning"
    PROVE LET r == Finished(e)
              left == IF e.animationJobs = <<>> THEN <<>> ELSE Tail(e.animationJobs)
          IN /\ Advanced(e, r)
             /\ IF left = <<>> THEN r.animationJobs = <<>> /\ r.state = "Idle"
                ELSE Resumed(e.look, left, e.state, r)
  <1> DEFINE a == RememberHover(e)
             b == [a EXCEPT !.animationJobs = IF @ = <<>> THEN @ ELSE Tail(@)]
             r == Finished(e)
             left == IF e.animationJobs = <<>> THEN <<>> ELSE Tail(e.animationJobs)
  <1>1. r = GoOn(b)
    BY DEF Finished
  <1>2. Differ(e, a, Pictures)
    BY RememberHoverIs
  <1> HIDE DEF a
  <1>3. /\ IconOK(a) /\ a.player = e.player /\ a.mode = e.mode /\ a.lastMode = e.lastMode
        /\ a.look = e.look /\ a.animationJobs = e.animationJobs /\ a.state = e.state
    BY <1>2, OnlyPictures DEF Settled
  <1>4. Settled(a) /\ DOMAIN a = IconFields /\ a.animationJobs \in Seq(Jobs)
    BY <1>3 DEF Settled, IconOK
  <1>5. /\ Differ(a, b, {"animationJobs"})
        /\ b.animationJobs = left /\ b.state = e.state
    BY <1>3, <1>4 DEF Differ, IconFields
  <1> HIDE DEF b, r
  <1>6. Fewer(e.animationJobs, b.animationJobs)
    BY <1>3, <1>4, <1>5, TailIsFewer, FewerSelf
  <1>7. /\ Settled(b) /\ b.mode = e.mode /\ b.lastMode = e.lastMode /\ b.look = e.look
        /\ b.player = e.player
    BY <1>3, <1>4, <1>5, <1>6, OnlyJobs DEF Fewer
  <1>8. CASE b.animationJobs # <<>>
    <2>1. r = PlayFromQueue(b, {})
      BY <1>1, <1>8 DEF GoOn
    <2>2. {} \in SUBSET Flags
      OBVIOUS
    <2>3. Advanced(b, r) /\ Resumed(b.look, b.animationJobs, b.state, r)
      BY <1>7, <1>8, <2>1, <2>2, PlayFromQueueIs DEF IsPlaying
    <2>4. Fewer(e.animationJobs, r.animationJobs)
      BY <1>3, <1>4, <1>6, <2>3, FewerTrans DEF Advanced
    <2> QED BY <1>5, <1>7, <1>8, <2>3, <2>4 DEF Advanced, r
  <1>9. CASE b.animationJobs = <<>>
    <2>1. r = ComeToRest(b)
      BY <1>1, <1>9 DEF GoOn
    <2>2. Settled(r) /\ Differ(b, r, Playables) /\ r.state = "Idle"
      BY <1>7, <2>1, ComeToRestIs
    <2>3. /\ r.mode = b.mode /\ r.lastMode = b.lastMode /\ r.look = b.look
          /\ r.animationJobs = b.animationJobs
      BY <2>2 DEF Differ, IconFields, Playables, Pictures
    <2> QED BY <1>5, <1>6, <1>7, <1>9, <2>2, <2>3 DEF Advanced, r
  <1> QED BY <1>8, <1>9

-----------------------------------------------------------------------------
LEMMA AppendChains ==
    ASSUME NEW jobs \in Seq(Jobs), NEW m \in Modes, NEW n \in Modes, Leads(m, n),
           Chained(jobs, m)
    PROVE Chained(Append(jobs, [from |-> m, to |-> n]), n)
  <1> DEFINE job == [from |-> m, to |-> n]
             longer == Append(jobs, job)
             N == Len(jobs)
  <1>1. job \in Jobs /\ job.from = m /\ job.to = n
    BY DEF Jobs
  <1> HIDE DEF job
  <1>2. /\ N \in Nat /\ longer \in Seq(Jobs) /\ Len(longer) = N + 1
        /\ \A k \in 1..N : longer[k] = jobs[k]
        /\ longer[N + 1] = job /\ DOMAIN longer = 1..(N + 1) /\ DOMAIN jobs = 1..N
    BY <1>1
  <1>3. jobs # <<>> => N > 0
    BY <1>2
  <1>4. N > 0 => jobs[N].to = m
    BY DEF Chained
  <1> HIDE DEF longer, N
  <1>5. ASSUME NEW k \in DOMAIN longer, k > 1 PROVE longer[k].from = longer[k - 1].to
    <2>1. k \in 1..(N + 1)
      BY <1>2
    <2>2. CASE k = N + 1
      <3>1. k - 1 = N /\ N \in 1..N
        BY <1>2, <1>5, <2>2
      <3> QED BY <1>1, <1>2, <1>4, <2>2, <3>1
    <2>3. CASE k # N + 1
      <3>1. k \in DOMAIN jobs /\ k \in 1..N /\ k - 1 \in 1..N
        BY <1>2, <1>5, <2>1, <2>3
      <3>2. jobs[k].from = jobs[k - 1].to
        BY <1>5, <3>1 DEF Chained
      <3> QED BY <1>2, <3>1, <3>2
    <2> QED BY <2>2, <2>3
  <1>6. longer[Len(longer)].to = n
    BY <1>1, <1>2
  <1>7. Chained(longer, n)
    BY <1>5, <1>6 DEF Chained
  <1> QED BY <1>7 DEF longer, job

LEMMA FrontIs ==
    ASSUME NEW jobs \in Seq(Jobs), Len(jobs) > 1
    PROVE LET front == Ext!Front(jobs) IN
          /\ front \in Seq(Jobs) /\ Len(front) = Len(jobs) - 1
          /\ \A k \in 1..(Len(jobs) - 1) : front[k] = jobs[k]
  <1> DEFINE N == Len(jobs)
             front == Ext!Front(jobs)
  <1>1. N \in Nat /\ N > 1 /\ \A k \in 1..N : jobs[k] \in Jobs
    OBVIOUS
  <1>2. front = [k \in 1..(N - 1) |-> jobs[k]]
    BY DEF Ext!Front
  <1> QED BY <1>1, <1>2

LEMMA FrontChains ==
    ASSUME NEW jobs \in Seq(Jobs), Len(jobs) > 1, NEW m \in Modes, Chained(jobs, m)
    PROVE Chained(Ext!Front(jobs), jobs[Len(jobs)].from)
  <1> DEFINE N == Len(jobs)
             front == Ext!Front(jobs)
  <1>1. N \in Nat /\ N > 1 /\ DOMAIN jobs = 1..N
    OBVIOUS
  <1>2. front \in Seq(Jobs) /\ Len(front) = N - 1 /\ \A k \in 1..(N - 1) : front[k] = jobs[k]
    BY FrontIs
  <1> HIDE DEF front, N
  <1>3. DOMAIN front = 1..(N - 1)
    BY <1>2
  <1>4. \A k \in 1..(N - 1) : front[k] = jobs[k]
    BY <1>2
  <1>5. \A k \in DOMAIN front : k > 1 => front[k].from = front[k - 1].to
    BY <1>1, <1>3, <1>4 DEF Chained
  <1>6. front[Len(front)].to = jobs[N].from
    <2>1. N \in DOMAIN jobs /\ N - 1 \in 1..(N - 1)
      BY <1>1
    <2>2. jobs[N].from = jobs[N - 1].to
      BY <1>1, <2>1 DEF Chained
    <2> QED BY <1>2, <1>4, <2>1, <2>2
  <1>7. Chained(front, jobs[N].from)
    BY <1>5, <1>6 DEF Chained
  <1> QED BY <1>7 DEF front, N

LEMMA StopPlayerIs ==
    ASSUME NEW e, IconOK(e)
    PROVE LET r == StopPlayer(e) IN
          IconOK(r) /\ Differ(e, r, {"player"}) /\ r.player.state = "NotRunning"
  <1> DEFINE r == StopPlayer(e)
  <1>1. DOMAIN e = IconFields /\ Sound(e.player)
    BY DEF IconOK
  <1>2. Sound(Stop(e.player)) /\ Stop(e.player).state = "NotRunning"
    BY <1>1, StopKeepsSound
  <1>3. Differ(e, r, {"player"}) /\ r.player = Stop(e.player)
    BY <1>1 DEF StopPlayer, Differ, IconFields
  <1> HIDE DEF r
  <1>4. Differ(e, r, Pictures \cup {"player"})
    BY <1>3 DEF Differ
  <1>5. IconOK(r)
    BY <1>2, <1>3, <1>4, OnlyPlayer DEF IsPlaying
  <1> QED BY <1>2, <1>3, <1>5 DEF r

(* What playToQueue comes to for the player e.                                *)
Ignored(e) ==
    e.animationJobs # <<>> /\ LastJob(e) = Request(e) /\ d' = e /\ calls' = calls
Offset(e) ==
    /\ Len(e.animationJobs) > 1 /\ LastJob(e) = Opposite(Request(e))
    /\ d' = [e EXCEPT !.animationJobs = Ext!Front(@)] /\ calls' = calls
Added(e) ==
    /\ Differ(e, d', {"player", "animationJobs"})
    /\ d'.animationJobs = Append(e.animationJobs, Request(e))
    /\ d'.player = IF IsPlaying(e) THEN AbortLoop(e.player) ELSE e.player
Behind(e) ==
    e.animationJobs # <<>> /\ Added(e) /\ calls' = IF IsPlaying(e) THEN calls ELSE Append(calls, {})
Anew(e) ==
    /\ \/ e.animationJobs = <<>>
       \/ Len(e.animationJobs) = 1 /\ IsPlaying(e) /\ LastJob(e) = Opposite(Request(e))
    /\ Differ(e, d', {"player", "animationJobs"})
    /\ d'.animationJobs = <<Request(e)>> /\ d'.player = Stop(e.player)
    /\ calls' = Append(calls, IF e.animationJobs = <<>> THEN {} ELSE {"Continue"})

LEMMA EnqueueIs ==
    ASSUME NEW e, Settled(e), NEW extra \in SUBSET Flags, CallsOK(calls), Enqueue(e, extra)
    PROVE /\ Settled(d') /\ Added(e) /\ Len(d'.animationJobs) <= MaxJobs
          /\ CallsOK(calls') /\ calls' = IF IsPlaying(e) THEN calls ELSE Append(calls, extra)
  <1> DEFINE jobs == Append(e.animationJobs, Request(e))
             f == [e EXCEPT !.animationJobs = Append(@, Request(e))]
  <1>1. /\ IconOK(e) /\ DOMAIN e = IconFields /\ e.lastMode \in Modes /\ e.mode \in Modes
        /\ e.animationJobs \in Seq(Jobs) /\ Leads(e.lastMode, e.mode)
    BY DEF Settled, IconOK
  <1>2. Request(e) \in Jobs
    BY <1>1 DEF Jobs, Request
  <1>3. jobs \in Seq(Jobs)
    BY <1>1, <1>2
  <1>4. Differ(e, f, {"animationJobs"}) /\ f.animationJobs = jobs
    BY <1>1 DEF Differ, IconFields
  <1>5. /\ Len(f.animationJobs) <= MaxJobs
        /\ IF IsPlaying(f)
           THEN d' = [f EXCEPT !.player = AbortLoop(@)] /\ UNCHANGED calls
           ELSE Len(calls) < MaxCalls /\ d' = f /\ calls' = Append(calls, extra)
    BY DEF Enqueue
  <1> HIDE DEF f, jobs
  <1>6. Settled(f) /\ f.player = e.player /\ (IsPlaying(f) <=> IsPlaying(e))
    BY <1>3, <1>4, OnlyJobs DEF IsPlaying
  <1>7. CASE IsPlaying(e)
    <2>1. DOMAIN f = IconFields /\ IconOK(f) /\ Sound(f.player)
      BY <1>6 DEF Settled, IconOK
    <2> DEFINE q == AbortLoop(f.player)
    <2>2. Sound(q) /\ q.state = f.player.state
      BY <1>6, <1>7, <2>1, AbortLoopKeepsSound DEF IsPlaying
    <2>3. Differ(f, d', {"player"}) /\ d'.player = q
      BY <1>5, <1>6, <1>7, <2>1 DEF Differ, IconFields
    <2>4. Added(e)
      <3>1. Differ(e, d', {"player", "animationJobs"})
        BY <1>4, <2>3, DifferTrans
      <3>2. d'.animationJobs = jobs
        BY <1>4, <2>3 DEF Differ, IconFields
      <3> QED BY <1>6, <1>7, <2>3, <3>1, <3>2 DEF Added, jobs
    <2> HIDE DEF q
    <2>5. Differ(f, d', Pictures \cup {"player"})
      BY <2>3 DEF Differ
    <2>6. IconOK(d') /\ d'.animationJobs = f.animationJobs
      BY <1>6, <1>7, <2>1, <2>2, <2>3, <2>5, OnlyPlayer DEF IsPlaying
    <2>7. calls' = calls
      BY <1>5, <1>6, <1>7
    <2> QED BY <1>5, <1>6, <1>7, <2>2, <2>3, <2>4, <2>6, <2>7 DEF Settled
  <1>8. CASE ~IsPlaying(e)
    <2>1. d' = f /\ calls' = Append(calls, extra) /\ CallsOK(calls')
      BY <1>5, <1>6, <1>8, IconAssumption DEF CallsOK
    <2>2. Added(e)
      BY <1>4, <1>6, <1>8, <2>1 DEF Added, jobs, Differ
    <2> QED BY <1>5, <1>6, <1>8, <2>1, <2>2
  <1> QED BY <1>7, <1>8

LEMMA PlayToQueueIs ==
    ASSUME NEW e, Settled(e), Len(e.animationJobs) <= MaxJobs, CallsOK(calls), PlayToQueue(e)
    PROVE /\ Settled(d') /\ Len(d'.animationJobs) <= MaxJobs /\ CallsOK(calls')
          /\ Ignored(e) \/ Offset(e) \/ Behind(e) \/ Anew(e)
  <1> DEFINE jobs == e.animationJobs
             same == jobs # <<>> /\ LastJob(e) = Request(e)
             opposite == jobs # <<>> /\ LastJob(e) = Opposite(Request(e)) /\ ~same
             offset == opposite /\ Len(jobs) > 1
             turned == opposite /\ Len(jobs) = 1 /\ IsPlaying(e)
             emptied == [StopPlayer(e) EXCEPT !.animationJobs = <<>>]
             base == IF jobs = <<>> \/ turned THEN emptied ELSE e
             extra == IF turned THEN {"Continue"} ELSE {}
  <1>1. /\ IconOK(e) /\ DOMAIN e = IconFields /\ jobs \in Seq(Jobs) /\ Len(jobs) \in Nat
        /\ Sound(e.player)
    BY DEF Settled, IconOK
  <1>2. IF same \/ offset
        THEN /\ d' = IF same THEN e ELSE [e EXCEPT !.animationJobs = Ext!Front(@)]
             /\ UNCHANGED calls
        ELSE Enqueue(base, extra)
    BY DEF PlayToQueue
  <1>3. CASE same
    <2>1. d' = e /\ calls' = calls
      BY <1>2, <1>3
    <2> QED BY <1>3, <2>1 DEF Ignored
  <1>4. CASE offset /\ ~same
    <2> DEFINE front == Ext!Front(jobs)
    <2>1. d' = [e EXCEPT !.animationJobs = front] /\ calls' = calls
      BY <1>2, <1>4
    <2>2. front \in Seq(Jobs) /\ Len(front) = Len(jobs) - 1
      BY <1>1, <1>4, FrontIs
    <2>3. Offset(e)
      BY <1>4, <2>1 DEF Offset
    <2> HIDE DEF front
    <2>4. Differ(e, d', {"animationJobs"}) /\ d'.animationJobs = front
      BY <1>1, <2>1 DEF Differ, IconFields
    <2>5. Settled(d')
      BY <2>2, <2>4, OnlyJobs
    <2>6. MaxJobs \in Nat
      BY IconAssumption
    <2>7. Len(front) <= MaxJobs
      BY <1>1, <2>2, <2>6
    <2> QED BY <2>1, <2>3, <2>4, <2>5, <2>7
  <1>5. CASE ~same /\ ~offset
    <2>1. Enqueue(base, extra)
      BY <1>2, <1>5
    <2>2. extra \in SUBSET Flags
      BY DEF Flags
    <2>3. CASE jobs = <<>> \/ turned
      <3> DEFINE s == StopPlayer(e)
      <3>1. IconOK(s) /\ Differ(e, s, {"player"}) /\ s.player.state = "NotRunning"
        BY <1>1, StopPlayerIs
      <3>2. s.player = Stop(e.player)
        BY <1>1 DEF StopPlayer, IconFields
      <3>3. base = [s EXCEPT !.animationJobs = <<>>]
        BY <2>3
      <3> HIDE DEF s
      <3>4. /\ Settled(s) /\ s.mode = e.mode /\ s.lastMode = e.lastMode /\ DOMAIN s = IconFields
        BY <3>1 DEF Settled, Differ, IconFields
      <3> HIDE DEF base
      <3>5. Differ(s, base, {"animationJobs"}) /\ base.animationJobs = <<>>
        BY <3>3, <3>4 DEF Differ, IconFields
      <3>6. <<>> \in Seq(Jobs)
        OBVIOUS
      <3>7. /\ Settled(base) /\ base.mode = s.mode /\ base.lastMode = s.lastMode
            /\ base.player = s.player
        BY <3>4, <3>5, <3>6, OnlyJobs
      <3>8. Request(base) = Request(e) /\ ~IsPlaying(base)
        BY <3>1, <3>4, <3>7 DEF Request, IsPlaying
      <3> HIDE DEF extra
      <3>9. /\ Settled(d') /\ Added(base) /\ Len(d'.animationJobs) <= MaxJobs
            /\ CallsOK(calls') /\ calls' = Append(calls, extra)
        BY <2>1, <2>2, <3>7, <3>8, EnqueueIs
      <3>10. d'.animationJobs = <<Request(e)>> /\ d'.player = Stop(e.player)
        BY <3>2, <3>5, <3>7, <3>8, <3>9 DEF Added
      <3>11. Differ(e, base, {"player", "animationJobs"})
        BY <3>1, <3>5, DifferTrans
      <3>12. Differ(e, d', {"player", "animationJobs"})
        BY <3>9, <3>11, DifferTrans DEF Added
      <3>13. extra = IF jobs = <<>> THEN {} ELSE {"Continue"}
        BY <2>3 DEF extra
      <3> QED BY <2>3, <3>9, <3>10, <3>12, <3>13 DEF Anew
    <2>4. CASE ~(jobs = <<>> \/ turned)
      <3>1. base = e /\ extra = {}
        BY <2>4
      <3> HIDE DEF base, extra
      <3>2. /\ Settled(d') /\ Added(e) /\ Len(d'.animationJobs) <= MaxJobs
            /\ CallsOK(calls') /\ calls' = IF IsPlaying(e) THEN calls ELSE Append(calls, {})
        BY <2>1, <2>2, <3>1, EnqueueIs
      <3> QED BY <2>4, <3>2 DEF Behind
    <2> QED BY <2>3, <2>4
  <1> QED BY <1>3, <1>4, <1>5

(* The queue leads to the mode asked for, if it led to the mode before it.    *)
LEMMA PlayToQueueChains ==
    ASSUME NEW e, Settled(e), Chained(e.animationJobs, e.lastMode),
           Ignored(e) \/ Offset(e) \/ Behind(e) \/ Anew(e)
    PROVE d'.mode = e.mode /\ Chained(d'.animationJobs, d'.mode)
  <1> DEFINE jobs == e.animationJobs
             job == Request(e)
  <1>1. /\ DOMAIN e = IconFields /\ jobs \in Seq(Jobs) /\ e.mode \in Modes /\ e.lastMode \in Modes
        /\ Leads(e.lastMode, e.mode) /\ LastJob(e) = jobs[Len(jobs)]
        /\ job = [from |-> e.lastMode, to |-> e.mode]
    BY SettledIs DEF LastJob, Request
  <1>2. Chained(<<>>, e.lastMode)
    BY DEF Chained
  <1> HIDE DEF job
  <1>3. Chained(Append(jobs, job), e.mode) /\ Chained(Append(<<>>, job), e.mode)
    <2>1. <<>> \in Seq(Jobs)
      OBVIOUS
    <2> QED BY <1>1, <1>2, <2>1, AppendChains
  <1>4. CASE Ignored(e)
    <2>1. d' = e /\ jobs[Len(jobs)] = job
      BY <1>1, <1>4 DEF Ignored, job
    <2>2. job.to = e.mode
      BY <1>1
    <2> QED BY <2>1, <2>2 DEF Chained
  <1>5. CASE Offset(e)
    <2>1. jobs[Len(jobs)].from = e.mode /\ Len(jobs) > 1
      BY <1>1, <1>5 DEF Offset, Opposite, job
    <2>2. Chained(Ext!Front(jobs), e.mode)
      BY <1>1, <2>1, FrontChains
    <2>3. d' = [e EXCEPT !.animationJobs = Ext!Front(jobs)]
      BY <1>5 DEF Offset
    <2>4. d'.animationJobs = Ext!Front(jobs) /\ d'.mode = e.mode
      BY <1>1, <2>3 DEF IconFields
    <2> QED BY <2>2, <2>4
  <1>6. CASE Behind(e)
    <2>1. d'.animationJobs = Append(jobs, job) /\ d'.mode = e.mode
      BY <1>6 DEF Behind, Added, job, Differ, IconFields
    <2> QED BY <1>3, <2>1
  <1>7. CASE Anew(e)
    <2>1. d'.animationJobs = Append(<<>>, job) /\ d'.mode = e.mode
      BY <1>7 DEF Anew, job, Differ, IconFields
    <2> QED BY <1>3, <2>1
  <1> QED BY <1>4, <1>5, <1>6, <1>7

-----------------------------------------------------------------------------
(* One lemma for each kind of step.                                           *)
LEMMA OnlyRequest ==
    ASSUME NEW e, Settled(e), NEW r, Differ(e, r, {"mode", "lastMode", "look"}),
           r.mode \in Modes, r.lastMode \in Modes, Leads(r.lastMode, r.mode), r.look \in Looks
    PROVE Settled(r) /\ r.animationJobs = e.animationJobs
  <1>1. /\ DOMAIN r = IconFields /\ r.player = e.player /\ r.state = e.state /\ r.loaded = e.loaded
        /\ r.load = e.load /\ r.animationJobs = e.animationJobs
    BY DEF Differ, IconFields
  <1> QED BY <1>1 DEF Settled, IconOK, IsPlaying

LEMMA ResetIs ==
    ASSUME NEW e, IconOK(e)
    PROVE LET r == Reset(e) IN
          /\ Settled(r) /\ r.player.state = "NotRunning" /\ r.loaded = FALSE
          /\ r.animationJobs = e.animationJobs /\ r.look = e.look
          /\ r.mode = e.mode /\ r.lastMode = e.lastMode
  <1> DEFINE s == StopPlayer(e)
             zero == [i \in Images |-> 0]
             r == Reset(e)
  <1>1. IconOK(s) /\ Differ(e, s, {"player"}) /\ s.player.state = "NotRunning"
    BY StopPlayerIs
  <1>2. r = [s EXCEPT !.loaded = FALSE, !.hoverModeLastImage = NoImage, !.player.number = zero]
    BY DEF Reset
  <1> HIDE DEF s
  <1>3. /\ DOMAIN s = IconFields /\ s.animationJobs = e.animationJobs /\ Sound(s.player)
        /\ s.look = e.look /\ s.mode = e.mode /\ s.lastMode = e.lastMode
    BY <1>1 DEF IconOK, Differ, IconFields
  <1> DEFINE q == [s.player EXCEPT !.number = zero]
  <1>4. zero \in [Images -> Nat]
    OBVIOUS
  <1> HIDE DEF zero
  <1>5. Sound(q) /\ q.state = "NotRunning"
    BY <1>1, <1>3, <1>4, RewindingKeepsSound
  <1>6. /\ Differ(s, r, {"loaded", "hoverModeLastImage", "player"}) /\ r.player = q
        /\ r.loaded = FALSE
    BY <1>2, <1>3 DEF Differ, IconFields
  <1> HIDE DEF q, r
  <1>7. /\ DOMAIN r = IconFields /\ r.load = s.load /\ r.look = s.look /\ r.mode = s.mode
        /\ r.lastMode = s.lastMode /\ r.state = s.state /\ r.animationJobs = s.animationJobs
    BY <1>6 DEF Differ, IconFields
  <1>8. Settled(r)
    BY <1>1, <1>5, <1>6, <1>7 DEF Settled, IconOK, IsPlaying
  <1> QED BY <1>3, <1>5, <1>6, <1>7, <1>8 DEF r

LEMMA AbortIs ==
    ASSUME NEW e, IconOK(e)
    PROVE LET r == Abort(e) IN
          /\ Settled(r) /\ r.animationJobs = <<>> /\ r.player.state = "NotRunning" /\ r.state = "Idle"
          /\ r.mode = e.mode /\ r.lastMode = e.lastMode /\ r.look = e.look
  <1> DEFINE s == StopPlayer(e)
             r == Abort(e)
  <1>1. IconOK(s) /\ Differ(e, s, {"player"}) /\ s.player.state = "NotRunning"
    BY StopPlayerIs
  <1>2. r = [s EXCEPT !.animationJobs = <<>>, !.state = "Idle"]
    BY DEF Abort
  <1> HIDE DEF s
  <1>3. DOMAIN s = IconFields /\ s.mode = e.mode /\ s.lastMode = e.lastMode /\ s.look = e.look
    BY <1>1 DEF IconOK, Differ, IconFields
  <1>4. /\ Differ(s, r, {"animationJobs", "state"}) /\ r.animationJobs = <<>> /\ r.state = "Idle"
    BY <1>2, <1>3 DEF Differ, IconFields
  <1> HIDE DEF r
  <1>5. /\ DOMAIN r = IconFields /\ r.player = s.player /\ r.loaded = s.loaded /\ r.load = s.load
        /\ r.look = s.look /\ r.mode = s.mode /\ r.lastMode = s.lastMode
    BY <1>4 DEF Differ, IconFields
  <1>6. <<>> \in Seq(Jobs)
    OBVIOUS
  <1>7. Settled(r)
    BY <1>1, <1>4, <1>5, <1>6 DEF Settled, IconOK, IsPlaying
  <1> QED BY <1>1, <1>3, <1>4, <1>5, <1>7 DEF r

LEMMA InitIsInv ==
    ASSUME IconPlayerInit
    PROVE IconInv
  <1>1. PICK l \in Looks, pal \in Palettes :
          d = [player |-> NewPlayer(pal), look |-> l, loaded |-> FALSE, load |-> 0,
               mode |-> "Normal", lastMode |-> "Normal", state |-> "Idle",
               animationJobs |-> <<>>, saveImageForHoverModeOnFinished |-> FALSE,
               image |-> NoImage, finishedImage |-> NoImage,
               hoverModeLastImage |-> NoImage]
    BY DEF IconPlayerInit
  <1>2. DOMAIN d = IconFields
    BY <1>1 DEF IconFields
  <1>3. /\ d.player = NewPlayer(pal) /\ d.look = l /\ d.loaded = FALSE /\ d.load = 0
        /\ d.mode = "Normal" /\ d.lastMode = "Normal" /\ d.state = "Idle" /\ d.animationJobs = <<>>
    BY <1>1
  <1>4. Sound(d.player) /\ d.player.state = "NotRunning"
    BY <1>3, NewIsSound
  <1>5. Settled(d)
    <2>1. "Normal" \in Modes /\ <<>> \in Seq(Jobs)
      BY DEF Modes
    <2> QED BY <1>2, <1>3, <1>4, <2>1 DEF Settled, IconOK, IsPlaying, Leads
  <1>6. /\ CallsOK(calls) /\ Len(d.animationJobs) <= MaxJobs /\ meddled \subseteq Meddling
        /\ Chained(d.animationJobs, d.mode)
    BY <1>3, IconAssumption DEF IconPlayerInit, CallsOK, Chained
  <1> QED BY <1>5, <1>6 DEF IconInv

LEMMA MeddleIs ==
    ASSUME NEW what \in Meddling, meddled \subseteq Meddling, Meddle(what), NEW S \in SUBSET Meddling
    PROVE meddled' \subseteq Meddling /\ (Clean(S)' => Clean(S) /\ what \notin S)
  BY DEF Meddle, Clean

(* The player that restyling, setMode or setPalette makes a request of.        *)
LEMMA RestyleIs ==
    ASSUME IconInv, NEW l \in Looks, Restyle(l)
    PROVE \E f : /\ Settled(f) /\ PlayToQueue(f)
                 /\ f.player.state = "NotRunning" /\ f.look = l
                 /\ f.animationJobs = d.animationJobs
  <1> DEFINE e == [d EXCEPT !.look = l]
  <1>1. /\ Settled(d) /\ DOMAIN d = IconFields /\ d.mode \in Modes /\ d.lastMode \in Modes
        /\ Leads(d.lastMode, d.mode)
    BY SettledIs DEF IconInv
  <1>2. Differ(d, e, {"look"}) /\ e.look = l
    BY <1>1 DEF Differ, IconFields
  <1>3. Differ(d, e, {"mode", "lastMode", "look"}) /\ e.mode = d.mode /\ e.lastMode = d.lastMode
    BY <1>2 DEF Differ, IconFields
  <1>4. PlayToQueue(Reset(e))
    BY DEF Restyle
  <1> HIDE DEF e
  <1>5. Settled(e) /\ e.animationJobs = d.animationJobs
    BY <1>1, <1>2, <1>3, OnlyRequest
  <1>6. /\ Settled(Reset(e)) /\ Reset(e).animationJobs = d.animationJobs
        /\ Reset(e).player.state = "NotRunning" /\ Reset(e).look = l
    BY <1>2, <1>5, ResetIs DEF Settled
  <1> QED BY <1>4, <1>6

LEMMA RestyleKeeps ==
    ASSUME IconInv, NEW l \in Looks, Restyle(l)
    PROVE IconInv'
  <1>1. PICK f : Settled(f) /\ PlayToQueue(f) /\ f.animationJobs = d.animationJobs
    BY RestyleIs
  <1>2. Settled(d') /\ Len(d'.animationJobs) <= MaxJobs /\ CallsOK(calls')
    BY <1>1, PlayToQueueIs DEF IconInv
  <1>3. meddled' \subseteq Meddling /\ ~Clean({"restyled", "recoloured"})'
    BY MeddleIs DEF IconInv, Meddling, Restyle
  <1> QED BY <1>2, <1>3 DEF IconInv, CallsOK

LEMMA SetModeIs ==
    ASSUME IconInv, NEW m \in Modes, setMode(m)
    PROVE \E f : /\ Settled(f) /\ PlayToQueue(f)
                 /\ f.mode = m /\ f.lastMode = d.mode /\ f.look = d.look
                 /\ IF m = "Disabled"
                    THEN f.animationJobs = <<>> /\ f.state = "Idle" /\ f.player.state = "NotRunning"
                    ELSE f.animationJobs = d.animationJobs /\ f.state = d.state /\ f.player = d.player
  <1> DEFINE e == [d EXCEPT !.lastMode = d.mode, !.mode = m]
             f == IF m = "Disabled" THEN Abort(e) ELSE e
  <1>1. Settled(d) /\ DOMAIN d = IconFields /\ d.mode \in Modes /\ d.look \in Looks
    BY SettledIs DEF IconInv
  <1>2. Differ(d, e, {"mode", "lastMode"}) /\ e.mode = m /\ e.lastMode = d.mode
    BY <1>1 DEF Differ, IconFields
  <1>3. Differ(d, e, {"mode", "lastMode", "look"}) /\ e.look = d.look /\ e.player = d.player
        /\ e.state = d.state
    BY <1>2 DEF Differ, IconFields
  <1>4. PlayToQueue(f) /\ Leads(d.mode, m)
    BY DEF setMode, Leads
  <1> HIDE DEF e
  <1>5. Settled(e) /\ e.animationJobs = d.animationJobs
    BY <1>1, <1>2, <1>3, <1>4, OnlyRequest
  <1>6. /\ Settled(f) /\ f.mode = m /\ f.lastMode = d.mode /\ f.look = d.look
        /\ IF m = "Disabled"
           THEN f.animationJobs = <<>> /\ f.state = "Idle" /\ f.player.state = "NotRunning"
           ELSE f.animationJobs = d.animationJobs /\ f.state = d.state /\ f.player = d.player
    BY <1>2, <1>3, <1>5, AbortIs DEF Settled
  <1> QED BY <1>4, <1>6

LEMMA SetModeKeeps ==
    ASSUME IconInv, NEW m \in Modes, setMode(m)
    PROVE IconInv'
  <1> DEFINE S == {"restyled", "recoloured"}
  <1>1. PICK f : /\ Settled(f) /\ PlayToQueue(f) /\ f.mode = m /\ f.lastMode = d.mode
                 /\ f.animationJobs \in {d.animationJobs, <<>>}
    BY SetModeIs
  <1>2. meddled' = IF Quiet /\ d.state = "Idle" /\ d.image = EndOf(d) THEN {} ELSE meddled
    BY DEF setMode
  <1>3. Len(f.animationJobs) <= MaxJobs
    BY <1>1, IconAssumption DEF IconInv
  <1>4. /\ Settled(d') /\ Len(d'.animationJobs) <= MaxJobs /\ CallsOK(calls')
        /\ Chained(f.animationJobs, f.lastMode) => Chained(d'.animationJobs, d'.mode)
    BY <1>1, <1>3, PlayToQueueIs, PlayToQueueChains DEF IconInv
  <1>5. Chained(<<>>, d.mode)
    BY DEF Chained
  <1>6. ASSUME Clean(S)' PROVE Chained(f.animationJobs, f.lastMode)
    <2>1. CASE d.animationJobs = <<>>
      BY <1>1, <1>5, <2>1
    <2>2. CASE d.animationJobs # <<>>
      <3>1. meddled' = meddled
        BY <1>2, <2>2 DEF Quiet
      <3>2. Chained(d.animationJobs, d.mode)
        BY <1>6, <3>1 DEF IconInv, Clean
      <3> QED BY <1>1, <1>5, <3>2
    <2> QED BY <2>1, <2>2
  <1>7. meddled' \subseteq Meddling
    BY <1>2 DEF IconInv
  <1> QED BY <1>4, <1>6, <1>7 DEF IconInv, CallsOK

LEMMA SetIconPaletteIs ==
    ASSUME IconInv, NEW pal \in Palettes, setIconPalette(pal)
    PROVE \E f : /\ Settled(f)
                 /\ IF Has(d, d.mode) THEN PlayToQueue(f) ELSE d' = f /\ calls' = calls
                 /\ f.player.state = d.player.state /\ f.loaded = d.loaded /\ f.look = d.look
                 /\ f.animationJobs = d.animationJobs /\ f.state = d.state
                 /\ f.mode = d.mode /\ f.lastMode = d.lastMode
  <1> DEFINE q == SetPalette(d.player, pal)
             last == IF Has(d, "Hover") THEN NoImage ELSE d.hoverModeLastImage
             e == [d EXCEPT !.player = q, !.hoverModeLastImage = last]
  <1>1. Settled(d) /\ IconOK(d) /\ DOMAIN d = IconFields /\ Sound(d.player)
    BY SettledIs DEF IconInv
  <1>2. Sound(q) /\ q.state = d.player.state
    BY <1>1, SetPaletteKeepsSound
  <1>3. IF Has(d, d.mode) THEN PlayToQueue(e) ELSE d' = e /\ calls' = calls
    BY DEF setIconPalette
  <1> HIDE DEF q, last
  <1>4. Differ(d, e, {"player", "hoverModeLastImage"}) /\ e.player = q
    BY <1>1 DEF Differ, IconFields
  <1> HIDE DEF e
  <1>5. Differ(d, e, Pictures \cup {"player"})
    BY <1>4 DEF Differ, Pictures
  <1>6. /\ Settled(e) /\ e.animationJobs = d.animationJobs /\ e.loaded = d.loaded
        /\ e.look = d.look /\ e.state = d.state /\ e.mode = d.mode /\ e.lastMode = d.lastMode
    BY <1>1, <1>2, <1>4, <1>5, OnlyPlayer DEF Settled, IsPlaying
  <1> QED BY <1>2, <1>3, <1>4, <1>6

LEMMA SetIconPaletteKeeps ==
    ASSUME IconInv, NEW pal \in Palettes, setIconPalette(pal)
    PROVE IconInv'
  <1>1. PICK f : /\ Settled(f) /\ f.animationJobs = d.animationJobs
                 /\ IF Has(d, d.mode) THEN PlayToQueue(f) ELSE d' = f /\ calls' = calls
    BY SetIconPaletteIs
  <1>2. Settled(d') /\ Len(d'.animationJobs) <= MaxJobs /\ CallsOK(calls')
    <2>1. CASE Has(d, d.mode)
      BY <1>1, <2>1, PlayToQueueIs DEF IconInv
    <2>2. CASE ~Has(d, d.mode)
      BY <1>1, <2>2 DEF IconInv
    <2> QED BY <2>1, <2>2
  <1>3. meddled' \subseteq Meddling /\ ~Clean({"restyled", "recoloured"})'
    BY MeddleIs DEF IconInv, Meddling, setIconPalette
  <1> QED BY <1>2, <1>3 DEF IconInv, CallsOK

LEMMA PlayIs ==
    ASSUME IconInv, NEW m \in Modes, NEW flags \in SUBSET Flags, play(m, flags)
    PROVE /\ Settled(d') /\ d'.look = d.look
          /\ \/ d'.animationJobs = <<>>
             \/ /\ d'.animationJobs = d.animationJobs /\ d'.mode = d.mode
                /\ d'.lastMode = d.lastMode /\ d'.player = d.player
          /\ d'.player.state \in {d.player.state, "NotRunning"} \/ Kind[d.look][m] = "animated"
  <1> DEFINE e == EnsureInit(d)
             s == StopPlayer(e)
             f == [s EXCEPT !.animationJobs = <<>>, !.finishedImage = NoImage]
  <1>1. Settled(d) /\ IconOK(d) /\ DOMAIN d = IconFields
    BY SettledIs DEF IconInv
  <1>2. /\ IconOK(e) /\ Differ(d, e, {"loaded", "load"}) /\ e.player = d.player
        /\ e.animationJobs = d.animationJobs /\ e.mode = d.mode /\ e.lastMode = d.lastMode
        /\ e.look = d.look
    BY <1>1, EnsureInitIs DEF Differ, IconFields
  <1>3. d' = IF ~Has(e, "Normal") THEN e
             ELSE IF IsAnimated(e, m) THEN StartPlayer(f, <<m>>, m, flags) ELSE f
    BY DEF play
  <1> HIDE DEF e
  <1>4. IconOK(s) /\ Differ(e, s, {"player"}) /\ s.player.state = "NotRunning"
    BY <1>2, StopPlayerIs
  <1> HIDE DEF s
  <1>5. Differ(s, f, {"animationJobs", "finishedImage"}) /\ f.animationJobs = <<>>
    BY <1>4 DEF IconOK, Differ, IconFields
  <1> HIDE DEF f
  <1>6. /\ DOMAIN f = IconFields /\ f.player = s.player /\ f.state = s.state
        /\ f.loaded = e.loaded /\ f.load = s.load /\ f.look = e.look /\ f.mode = s.mode
        /\ f.lastMode = s.lastMode /\ f.loaded = s.loaded /\ f.look = s.look
    BY <1>4, <1>5 DEF Differ, IconFields
  <1>7. IconOK(f) /\ Settled(f) /\ f.player.state = "NotRunning"
    <2>1. <<>> \in Seq(Jobs)
      OBVIOUS
    <2> QED BY <1>4, <1>5, <1>6, <2>1 DEF Settled, IconOK, IsPlaying
  <1>8. CASE ~Has(e, "Normal")
    BY <1>1, <1>2, <1>3, <1>8 DEF Settled
  <1>9. CASE Has(e, "Normal") /\ IsAnimated(e, m)
    <2> DEFINE ms == <<m>>
    <2>1. ms \in Seq(Modes) /\ Len(ms) = 1 /\ Len(ms) \in {1, 2} /\ \A k \in DOMAIN ms : ms[k] = m
      OBVIOUS
    <2> HIDE DEF ms
    <2>2. f.loaded /\ IsAnimated(f, m)
      BY <1>6, <1>9 DEF IsAnimated
    <2>3. \A k \in DOMAIN ms : IsAnimated(f, ms[k])
      BY <2>1, <2>2
    <2>4. d' = StartPlayer(f, ms, m, flags)
      BY <1>3, <1>9 DEF ms
    <2>5. Len(ms) = 2 => flags \cap {"CacheAll", "InvertedOrder"} # {}
      BY <2>1
    <2>6. /\ IconOK(StartPlayer(f, ms, m, flags))
          /\ Differ(f, StartPlayer(f, ms, m, flags), Pictures \cup {"player", "state"})
          /\ StartPlayer(f, ms, m, flags).player.state \in {"NotRunning", "Running"}
      BY <1>7, <2>1, <2>2, <2>3, <2>5, StartPlayerIs
    <2>7. d'.animationJobs = f.animationJobs /\ d'.look = f.look
      BY <2>4, <2>6 DEF Differ, IconFields, Pictures
    <2> QED BY <1>2, <1>5, <1>6, <1>9, <2>4, <2>6, <2>7 DEF Settled, IsAnimated
  <1>10. CASE Has(e, "Normal") /\ ~IsAnimated(e, m)
    BY <1>2, <1>3, <1>5, <1>6, <1>7, <1>10
  <1> QED BY <1>8, <1>9, <1>10

LEMMA PlayKeeps ==
    ASSUME IconInv, NEW m \in Modes, NEW flags \in SUBSET Flags, play(m, flags)
    PROVE IconInv'
  <1> DEFINE S == {"restyled", "recoloured"}
  <1>1. /\ Settled(d') /\ d'.look = d.look
        /\ \/ d'.animationJobs = <<>>
           \/ d'.animationJobs = d.animationJobs /\ d'.mode = d.mode
    BY PlayIs
  <1>2. Meddle("played") /\ calls' = calls
    BY DEF play
  <1>3. meddled' \subseteq Meddling /\ (Clean(S)' => Clean(S))
    BY <1>2, MeddleIs DEF IconInv, Meddling
  <1>4. Len(d'.animationJobs) <= MaxJobs
    BY <1>1, IconAssumption DEF IconInv
  <1>5. Clean(S)' => Chained(d'.animationJobs, d'.mode)
    <2>1. Chained(<<>>, d'.mode)
      BY DEF Chained
    <2> QED BY <1>1, <1>3, <2>1 DEF IconInv
  <1> QED BY <1>1, <1>2, <1>3, <1>4, <1>5 DEF IconInv, CallsOK

LEMMA StopIconKeeps ==
    ASSUME IconInv, stopIcon
    PROVE IconInv'
  <1> DEFINE s == StopPlayer(d)
             S == {"restyled", "recoloured"}
  <1>1. IconOK(d) /\ meddled \subseteq Meddling
    BY SettledIs DEF IconInv
  <1>2. IconOK(s) /\ Differ(d, s, {"player"}) /\ s.player.state = "NotRunning"
    BY <1>1, StopPlayerIs
  <1>3. d' = [s EXCEPT !.state = "Idle"] /\ Meddle("stopped") /\ calls' = calls
    BY DEF stopIcon
  <1> HIDE DEF s
  <1>4. Differ(s, d', {"state"}) /\ d'.state = "Idle"
    BY <1>2, <1>3 DEF IconOK, Differ, IconFields
  <1>5. /\ DOMAIN d' = IconFields /\ d'.player = s.player /\ d'.loaded = s.loaded
        /\ d'.load = s.load /\ d'.look = s.look /\ d'.mode = s.mode /\ d'.lastMode = s.lastMode
        /\ d'.animationJobs = s.animationJobs
        /\ d'.mode = d.mode /\ d'.animationJobs = d.animationJobs
    BY <1>2, <1>4 DEF Differ, IconFields
  <1>6. Settled(d')
    BY <1>2, <1>4, <1>5 DEF Settled, IconOK, IsPlaying
  <1>7. meddled' \subseteq Meddling /\ (Clean(S)' => Clean(S))
    BY <1>1, <1>3, MeddleIs DEF Meddling
  <1> QED BY <1>3, <1>5, <1>6, <1>7 DEF IconInv, CallsOK

LEMMA AbortKeeps ==
    ASSUME IconInv, abort
    PROVE IconInv'
  <1>1. IconOK(d) /\ meddled \subseteq Meddling
    BY SettledIs DEF IconInv
  <1>2. d' = Abort(d) /\ Meddle("aborted") /\ calls' = calls
    BY DEF abort
  <1>3. Settled(d') /\ d'.animationJobs = <<>>
    BY <1>1, <1>2, AbortIs
  <1>4. Len(d'.animationJobs) <= MaxJobs /\ Chained(d'.animationJobs, d'.mode)
    BY <1>3, IconAssumption DEF Chained
  <1>5. meddled' \subseteq Meddling
    BY <1>1, <1>2, MeddleIs DEF Meddling
  <1> QED BY <1>2, <1>3, <1>4, <1>5 DEF IconInv, CallsOK

LEMMA AdvancedKeeps ==
    ASSUME IconInv, Advanced(d, d'), CallsOK(calls'), meddled' = meddled
    PROVE IconInv'
  <1>1. d.mode \in Modes /\ d.animationJobs \in Seq(Jobs)
    BY SettledIs DEF IconInv
  <1>2. Len(d.animationJobs) \in Nat /\ Len(d'.animationJobs) \in Nat /\ MaxJobs \in Nat
    BY <1>1, IconAssumption DEF Advanced, Fewer
  <1>3. Len(d'.animationJobs) <= MaxJobs
    BY <1>2 DEF IconInv, Advanced, Fewer
  <1>4. Clean({"restyled", "recoloured"})' => Chained(d'.animationJobs, d'.mode)
    BY <1>1 DEF IconInv, Advanced, Fewer, Clean
  <1> QED BY <1>3, <1>4 DEF IconInv, Advanced, CallsOK

LEMMA InvokeQueuedKeeps ==
    ASSUME IconInv, InvokeQueued
    PROVE IconInv'
  <1>1. /\ calls # <<>> /\ d' = PlayFromQueue(d, Head(calls)) /\ calls' = Tail(calls)
        /\ meddled' = meddled
    BY DEF InvokeQueued
  <1>2. calls \in Seq(SUBSET Flags) /\ Len(calls) <= MaxCalls /\ MaxCalls \in Nat
    BY IconAssumption DEF IconInv, CallsOK
  <1>3. Head(calls) \in SUBSET Flags /\ CallsOK(calls')
    BY <1>1, <1>2 DEF CallsOK
  <1>4. Advanced(d, d')
    BY <1>1, <1>3, PlayFromQueueIs DEF IconInv
  <1> QED BY <1>1, <1>3, <1>4, AdvancedKeeps

LEMMA TimerFiresIs ==
    ASSUME IconInv, TimerFires
    PROVE LET left == IF d.animationJobs = <<>> THEN <<>> ELSE Tail(d.animationJobs)
          IN /\ Advanced(d, d') /\ d.player.state = "Running"
             /\ \/ d'.animationJobs = d.animationJobs /\ IsPlaying(d')
                \/ left = <<>> /\ d'.animationJobs = <<>> /\ d'.state = "Idle"
                \/ left # <<>> /\ Resumed(d.look, left, d.state, d')
  <1> DEFINE left == IF d.animationJobs = <<>> THEN <<>> ELSE Tail(d.animationJobs)
             Ends == \/ d'.animationJobs = d.animationJobs /\ IsPlaying(d')
                     \/ left = <<>> /\ d'.animationJobs = <<>> /\ d'.state = "Idle"
                     \/ left # <<>> /\ Resumed(d.look, left, d.state, d')
             q == TimerEvent(d.player)
             e == [d EXCEPT !.player = q]
  <1>1. d.player.timer /\ d' = PlayOn(d, q) /\ calls' = calls /\ meddled' = meddled
    BY DEF TimerFires
  <1>2. Settled(d) /\ IconOK(d) /\ Sound(d.player) /\ DOMAIN d = IconFields
    BY SettledIs DEF IconInv
  <1>3. d.player.state = "Running"
    BY <1>1, <1>2 DEF Sound
  <1>4. Sound(q) /\ q.state \in {"NotRunning", "WaitingRead"}
    BY <1>2, <1>3, TimerKeepsSound
  <1> HIDE DEF q
  <1>5. Advanced(d, d') /\ Ends
    <2>1. CASE q.state = "NotRunning"
      <3>1. d' = Finished(e)
        BY <1>1, <2>1 DEF PlayOn
      <3>2. Differ(d, e, {"player"}) /\ e.player = q
        BY <1>2 DEF Differ, IconFields
      <3> HIDE DEF e
      <3>3. Differ(d, e, Pictures \cup {"player"})
        BY <3>2 DEF Differ
      <3>4. /\ Settled(e) /\ e.animationJobs = d.animationJobs /\ e.mode = d.mode
            /\ e.lastMode = d.lastMode /\ e.look = d.look /\ e.state = d.state
        BY <1>2, <1>4, <2>1, <3>2, <3>3, OnlyPlayer DEF Settled, IsPlaying
      <3>5. /\ Advanced(e, d')
            /\ IF left = <<>> THEN d'.animationJobs = <<>> /\ d'.state = "Idle"
               ELSE Resumed(e.look, left, e.state, d')
        BY <2>1, <3>1, <3>2, <3>4, FinishedIs
      <3> QED BY <3>4, <3>5 DEF Advanced
    <2>2. CASE q.state = "WaitingRead"
      <3>1. d' = ShowFrame(d, q)
        BY <1>1, <2>2 DEF PlayOn
      <3>2. Differ(d, d', {"player", "image"}) /\ Sound(d'.player) /\ d'.player.state = "Running"
        BY <1>2, <2>2, <1>4, <3>1, ShowFrameIs
      <3>3. Differ(d, d', Pictures \cup {"player"})
        BY <3>2 DEF Differ, Pictures
      <3>4. /\ IconOK(d') /\ d'.animationJobs = d.animationJobs /\ d'.mode = d.mode
            /\ d'.lastMode = d.lastMode /\ d'.look = d.look
        BY <1>2, <1>3, <3>2, <3>3, OnlyPlayer DEF IsPlaying
      <3>5. Fewer(d.animationJobs, d'.animationJobs)
        BY <1>2, <3>4, FewerSelf DEF IconOK
      <3> QED BY <3>2, <3>4, <3>5 DEF Advanced, Settled, IsPlaying
    <2> QED BY <1>4, <2>1, <2>2
  <1> QED BY <1>3, <1>5

LEMMA TimerFiresKeeps ==
    ASSUME IconInv, TimerFires
    PROVE IconInv'
  <1>1. calls' = calls /\ meddled' = meddled
    BY DEF TimerFires
  <1>2. CallsOK(calls')
    BY <1>1 DEF IconInv
  <1> QED BY <1>1, <1>2, TimerFiresIs, AdvancedKeeps

-----------------------------------------------------------------------------
(* The inductive invariant of the icon player.                                *)
THEOREM IconInvariant == IconPlayerSpec => []IconInv
  <1>1. IconPlayerInit => IconInv
    BY InitIsInv
  <1>2. IconInv /\ [IconPlayerNext]_iconPlayerVars => IconInv'
    <2> SUFFICES ASSUME IconInv, [IconPlayerNext]_iconPlayerVars
                 PROVE IconInv'
      OBVIOUS
    <2>1. CASE \E l \in Looks : setIcon(l) \/ setLook(l)
      BY <2>1, RestyleKeeps DEF setIcon, setLook
    <2>2. CASE \E m \in Modes : setMode(m)
      BY <2>2, SetModeKeeps
    <2>3. CASE \E pal \in Palettes : setIconPalette(pal)
      BY <2>3, SetIconPaletteKeeps
    <2>4. CASE \E m \in PlayModes, flags \in PlayFlags : play(m, flags)
      BY <2>4, PlayKeeps, IconAssumption
    <2>5. CASE stopIcon
      BY <2>5, StopIconKeeps
    <2>6. CASE abort
      BY <2>6, AbortKeeps
    <2>7. CASE InvokeQueued
      BY <2>7, InvokeQueuedKeeps
    <2>8. CASE TimerFires
      BY <2>8, TimerFiresKeeps
    <2>9. CASE UNCHANGED iconPlayerVars
      BY <2>9 DEF iconPlayerVars, IconInv, CallsOK, Clean
    <2> QED BY <2>1, <2>2, <2>3, <2>4, <2>5, <2>6, <2>7, <2>8, <2>9 DEF IconPlayerNext
  <1> QED BY <1>1, <1>2, PTL DEF IconPlayerSpec

(* The player, its queue and the calls have their types and bounds between    *)
(* steps, and an image player that plays makes the icon player Busy.          *)
THEOREM IconPlayerIsOK == IconPlayerSpec => []IconPlayerOK
  <1>1. IconInv => IconPlayerOK
    <2> SUFFICES ASSUME IconInv PROVE IconPlayerOK
      OBVIOUS
    <2>1. Settled(d) /\ IconOK(d) /\ Sound(d.player) /\ d.animationJobs \in Seq(Jobs)
      BY SettledIs DEF IconInv
    <2>2. d.player.state \in {"NotRunning", "Running"} /\ (d.player.timer <=> IsPlaying(d))
      BY <2>1 DEF Settled, Sound, IsPlaying
    <2>3. d.animationJobs \in Seq([from : Modes, to : Modes])
      <3>1. Jobs \subseteq [from : Modes, to : Modes]
        BY DEF Jobs
      <3> QED BY <2>1, <3>1, SeqOfMore
    <2> QED BY <2>1, <2>2, <2>3 DEF IconInv, CallsOK, IconOK, IconPlayerOK
  <1> QED BY <1>1, IconInvariant, PTL

(* Whatever is called, and in whatever order the queued calls and the timer   *)
(* events come, the image player is never made to index its cache or its      *)
(* images out of range: what the icon player asks of it stays within the      *)
(* conditions of DefinedUse, for any icons, palettes and flags.               *)
THEOREM NoIndexOutOfRange == IconPlayerSpec => []NeverOutOfRange
  <1>1. IconInv => NeverOutOfRange
    BY DEF IconInv, Settled, NeverOutOfRange, Undef
  <1> QED BY <1>1, IconInvariant, PTL

(* The last job in the queue leads to the mode that was set last, for queues  *)
(* of any length: the jobs form a chain, which playToQueue only lengthens or  *)
(* shortens at its end and the image player only at its front.                *)
THEOREM QueueLeadsToMode == IconPlayerSpec => []LeadsToMode
  <1>1. IconInv => LeadsToMode
    BY DEF IconInv, LeadsToMode, LastJob, Chained
  <1> QED BY <1>1, IconInvariant, PTL

-----------------------------------------------------------------------------
(* An icon without animations shows its palette, or is about to: nothing      *)
(* plays, and a job left in the queue shows the image anew.                   *)
AllStill(l) == \A m \in Modes : Kind[l][m] = "still"
StillInv ==
    AllStill(d.look) =>
        /\ d.player.state = "NotRunning"
        /\ Clean({"aborted", "played"}) /\ d.loaded /\ d.animationJobs = <<>> =>
              d.image.palette = d.player.palette

LEMMA NothingAnimated ==
    ASSUME NEW e, AllStill(e.look), NEW m \in Modes
    PROVE ~IsAnimated(e, m) /\ (e.loaded => Has(e, m))
  BY DEF AllStill, IsAnimated, Has

LEMMA TransitionShows ==
    ASSUME NEW e, AllStill(e.look), e.loaded, NEW from \in Modes, NEW to \in Modes, Leads(from, to)
    PROVE \E m : Transition(e, from, to) = Show(m)
  <1>1. \A m \in Modes : Has(e, m) /\ ~IsAnimated(e, m)
    BY NothingAnimated
  <1>2. "Normal" \in Modes /\ "Hover" \in Modes /\ "Pressed" \in Modes /\ "Disabled" \in Modes
    BY DEF Modes
  <1>3. \A m \in Modes : \A flags : Enter(e, m, flags) = Show(m)
    BY <1>1 DEF Enter
  <1>4. ToDisabled(e) = Show("Disabled")
    BY <1>1, <1>2, <1>3 DEF ToDisabled
  <1>5. CASE from = "Normal"
    BY <1>1, <1>2, <1>3, <1>5 DEF Transition, FromNormal
  <1>6. CASE from = "Hover"
    <2>1. Transition(e, from, to) = FromHover(e, to)
      BY <1>6 DEF Transition
    <2>2. to \in {"Normal", "Pressed", "Disabled"}
      BY <1>6 DEF Leads, Modes
    <2> QED BY <1>1, <1>2, <1>3, <1>4, <2>1, <2>2 DEF FromHover
  <1>7. CASE from = "Pressed"
    <2>1. Transition(e, from, to) = FromPressed(e, to)
      BY <1>7 DEF Transition
    <2>2. to \in {"Normal", "Hover", "Disabled"}
      BY <1>7 DEF Leads, Modes
    <2> QED BY <1>1, <1>2, <1>3, <1>4, <2>1, <2>2 DEF FromPressed
  <1>8. CASE from = "Disabled"
    BY <1>1, <1>2, <1>8 DEF Transition, FromDisabled
  <1> QED BY <1>5, <1>6, <1>7, <1>8 DEF Modes

LEMMA PlayPairShows ==
    ASSUME NEW e, IconOK(e), AllStill(e.look), NEW from \in Modes, NEW to \in Modes,
           Leads(from, to), NEW extra
    PROVE LET r == PlayPair(e, from, to, extra) IN
          DOMAIN r = IconFields /\ r.player = e.player /\ r.image.palette = e.player.palette
  <1> DEFINE a == EnsureInit(e)
             b == [a EXCEPT !.finishedImage = NoImage]
             r == PlayPair(e, from, to, extra)
  <1>1. DOMAIN a = IconFields /\ a.player = e.player /\ a.look = e.look
    <2>1. Differ(e, a, {"loaded", "load"})
      BY EnsureInitIs
    <2> QED BY <2>1 DEF Differ, IconFields
  <1>2. a.loaded
    <2>1. Kind[e.look]["Normal"] = "still" /\ DOMAIN e = IconFields
      BY DEF AllStill, Modes, IconOK
    <2> QED BY <2>1 DEF EnsureInit, IconFields
  <1> HIDE DEF a
  <1>3. DOMAIN b = IconFields /\ b.player = e.player /\ b.look = e.look /\ b.loaded
    BY <1>1, <1>2 DEF IconFields
  <1>4. Has(b, "Normal")
    BY <1>3, NothingAnimated DEF Modes
  <1>5. r = Perform(b, Transition(b, from, to), to, extra)
    BY <1>4 DEF PlayPair, a
  <1> HIDE DEF b, r
  <1>6. PICK m : Transition(b, from, to) = Show(m)
    BY <1>3, TransitionShows
  <1>7. Show(m).does = "show" /\ Show(m).mode = m
    BY DEF Show
  <1>8. r = SetImage(b, m)
    BY <1>5, <1>6, <1>7 DEF Perform
  <1>9. DOMAIN r = IconFields /\ r.player = b.player /\ r.image = Still(b, m)
    BY <1>3, <1>8 DEF SetImage, IconFields
  <1>10. r.image.palette = b.player.palette
    BY <1>9 DEF Still
  <1> QED BY <1>3, <1>9, <1>10 DEF r

LEMMA RequestsAreQueued ==
    ASSUME NEW e, Settled(e), Ignored(e) \/ Offset(e) \/ Behind(e) \/ Anew(e)
    PROVE /\ d'.animationJobs # <<>> /\ d'.look = e.look /\ d'.loaded = e.loaded
          /\ e.player.state = "NotRunning" => d'.player.state = "NotRunning"
  <1> DEFINE jobs == e.animationJobs
  <1>1. /\ DOMAIN e = IconFields /\ jobs \in Seq(Jobs) /\ Sound(e.player)
        /\ e.mode \in Modes /\ e.lastMode \in Modes /\ Leads(e.lastMode, e.mode)
    BY SettledIs
  <1>2. Request(e) \in Jobs
    BY <1>1 DEF Jobs, Request
  <1>3. CASE Ignored(e)
    BY <1>3 DEF Ignored
  <1>4. CASE Offset(e)
    <2>1. Len(jobs) > 1 /\ d' = [e EXCEPT !.animationJobs = Ext!Front(jobs)]
      BY <1>4 DEF Offset
    <2>2. Len(Ext!Front(jobs)) = Len(jobs) - 1
      BY <1>1, <2>1, FrontIs
    <2>3. Ext!Front(jobs) # <<>>
      BY <1>1, <2>1, <2>2
    <2> QED BY <1>1, <2>1, <2>3 DEF IconFields
  <1>5. CASE Behind(e)
    <2>1. Differ(e, d', {"player", "animationJobs"}) /\ d'.animationJobs = Append(jobs, Request(e))
          /\ d'.player = IF IsPlaying(e) THEN AbortLoop(e.player) ELSE e.player
      BY <1>5 DEF Behind, Added
    <2>2. d'.animationJobs # <<>>
      BY <1>1, <1>2, <2>1
    <2> QED BY <2>1, <2>2 DEF Differ, IconFields, IsPlaying
  <1>6. CASE Anew(e)
    <2>1. /\ Differ(e, d', {"player", "animationJobs"}) /\ d'.animationJobs = <<Request(e)>>
          /\ d'.player = Stop(e.player)
      BY <1>6 DEF Anew
    <2>2. d'.animationJobs # <<>>
      BY <2>1
    <2>3. d'.player.state = "NotRunning"
      BY <1>1, <2>1, StopKeepsSound
    <2> QED BY <2>1, <2>2, <2>3 DEF Differ, IconFields
  <1> QED BY <1>3, <1>4, <1>5, <1>6

LEMMA RequestKeepsStill ==
    ASSUME NEW e, Settled(e), Len(e.animationJobs) <= MaxJobs, CallsOK(calls), PlayToQueue(e),
           AllStill(e.look) => e.player.state = "NotRunning"
    PROVE StillInv'
  BY PlayToQueueIs, RequestsAreQueued DEF StillInv

LEMMA PlayFromQueueShows ==
    ASSUME IconInv, NEW extra \in SUBSET Flags, AllStill(d.look), d.player.state = "NotRunning",
           d.animationJobs # <<>>
    PROVE LET r == PlayFromQueue(d, extra) IN
          r.player = d.player /\ r.image.palette = d.player.palette
  <1> DEFINE job == Head(d.animationJobs)
             played == PlayPair(d, job.from, job.to, extra)
             r == PlayFromQueue(d, extra)
  <1>1. IconOK(d) /\ d.animationJobs \in Seq(Jobs)
    BY SettledIs DEF IconInv
  <1>2. job \in Jobs
    BY <1>1
  <1>3. job.from \in Modes /\ job.to \in Modes /\ Leads(job.from, job.to)
    BY <1>2 DEF Jobs
  <1>4. r = KeepIfPlaying(played)
    BY DEF PlayFromQueue, IsPlaying
  <1> HIDE DEF job
  <1>5. /\ DOMAIN played = IconFields /\ played.player = d.player
        /\ played.image.palette = d.player.palette
    BY <1>1, <1>3, PlayPairShows
  <1> HIDE DEF played
  <1> QED BY <1>4, <1>5 DEF KeepIfPlaying, IconFields

LEMMA InvokeQueuedKeepsStill ==
    ASSUME IconInv, StillInv, InvokeQueued
    PROVE StillInv'
  <1>1. /\ calls # <<>> /\ d' = PlayFromQueue(d, Head(calls)) /\ meddled' = meddled
    BY DEF InvokeQueued
  <1>2. Head(calls) \in SUBSET Flags
    BY <1>1 DEF IconInv, CallsOK
  <1>3. d'.look = d.look
    BY <1>1, <1>2, PlayFromQueueIs DEF IconInv, Advanced
  <1> SUFFICES ASSUME AllStill(d.look) PROVE StillInv'
    BY <1>3 DEF StillInv
  <1>4. d.player.state = "NotRunning"
    BY DEF StillInv
  <1>5. CASE d.animationJobs = <<>>
    BY <1>1, <1>5 DEF PlayFromQueue, StillInv, Clean
  <1>6. CASE d.animationJobs # <<>>
    BY <1>1, <1>2, <1>4, <1>6, PlayFromQueueShows DEF StillInv
  <1> QED BY <1>5, <1>6

LEMMA StopIconKeepsStill ==
    ASSUME IconInv, StillInv, stopIcon
    PROVE StillInv'
  <1> DEFINE s == StopPlayer(d)
             S == {"aborted", "played"}
  <1>1. /\ DOMAIN d = IconFields /\ Sound(d.player) /\ meddled \subseteq Meddling
    BY SettledIs DEF IconInv
  <1>2. d' = [s EXCEPT !.state = "Idle"] /\ Meddle("stopped")
    BY DEF stopIcon
  <1>3. Differ(d, s, {"player"}) /\ s.player = Stop(d.player)
    BY <1>1 DEF StopPlayer, Differ, IconFields
  <1> HIDE DEF s
  <1>4. /\ d'.player = Stop(d.player) /\ d'.loaded = d.loaded /\ d'.look = d.look
        /\ d'.animationJobs = d.animationJobs /\ d'.image = d.image
    BY <1>2, <1>3 DEF Differ, IconFields
  <1>5. Stop(d.player).state = "NotRunning" /\ Stop(d.player).palette = d.player.palette
    BY <1>1, StopKeepsSound
  <1>6. Clean(S)' => Clean(S)
    BY <1>1, <1>2, MeddleIs DEF Meddling
  <1> QED BY <1>4, <1>5, <1>6 DEF StillInv

-----------------------------------------------------------------------------
(* An icon without animations, however its queue is filled, emptied and       *)
(* replayed, shows at rest the palette that was set last: setPalette, a new   *)
(* icon and setMode leave a job that shows it anew, and no animation started  *)
(* for another icon outlives the change.                                      *)
THEOREM StillShowsPalette == IconPlayerSpec => []PaletteShown
  <1>1. IconPlayerInit => StillInv
    BY DEF IconPlayerInit, StillInv, AllStill, Null, Modes
  <1>2. IconInv /\ StillInv /\ [IconPlayerNext]_iconPlayerVars => StillInv'
    <2> SUFFICES ASSUME IconInv, StillInv, [IconPlayerNext]_iconPlayerVars
                 PROVE StillInv'
      OBVIOUS
    <2> DEFINE S == {"aborted", "played"}
    <2>1. Len(d.animationJobs) <= MaxJobs /\ CallsOK(calls) /\ Len(<<>>) <= MaxJobs
      BY IconAssumption DEF IconInv
    <2>2. ASSUME NEW l \in Looks, Restyle(l) PROVE StillInv'
      BY <2>1, <2>2, RestyleIs, RequestKeepsStill
    <2>3. ASSUME NEW m \in Modes, setMode(m) PROVE StillInv'
      <3>1. PICK f : /\ Settled(f) /\ PlayToQueue(f) /\ f.look = d.look
                     /\ f.animationJobs \in {d.animationJobs, <<>>}
                     /\ f.player.state \in {d.player.state, "NotRunning"}
        BY <2>3, SetModeIs
      <3>2. Len(f.animationJobs) <= MaxJobs
        BY <2>1, <3>1
      <3>3. AllStill(f.look) => f.player.state = "NotRunning"
        BY <3>1 DEF StillInv
      <3> QED BY <2>1, <3>1, <3>2, <3>3, RequestKeepsStill
    <2>4. ASSUME NEW pal \in Palettes, setIconPalette(pal) PROVE StillInv'
      <3>1. PICK f : /\ Settled(f)
                     /\ IF Has(d, d.mode) THEN PlayToQueue(f) ELSE d' = f /\ calls' = calls
                     /\ f.player.state = d.player.state /\ f.loaded = d.loaded
                     /\ f.look = d.look /\ f.animationJobs = d.animationJobs
        BY <2>4, SetIconPaletteIs
      <3>2. CASE Has(d, d.mode)
        BY <2>1, <3>1, <3>2, RequestKeepsStill DEF StillInv
      <3>3. CASE ~Has(d, d.mode)
        <4>1. AllStill(d.look) => ~d.loaded
          BY <3>3, NothingAnimated, SettledIs DEF IconInv
        <4> QED BY <3>1, <3>3, <4>1 DEF StillInv
      <3> QED BY <3>2, <3>3
    <2>5. ASSUME NEW m \in Modes, NEW flags \in SUBSET Flags, play(m, flags) PROVE StillInv'
      <3>1. ~Clean(S)'
        BY <2>5 DEF play, Meddle, Clean
      <3>2. AllStill(d.look) => Kind[d.look][m] # "animated"
        BY DEF AllStill
      <3> QED BY <2>5, <3>1, <3>2, PlayIs DEF StillInv
    <2>6. CASE stopIcon
      BY <2>6, StopIconKeepsStill
    <2>7. CASE abort
      <3>1. ~Clean(S)'
        BY <2>7 DEF abort, Meddle, Clean
      <3>2. d'.player.state = "NotRunning"
        BY <2>7, AbortIs, SettledIs DEF abort, IconInv
      <3> QED BY <3>1, <3>2 DEF StillInv
    <2>8. CASE InvokeQueued
      BY <2>8, InvokeQueuedKeepsStill
    <2>9. CASE TimerFires
      <3>1. d'.look = d.look /\ d.player.state = "Running"
        BY <2>9, TimerFiresIs DEF Advanced
      <3> QED BY <3>1 DEF StillInv
    <2>10. CASE UNCHANGED iconPlayerVars
      BY <2>10 DEF iconPlayerVars, StillInv, Clean
    <2>11. CASE \E l \in Looks : setIcon(l) \/ setLook(l)
      BY <2>2, <2>11 DEF setIcon, setLook
    <2>12. CASE \E m \in PlayModes, flags \in PlayFlags : play(m, flags)
      BY <2>5, <2>12, IconAssumption
    <2> QED BY <2>3, <2>4, <2>6, <2>7, <2>8, <2>9, <2>10, <2>11, <2>12 DEF IconPlayerNext
  <1>3. StillInv => PaletteShown
    BY DEF StillInv, PaletteShown, AllStill, Quiet
  <1> QED BY <1>1, <1>2, <1>3, IconInvariant, PTL DEF IconPlayerSpec

-----------------------------------------------------------------------------
(* How far the queue has got.  A smooth job, one whose transition is          *)
(* animated, is followed by smooth ones and by a smooth request, and what     *)
(* plays is smooth, so that the animations follow one another.                *)
Runs(l, jobs) ==
    \A k \in DOMAIN jobs : k > 1 /\ Smooth(l, jobs[k - 1]) => Smooth(l, jobs[k])
Followed(e) ==
    /\ Runs(e.look, e.animationJobs)
    /\ e.animationJobs # <<>> =>
          /\ Smooth(e.look, LastJob(e)) => Smooth(e.look, Request(e))
          /\ IsPlaying(e) => Smooth(e.look, e.animationJobs[1])

(* Each job that waits has a call; Busy, something plays or will.             *)
Going(e, cs) == IsPlaying(e) \/ Len(e.animationJobs) <= Len(cs)
Coming(e, cs) ==
    e.state = "Busy" =>
        /\ e.animationJobs # <<>>
        /\ IsPlaying(e) \/ (cs # <<>> /\ Smooth(e.look, e.animationJobs[1]))

QueueInv ==
    d.look \in Fluent =>
        /\ Clean({"restyled"}) => Followed(d)
        /\ Clean({"restyled", "stopped"}) => Going(d, calls)
        /\ Clean({"restyled", "played"}) => Coming(d, calls)

LEMMA EmptyQueue ==
    ASSUME NEW e, e.animationJobs = <<>>, NEW cs \in Seq(SUBSET Flags)
    PROVE Followed(e) /\ Going(e, cs) /\ (e.state = "Idle" => Coming(e, cs))
  <1>1. DOMAIN <<>> = {} /\ Len(<<>>) = 0 /\ Len(cs) >= 0
    OBVIOUS
  <1> QED BY <1>1 DEF Followed, Runs, Going, Coming

LEMMA TailRuns ==
    ASSUME NEW l, NEW jobs \in Seq(Jobs), jobs # <<>>, Runs(l, jobs)
    PROVE LET left == Tail(jobs) IN
          /\ Runs(l, left)
          /\ left # <<>> => /\ left[Len(left)] = jobs[Len(jobs)]
                            /\ Smooth(l, jobs[1]) => Smooth(l, left[1])
  <1> DEFINE left == Tail(jobs)
  <1>1. /\ Len(jobs) \in Nat /\ Len(jobs) > 0 /\ left \in Seq(Jobs) /\ Len(left) = Len(jobs) - 1
        /\ \A k \in 1..Len(left) : left[k] = jobs[k + 1]
        /\ DOMAIN jobs = 1..Len(jobs) /\ DOMAIN left = 1..Len(left)
        /\ left # <<>> => Len(left) > 0
    OBVIOUS
  <1> HIDE DEF left
  <1>2. ASSUME NEW k \in DOMAIN left, k > 1, Smooth(l, left[k - 1]) PROVE Smooth(l, left[k])
    <2>1. k \in 1..Len(left) /\ k - 1 \in 1..Len(left) /\ k + 1 \in DOMAIN jobs /\ k + 1 > 1
      BY <1>1, <1>2
    <2>2. left[k] = jobs[k + 1] /\ left[k - 1] = jobs[(k + 1) - 1]
      <3>1. (k - 1) + 1 = (k + 1) - 1
        BY <2>1
      <3> QED BY <1>1, <2>1, <3>1
    <2> QED BY <1>2, <2>1, <2>2 DEF Runs
  <1>3. ASSUME left # <<>> PROVE left[Len(left)] = jobs[Len(jobs)]
    <2>1. Len(left) \in 1..Len(left) /\ Len(left) + 1 = Len(jobs)
      BY <1>1, <1>3
    <2> QED BY <1>1, <2>1
  <1>4. ASSUME left # <<>>, Smooth(l, jobs[1]) PROVE Smooth(l, left[1])
    <2>1. 1 \in 1..Len(left) /\ 2 \in DOMAIN jobs /\ 1 + 1 = 2 /\ 2 - 1 = 1 /\ 2 > 1
      BY <1>1, <1>4
    <2>2. left[1] = jobs[2]
      BY <1>1, <2>1
    <2> QED BY <1>4, <2>1, <2>2 DEF Runs
  <1> QED BY <1>2, <1>3, <1>4 DEF Runs, left

(* A request of a player whose queue goes on leaves it one that goes on.      *)
LEMMA RequestGoesOn ==
    ASSUME NEW e, Settled(e), calls \in Seq(SUBSET Flags),
           Ignored(e) \/ Offset(e) \/ Behind(e) \/ Anew(e)
    PROVE /\ d'.look = e.look
          /\ Followed(e) => Followed(d')
          /\ Going(e, calls) => Going(d', calls')
          /\ Followed(e) /\ Coming(e, calls) => Coming(d', calls')
  <1> DEFINE jobs == e.animationJobs
             N == Len(jobs)
             l == e.look
  <1>1. /\ DOMAIN e = IconFields /\ jobs \in Seq(Jobs) /\ N \in Nat /\ Sound(e.player)
        /\ e.mode \in Modes /\ e.lastMode \in Modes /\ Leads(e.lastMode, e.mode)
        /\ DOMAIN jobs = 1..N /\ LastJob(e) = jobs[N] /\ (jobs # <<>> => N > 0)
        /\ Len(calls) \in Nat
    BY SettledIs DEF LastJob
  <1>2. Request(e) \in Jobs
    BY <1>1 DEF Jobs, Request
  <1>3. CASE Ignored(e)
    BY <1>3 DEF Ignored
  <1>4. CASE Offset(e)
    <2> DEFINE front == Ext!Front(jobs)
    <2>1. N > 1 /\ d' = [e EXCEPT !.animationJobs = front] /\ calls' = calls
      BY <1>4 DEF Offset
    <2>2. /\ front \in Seq(Jobs) /\ Len(front) = N - 1
          /\ \A k \in 1..(N - 1) : front[k] = jobs[k]
      BY <1>1, <2>1, FrontIs
    <2> HIDE DEF front
    <2>3. /\ d'.animationJobs = front /\ d'.look = l /\ d'.player = e.player
          /\ d'.state = e.state /\ Request(d') = Request(e) /\ (IsPlaying(d') <=> IsPlaying(e))
      BY <1>1, <2>1 DEF IconFields, Request, IsPlaying
    <2>4. /\ DOMAIN front = 1..(N - 1) /\ front # <<>> /\ front[1] = jobs[1]
          /\ LastJob(d') = jobs[N - 1] /\ N \in DOMAIN jobs /\ N > 1
      BY <1>1, <2>1, <2>2, <2>3 DEF LastJob
    <2> HIDE DEF jobs, N, l
    <2>5. ASSUME Followed(e) PROVE Followed(d')
      <3>1. Runs(l, jobs) /\ (Smooth(l, jobs[N]) => Smooth(l, Request(e)))
            /\ (IsPlaying(e) => Smooth(l, jobs[1]))
        BY <1>1, <2>4, <2>5 DEF Followed, jobs, l
      <3>2. Smooth(l, jobs[N - 1]) => Smooth(l, Request(e))
        BY <2>4, <3>1 DEF Runs
      <3>3. Runs(l, front)
        BY <1>1, <2>2, <2>4, <3>1 DEF Runs
      <3> QED BY <2>3, <2>4, <3>1, <3>2, <3>3 DEF Followed
    <2>6. Going(e, calls) => Going(d', calls')
      BY <1>1, <2>1, <2>2, <2>3 DEF Going, jobs, N
    <2>7. Coming(e, calls) => Coming(d', calls')
      BY <2>1, <2>3, <2>4 DEF Coming, jobs, l
    <2> QED BY <2>3, <2>5, <2>6, <2>7 DEF l
  <1>5. CASE Behind(e)
    <2> DEFINE longer == Append(jobs, Request(e))
    <2>1. /\ jobs # <<>> /\ Differ(e, d', {"player", "animationJobs"})
          /\ d'.animationJobs = longer
          /\ d'.player = IF IsPlaying(e) THEN AbortLoop(e.player) ELSE e.player
          /\ calls' = IF IsPlaying(e) THEN calls ELSE Append(calls, {})
      BY <1>5 DEF Behind, Added
    <2>2. /\ longer \in Seq(Jobs) /\ Len(longer) = N + 1 /\ DOMAIN longer = 1..(N + 1)
          /\ \A k \in 1..N : longer[k] = jobs[k]
          /\ longer[N + 1] = Request(e) /\ longer # <<>>
      BY <1>1, <1>2
    <2> HIDE DEF longer
    <2>3. /\ d'.look = l /\ d'.state = e.state /\ Request(d') = Request(e)
      BY <2>1 DEF Differ, IconFields, Request
    <2>4. IsPlaying(d') <=> IsPlaying(e)
      BY <1>1, <2>1, AbortLoopKeepsSound DEF IsPlaying
    <2>5. LastJob(d') = Request(d') /\ longer[1] = jobs[1] /\ N \in 1..N
      BY <1>1, <2>1, <2>2, <2>3 DEF LastJob
    <2> HIDE DEF jobs, N, l
    <2>6. ASSUME Followed(e) PROVE Followed(d')
      <3>1. /\ Runs(l, jobs) /\ (Smooth(l, jobs[N]) => Smooth(l, Request(e)))
            /\ IsPlaying(e) => Smooth(l, jobs[1])
        BY <1>1, <2>1, <2>6 DEF Followed, jobs, l
      <3>2. ASSUME NEW k \in DOMAIN longer, k > 1, Smooth(l, longer[k - 1])
            PROVE Smooth(l, longer[k])
        <4>1. k \in 1..(N + 1)
          BY <2>2
        <4>2. CASE k = N + 1
          <5>1. k - 1 = N
            BY <1>1, <4>2
          <5> QED BY <2>2, <2>5, <3>1, <3>2, <4>2, <5>1
        <4>3. CASE k # N + 1
          <5>1. k \in 1..N /\ k - 1 \in 1..N
            BY <1>1, <3>2, <4>1, <4>3
          <5> QED BY <1>1, <2>2, <3>1, <3>2, <5>1 DEF Runs
        <4> QED BY <4>2, <4>3
      <3> QED BY <2>1, <2>3, <2>4, <2>5, <3>1, <3>2 DEF Followed, Runs
    <2>7. ASSUME Going(e, calls) PROVE Going(d', calls')
      <3>1. CASE IsPlaying(e)
        BY <2>4, <3>1 DEF Going
      <3>2. CASE ~IsPlaying(e)
        <4>1. N <= Len(calls)
          BY <2>7, <3>2 DEF Going, jobs, N
        <4>2. calls' = Append(calls, {}) /\ {} \in SUBSET Flags
          BY <2>1, <3>2
        <4>3. Len(calls') = Len(calls) + 1
          BY <4>2
        <4> QED BY <1>1, <2>1, <2>2, <4>1, <4>3 DEF Going
      <3> QED BY <3>1, <3>2
    <2>8. ASSUME Coming(e, calls) PROVE Coming(d', calls')
      <3>1. calls' # <<>> \/ IsPlaying(e)
        <4>1. {} \in SUBSET Flags
          OBVIOUS
        <4>2. Append(calls, {}) # <<>>
          BY <4>1
        <4> QED BY <2>1, <4>2
      <3> QED BY <2>1, <2>2, <2>3, <2>4, <2>5, <2>8, <3>1 DEF Coming, jobs, l
    <2> QED BY <2>3, <2>6, <2>7, <2>8 DEF l
  <1>6. CASE Anew(e)
    <2> DEFINE one == <<Request(e)>>
               extra == IF jobs = <<>> THEN {} ELSE {"Continue"}
    <2>1. /\ \/ jobs = <<>>
             \/ N = 1 /\ IsPlaying(e)
          /\ Differ(e, d', {"player", "animationJobs"}) /\ d'.animationJobs = one
          /\ d'.player = Stop(e.player) /\ calls' = Append(calls, extra)
      BY <1>6 DEF Anew
    <2>2. /\ one # <<>> /\ Len(one) = 1 /\ DOMAIN one = {1} /\ one[1] = Request(e)
      BY <1>2
    <2> HIDE DEF one
    <2>3. /\ d'.look = l /\ d'.state = e.state /\ Request(d') = Request(e)
      BY <2>1 DEF Differ, IconFields, Request
    <2>4. ~IsPlaying(d')
      BY <1>1, <2>1, StopKeepsSound DEF IsPlaying
    <2>5. calls' # <<>> /\ Len(calls') >= 1
      <3>1. extra \in SUBSET Flags
        BY DEF Flags
      <3> HIDE DEF extra
      <3> QED BY <1>1, <2>1, <3>1
    <2>6. Followed(d')
      BY <2>1, <2>2, <2>3, <2>4 DEF Followed, Runs, LastJob
    <2>7. Going(d', calls')
      BY <2>1, <2>2, <2>5 DEF Going
    <2>8. ASSUME Followed(e), Coming(e, calls) PROVE Coming(d', calls')
      <3>1. CASE jobs = <<>>
        BY <2>3, <2>8, <3>1 DEF Coming
      <3>2. CASE jobs # <<>>
        <4>1. N = 1 /\ IsPlaying(e)
          BY <2>1, <3>2
        <4>2. Smooth(l, Request(e))
          BY <1>1, <2>8, <3>2, <4>1 DEF Followed
        <4> QED BY <2>1, <2>2, <2>3, <2>5, <4>2 DEF Coming
      <3> QED BY <2>1, <3>1, <3>2
    <2> QED BY <2>3, <2>6, <2>7, <2>8
  <1> QED BY <1>3, <1>4, <1>5, <1>6

(* An animated transition of a fluent icon is followed by animated ones.      *)
LEMMA FluentIs ==
    ASSUME NEW l \in Fluent, NEW a \in Modes, NEW b \in Modes, NEW c \in Modes,
           Leads(a, b), b # c, c # "Disabled", Animates(l, a, b)
    PROVE Animates(l, b, c)
  <1>1. a # b
    <2>1. ~Animates(l, "Normal", "Normal")
      BY DEF Animates, Transition, FromNormal, Show
    <2> QED BY <2>1 DEF Leads
  <1> QED BY <1>1 DEF Fluent

LEMMA SetModeGoesOn ==
    ASSUME IconInv, QueueInv, NEW m \in Modes, setMode(m)
    PROVE QueueInv'
  <1>1. PICK f : /\ Settled(f) /\ PlayToQueue(f)
                 /\ f.mode = m /\ f.lastMode = d.mode /\ f.look = d.look
                 /\ IF m = "Disabled"
                    THEN f.animationJobs = <<>> /\ f.state = "Idle" /\ f.player.state = "NotRunning"
                    ELSE f.animationJobs = d.animationJobs /\ f.state = d.state /\ f.player = d.player
    BY SetModeIs
  <1>2. /\ m # d.mode
        /\ meddled' = IF Quiet /\ d.state = "Idle" /\ d.image = EndOf(d) THEN {} ELSE meddled
    BY DEF setMode
  <1>3. /\ calls \in Seq(SUBSET Flags) /\ d.mode \in Modes /\ d.lastMode \in Modes
        /\ Leads(d.lastMode, d.mode) /\ d.animationJobs \in Seq(Jobs)
    BY SettledIs DEF IconInv, CallsOK
  <1>4. /\ d'.look = d.look
        /\ Followed(f) => Followed(d')
        /\ Going(f, calls) => Going(d', calls')
        /\ Followed(f) /\ Coming(f, calls) => Coming(d', calls')
    <2>1. Len(f.animationJobs) <= MaxJobs
      BY <1>1, IconAssumption DEF IconInv
    <2> QED BY <1>1, <1>3, <2>1, PlayToQueueIs, RequestGoesOn DEF IconInv
  <1> SUFFICES ASSUME d.look \in Fluent PROVE QueueInv'
    BY <1>4 DEF QueueInv
  <1>5. CASE f.animationJobs = <<>> /\ f.state = "Idle"
    BY <1>3, <1>4, <1>5, EmptyQueue DEF QueueInv
  <1>6. CASE ~(f.animationJobs = <<>> /\ f.state = "Idle")
    <2>1. /\ m # "Disabled" /\ f.animationJobs = d.animationJobs /\ f.state = d.state
          /\ f.player = d.player /\ meddled' = meddled
      BY <1>1, <1>2, <1>6 DEF Quiet
    <2>2. Going(d, calls) => Going(f, calls)
      BY <2>1 DEF Going, IsPlaying
    <2>3. Coming(d, calls) => Coming(f, calls)
      BY <1>1, <2>1 DEF Coming, IsPlaying
    <2>4. ASSUME Followed(d) PROVE Followed(f)
      <3>1. ASSUME f.animationJobs # <<>>, Smooth(f.look, LastJob(f))
            PROVE Smooth(f.look, Request(f))
        <4>1. LastJob(f) = LastJob(d)
          BY <2>1 DEF LastJob
        <4>2. Smooth(d.look, Request(d))
          BY <1>1, <2>1, <2>4, <3>1, <4>1 DEF Followed
        <4>3. Animates(d.look, d.lastMode, d.mode)
          BY <4>2 DEF Smooth, Request
        <4>4. Animates(d.look, d.mode, m)
          BY <1>2, <1>3, <2>1, <4>3, FluentIs
        <4> QED BY <1>1, <4>4 DEF Smooth, Request
      <3> QED BY <1>1, <2>1, <2>4, <3>1 DEF Followed, IsPlaying
    <2> QED BY <1>4, <2>1, <2>2, <2>3, <2>4 DEF QueueInv, Clean
  <1> QED BY <1>5, <1>6

LEMMA SetIconPaletteGoesOn ==
    ASSUME IconInv, QueueInv, NEW pal \in Palettes, setIconPalette(pal)
    PROVE QueueInv'
  <1>1. PICK f : /\ Settled(f)
                 /\ IF Has(d, d.mode) THEN PlayToQueue(f) ELSE d' = f /\ calls' = calls
                 /\ f.player.state = d.player.state /\ f.loaded = d.loaded /\ f.look = d.look
                 /\ f.animationJobs = d.animationJobs /\ f.state = d.state
                 /\ f.mode = d.mode /\ f.lastMode = d.lastMode
    BY SetIconPaletteIs
  <1>2. /\ calls \in Seq(SUBSET Flags) /\ Len(d.animationJobs) <= MaxJobs /\ CallsOK(calls)
    BY DEF IconInv, CallsOK
  <1>3. /\ Followed(d) => Followed(f)
        /\ Going(d, calls) => Going(f, calls)
        /\ Coming(d, calls) => Coming(f, calls)
    BY <1>1 DEF Followed, Going, Coming, IsPlaying, LastJob, Request
  <1>4. /\ d'.look = f.look
        /\ Followed(f) => Followed(d')
        /\ Going(f, calls) => Going(d', calls')
        /\ Followed(f) /\ Coming(f, calls) => Coming(d', calls')
    <2>1. CASE Has(d, d.mode)
      BY <1>1, <1>2, <2>1, PlayToQueueIs, RequestGoesOn
    <2>2. CASE ~Has(d, d.mode)
      BY <1>1, <2>2
    <2> QED BY <2>1, <2>2
  <1>5. \A S \in SUBSET Meddling : Clean(S)' => Clean(S)
    BY MeddleIs DEF setIconPalette, Meddling, IconInv
  <1>6. /\ {"restyled"} \in SUBSET Meddling /\ {"restyled", "stopped"} \in SUBSET Meddling
        /\ {"restyled", "played"} \in SUBSET Meddling
    BY DEF Meddling
  <1>7. Clean({"restyled", "played"}) => Clean({"restyled"})
    BY DEF Clean
  <1> QED BY <1>1, <1>3, <1>4, <1>5, <1>6, <1>7 DEF QueueInv

LEMMA PlayGoesOn ==
    ASSUME IconInv, QueueInv, NEW m \in Modes, NEW flags \in SUBSET Flags, play(m, flags)
    PROVE QueueInv'
  <1>1. /\ d'.look = d.look
        /\ \/ d'.animationJobs = <<>>
           \/ /\ d'.animationJobs = d.animationJobs /\ d'.mode = d.mode
              /\ d'.lastMode = d.lastMode /\ d'.player = d.player
    BY PlayIs
  <1>2. Meddle("played") /\ calls' = calls
    BY DEF play
  <1>3. \A S \in SUBSET Meddling : Clean(S)' => Clean(S) /\ "played" \notin S
    BY <1>2, MeddleIs DEF Meddling, IconInv
  <1>4. {"restyled"} \in SUBSET Meddling /\ {"restyled", "stopped"} \in SUBSET Meddling
        /\ {"restyled", "played"} \in SUBSET Meddling
    BY DEF Meddling
  <1>5. /\ Followed(d) => Followed(d')
        /\ Going(d, calls) => Going(d', calls')
    <2>1. CASE d'.animationJobs = <<>>
      <3>1. calls' \in Seq(SUBSET Flags)
        BY <1>2 DEF IconInv, CallsOK
      <3> QED BY <2>1, <3>1, EmptyQueue
    <2>2. CASE /\ d'.animationJobs = d.animationJobs /\ d'.mode = d.mode
               /\ d'.lastMode = d.lastMode /\ d'.player = d.player
      BY <1>1, <1>2, <2>2 DEF Followed, Going, IsPlaying, LastJob, Request
    <2> QED BY <1>1, <2>1, <2>2
  <1> QED BY <1>1, <1>3, <1>4, <1>5 DEF QueueInv

LEMMA StopIconGoesOn ==
    ASSUME IconInv, QueueInv, stopIcon
    PROVE QueueInv'
  <1> DEFINE s == StopPlayer(d)
  <1>1. DOMAIN d = IconFields /\ IconOK(d)
    BY SettledIs DEF IconInv
  <1>2. d' = [s EXCEPT !.state = "Idle"] /\ Meddle("stopped") /\ calls' = calls
    BY DEF stopIcon
  <1>3. Differ(d, s, {"player"}) /\ s.player.state = "NotRunning"
    BY <1>1, StopPlayerIs
  <1> HIDE DEF s
  <1>4. /\ d'.player.state = "NotRunning" /\ d'.look = d.look /\ d'.state = "Idle"
        /\ d'.animationJobs = d.animationJobs /\ d'.mode = d.mode /\ d'.lastMode = d.lastMode
    BY <1>2, <1>3 DEF Differ, IconFields
  <1>5. \A S \in SUBSET Meddling : Clean(S)' => Clean(S) /\ "stopped" \notin S
    BY <1>2, MeddleIs DEF Meddling, IconInv
  <1>6. {"restyled"} \in SUBSET Meddling /\ {"restyled", "stopped"} \in SUBSET Meddling
    BY DEF Meddling
  <1>7. Followed(d) => Followed(d')
    BY <1>4 DEF Followed, IsPlaying, LastJob, Request
  <1>8. Coming(d', calls')
    BY <1>4 DEF Coming
  <1> QED BY <1>4, <1>5, <1>6, <1>7, <1>8 DEF QueueInv

LEMMA AbortGoesOn ==
    ASSUME IconInv, QueueInv, abort
    PROVE QueueInv'
  <1>1. d.look \in Looks /\ IconOK(d) /\ calls \in Seq(SUBSET Flags)
    BY SettledIs DEF IconInv, CallsOK
  <1>2. d' = Abort(d) /\ calls' = calls
    BY DEF abort
  <1>3. d'.animationJobs = <<>> /\ d'.state = "Idle"
    BY <1>1, <1>2, AbortIs
  <1> QED BY <1>1, <1>2, <1>3, EmptyQueue DEF QueueInv

(* Playing the first of jobs that wait, all fluent, leaves a fluent queue.    *)
LEMMA ResumedGoesOn ==
    ASSUME NEW l, NEW jobs \in Seq(Jobs), jobs # <<>>, Runs(l, jobs), NEW state,
           Resumed(l, jobs, state, d'), d'.look = l,
           Smooth(l, jobs[Len(jobs)]) => Smooth(l, Request(d'))
    PROVE Followed(d')
  <1>1. CASE Smooth(l, jobs[1])
    BY <1>1 DEF Followed, Resumed, LastJob
  <1>2. CASE ~Smooth(l, jobs[1])
    <2>1. d'.animationJobs = Tail(jobs) /\ ~IsPlaying(d')
      BY <1>2 DEF Resumed
    <2>2. /\ Runs(l, Tail(jobs))
          /\ Tail(jobs) # <<>> => Tail(jobs)[Len(Tail(jobs))] = jobs[Len(jobs)]
      BY TailRuns
    <2> QED BY <2>1, <2>2 DEF Followed, LastJob
  <1> QED BY <1>1, <1>2

LEMMA InvokeQueuedGoesOn ==
    ASSUME IconInv, QueueInv, InvokeQueued
    PROVE QueueInv'
  <1> DEFINE jobs == d.animationJobs
  <1>1. /\ calls # <<>> /\ d' = PlayFromQueue(d, Head(calls)) /\ calls' = Tail(calls)
        /\ meddled' = meddled
    BY DEF InvokeQueued
  <1>2. /\ calls \in Seq(SUBSET Flags) /\ Head(calls) \in SUBSET Flags /\ Settled(d)
        /\ jobs \in Seq(Jobs)
    BY <1>1, SettledIs DEF IconInv, CallsOK
  <1>3. calls' \in Seq(SUBSET Flags) /\ Len(calls') = Len(calls) - 1 /\ Len(calls) \in Nat
    BY <1>1, <1>2
  <1>4. /\ Advanced(d, d')
        /\ IF IsPlaying(d) \/ jobs = <<>> THEN d' = d ELSE Resumed(d.look, jobs, d.state, d')
    BY <1>1, <1>2, PlayFromQueueIs
  <1>5. d'.look = d.look /\ Request(d') = Request(d)
    BY <1>4 DEF Advanced, Request
  <1> SUFFICES ASSUME d.look \in Fluent, Clean({"restyled"}) PROVE QueueInv'
    BY <1>1, <1>5 DEF QueueInv, Clean
  <1>6. Followed(d)
    BY DEF QueueInv
  <1>7. CASE d' = d /\ IsPlaying(d)
    BY <1>1, <1>6, <1>7 DEF QueueInv, Going, Coming, Clean
  <1>8. CASE d' = d /\ jobs = <<>>
    BY <1>1, <1>3, <1>6, <1>8, EmptyQueue DEF QueueInv, Coming, Clean
  <1>9. CASE ~IsPlaying(d) /\ jobs # <<>>
    <2>1. Resumed(d.look, jobs, d.state, d')
      BY <1>4, <1>9
    <2>2. Followed(d')
      BY <1>2, <1>5, <1>6, <1>9, <2>1, ResumedGoesOn DEF Followed, LastJob
    <2>3. CASE Smooth(d.look, jobs[1])
      BY <1>9, <2>1, <2>2, <2>3 DEF QueueInv, Going, Coming, Resumed
    <2>4. CASE ~Smooth(d.look, jobs[1])
      <3>1. d'.animationJobs = Tail(jobs) /\ d'.state = d.state /\ Len(Tail(jobs)) = Len(jobs) - 1
        BY <1>2, <1>9, <2>1, <2>4 DEF Resumed
      <3>2. Going(d, calls) => Going(d', calls')
        <4>1. Len(jobs) \in Nat
          BY <1>2
        <4> HIDE DEF jobs
        <4> QED BY <1>3, <1>9, <3>1, <4>1 DEF Going, jobs
      <3>3. Coming(d, calls) => Coming(d', calls')
        BY <1>9, <2>4, <3>1 DEF Coming
      <3> QED BY <1>1, <1>5, <2>2, <3>2, <3>3 DEF QueueInv, Clean
    <2> QED BY <2>3, <2>4
  <1> QED BY <1>4, <1>7, <1>8, <1>9

LEMMA TimerFiresGoesOn ==
    ASSUME IconInv, QueueInv, TimerFires
    PROVE QueueInv'
  <1> DEFINE jobs == d.animationJobs
             left == IF jobs = <<>> THEN <<>> ELSE Tail(jobs)
  <1>1. calls' = calls /\ meddled' = meddled
    BY DEF TimerFires
  <1>2. /\ calls \in Seq(SUBSET Flags) /\ IconOK(d) /\ jobs \in Seq(Jobs)
    BY SettledIs DEF IconInv, CallsOK
  <1>3. /\ Advanced(d, d') /\ d.player.state = "Running"
        /\ \/ d'.animationJobs = jobs /\ IsPlaying(d')
           \/ left = <<>> /\ d'.animationJobs = <<>> /\ d'.state = "Idle"
           \/ left # <<>> /\ Resumed(d.look, left, d.state, d')
    BY TimerFiresIs
  <1>4. d'.look = d.look /\ Request(d') = Request(d) /\ IsPlaying(d) /\ d.state = "Busy"
    BY <1>2, <1>3 DEF Advanced, Request, IsPlaying, IconOK
  <1> SUFFICES ASSUME d.look \in Fluent, Clean({"restyled"}) PROVE QueueInv'
    BY <1>1, <1>4 DEF QueueInv, Clean
  <1>5. Followed(d)
    BY DEF QueueInv
  <1>6. CASE d'.animationJobs = jobs /\ IsPlaying(d')
    <2>1. Followed(d')
      BY <1>4, <1>5, <1>6 DEF Followed, LastJob
    <2>2. Coming(d, calls) => Coming(d', calls')
      BY <1>4, <1>6 DEF Coming
    <2> QED BY <1>1, <1>4, <1>6, <2>1, <2>2 DEF QueueInv, Going, Clean
  <1>7. CASE d'.animationJobs = <<>> /\ d'.state = "Idle"
    BY <1>1, <1>2, <1>7, EmptyQueue DEF QueueInv
  <1>8. CASE left # <<>> /\ Resumed(d.look, left, d.state, d')
    <2>1. jobs # <<>> /\ left = Tail(jobs)
      BY <1>8
    <2>2. Runs(d.look, jobs) /\ Smooth(d.look, jobs[1])
          /\ (Smooth(d.look, jobs[Len(jobs)]) => Smooth(d.look, Request(d)))
      BY <1>4, <1>5, <2>1 DEF Followed, LastJob
    <2>3. /\ Runs(d.look, left) /\ left[Len(left)] = jobs[Len(jobs)] /\ Smooth(d.look, left[1])
          /\ left \in Seq(Jobs)
      <3>1. /\ Runs(d.look, Tail(jobs))
            /\ Tail(jobs) # <<>> => /\ Tail(jobs)[Len(Tail(jobs))] = jobs[Len(jobs)]
                                    /\ Smooth(d.look, jobs[1]) => Smooth(d.look, Tail(jobs)[1])
        BY <1>2, <2>1, <2>2, TailRuns
      <3>2. left # <<>> /\ left = Tail(jobs) /\ Tail(jobs) \in Seq(Jobs)
        BY <1>2, <1>8, <2>1
      <3> HIDE DEF left
      <3> QED BY <2>2, <3>1, <3>2
    <2> HIDE DEF left
    <2>4. Followed(d')
      BY <1>4, <1>8, <2>2, <2>3, ResumedGoesOn
    <2>5. d'.animationJobs = left /\ IsPlaying(d')
      BY <1>8, <2>3 DEF Resumed
    <2> QED BY <1>8, <2>4, <2>5 DEF QueueInv, Going, Coming
  <1> QED BY <1>3, <1>6, <1>7, <1>8

THEOREM QueueInvariant == IconPlayerSpec => []QueueInv
  <1>1. IconPlayerInit => QueueInv
    <2> SUFFICES ASSUME IconPlayerInit PROVE QueueInv
      OBVIOUS
    <2>1. d.animationJobs = <<>> /\ d.state = "Idle" /\ calls = <<>>
      BY DEF IconPlayerInit
    <2>2. calls \in Seq(SUBSET Flags)
      BY <2>1
    <2> QED BY <2>1, <2>2, EmptyQueue DEF QueueInv
  <1>2. IconInv /\ QueueInv /\ [IconPlayerNext]_iconPlayerVars => QueueInv'
    <2> SUFFICES ASSUME IconInv, QueueInv, [IconPlayerNext]_iconPlayerVars
                 PROVE QueueInv'
      OBVIOUS
    <2>1. CASE \E l \in Looks : setIcon(l) \/ setLook(l)
      <3>1. Meddle("restyled")
        BY <2>1 DEF setIcon, setLook, Restyle
      <3> QED BY <3>1 DEF QueueInv, Meddle, Clean
    <2>2. CASE \E m \in Modes : setMode(m)
      BY <2>2, SetModeGoesOn
    <2>3. CASE \E pal \in Palettes : setIconPalette(pal)
      BY <2>3, SetIconPaletteGoesOn
    <2>4. CASE \E m \in PlayModes, flags \in PlayFlags : play(m, flags)
      BY <2>4, PlayGoesOn, IconAssumption
    <2>5. CASE stopIcon
      BY <2>5, StopIconGoesOn
    <2>6. CASE abort
      BY <2>6, AbortGoesOn
    <2>7. CASE InvokeQueued
      BY <2>7, InvokeQueuedGoesOn
    <2>8. CASE TimerFires
      BY <2>8, TimerFiresGoesOn
    <2>9. CASE UNCHANGED iconPlayerVars
      BY <2>9 DEF iconPlayerVars, QueueInv, Clean, Followed, Going, Coming, IsPlaying, LastJob,
                  Request
    <2> QED BY <2>1, <2>2, <2>3, <2>4, <2>5, <2>6, <2>7, <2>8, <2>9 DEF IconPlayerNext
  <1> QED BY <1>1, <1>2, IconInvariant, PTL DEF IconPlayerSpec

(* The queue of a fluent icon goes on by itself: whatever setMode, setPalette,*)
(* play and abort do to it, in queues of any length, a job that is left plays *)
(* or has a call in the event loop that will play it.                         *)
THEOREM UndisturbedQueue == IconPlayerSpec => []UndisturbedQueueGoesOn
  <1>1. IconInv /\ QueueInv => UndisturbedQueueGoesOn
    <2> SUFFICES ASSUME IconInv, QueueInv, Clean({"restyled", "stopped"}), d.look \in Fluent,
                        d.animationJobs # <<>>, ~IsPlaying(d), calls = <<>>
                 PROVE FALSE
      BY DEF UndisturbedQueueGoesOn, QueueGoesOn
    <2>1. d.animationJobs \in Seq(Jobs) /\ Len(d.animationJobs) <= Len(<<>>)
      BY SettledIs DEF QueueInv, Going, IconInv
    <2> QED BY <2>1
  <1> QED BY <1>1, IconInvariant, QueueInvariant, PTL

(* Busy always comes to an end for such an icon: while it is Busy its image   *)
(* player plays, or the first job in the queue has a call that makes it play, *)
(* also when stop interrupts it.                                              *)
THEOREM BusyComesToAnEnd == IconPlayerSpec => []BusyEnds
  <1>1. QueueInv => BusyEnds
    BY DEF QueueInv, BusyEnds, Coming
  <1> QED BY <1>1, QueueInvariant, PTL

-----------------------------------------------------------------------------
(* What the icon player shows.  The frame at the place of the image player q, *)
(* as it is once it has been read.                                            *)
FrameAt(q) ==
    IF CurrentHasCache(q) THEN q.cachedFrames[q.current + 1][q.currentFrameNumber + 1]
    ELSE Shot(Image(q), q.currentFrameNumber, q.palette)

(* Cached and uncached plays of an image can bring a late frame forward in    *)
(* its cache, but never an early one back: the last place has the last frame. *)
NoneEarly(q) ==
    \A j \in DOMAIN q.cachedFrames : \A n \in DOMAIN q.cachedFrames[j] :
        q.cachedFrames[j][n].frame \in (n - 1)..(Frames[q.images[j]] - 1)

OfPalette(q) ==
    \A j \in DOMAIN q.cachedFrames : \A n \in DOMAIN q.cachedFrames[j] :
        q.cachedFrames[j][n].palette = q.palette

(* Frames of another palette are given up when the animation stops.           *)
Fresh(q) ==
    NoneEarly(q) /\ (q.state = "NotRunning" \/ "ClearCacheOnStop" \notin q.flags => OfPalette(q))

(* r has of the frames of q what it has not read itself.                      *)
KeepsFrames(q, r) ==
    (NoneEarly(q) => NoneEarly(r)) /\ (OfPalette(q) => OfPalette(r))

LEMMA FilledKeepsFrames ==
    ASSUME NEW q \in Players, NEW r \in Players, Filled(q, r), Fits(r), r.images = q.images,
           r.palette = q.palette
    PROVE KeepsFrames(q, r)
  <1>1. ASSUME NEW j \in DOMAIN r.cachedFrames, NEW n \in DOMAIN r.cachedFrames[j]
        PROVE /\ n \in Nat /\ n - 1 \in (n - 1)..(Frames[r.images[j]] - 1)
              /\ \/ /\ j \in DOMAIN q.cachedFrames /\ n \in DOMAIN q.cachedFrames[j]
                    /\ r.cachedFrames[j][n] = q.cachedFrames[j][n]
                 \/ r.cachedFrames[j][n].frame = n - 1 /\ r.cachedFrames[j][n].palette = r.palette
    <2>1. r.cachedFrames \in Seq(Seq(Shots)) /\ r.images \in Seq(Images)
          /\ Len(r.cachedFrames) <= Len(r.images) /\ Len(r.cachedFrames[j]) <= Frames[r.images[j]]
      BY <1>1 DEF Players, Fits
    <2>2. j \in 1..Len(r.images) /\ r.cachedFrames[j] \in Seq(Shots)
      BY <1>1, <2>1
    <2>3. r.images[j] \in Images
      BY <2>1, <2>2
    <2>4. Frames[r.images[j]] \in Nat
      BY <2>3, ImagesAssumption
    <2>5. n \in 1..Len(r.cachedFrames[j]) /\ Len(r.cachedFrames[j]) \in Nat
      BY <1>1, <2>2
    <2>6. n \in Nat /\ n - 1 \in (n - 1)..(Frames[r.images[j]] - 1)
      BY <2>1, <2>4, <2>5
    <2>7. \/ /\ j \in DOMAIN q.cachedFrames /\ n \in DOMAIN q.cachedFrames[j]
             /\ r.cachedFrames[j][n] = q.cachedFrames[j][n]
          \/ r.cachedFrames[j][n] = Shot(r.images[j], n - 1, r.palette)
      BY <1>1 DEF Filled
    <2>8. Shot(r.images[j], n - 1, r.palette).frame = n - 1
          /\ Shot(r.images[j], n - 1, r.palette).palette = r.palette
      BY DEF Shot
    <2> QED BY <2>6, <2>7, <2>8
  <1> QED BY <1>1 DEF KeepsFrames, NoneEarly, OfPalette

(* The frame read is the one at the player's place, and is there afterwards.  *)
LEMMA ReadShows ==
    ASSUME NEW q, Sound(q), q.state = "WaitingRead", HasFrame(q)
    PROVE LET r == ReadImage(q, TRUE) IN
          /\ FrameRead(q) = FrameAt(r) /\ KeepsFrames(q, r) /\ Same(q, r)
  <1> DEFINE r == ReadImage(q, TRUE)
             k == q.current + 1
             n == q.currentFrameNumber
             c == q.cachedFrames
             c2 == r.cachedFrames
  <1>1. /\ q \in Players /\ Fits(q) /\ InRange(q) /\ n \in 0..(Frames[Image(q)] - 1)
        /\ c \in Seq(Seq(Shots)) /\ q.current \in Nat /\ Image(q) = q.images[k] /\ Image(q) \in Images
    BY SoundIs, ImageIs DEF HasFrame
  <1>2. r.state = "Running" /\ Sound(r)
    BY ReadKeepsSound
  <1>3. /\ r \in Players /\ Same(q, r) /\ Fits(r) /\ r.current = q.current
        /\ r.currentFrameNumber = n /\ CachedAt(q, c2)
    BY <1>1, <1>2, ReadIs
  <1>4. Frames[Image(q)] \in Nat /\ Image(r) = Image(q)
    BY <1>1, <1>3, ImageIs DEF Image, Same
  <1>5. FrameRead(q) = FrameAt(q)
    BY DEF FrameRead, FrameAt, HasFrame
  <1>6. ~CurrentHasCache(q) => FrameRead(q) = Shot(Image(q), n, q.palette)
    BY <1>5 DEF FrameAt
  <1> HIDE DEF r
  <1>7. CASE c2 = c
    <2>1. FrameAt(r) = FrameAt(q)
      BY <1>3, <1>4, <1>7 DEF FrameAt, CurrentHasCache, HasCache, Same
    <2>2. KeepsFrames(q, r)
      BY <1>3, <1>7 DEF KeepsFrames, NoneEarly, OfPalette, Same
    <2> QED BY <1>3, <1>5, <2>1, <2>2 DEF r
  <1>8. CASE /\ "CacheAll" \in q.flags /\ ~CurrentHasCache(q) /\ k \in DOMAIN c
             /\ DOMAIN c2 = DOMAIN c
             /\ \A j \in DOMAIN c2 : c2[j] = IF j = k THEN Append(c[j], FrameRead(q)) ELSE c[j]
    <2> DEFINE L == Len(c[k])
    <2>1. c[k] \in Seq(Shots) /\ L \in Nat /\ DOMAIN c[k] = 1..L /\ n \in Nat
      BY <1>1, <1>4, <1>8
    <2>2. n >= L
      <3>1. n + 1 \notin 1..L
        BY <1>8, <2>1 DEF CurrentHasCache, HasCache
      <3> QED BY <2>1, <3>1
    <2> HIDE DEF L
    <2>3. FrameRead(q) \in Shots
      BY <1>1, FrameReadIs
    <2>4. /\ c2[k] = Append(c[k], FrameRead(q)) /\ DOMAIN c2[k] = 1..(L + 1)
          /\ c2[k][L + 1] = FrameRead(q) /\ \A m \in 1..L : c2[k][m] = c[k][m]
      <3> DEFINE a == c[k]
                 x == FrameRead(q)
      <3>1. c2[k] = Append(a, x)
        BY <1>8
      <3>2. a \in Seq(Shots) /\ x \in Shots /\ Len(a) = L
        BY <2>1, <2>3 DEF L
      <3> HIDE DEF a, x
      <3>3. /\ Append(a, x) \in Seq(Shots) /\ Len(Append(a, x)) = Len(a) + 1
            /\ Append(a, x)[Len(a) + 1] = x /\ \A m \in 1..Len(a) : Append(a, x)[m] = a[m]
        BY <3>2
      <3>4. DOMAIN Append(a, x) = 1..(L + 1)
        BY <3>2, <3>3
      <3> QED BY <3>1, <3>2, <3>3, <3>4 DEF a, x
    <2>5. FrameAt(r) = FrameRead(q)
      <3>1. CASE n = L
        <4>1. CurrentHasCache(r) /\ c2[k][n + 1] = FrameRead(q)
          BY <1>3, <1>8, <2>1, <2>4, <3>1 DEF CurrentHasCache, HasCache
        <4> QED BY <1>3, <4>1 DEF FrameAt
      <3>2. CASE n > L
        <4>1. ~CurrentHasCache(r)
          BY <1>3, <1>8, <2>1, <2>4, <3>2 DEF CurrentHasCache, HasCache
        <4> QED BY <1>3, <1>4, <1>6, <1>8, <4>1 DEF FrameAt, Same
      <3> QED BY <2>1, <2>2, <3>1, <3>2
    <2>6. ASSUME NEW j \in DOMAIN c2, NEW m \in DOMAIN c2[j]
          PROVE \/ j \in DOMAIN c /\ m \in DOMAIN c[j] /\ c2[j][m] = c[j][m]
                \/ /\ c2[j][m].palette = q.palette
                   /\ c2[j][m].frame \in (m - 1)..(Frames[r.images[j]] - 1)
      <3>1. CASE j # k \/ m \in 1..L
        BY <1>8, <2>1, <2>4, <2>6, <3>1
      <3>2. CASE j = k /\ m = L + 1
        <4>1. c2[j][m] = Shot(Image(q), n, q.palette)
          BY <1>6, <1>8, <2>4, <3>2
        <4>2. c2[j][m].palette = q.palette /\ c2[j][m].frame = n
          BY <4>1 DEF Shot
        <4>3. r.images[j] = Image(q)
          BY <1>1, <1>3, <3>2 DEF Same
        <4>4. n \in (m - 1)..(Frames[Image(q)] - 1)
          BY <1>1, <1>4, <2>1, <2>2, <3>2
        <4> QED BY <4>2, <4>3, <4>4
      <3> QED BY <2>1, <2>4, <2>6, <3>1, <3>2
    <2>7. KeepsFrames(q, r)
      BY <1>3, <2>6 DEF KeepsFrames, NoneEarly, OfPalette, Same
    <2> QED BY <1>3, <2>5, <2>7 DEF r
  <1> QED BY <1>3, <1>7, <1>8 DEF CachedAt

LEMMA StartShows ==
    ASSUME NEW q, Sound(q), q.state = "NotRunning", q.images # <<>>, NEW flags \in SUBSET Flags,
           Len(q.images) = 2 => flags \cap {"CacheAll", "InvertedOrder"} # {}
    PROVE LET r == Start(q, flags) IN
          /\ HasFrame(r) /\ KeepsFrames(q, r) /\ r.images = q.images
          /\ Reversed(r) <=> "InvertedOrder" \in flags
          /\ "Continue" \in flags /\ InRange(q) =>
                r.current = q.current /\ r.currentFrameNumber = q.currentFrameNumber
  <1> DEFINE r == Start(q, flags)
  <1>1. q \in Players /\ Placed(q) /\ Fits(q)
    BY SoundIs
  <1>2. r.state = "WaitingRead"
    BY StartKeepsSound
  <1>3. /\ r \in Players /\ r.images = q.images /\ r.palette = q.palette /\ Fits(r) /\ Filled(q, r)
        /\ r.flags = flags \cup (IF "InvertedOrder" \in flags THEN {"CacheAll"} ELSE {})
        /\ StartFails(q, r, flags) \/ StartIdles(q, r) \/ StartPlays(q, r, flags)
    BY <1>1, StartIs
  <1> HIDE DEF r
  <1>4. StartPlays(q, r, flags)
    BY <1>2, <1>3 DEF StartFails, StartIdles
  <1>5. KeepsFrames(q, r)
    BY <1>1, <1>3, FilledKeepsFrames
  <1>6. Reversed(r) <=> "InvertedOrder" \in flags
    BY <1>3 DEF Reversed
  <1> QED BY <1>3, <1>4, <1>5, <1>6 DEF StartPlays, AtFrame, r

(* What Continue starts with is what the player would have shown.             *)
LEMMA ContinueShows ==
    ASSUME NEW q, Sound(q), q.state = "NotRunning", q.images # <<>>, InRange(q),
           NEW flags \in SUBSET Flags, "Continue" \in flags,
           Len(q.images) = 2 => flags \cap {"CacheAll", "InvertedOrder"} # {}
    PROVE FrameAt(Start(q, flags)) = FrameAt(q)
  <1> DEFINE r == Start(q, flags)
             k == q.current + 1
             m == q.currentFrameNumber + 1
             c == q.cachedFrames
             c2 == r.cachedFrames
  <1>1. q \in Players /\ Placed(q) /\ Fits(q) /\ c \in Seq(Seq(Shots)) /\ Len(c) \in Nat
        /\ q.current \in Nat
    BY SoundIs, ImageIs
  <1>2. /\ r \in Players /\ r.images = q.images /\ r.palette = q.palette /\ Filled(q, r)
    BY <1>1, StartIs
  <1>3. r.current = q.current /\ r.currentFrameNumber = q.currentFrameNumber /\ HasFrame(r)
    BY StartShows
  <1>4. Image(r) = Image(q) /\ Image(q) = q.images[k] /\ q.currentFrameNumber \in Int
    BY <1>1, <1>2, <1>3, ImageIs DEF Image, Players
  <1>5. r.state = "WaitingRead"
    BY StartKeepsSound
  (* The cache, if there is one, is left as it is.                            *)
  <1>6. c # <<>> => c2 = c \/ OneMore(c, c2, q.current)
    <2> DEFINE s == Begun(q, flags)
               u == [s EXCEPT !.loopCount = s.userLoopCount]
               e == EnsureCurrent(u)
    <2> SUFFICES ASSUME c # <<>> PROVE c2 = c \/ OneMore(c, c2, q.current)
      OBVIOUS
    <2>1. /\ s \in Players /\ s.images = q.images /\ s.cachedFrames = c /\ s.state = "NotRunning"
          /\ s.flags = flags \cup (IF "InvertedOrder" \in flags THEN {"CacheAll"} ELSE {})
          /\ s.current = q.current /\ s.userLoopCount = q.userLoopCount
      BY <1>1, BegunIs DEF StartAt
    <2>2. Len(c) # 0
      BY <1>1
    <2>3. Prepared(s) = s
      <3>1. CASE Reversed(s)
        BY <2>1, <2>2, <3>1 DEF Prepared, PrepareReversed
      <3>2. CASE ~Reversed(s)
        BY <2>1, <3>2 DEF Prepared, PrepareForward
      <3> QED BY <3>1, <3>2
    <2>4. r = IF s.state = "undefined" THEN s
              ELSE IF e.state = "undefined" \/ ~InRange(e) THEN e
              ELSE [e EXCEPT !.state = "WaitingRead"]
      BY <2>3 DEF Start, Begun, Prepared
    <2> HIDE DEF s
    <2>5. s.userLoopCount \in Int
      BY <2>1 DEF Players
    <2>6. /\ u \in Players /\ u.images = q.images /\ u.cachedFrames = c /\ u.current = q.current
      BY <2>1, <2>5 DEF Players
    <2> HIDE DEF u
    <2>7. InRange(u) /\ Fits(u)
      BY <1>1, <2>6 DEF InRange, Fits
    <2>8. /\ e \in Players
          /\ \/ e.cachedFrames = c
             \/ PlaceMade(u.flags, c, e.cachedFrames, e.current)
      BY <2>6, <2>7, EnsureCurrentIs
    <2> HIDE DEF e
    <2>9. r.cachedFrames = e.cachedFrames /\ r.current = e.current
      BY <1>5, <2>1, <2>4, <2>8 DEF Players
    <2> QED BY <1>3, <2>8, <2>9 DEF PlaceMade
  <1> HIDE DEF r
  <1>7. CASE CurrentHasCache(q)
    <2>1. k \in DOMAIN c /\ m \in DOMAIN c[k] /\ c # <<>>
      BY <1>1, <1>7 DEF CurrentHasCache, HasCache
    <2>2. k \in DOMAIN c2 /\ c2[k] = c[k]
      <3>1. CASE c2 = c
        BY <2>1, <3>1
      <3>2. CASE OneMore(c, c2, q.current)
        BY <1>1, <1>7, <2>1, <3>2 DEF OneMore
      <3> QED BY <1>6, <2>1, <3>1, <3>2
    <2>3. CurrentHasCache(r)
      BY <1>3, <2>1, <2>2 DEF CurrentHasCache, HasCache
    <2> QED BY <1>3, <1>7, <2>2, <2>3 DEF FrameAt, r
  <1>8. CASE ~CurrentHasCache(q)
    <2>1. ~(k \in DOMAIN c /\ m \in DOMAIN c[k])
      BY <1>8 DEF CurrentHasCache, HasCache
    <2>2. CASE CurrentHasCache(r)
      <3>1. k \in DOMAIN c2 /\ m \in DOMAIN c2[k]
        BY <1>3, <2>2 DEF CurrentHasCache, HasCache
      <3>2. c2[k][m] = Shot(r.images[k], m - 1, r.palette)
        BY <1>2, <2>1, <3>1 DEF Filled
      <3>3. m - 1 = q.currentFrameNumber
        BY <1>4
      <3> QED BY <1>2, <1>3, <1>4, <1>8, <2>2, <3>2, <3>3 DEF FrameAt, r
    <2>3. CASE ~CurrentHasCache(r)
      BY <1>2, <1>3, <1>4, <1>8, <2>3 DEF FrameAt, r
    <2> QED BY <2>2, <2>3
  <1> QED BY <1>7, <1>8

LEMMA TimerShows ==
    ASSUME NEW q, Sound(q), q.state = "Running"
    PROVE LET r == TimerEvent(q) IN
          /\ KeepsFrames(q, r) /\ Same(q, r)
          /\ r.state = "WaitingRead" => HasFrame(r)
          /\ r.state = "NotRunning" /\ "ClearCacheOnStop" \in q.flags => r.cachedFrames = <<>>
  <1> DEFINE r == TimerEvent(q)
             c == q.cachedFrames
  <1>1. q \in Players /\ Fits(q) /\ Placed(q) /\ InRange(q)
        /\ q.currentFrameNumber \in 0..(Frames[Image(q)] - 1)
    BY SoundIs DEF Sound, Placed
  <1>2. /\ Reversed(q) => "CacheAll" \in q.flags
        /\ "CacheAll" \in q.flags /\ q.current + 1 \in DOMAIN c => c[q.current + 1] # <<>>
    BY DEF Sound
  <1>3. /\ r \in Players /\ Same(q, r) /\ Fits(r)
        /\ \/ TimerAdvances(q, r)
           \/ TimerMoves(q, r) \/ TimerEnds(q, r) \/ TimerFails(q, r)
    BY <1>1, <1>2, TimerIs
  <1>4. r.state \in {"NotRunning", "WaitingRead"}
    BY TimerKeepsSound
  <1> HIDE DEF r
  <1>5. r.state = "WaitingRead" => HasFrame(r)
    BY <1>3 DEF TimerAdvances, TimerMoves, TimerEnds, TimerFails, Entered, AtFrame
  <1>6. r.state = "NotRunning" /\ "ClearCacheOnStop" \in q.flags => r.cachedFrames = <<>>
    BY <1>3 DEF TimerAdvances, TimerMoves, TimerEnds, TimerFails
  <1>7. Filled(q, r)
    <2>1. CASE r.cachedFrames = c
      BY <1>3, <2>1 DEF Filled
    <2>2. CASE r.cachedFrames = <<>>
      BY <1>1, <1>3, <2>2, EmptyFits
    <2>3. CASE TimerMoves(q, r)
      <3>1. r.cachedFrames = c \/ OneMore(c, r.cachedFrames, r.current)
        BY <2>3 DEF TimerMoves, Entered, PlaceMade
      <3>2. r.current < Len(q.images) /\ r.current \in Int
        <4>1. r.current < Len(r.images) /\ r.current \in Nat
          BY <1>3, <2>3, ImageIs DEF TimerMoves
        <4> QED BY <1>3, <4>1 DEF Same
      <3> QED BY <1>1, <1>3, <3>1, <3>2, OneMoreKeeps DEF Same
    <2> QED BY <1>3, <1>4, <2>1, <2>2, <2>3 DEF TimerAdvances, TimerEnds, TimerFails
  <1>8. KeepsFrames(q, r)
    BY <1>1, <1>3, <1>7, FilledKeepsFrames DEF Same
  <1> QED BY <1>3, <1>5, <1>6, <1>8 DEF r

(* An animation that plays forward ends at the last frame of its last image.  *)
LEMMA EndsAtTheLast ==
    ASSUME NEW q, Sound(q), q.state = "Running", ~Reversed(q), TimerEvent(q).state = "NotRunning"
    PROVE q.current = Len(q.images) - 1 /\ q.currentFrameNumber = Frames[Image(q)] - 1
  <1> DEFINE e == [q EXCEPT !.timer = FALSE]
             n == q.currentFrameNumber
             j == JumpTo(e, NextFrame(e))
             v == [j EXCEPT !.currentLoopCount = 0, !.currentFrameNumber = -1,
                            !.current = @ + Toward(j)]
             next == NextImage(j)
             over == IF HasNextImage(j) THEN next ELSE [j EXCEPT !.currentLoopCount = 0]
             again == PlayAgain(over)
  <1>1. /\ q \in Players /\ Fits(q) /\ Placed(q) /\ InRange(q) /\ ~SomeStill(q)
        /\ n \in 0..(Frames[Image(q)] - 1) /\ q.current \in Nat /\ q.current < Len(q.images)
        /\ Image(q) \in Images /\ Frames[Image(q)] \in Nat /\ Len(q.images) \in Nat
    BY SoundIs, ImageIs DEF Sound, Placed
  <1>2. /\ e \in Players /\ Same(q, e) /\ e.current = q.current /\ e.currentFrameNumber = n
        /\ e.cachedFrames = q.cachedFrames /\ Image(e) = Image(q) /\ ~Reversed(e)
        /\ Toward(e) = 1 /\ NextFrame(e) = n + 1
    BY <1>1 DEF Players, Same, Image, Reversed, Toward, NextFrame
  <1>3. TimerEvent(q) =
            IF HasNextFrame(e) THEN Waiting(AdvanceFrame(e))
            ELSE IF j.currentLoopCount \notin {0, 1} THEN Waiting(Replay(j))
            ELSE IF InRange(next) THEN Waiting(next)
            ELSE IF j.loopCount \in {0, 1} THEN Stop([over EXCEPT !.loopCount = 0])
            ELSE IF InRange(again) THEN Waiting(again) ELSE Stop(again)
    BY <1>2 DEF TimerEvent, Waiting
  <1>4. n + 1 \in Nat /\ Animated(Image(q)) /\ Frames[Image(q)] \in Nat \ {0}
    BY <1>1 DEF Animated
  <1>5. /\ j \in Players /\ Same(e, j) /\ j.current = q.current
        /\ j.cachedFrames = q.cachedFrames /\ j.state = "Running"
    <2>1. e.state = "Running"
      BY DEF Players
    <2> HIDE DEF e
    <2> QED BY <1>1, <1>2, <1>4, <2>1, JumpToIs
  <1> HIDE DEF e, j
  <1>6. Fits(j) /\ Len(j.images) = Len(q.images) /\ j.images = q.images /\ ~Reversed(j)
        /\ Toward(j) = 1 /\ ~SomeStill(j)
    BY <1>1, <1>2, <1>5 DEF Fits, Same, Reversed, Toward, SomeStill
  <1>7. ASSUME NEW x \in Players PROVE Waiting(x).state # "NotRunning"
    BY <1>7 DEF Waiting, Players
  (* There is no frame after it, ...                                          *)
  <1>8. ~HasNextFrame(e) /\ n = Frames[Image(q)] - 1
    <2>1. TimerEnds(q, TimerEvent(q)) /\ ~HasNextFrame(q)
      <3>1. /\ Reversed(q) => "CacheAll" \in q.flags
            /\ "CacheAll" \in q.flags /\ q.current + 1 \in DOMAIN q.cachedFrames =>
                  q.cachedFrames[q.current + 1] # <<>>
        BY DEF Sound
      <3> QED BY <1>1, <3>1, TimerIs DEF TimerAdvances, TimerMoves, TimerFails
    <2>2. HasNextFrame(e) <=> HasNextFrame(q)
      BY <1>2, <2>1 DEF HasNextFrame, HasCache, NextFrame, Toward, e
    <2>3. NextFrame(q) = n + 1
      BY DEF NextFrame, Toward
    <2> QED BY <1>1, <2>1, <2>2, <2>3 DEF HasNextFrame
  (* ... it is not played again, and there is no image after it.              *)
  <1>9. j.currentLoopCount \in {0, 1}
    <2> DEFINE w == [j EXCEPT !.currentLoopCount = @ - 1, !.currentFrameNumber = -1]
    <2>1. w \in Players /\ Same(j, w) /\ w.current = q.current /\ w.currentFrameNumber = -1
          /\ w.cachedFrames = j.cachedFrames
      <3>1. j.currentLoopCount - 1 \in Int /\ -1 \in Int
        BY <1>5 DEF Players
      <3> QED BY <1>5, <3>1 DEF Players, Same
    <2> HIDE DEF w
    <2>2. InRange(w) /\ Fits(w) /\ ~Reversed(w) /\ Image(w) = Image(q)
      BY <1>1, <1>5, <1>6, <2>1 DEF InRange, Fits, Reversed, Same, Image
    <2>3. Usable(w, w.current)
      BY <1>4, <2>1, <2>2, UsableIs
    <2>4. InitCurrent(w) \in Players
      BY <2>1, <2>2, <2>3, EnteredAt
    <2>5. Replay(j) = InitCurrent(w)
      BY DEF Replay, w
    <2> QED BY <1>3, <1>7, <1>8, <2>4, <2>5
  <1>10. /\ v \in Players /\ v.images = j.images /\ v.flags = j.flags
         /\ v.cachedFrames = j.cachedFrames /\ v.state = j.state
         /\ v.current = q.current + 1 /\ v.currentFrameNumber = -1
    <2> DEFINE w == [j EXCEPT !.currentLoopCount = 0, !.currentFrameNumber = -1]
    <2>1. /\ w \in Players /\ w.images = j.images /\ w.flags = j.flags
          /\ w.cachedFrames = j.cachedFrames /\ w.state = j.state
          /\ w.current = q.current /\ w.currentFrameNumber = -1
      <3>1. 0 \in Int /\ -1 \in Int
        OBVIOUS
      <3> QED BY <1>5, <3>1 DEF Players
    <2>2. v = [w EXCEPT !.current = q.current + 1]
      BY <1>5, <1>6, <2>1
    <2> HIDE DEF w, v
    <2>3. q.current + 1 \in Int
      BY <1>1
    <2> QED BY <2>1, <2>2, <2>3 DEF Players
  <1>11. ~InRange(next)
    <2> SUFFICES ASSUME InRange(next) PROVE FALSE
      OBVIOUS
    <2>1. TimerEvent(q) = Waiting(next)
      BY <1>3, <1>8, <1>9
    <2>2. next = EnsureCurrent(v)
      BY DEF NextImage
    <2>3. v \in Players /\ v.cachedFrames = j.cachedFrames /\ v.images = j.images
          /\ v.currentFrameNumber = -1
      BY <1>10
    <2>4. next \in Players
      <3>1. CASE InRange(v)
        <4>1. Fits(v) /\ v.currentFrameNumber = -1
          BY <1>6, <2>3 DEF Fits
        <4> HIDE DEF v
        <4> QED BY <2>2, <2>3, <3>1, <4>1, EntersIs
      <3>2. CASE ~InRange(v)
        BY <2>2, <2>3, <3>2 DEF EnsureCurrent
      <3> QED BY <3>1, <3>2
    <2> HIDE DEF next
    <2> QED BY <1>7, <2>1, <2>4
  <1>12. ASSUME q.current + 1 < Len(q.images) PROVE FALSE
    <2>1. /\ v \in Players /\ v.images = q.images /\ v.flags = j.flags
          /\ v.cachedFrames = j.cachedFrames
          /\ v.current = q.current + 1 /\ v.currentFrameNumber = -1 /\ v.state = "Running"
      BY <1>5, <1>6, <1>10
    <2>2. next = EnsureCurrent(v)
      BY DEF NextImage
    <2> HIDE DEF v, next
    <2>3. InRange(v) /\ Fits(v) /\ ~Reversed(v) /\ ~SomeStill(v)
      BY <1>1, <1>6, <1>12, <2>1 DEF InRange, Fits, Reversed, SomeStill
    <2>4. next.state = "undefined" => Reversed(v)
      BY <2>1, <2>2, <2>3, EntersIs
    <2>5. InRange(next)
      BY <2>1, <2>2, <2>3, EntersIs
    <2> QED BY <1>11, <2>5
  <1> QED BY <1>1, <1>8, <1>12

-----------------------------------------------------------------------------
(* A player that stops, or that stands still, has no stale frames.            *)
LEMMA StopIsFresh ==
    ASSUME NEW q, Sound(q), Fresh(q)
    PROVE LET r == Stop(q) IN
          /\ Sound(r) /\ Fresh(r) /\ OfPalette(r) /\ r.state = "NotRunning"
          /\ r.palette = q.palette /\ r.images = q.images
  <1> DEFINE r == Stop(q)
  <1>1. Sound(r) /\ r.state = "NotRunning" /\ r.palette = q.palette /\ r.images = q.images
    BY StopKeepsSound
  <1>2. NoneEarly(r) /\ OfPalette(r)
    <2>1. CASE q.state = "NotRunning"
      BY <2>1 DEF Stop, Fresh
    <2>2. CASE q.state # "NotRunning"
      <3>1. r.cachedFrames = IF "ClearCacheOnStop" \in q.flags THEN <<>> ELSE q.cachedFrames
        BY <2>2, SoundIs, StopIs
      <3> HIDE DEF r
      <3>2. CASE r.cachedFrames = <<>>
        BY <3>2 DEF NoneEarly, OfPalette
      <3>3. CASE r.cachedFrames = q.cachedFrames /\ "ClearCacheOnStop" \notin q.flags
        BY <1>1, <3>3 DEF NoneEarly, OfPalette, Fresh
      <3> QED BY <3>1, <3>2, <3>3
    <2> QED BY <2>1, <2>2
  <1> QED BY <1>1, <1>2 DEF Fresh

LEMMA ClearedIsFresh ==
    ASSUME NEW q, q.cachedFrames = <<>>
    PROVE Fresh(q) /\ OfPalette(q)
  BY DEF Fresh, NoneEarly, OfPalette

LEMMA SetImagesIsFresh ==
    ASSUME NEW q, Sound(q), Fresh(q), q.state = "NotRunning", NEW images \in Seq(Images)
    PROVE Fresh(SetImages(q, images))
  <1>1. CASE images = q.images
    BY <1>1 DEF SetImages
  <1>2. CASE images # q.images
    <2>1. q \in Players /\ Fits(q) /\ q.timer = FALSE
      BY DEF Sound
    <2>2. SetImages(q, images).cachedFrames = <<>>
      BY <1>2, <2>1, SetImagesIs
    <2> QED BY <2>2, ClearedIsFresh
  <1> QED BY <1>1, <1>2

LEMMA RewoundIsFresh ==
    ASSUME NEW q \in Players, Fresh(q), NEW number
    PROVE LET r == [q EXCEPT !.number = number] IN
          Fresh(r) /\ (OfPalette(q) => OfPalette(r)) /\ FrameAt(r) = FrameAt(q) /\ InRange(r) = InRange(q)
  <1> DEFINE r == [q EXCEPT !.number = number]
  <1>1. /\ r.images = q.images /\ r.palette = q.palette /\ r.cachedFrames = q.cachedFrames
        /\ r.state = q.state /\ r.flags = q.flags /\ r.current = q.current
        /\ r.currentFrameNumber = q.currentFrameNumber
    BY DEF Players
  <1> HIDE DEF r
  <1> QED BY <1>1 DEF Fresh, NoneEarly, OfPalette, FrameAt, CurrentHasCache, HasCache, Image, InRange, r

LEMMA SetPaletteIsFresh ==
    ASSUME NEW q, Sound(q), Fresh(q), NEW pal \in Palettes
    PROVE Fresh(SetPalette(q, pal))
  <1> DEFINE r == SetPalette(q, pal)
  <1>1. q \in Players /\ Fits(q) /\ q.images \in Seq(Images) /\ Len(q.images) \in Nat
        /\ q.cachedFrames \in Seq(Seq(Shots)) /\ Len(q.cachedFrames) <= Len(q.images)
    BY SoundIs
  <1>2. /\ r \in Players /\ StaysPut(q, r) /\ r.state = q.state /\ r.palette = pal
        /\ q.state # "NotRunning" => r.cachedFrames = q.cachedFrames
        /\ r.flags = q.flags \/ r.flags = q.flags \cup {"ClearCacheOnStop"}
        /\ \/ pal = q.palette \/ ~HasPalette(q) \/ r.cachedFrames = <<>>
           \/ q.state # "NotRunning" /\ "ClearCacheOnStop" \in r.flags
    BY <1>1, SetPaletteIs
  <1>3. ~HasPalette(q) => r.cachedFrames = <<>>
    <2> SUFFICES ASSUME ~HasPalette(q) PROVE r.cachedFrames = <<>>
      OBVIOUS
    <2>1. DOMAIN q.images = {}
      <3> SUFFICES ASSUME NEW j \in DOMAIN q.images PROVE FALSE
        OBVIOUS
      <3>1. q.images[j] \in Images
        BY <1>1
      <3> QED BY <3>1, IconAssumption DEF HasPalette
    <2>2. Len(q.images) = 0
      <3>1. DOMAIN q.images = 1..Len(q.images)
        BY <1>1
      <3>2. 1 \notin 1..Len(q.images)
        BY <2>1, <3>1
      <3> QED BY <1>1, <3>2
    <2>3. q.cachedFrames = <<>>
      BY <1>1, <2>2
    <2> QED BY <1>2, <2>3 DEF StaysPut
  <1> HIDE DEF r
  <1>4. CASE r.cachedFrames = <<>>
    BY <1>4, ClearedIsFresh DEF r
  <1>5. CASE r.cachedFrames = q.cachedFrames
    <2>1. NoneEarly(r)
      BY <1>2, <1>5 DEF Fresh, NoneEarly, StaysPut
    <2>2. CASE pal = q.palette
      <3>1. OfPalette(q) => OfPalette(r)
        BY <1>2, <1>5, <2>2 DEF OfPalette
      <3> QED BY <1>2, <2>1, <3>1 DEF Fresh, r
    <2>3. CASE q.state # "NotRunning" /\ "ClearCacheOnStop" \in r.flags
      BY <1>2, <2>1, <2>3 DEF Fresh, r
    <2> QED BY <1>2, <1>3, <1>4, <2>2, <2>3 DEF r
  <1> QED BY <1>2, <1>4, <1>5 DEF StaysPut

(* r is at the place of q in its direction, with the same frames.             *)
Alike(q, r) ==
    /\ r.images = q.images /\ r.palette = q.palette /\ r.cachedFrames = q.cachedFrames
    /\ r.current = q.current /\ r.currentFrameNumber = q.currentFrameNumber
    /\ Reversed(r) <=> Reversed(q)

LEMMA AlikeShow ==
    ASSUME NEW q, NEW r, Alike(q, r)
    PROVE FrameAt(r) = FrameAt(q) /\ NoneEarly(r) = NoneEarly(q) /\ OfPalette(r) = OfPalette(q)
  BY DEF Alike, NoneEarly, OfPalette, FrameAt, CurrentHasCache, HasCache, Image

LEMMA AbortLoopIsFresh ==
    ASSUME NEW q, Sound(q), Fresh(q), q.state # "NotRunning"
    PROVE Fresh(AbortLoop(q)) /\ Alike(q, AbortLoop(q))
  <1> DEFINE r == AbortLoop(q)
  <1>1. /\ StaysPut(q, r) /\ r.state = q.state /\ r.cachedFrames = q.cachedFrames
        /\ r.palette = q.palette
        /\ r.flags = (q.flags \cup {"IgnoreLastImageLoop"}) \ {"AllowNonLastImageLoop"}
    BY SoundIs, AbortLoopIs
  <1> HIDE DEF r
  <1>2. Alike(q, r)
    BY <1>1 DEF Alike, StaysPut, Reversed
  <1>3. "ClearCacheOnStop" \in r.flags <=> "ClearCacheOnStop" \in q.flags
    BY <1>1
  <1> QED BY <1>1, <1>2, <1>3, AlikeShow DEF Fresh, r

(* A timer event, and the frame that is read after it.                        *)
LEMMA TimerIsFresh ==
    ASSUME NEW q, Sound(q), Fresh(q), q.state = "Running"
    PROVE LET t == TimerEvent(q)
              r == ReadImage(t, TRUE) IN
          /\ Sound(t) /\ Fresh(t) /\ (OfPalette(q) => OfPalette(t)) /\ Same(q, t)
          /\ t.state \in {"NotRunning", "WaitingRead"}
          /\ t.state = "WaitingRead" =>
                /\ Fresh(r) /\ (OfPalette(q) => OfPalette(r)) /\ FrameRead(t) = FrameAt(r)
                /\ Same(q, r) /\ r.state = "Running"
  <1> DEFINE t == TimerEvent(q)
             r == ReadImage(t, TRUE)
  <1>1. /\ KeepsFrames(q, t) /\ Same(q, t) /\ (t.state = "WaitingRead" => HasFrame(t))
        /\ t.state = "NotRunning" /\ "ClearCacheOnStop" \in q.flags => t.cachedFrames = <<>>
    BY TimerShows
  <1>2. Sound(t) /\ t.state \in {"NotRunning", "WaitingRead"}
    BY TimerKeepsSound
  <1> HIDE DEF t
  <1>3. NoneEarly(t) /\ (OfPalette(q) => OfPalette(t))
    BY <1>1 DEF KeepsFrames, Fresh
  <1>4. Fresh(t)
    <2>1. CASE "ClearCacheOnStop" \in q.flags /\ t.state = "NotRunning"
      BY <1>1, <2>1, ClearedIsFresh
    <2>2. CASE "ClearCacheOnStop" \notin q.flags
      BY <1>3, <2>2 DEF Fresh
    <2>3. CASE "ClearCacheOnStop" \in q.flags /\ t.state # "NotRunning"
      BY <1>1, <1>3, <2>3 DEF Fresh, Same
    <2> QED BY <2>1, <2>2, <2>3
  <1>5. ASSUME t.state = "WaitingRead"
        PROVE /\ Fresh(r) /\ (OfPalette(q) => OfPalette(r)) /\ FrameRead(t) = FrameAt(r)
              /\ Same(q, r) /\ r.state = "Running"
    <2>1. FrameRead(t) = FrameAt(r) /\ KeepsFrames(t, r) /\ Same(t, r)
      BY <1>1, <1>2, <1>5, ReadShows
    <2>2. r.state = "Running"
      BY <1>2, <1>5, ReadKeepsSound
    <2> HIDE DEF r
    <2>3. Fresh(r) /\ (OfPalette(q) => OfPalette(r))
      BY <1>3, <1>4, <1>5, <2>1, <2>2 DEF Fresh, KeepsFrames, Same
    <2> QED BY <1>1, <2>1, <2>2, <2>3 DEF Same
  <1> QED BY <1>1, <1>2, <1>3, <1>4, <1>5 DEF t

(* The last frame of an animation that has played to its end is that of its   *)
(* last image, from the cache or not.                                         *)
LEMMA LastFrame ==
    ASSUME NEW q, Sound(q), Fresh(q), OfPalette(q), q.state = "Running", ~Reversed(q),
           TimerEvent(q).state = "NotRunning"
    PROVE LET i == q.images[Len(q.images)] IN
          /\ i \in Images /\ Len(q.images) \in Nat \ {0}
          /\ FrameAt(q) = Shot(i, Frames[i] - 1, q.palette)
  <1> DEFINE i == q.images[Len(q.images)]
             k == q.current + 1
             n == q.currentFrameNumber
             shot == q.cachedFrames[k][n + 1]
  <1>1. q \in Players /\ InRange(q) /\ Fits(q) /\ n \in 0..(Frames[Image(q)] - 1)
        /\ q.cachedFrames \in Seq(Seq(Shots))
    BY SoundIs DEF Sound, Placed
  <1>2. q.current = Len(q.images) - 1 /\ n = Frames[Image(q)] - 1
    BY EndsAtTheLast
  <1>3. Image(q) = q.images[k] /\ Image(q) \in Images /\ q.current \in Nat /\ q.images \in Seq(Images)
        /\ Len(q.images) \in Nat /\ Frames[Image(q)] \in Nat
    BY <1>1, ImageIs
  <1>4. k = Len(q.images) /\ Len(q.images) # 0 /\ Image(q) = i
    BY <1>2, <1>3
  <1>5. CASE CurrentHasCache(q)
    <2>1. k \in DOMAIN q.cachedFrames /\ n + 1 \in DOMAIN q.cachedFrames[k]
      BY <1>5 DEF CurrentHasCache, HasCache
    <2>2. shot.image = i /\ shot.palette = q.palette
      BY <1>1, <1>3, <1>4, <2>1 DEF Fits, OfPalette
    <2>3. shot.frame \in ((n + 1) - 1)..(Frames[q.images[k]] - 1)
      BY <2>1 DEF Fresh, NoneEarly
    <2>4. shot.frame = Frames[i] - 1
      BY <1>2, <1>3, <1>4, <2>3
    <2>5. shot \in Shots
      <3>1. \A j \in DOMAIN q.cachedFrames : q.cachedFrames[j] \in Seq(Shots)
        BY <1>1
      <3>2. q.cachedFrames[k] \in Seq(Shots)
        BY <2>1, <3>1
      <3> QED BY <2>1, <3>2
    <2>6. shot = Shot(i, Frames[i] - 1, q.palette)
      BY <2>2, <2>4, <2>5 DEF Shots, Shot
    <2> QED BY <1>3, <1>4, <1>5, <2>6 DEF FrameAt
  <1>6. CASE ~CurrentHasCache(q)
    BY <1>2, <1>3, <1>4, <1>6 DEF FrameAt
  <1> QED BY <1>5, <1>6

-----------------------------------------------------------------------------
(* A player that runs shows the frame at its image player's place, ...        *)
Shows(e) == e.player.state = "Running" => e.image = Picture(FrameAt(e.player))

(* ... plays what the plan of its first job says, ...                         *)
PlanOf(e) == Transition(e, e.animationJobs[1].from, e.animationJobs[1].to)
Serves(e, plan) ==
    /\ plan.does = "animate"
    /\ e.player.images = [k \in DOMAIN plan.modes |-> ImageOf(e, plan.modes[k])]
    /\ Reversed(e.player) <=> "InvertedOrder" \in plan.flags

(* ... and keeps the image that plan ends with.                               *)
EndsWith(e, plan) ==
    /\ plan.finished = "none" => e.finishedImage = NoImage
    /\ plan.finished = "Normal" => e.finishedImage = Still(e, "Normal")

LEMMA StartPlayerShows ==
    ASSUME NEW e, IconOK(e), Fresh(e.player), e.loaded, e.player.state = "NotRunning",
           NEW ms \in Seq(Modes), Len(ms) \in {1, 2}, \A k \in DOMAIN ms : IsAnimated(e, ms[k]),
           NEW m, NEW flags \in SUBSET Flags,
           Len(ms) = 2 => flags \cap {"CacheAll", "InvertedOrder"} # {}
    PROVE LET r == StartPlayer(e, ms, m, flags)
              images == [k \in DOMAIN ms |-> ImageOf(e, ms[k])] IN
          /\ Fresh(r.player) /\ OfPalette(r.player) /\ Shows(r)
          /\ r.player.images = images /\ r.player.palette = e.player.palette
          /\ Reversed(r.player) <=> "InvertedOrder" \in flags
          /\ r.finishedImage = e.finishedImage
          /\ "Continue" \in flags /\ images = e.player.images /\ InRange(e.player) =>
                r.image = Picture(FrameAt(e.player))
  <1> DEFINE images == [k \in DOMAIN ms |-> ImageOf(e, ms[k])]
             given == SetImages(e.player, images)
             rewound == [given EXCEPT !.number = [i \in Images |-> 0]]
             started == Start(rewound, flags)
             q == ReadImage(started, TRUE)
             r == StartPlayer(e, ms, m, flags)
  <1>1. \A k \in DOMAIN ms : ImageOf(e, ms[k]) \in Images
    BY ImageOfIs
  <1>2. images \in Seq(Images) /\ Len(images) = Len(ms)
    <2>1. DOMAIN ms = 1..Len(ms) /\ Len(ms) \in Nat
      OBVIOUS
    <2>2. images \in [1..Len(ms) -> Images]
      BY <1>1, <2>1
    <2> QED BY <2>1, <2>2
  <1>3. Sound(e.player) /\ DOMAIN e = IconFields
    BY DEF IconOK
  <1> HIDE DEF images
  <1>4. /\ Sound(given) /\ given.state = "NotRunning" /\ given.images = images
        /\ given.palette = e.player.palette /\ Fresh(given) /\ given \in Players
    BY <1>2, <1>3, SetImagesKeepsSound, SetImagesIsFresh, SoundIs
  <1>5. images = e.player.images => given = e.player
    BY DEF SetImages
  <1> HIDE DEF given
  <1>6. [i \in Images |-> 0] \in [Images -> Nat]
    OBVIOUS
  <1>7. /\ Sound(rewound) /\ rewound.state = "NotRunning" /\ rewound.images = images
        /\ rewound.palette = e.player.palette
    BY <1>4, <1>6, RewindingKeepsSound
  <1>8. Fresh(rewound) /\ FrameAt(rewound) = FrameAt(given) /\ InRange(rewound) = InRange(given)
    BY <1>4, RewoundIsFresh
  <1> HIDE DEF rewound
  <1>9. images # <<>> /\ (Len(images) = 2 => flags \cap {"CacheAll", "InvertedOrder"} # {})
    BY <1>2
  <1>10. Sound(started) /\ started.state = "WaitingRead" /\ started.palette = e.player.palette
    BY <1>7, <1>9, StartKeepsSound
  <1>11. /\ HasFrame(started) /\ KeepsFrames(rewound, started) /\ started.images = images
         /\ Reversed(started) <=> "InvertedOrder" \in flags
    BY <1>7, <1>9, StartShows
  <1>12. "Continue" \in flags /\ InRange(rewound) => FrameAt(started) = FrameAt(rewound)
    BY <1>7, <1>9, ContinueShows
  <1>13. r = Started(e, started, m, flags)
    BY DEF StartPlayer, images, given, rewound
  <1> HIDE DEF started
  <1>14. /\ r.player = q /\ r.image = Picture(FrameRead(started))
         /\ r.finishedImage = e.finishedImage
    BY <1>3, <1>10, <1>13 DEF Started, ShowFrame, IconFields
  <1>15. FrameRead(started) = FrameAt(q) /\ KeepsFrames(started, q) /\ Same(started, q)
    BY <1>10, <1>11, ReadShows
  <1>16. FrameRead(started) = FrameAt(started)
    BY <1>11 DEF FrameRead, FrameAt, HasFrame
  <1> HIDE DEF q, r
  <1>17. OfPalette(rewound) /\ NoneEarly(rewound)
    BY <1>7, <1>8 DEF Fresh
  <1>18. OfPalette(q) /\ Fresh(q)
    BY <1>11, <1>15, <1>17 DEF KeepsFrames, Fresh
  <1>19. Reversed(q) <=> Reversed(started)
    BY <1>15 DEF Same, Reversed
  <1>20. q.images = images /\ q.palette = e.player.palette
    BY <1>10, <1>11, <1>15 DEF Same
  <1>21. Shows(r)
    BY <1>14, <1>15 DEF Shows
  <1>22. "Continue" \in flags /\ images = e.player.images /\ InRange(e.player) =>
            r.image = Picture(FrameAt(e.player))
    BY <1>5, <1>8, <1>12, <1>14, <1>16
  <1> QED BY <1>11, <1>14, <1>18, <1>19, <1>20, <1>21, <1>22 DEF images, r

(* Playing a transition: its animation plays and is shown, or its still image *)
(* is shown.                                                                  *)
PairShown(e, r, plan, extra) ==
    /\ Fresh(r.player) /\ OfPalette(r.player) /\ Shows(r)
    /\ r.loaded => Kind[r.look]["Normal"] # "none"
    /\ r.player.state = "Running" => Serves(r, plan) /\ EndsWith(r, plan)
    /\ r.player.state # "Running" /\ r.loaded =>
          /\ plan.does # "animate"
          /\ plan.does = "show" => r.image = Still(r, plan.mode)
    /\ /\ "Continue" \in extra /\ r.player.state = "Running" /\ InRange(e.player)
       /\ r.player.images = e.player.images
       => r.image = Picture(FrameAt(e.player))

LEMMA PlayPairShowsIt ==
    ASSUME NEW e, IconOK(e), Fresh(e.player), e.player.state = "NotRunning",
           e.loaded => Kind[e.look]["Normal"] # "none",
           NEW from \in Modes, NEW to \in Modes, NEW extra \in {{}, {"Continue"}}
    PROVE LET r == PlayPair(e, from, to, extra)
              plan == Transition(r, from, to)
          IN PairShown(e, r, plan, extra)
  <1> DEFINE f == EnsureInit(e)
             g == [f EXCEPT !.finishedImage = NoImage]
             plan == Transition(g, from, to)
             r == PlayPair(e, from, to, extra)
  <1>1. IconOK(f) /\ Differ(e, f, {"loaded", "load"}) /\ f.player = e.player
    BY EnsureInitIs
  <1>2. f.loaded => Kind[f.look]["Normal"] # "none"
    BY DEF EnsureInit, IconOK, IconFields
  <1> HIDE DEF f
  <1>3. Differ(f, g, Pictures) /\ g.finishedImage = NoImage
    BY <1>1 DEF Differ, IconFields, Pictures
  <1>4. IconOK(g) /\ g.player = e.player /\ g.loaded = f.loaded /\ g.look = f.look
        /\ DOMAIN g = IconFields
    BY <1>1, <1>3, OnlyPictures DEF Differ
  <1> HIDE DEF g
  <1>5. r = IF ~Has(g, "Normal") THEN [g EXCEPT !.image = NoImage]
            ELSE Perform(g, plan, to, extra)
    BY DEF PlayPair, g, f
  <1>6. OfPalette(e.player)
    BY DEF Fresh
  <1>7. CASE ~Has(g, "Normal")
    <2>1. r = [g EXCEPT !.image = NoImage]
      BY <1>5, <1>7
    <2>2. r.player = e.player /\ r.loaded = g.loaded /\ r.look = g.look
      BY <1>4, <2>1 DEF IconFields
    <2>3. ~g.loaded
      BY <1>2, <1>4, <1>7 DEF Has
    <2> HIDE DEF r
    <2> QED BY <1>6, <2>2, <2>3 DEF PairShown, Shows, r
  <1>8. CASE Has(g, "Normal")
    <2>1. r = Perform(g, plan, to, extra) /\ g.loaded
      BY <1>5, <1>8 DEF Has
    <2>2. Planned(g, plan)
      BY TransitionIs
    <2>3. extra \in SUBSET Flags
      BY DEF Flags
    <2> HIDE DEF plan, r
    <2>4. /\ Settled(r) /\ Differ(g, r, Pictures \cup {"player", "state"})
          /\ IF plan.does = "animate" THEN r.player.state = "Running"
             ELSE r.player = g.player /\ r.state = g.state
      <3>1. g.player.state = "NotRunning"
        BY <1>4
      <3> QED BY <1>4, <2>1, <2>2, <2>3, <3>1, PerformIs
    <2>5. /\ r.look = g.look /\ r.loaded = g.loaded /\ r.load = g.load
      BY <2>4 DEF Differ, IconFields, Pictures
    <2>6. Transition(r, from, to) = plan
      BY <2>5, TransitionOfLooks DEF plan
    <2>7. CASE plan.does = "animate"
      <3> DEFINE h == PrepareFinished(g, plan.finished)
                 flags == plan.flags \cup extra
                 images == [k \in DOMAIN plan.modes |-> ImageOf(h, plan.modes[k])]
      <3>1. /\ plan.modes \in Seq(Modes) /\ Len(plan.modes) \in {1, 2}
            /\ \A k \in DOMAIN plan.modes : IsAnimated(g, plan.modes[k])
            /\ plan.flags \in SUBSET Flags
            /\ Len(plan.modes) = 2 => plan.flags \cap {"CacheAll", "InvertedOrder"} # {}
            /\ plan.finished \in {"none", "Normal", "Hover"}
        BY <2>2, <2>7 DEF Planned
      <3>2. r = StartPlayer(h, plan.modes, to, flags)
        BY <2>1, <2>7 DEF Perform
      <3>3. Differ(g, h, Pictures)
        BY <1>4, <3>1, PrepareFinishedIs
      <3>4. /\ plan.finished = "none" => h.finishedImage = NoImage
            /\ plan.finished = "Normal" => h.finishedImage = Still(g, "Normal")
        BY <1>3, <1>4 DEF PrepareFinished, SetFinishedImage, IconFields, g
      <3> HIDE DEF h
      <3>5. IconOK(h) /\ h.player = g.player /\ h.loaded = g.loaded /\ h.look = g.look
            /\ h.load = g.load
        BY <1>4, <3>3, OnlyPictures
      <3>6. \A k \in DOMAIN plan.modes : IsAnimated(h, plan.modes[k])
        BY <3>1, <3>5 DEF IsAnimated
      <3>7. flags \in SUBSET Flags /\ (Len(plan.modes) = 2 => flags \cap {"CacheAll", "InvertedOrder"} # {})
        BY <2>3, <3>1
      <3>8. "InvertedOrder" \in flags <=> "InvertedOrder" \in plan.flags
        OBVIOUS
      <3>9. "Continue" \in extra => "Continue" \in flags
        OBVIOUS
      <3> HIDE DEF flags, images
      <3>10. h.loaded /\ h.player.state = "NotRunning" /\ Fresh(h.player)
        BY <1>4, <2>1, <3>5
      <3>11. /\ Fresh(r.player) /\ OfPalette(r.player) /\ Shows(r)
             /\ r.player.images = images /\ r.player.palette = h.player.palette
             /\ Reversed(r.player) <=> "InvertedOrder" \in flags
             /\ r.finishedImage = h.finishedImage
             /\ "Continue" \in flags /\ images = h.player.images /\ InRange(h.player) =>
                   r.image = Picture(FrameAt(h.player))
        BY <3>1, <3>2, <3>5, <3>6, <3>7, <3>10, StartPlayerShows DEF images
      <3>12. images = [k \in DOMAIN plan.modes |-> ImageOf(r, plan.modes[k])]
        BY <2>5, <3>5 DEF images, ImageOf
      <3>13. Serves(r, plan)
        BY <2>7, <3>8, <3>11, <3>12 DEF Serves
      <3>14. Still(g, "Normal") = Still(r, "Normal")
        BY <1>4, <2>5, <3>5, <3>11 DEF Still
      <3>15. EndsWith(r, plan)
        BY <3>4, <3>11, <3>14 DEF EndsWith
      <3>16. r.loaded => Kind[r.look]["Normal"] # "none"
        BY <1>2, <1>4, <2>5
      <3>17. r.player.state = "Running"
        BY <2>4, <2>7
      <3>18. /\ "Continue" \in extra /\ r.player.state = "Running" /\ InRange(e.player)
             /\ r.player.images = e.player.images
             => r.image = Picture(FrameAt(e.player))
        BY <1>4, <3>5, <3>9, <3>11
      <3> QED BY <2>6, <3>11, <3>13, <3>15, <3>16, <3>17, <3>18 DEF PairShown, r
    <2>8. CASE plan.does # "animate"
      <3>1. r.player = e.player
        BY <1>4, <2>4, <2>8
      <3>2. plan.does = "show" => r.image = Still(g, plan.mode)
        BY <1>4, <2>1, <2>8 DEF Perform, SetImage, IconFields
      <3>3. \A m : Still(g, m) = Still(r, m)
        BY <1>4, <2>5, <3>1 DEF Still
      <3>4. r.loaded => Kind[r.look]["Normal"] # "none"
        BY <1>2, <1>4, <2>5
      <3> QED BY <1>6, <2>6, <2>8, <3>1, <3>2, <3>3, <3>4 DEF PairShown, Shows, r
    <2> QED BY <2>7, <2>8
  <1> QED BY <1>7, <1>8

Underway(e) == e.player.state = "Running" /\ e.animationJobs # <<>>

(* The pictures and frames of the icon player e agree, those of the palette   *)
(* too if it is settled: setPalette was not called since the player's rest.   *)
Seen(e, settled) ==
    /\ Fresh(e.player)
    /\ e.loaded => Kind[e.look]["Normal"] # "none"
    /\ Underway(e) => Serves(e, PlanOf(e))
    /\ settled => /\ OfPalette(e.player) /\ Shows(e)
                  /\ Underway(e) => EndsWith(e, PlanOf(e))

(* RestImage, of an icon player that has come to rest.                        *)
RightAtRest(e) ==
    e.animationJobs = <<>> /\ ~IsPlaying(e) /\ e.loaded /\ e.look \in Complete /\ e.mode # "Hover" =>
        \/ e.image = EndOf(e)
        \/ e.mode = "Pressed" /\ e.image = Still(e, "Normal")

(* The inductive invariant of what is shown.                                  *)
SeenInv ==
    /\ Seen(d, Clean({"recoloured"}))
    /\ calls \in Seq({{}, {"Continue"}})
    /\ Clean({"played"}) /\ IsPlaying(d) => d.animationJobs # <<>>
    /\ Clean(Meddling) => RightAtRest(d)

LEMMA SeenAtRest ==
    ASSUME NEW e, e.player.state = "NotRunning", Fresh(e.player),
           e.loaded => Kind[e.look]["Normal"] # "none", NEW settled
    PROVE Seen(e, settled)
  BY DEF Seen, Underway, Shows, Fresh

(* A player of another state of the queue, with the same pictures and frames. *)
LEMMA SeenAlike ==
    ASSUME NEW e, NEW r, NEW settled, Seen(e, settled), e.animationJobs \in Seq(Jobs),
           Alike(e.player, r.player), Fresh(r.player), r.player.state = e.player.state,
           r.look = e.look, r.loaded = e.loaded, r.load = e.load, r.image = e.image,
           r.finishedImage = e.finishedImage,
           r.animationJobs # <<>> =>
               e.animationJobs # <<>> /\ r.animationJobs[1] = e.animationJobs[1]
    PROVE Seen(r, settled)
  <1>1. /\ FrameAt(r.player) = FrameAt(e.player) /\ OfPalette(r.player) = OfPalette(e.player)
        /\ r.player.images = e.player.images /\ r.player.palette = e.player.palette
        /\ Reversed(r.player) <=> Reversed(e.player)
    BY AlikeShow DEF Alike
  <1>2. Shows(e) => Shows(r)
    BY <1>1 DEF Shows
  <1>3. ASSUME Underway(r)
        PROVE Underway(e) /\ PlanOf(r) = PlanOf(e)
    <2>1. Underway(e) /\ r.animationJobs[1] = e.animationJobs[1]
      BY <1>3 DEF Underway
    <2>2. e.animationJobs[1] \in Jobs
      BY <2>1 DEF Underway
    <2> QED BY <2>1, <2>2, TransitionOfLooks DEF PlanOf, Jobs
  <1>4. ASSUME NEW plan
        PROVE (Serves(e, plan) => Serves(r, plan)) /\ (EndsWith(e, plan) => EndsWith(r, plan))
    <2>1. \A m : ImageOf(r, m) = ImageOf(e, m)
      BY DEF ImageOf
    <2>2. Still(r, "Normal") = Still(e, "Normal")
      BY <1>1 DEF Still
    <2> QED BY <1>1, <2>1, <2>2 DEF Serves, EndsWith
  <1> QED BY <1>1, <1>2, <1>3, <1>4 DEF Seen

(* What playToQueue leaves.                                                   *)
LEMMA PlayToQueueIsSeen ==
    ASSUME NEW e, Settled(e), NEW settled, Seen(e, settled), calls \in Seq({{}, {"Continue"}}),
           Ignored(e) \/ Offset(e) \/ Behind(e) \/ Anew(e)
    PROVE /\ Seen(d', settled) /\ calls' \in Seq({{}, {"Continue"}})
          /\ d'.animationJobs # <<>>
  <1> DEFINE jobs == e.animationJobs
  <1>1. /\ DOMAIN e = IconFields /\ jobs \in Seq(Jobs) /\ Sound(e.player) /\ Len(jobs) \in Nat
        /\ e.player.state \in {"NotRunning", "Running"}
    BY SettledIs
  <1>2. Alike(e.player, e.player) /\ Fresh(e.player)
    BY DEF Alike, Seen
  <1>3. CASE Ignored(e)
    BY <1>3 DEF Ignored
  <1>4. CASE Offset(e)
    <2> DEFINE front == Ext!Front(jobs)
    <2>1. Len(jobs) > 1 /\ d' = [e EXCEPT !.animationJobs = front] /\ calls' = calls
      BY <1>4 DEF Offset
    <2>2. front \in Seq(Jobs) /\ Len(front) = Len(jobs) - 1 /\ \A k \in 1..(Len(jobs) - 1) : front[k] = jobs[k]
      BY <1>1, <2>1, FrontIs
    <2> HIDE DEF front
    <2>3. jobs # <<>> /\ front # <<>> /\ front[1] = jobs[1]
      BY <1>1, <2>1, <2>2
    <2>4. /\ d'.player = e.player /\ d'.look = e.look /\ d'.loaded = e.loaded /\ d'.load = e.load
          /\ d'.image = e.image /\ d'.finishedImage = e.finishedImage /\ d'.animationJobs = front
      BY <1>1, <2>1 DEF IconFields
    <2>5. Seen(d', settled)
      BY <1>1, <1>2, <2>3, <2>4, SeenAlike
    <2> QED BY <2>1, <2>3, <2>4, <2>5
  <1>5. ASSUME Differ(e, d', {"player", "animationJobs"})
        PROVE /\ d'.look = e.look /\ d'.loaded = e.loaded /\ d'.load = e.load
              /\ d'.image = e.image /\ d'.finishedImage = e.finishedImage
    BY <1>5 DEF Differ, IconFields
  <1>6. CASE Behind(e)
    <2>1. /\ jobs # <<>> /\ Differ(e, d', {"player", "animationJobs"})
          /\ d'.animationJobs = Append(jobs, Request(e))
          /\ d'.player = IF IsPlaying(e) THEN AbortLoop(e.player) ELSE e.player
          /\ calls' = IF IsPlaying(e) THEN calls ELSE Append(calls, {})
      BY <1>6 DEF Behind, Added
    <2>2. d'.animationJobs # <<>> /\ d'.animationJobs[1] = jobs[1]
      BY <1>1, <2>1
    <2>3. Alike(e.player, d'.player) /\ Fresh(d'.player) /\ d'.player.state = e.player.state
      <3>1. CASE IsPlaying(e)
        BY <1>1, <1>2, <2>1, <3>1, AbortLoopIsFresh, AbortLoopKeepsSound DEF IsPlaying
      <3>2. CASE ~IsPlaying(e)
        BY <1>2, <2>1, <3>2
      <3> QED BY <3>1, <3>2
    <2>4. Seen(d', settled)
      BY <1>1, <1>5, <2>1, <2>2, <2>3, SeenAlike
    <2>5. calls' \in Seq({{}, {"Continue"}})
      BY <2>1
    <2> QED BY <2>2, <2>4, <2>5
  <1>7. CASE Anew(e)
    <2>1. /\ Differ(e, d', {"player", "animationJobs"})
          /\ d'.animationJobs = <<Request(e)>> /\ d'.player = Stop(e.player)
          /\ calls' = Append(calls, IF jobs = <<>> THEN {} ELSE {"Continue"})
      BY <1>7 DEF Anew
    <2>2. d'.player.state = "NotRunning" /\ Fresh(d'.player)
      BY <1>1, <1>2, <2>1, StopIsFresh
    <2>3. Seen(d', settled)
      BY <1>5, <2>1, <2>2, SeenAtRest DEF Seen
    <2> QED BY <2>1, <2>3
  <1> QED BY <1>3, <1>4, <1>6, <1>7

(* Playing the first job.                                                     *)
LEMMA PlayFromQueueIsSeen ==
    ASSUME NEW e, Settled(e), NEW settled, Seen(e, settled), NEW extra \in {{}, {"Continue"}}
    PROVE LET r == PlayFromQueue(e, extra) IN
          /\ Seen(r, settled)
          /\ ~IsPlaying(e) /\ e.animationJobs # <<>> /\ ~IsPlaying(r) /\ r.loaded =>
                LET plan == Transition(r, e.animationJobs[1].from, e.animationJobs[1].to)
                IN /\ plan.does # "animate"
                   /\ plan.does = "show" => r.image = Still(r, plan.mode)
          /\ /\ "Continue" \in extra /\ ~IsPlaying(e) /\ IsPlaying(r) /\ InRange(e.player)
             /\ r.player.images = e.player.images
             => r.image = Picture(FrameAt(e.player))
  <1> DEFINE jobs == e.animationJobs
             job == jobs[1]
             played == PlayPair(e, job.from, job.to, extra)
             r == PlayFromQueue(e, extra)
  <1>1. /\ IconOK(e) /\ jobs \in Seq(Jobs) /\ e.player.state \in {"NotRunning", "Running"}
        /\ DOMAIN e = IconFields
    BY SettledIs
  <1>2. CASE IsPlaying(e) \/ jobs = <<>>
    <2>1. r = e
      BY <1>2 DEF PlayFromQueue
    <2> QED BY <1>2, <2>1
  <1>3. CASE ~IsPlaying(e) /\ jobs # <<>>
    <2>1. r = KeepIfPlaying(played)
      BY <1>1, <1>3 DEF PlayFromQueue
    <2>2. job \in Jobs
      BY <1>1, <1>3
    <2>3. job.from \in Modes /\ job.to \in Modes
      BY <2>2 DEF Jobs
    <2>4. e.player.state = "NotRunning"
      BY <1>1, <1>3 DEF IsPlaying
    <2>5. Fresh(e.player) /\ (e.loaded => Kind[e.look]["Normal"] # "none")
      BY DEF Seen
    <2>6. extra \in SUBSET Flags
      BY DEF Flags
    <2> HIDE DEF job
    <2> DEFINE plan == Transition(played, job.from, job.to)
    <2>7. PairShown(e, played, plan, extra)
      BY <1>1, <2>3, <2>4, <2>5, PlayPairShowsIt
    <2>8. Settled(played) /\ Differ(e, played, Playables)
      BY <1>1, <2>3, <2>4, <2>6, PlayPairIs
    <2> HIDE DEF played
    <2>9. played.animationJobs = jobs /\ DOMAIN played = IconFields
      BY <2>8 DEF Differ, IconFields, Playables, Pictures
    <2>10. IsPlaying(played) <=> played.player.state = "Running"
      BY <2>8 DEF IsPlaying, Settled
    <2>11. r = IF IsPlaying(played) THEN played ELSE [played EXCEPT !.animationJobs = Tail(@)]
      BY <2>1, <2>8 DEF KeepIfPlaying, Undef, Settled
    <2> HIDE DEF r
    <2>12. CASE IsPlaying(played)
      <3>1. r = played /\ PlanOf(r) = plan
        BY <2>9, <2>11, <2>12 DEF PlanOf, job
      <3>2. Seen(r, settled)
        BY <2>7, <2>10, <2>12, <3>1 DEF PairShown, Seen
      <3> QED BY <2>7, <2>10, <2>12, <3>1, <3>2 DEF PairShown, r
    <2>13. CASE ~IsPlaying(played)
      <3>1. /\ r.player = played.player /\ r.look = played.look /\ r.loaded = played.loaded
            /\ r.image = played.image
        BY <2>9, <2>11, <2>13 DEF IconFields
      <3>2. r.player.state = "NotRunning" /\ ~IsPlaying(r)
        BY <2>8, <2>10, <2>13, <3>1 DEF Settled, IsPlaying
      <3>3. Seen(r, settled)
        BY <2>7, <3>1, <3>2, SeenAtRest DEF PairShown
      <3>4. Transition(r, job.from, job.to) = plan
        BY <2>3, <3>1, TransitionOfLooks
      <3>5. \A m : Still(r, m) = Still(played, m)
        BY <3>1 DEF Still
      <3> QED BY <2>7, <3>1, <3>2, <3>3, <3>4, <3>5 DEF PairShown, r, job
    <2> QED BY <2>12, <2>13
  <1> QED BY <1>2, <1>3

-----------------------------------------------------------------------------
(* What the last transition comes to, for an icon with all images: the image  *)
(* of the mode, or its animation, which is played to its end.                 *)
LEMMA LastPlan ==
    ASSUME NEW e, e.look \in Complete, e.loaded, Kind[e.look]["Normal"] # "none",
           NEW from \in Modes, NEW to \in Modes, Leads(from, to), to # "Hover"
    PROVE LET plan == Transition(e, from, to) IN
          \/ plan.does = "show" /\ plan.mode = to /\ (to = "Normal" \/ ~IsAnimated(e, to))
          \/ plan.does = "show" /\ plan.mode = "Normal" /\ to = "Pressed"
          \/ plan.does = "animate" /\ plan.finished = "Normal" /\ to \in {"Normal", "Pressed"}
          \/ /\ plan.does = "animate" /\ plan.finished = "none"
             /\ "InvertedOrder" \notin plan.flags /\ to # "Normal" /\ IsAnimated(e, to)
             /\ Len(plan.modes) \in {1, 2} /\ plan.modes[Len(plan.modes)] = to
  <1> DEFINE plan == Transition(e, from, to)
             Right(q) ==
               \/ q.does = "show" /\ q.mode = to /\ (to = "Normal" \/ ~IsAnimated(e, to))
               \/ q.does = "show" /\ q.mode = "Normal" /\ to = "Pressed"
               \/ q.does = "animate" /\ q.finished = "Normal" /\ to \in {"Normal", "Pressed"}
               \/ /\ q.does = "animate" /\ q.finished = "none"
                  /\ "InvertedOrder" \notin q.flags /\ to # "Normal" /\ IsAnimated(e, to)
                  /\ Len(q.modes) \in {1, 2} /\ q.modes[Len(q.modes)] = to
  <1>1. Has(e, "Normal") /\ Has(e, "Pressed") /\ Has(e, "Disabled")
    BY DEF Has, Complete
  <1>2. to \in {"Normal", "Pressed", "Disabled"} /\ from \in {"Normal", "Hover", "Pressed", "Disabled"}
    BY DEF Modes
  <1>3. ASSUME to # "Normal", NEW flags, "InvertedOrder" \notin flags PROVE Right(Enter(e, to, flags))
    <2>1. CASE IsAnimated(e, to)
      <3>1. Enter(e, to, flags) = Animate(<<to>>, flags, "none")
        BY <2>1 DEF Enter
      <3>2. Len(<<to>>) = 1 /\ <<to>>[1] = to
        OBVIOUS
      <3> QED BY <1>3, <2>1, <3>1, <3>2 DEF Animate
    <2>2. CASE ~IsAnimated(e, to)
      BY <2>2 DEF Enter, Show
    <2> QED BY <2>1, <2>2
  <1>4. to = "Pressed" /\ IsAnimated(e, to) => Right(Animate(ThroughHover(e), {"CacheAll"}, "none"))
    <2>1. ThroughHover(e) = <<"Hover", "Pressed">> \/ ThroughHover(e) = <<"Pressed">>
      BY DEF ThroughHover
    <2>2. Len(<<"Hover", "Pressed">>) = 2 /\ <<"Hover", "Pressed">>[2] = "Pressed"
          /\ Len(<<"Pressed">>) = 1 /\ <<"Pressed">>[1] = "Pressed"
      OBVIOUS
    <2>3. LET ms == ThroughHover(e) IN Len(ms) \in {1, 2} /\ ms[Len(ms)] = "Pressed"
      BY <2>1, <2>2
    <2> QED BY <2>3 DEF Animate
  <1>5. to = "Normal" => Right(Show(to)) /\ Right(Show("Normal"))
    BY DEF Show
  <1>6. to = "Pressed" => Right(Show("Normal"))
    BY DEF Show
  <1>7. ASSUME to \in {"Normal", "Pressed"}, NEW ms, NEW flags
        PROVE Right(Animate(ms, flags, "Normal"))
    BY <1>7 DEF Animate
  <1> HIDE DEF Right
  <1>8. ASSUME from = "Normal" PROVE Right(plan)
    <2>1. plan = FromNormal(e, to)
      BY <1>8 DEF Transition
    <2>2. to # "Normal" => Right(Enter(e, to, IF to = "Disabled" THEN {"IgnoreLastImageLoop"}
                                                              ELSE {"CacheAll"}))
      BY <1>3
    <2> HIDE DEF plan
    <2>3. Right(FromNormal(e, to))
      BY <1>1, <1>2, <1>4, <1>5, <2>2 DEF FromNormal
    <2> QED BY <2>1, <2>3
  <1>9. to = "Disabled" => Right(ToDisabled(e))
    BY <1>1, <1>3 DEF ToDisabled
  <1>10. ASSUME from = "Hover" PROVE Right(plan)
    <2>1. plan = FromHover(e, to)
      BY <1>10 DEF Transition
    <2>2. to = "Pressed" => Right(Enter(e, "Pressed", {"CacheAll"}))
      BY <1>3
    <2> HIDE DEF plan
    <2>3. Right(FromHover(e, to))
      BY <1>1, <1>2, <1>5, <1>7, <1>9, <2>2 DEF FromHover
    <2> QED BY <2>1, <2>3
  <1>11. ASSUME from = "Pressed" PROVE Right(plan)
    <2>1. plan = FromPressed(e, to) /\ to # "Pressed"
      BY <1>11 DEF Transition, Leads
    <2> HIDE DEF plan
    <2>2. Right(FromPressed(e, to))
      BY <1>1, <1>2, <1>5, <1>7, <1>9, <2>1 DEF FromPressed
    <2> QED BY <2>1, <2>2
  <1>12. ASSUME from = "Disabled" PROVE Right(plan)
    <2>1. plan = FromDisabled(e) /\ to # "Disabled"
      BY <1>12 DEF Transition, Leads
    <2> HIDE DEF plan
    <2>2. Right(FromDisabled(e))
      BY <1>2, <1>5, <1>6, <1>7, <2>1 DEF FromDisabled
    <2> QED BY <2>1, <2>2
  <1>13. Right(plan)
    BY <1>2, <1>8, <1>10, <1>11, <1>12
  <1> QED BY <1>13 DEF Right

(* A player left with the image of its last transition is right.              *)
LEMMA ShownIsRight ==
    ASSUME NEW e, NEW job \in Jobs, job.to = e.mode,
           e.loaded => Kind[e.look]["Normal"] # "none",
           e.loaded =>
               LET plan == Transition(e, job.from, job.to)
               IN plan.does # "animate" /\ (plan.does = "show" => e.image = Still(e, plan.mode))
    PROVE RightAtRest(e)
  <1> SUFFICES ASSUME e.loaded, e.look \in Complete, e.mode # "Hover"
               PROVE e.image = EndOf(e) \/ (e.mode = "Pressed" /\ e.image = Still(e, "Normal"))
    BY DEF RightAtRest
  <1> DEFINE plan == Transition(e, job.from, job.to)
  <1>1. job.from \in Modes /\ job.to \in Modes /\ Leads(job.from, job.to)
    BY DEF Jobs
  <1>2. plan.does # "animate" /\ (plan.does = "show" => e.image = Still(e, plan.mode))
    OBVIOUS
  <1>3. \/ plan.does = "show" /\ plan.mode = e.mode /\ (e.mode = "Normal" \/ ~IsAnimated(e, e.mode))
        \/ plan.does = "show" /\ plan.mode = "Normal" /\ e.mode = "Pressed"
    BY <1>1, <1>2, LastPlan
  <1> HIDE DEF plan
  <1> QED BY <1>2, <1>3 DEF EndOf

(* The animation of the last job has come to its end.                         *)
LEMMA ComeToRestIsRight ==
    ASSUME NEW e, Settled(e), Seen(e, TRUE), e.player.state = "Running",
           NEW q, q = TimerEvent(e.player), q.state = "NotRunning",
           Len(e.animationJobs) = 1, e.animationJobs[1].to = e.mode
    PROVE RightAtRest(Finished([e EXCEPT !.player = q]))
  <1> DEFINE f == [e EXCEPT !.player = q]
             g == [RememberHover(f) EXCEPT !.animationJobs = IF @ = <<>> THEN @ ELSE Tail(@)]
             r == Finished(f)
             job == e.animationJobs[1]
             plan == Transition(e, job.from, job.to)
             shot == FrameAt(e.player)
  <1>1. /\ DOMAIN e = IconFields /\ e.animationJobs \in Seq(Jobs) /\ Sound(e.player)
        /\ e.mode \in Modes /\ e.look \in Looks
    BY SettledIs
  <1>2. /\ DOMAIN f = IconFields /\ f.player = q /\ f.image = e.image
        /\ f.finishedImage = e.finishedImage /\ f.animationJobs = e.animationJobs
        /\ f.look = e.look /\ f.loaded = e.loaded /\ f.load = e.load /\ f.mode = e.mode
    BY <1>1 DEF IconFields
  <1>3. e.animationJobs # <<>> /\ Tail(e.animationJobs) = <<>> /\ job \in Jobs
    <2>1. e.animationJobs # <<>> /\ job \in Jobs
      BY <1>1
    <2> DEFINE tail == Tail(e.animationJobs)
    <2>2. tail \in Seq(Jobs) /\ Len(tail) = 0
      BY <1>1, <2>1, TailIsFewer DEF Fewer
    <2> HIDE DEF tail
    <2>3. tail = <<>>
      BY <2>2
    <2> QED BY <2>1, <2>3 DEF tail
  <1> HIDE DEF f
  <1>4. /\ g.player = q /\ g.image = e.image /\ g.finishedImage = e.finishedImage
        /\ g.animationJobs = <<>> /\ g.look = e.look /\ g.loaded = e.loaded /\ g.load = e.load
        /\ g.mode = e.mode /\ DOMAIN g = IconFields
    BY <1>2, <1>3 DEF RememberHover, IconFields
  <1>5. r = ComeToRest(g)
    BY <1>4 DEF Finished, GoOn
  <1> HIDE DEF g
  <1>6. /\ r.look = e.look /\ r.loaded = e.loaded /\ r.load = e.load /\ r.mode = e.mode
        /\ r.image = IF e.finishedImage = NoImage THEN e.image ELSE e.finishedImage
        /\ r.player = q \/ r.player = ClearCache(q)
    BY <1>4, <1>5 DEF ComeToRest, IconFields
  <1> HIDE DEF r
  <1>7. q \in Players /\ q.palette = e.player.palette
    BY <1>1, TimerKeepsSound, SoundIs
  <1>8. r.player.palette = e.player.palette
    BY <1>6, <1>7 DEF ClearCache, Players
  <1>9. Underway(e) /\ PlanOf(e) = plan
    BY <1>3 DEF Underway, PlanOf
  <1>10. /\ Fresh(e.player) /\ OfPalette(e.player) /\ e.image = Picture(shot)
         /\ Serves(e, plan) /\ EndsWith(e, plan) /\ (e.loaded => Kind[e.look]["Normal"] # "none")
    BY <1>9 DEF Seen, Shows
  <1> SUFFICES ASSUME e.loaded, e.look \in Complete, e.mode # "Hover"
               PROVE r.image = EndOf(r) \/ (r.mode = "Pressed" /\ r.image = Still(r, "Normal"))
    BY <1>6 DEF RightAtRest, r, f
  <1>11. job.from \in Modes /\ Leads(job.from, e.mode) /\ job.to = e.mode
    BY <1>3 DEF Jobs
  <1> HIDE DEF job, shot
  <1>12. /\ plan.does = "animate"
         /\ \/ plan.finished = "Normal" /\ e.mode \in {"Normal", "Pressed"}
            \/ /\ plan.finished = "none" /\ "InvertedOrder" \notin plan.flags
               /\ e.mode # "Normal" /\ IsAnimated(e, e.mode)
               /\ Len(plan.modes) \in {1, 2} /\ plan.modes[Len(plan.modes)] = e.mode
    BY <1>1, <1>10, <1>11, LastPlan DEF Serves
  <1>13. Planned(e, plan)
    BY <1>1, <1>11, TransitionIs
  <1> HIDE DEF plan
  <1>14. \A m : Still(r, m) = Still(e, m)
    BY <1>6, <1>8 DEF Still
  <1>15. CASE plan.finished = "Normal" /\ e.mode \in {"Normal", "Pressed"}
    <2>1. e.finishedImage = Still(e, "Normal")
      BY <1>10, <1>15 DEF EndsWith
    <2>2. Still(e, "Normal").image # NoImage.image
      BY DEF Still, NoImage
    <2>3. r.image = Still(r, "Normal")
      BY <1>6, <1>14, <2>1, <2>2
    <2> QED BY <1>6, <1>15, <2>3 DEF EndOf
  <1>16. CASE /\ plan.finished = "none" /\ "InvertedOrder" \notin plan.flags
              /\ e.mode # "Normal" /\ IsAnimated(e, e.mode)
              /\ Len(plan.modes) \in {1, 2} /\ plan.modes[Len(plan.modes)] = e.mode
    <2> DEFINE i == e.player.images[Len(e.player.images)]
    <2>1. e.finishedImage = NoImage /\ r.image = e.image
      BY <1>6, <1>10, <1>16 DEF EndsWith
    <2>2. ~Reversed(e.player) /\ e.player.images = [k \in DOMAIN plan.modes |-> ImageOf(e, plan.modes[k])]
      BY <1>10, <1>16 DEF Serves
    <2>3. shot = Shot(i, Frames[i] - 1, e.player.palette)
      BY <1>1, <1>10, <2>2, LastFrame DEF shot
    <2>4. i = ImageOf(e, e.mode)
      <3>1. plan.modes \in Seq(Modes) /\ DOMAIN plan.modes = 1..Len(plan.modes)
        BY <1>12, <1>13 DEF Planned
      <3>2. Len(e.player.images) = Len(plan.modes)
        <4>1. e.player.images \in Seq(Images) /\ DOMAIN e.player.images = 1..Len(plan.modes)
          BY <1>1, <2>2, <3>1, SoundIs
        <4> QED BY <1>16, <4>1
      <3>3. Len(plan.modes) \in DOMAIN plan.modes
        <4>1. Len(plan.modes) \in 1..Len(plan.modes)
          BY <1>16
        <4> QED BY <3>1, <4>1
      <3>4. i = ImageOf(e, plan.modes[Len(plan.modes)])
        BY <2>2, <3>2, <3>3
      <3> QED BY <1>16, <3>4
    <2>5. ImageOf(r, e.mode) = ImageOf(e, e.mode)
      BY <1>6 DEF ImageOf
    <2>6. IsAnimated(r, r.mode) /\ r.mode # "Normal"
      BY <1>6, <1>16 DEF IsAnimated
    <2>7. EndOf(r) = Picture(shot)
      BY <1>6, <1>8, <2>3, <2>4, <2>5, <2>6 DEF EndOf
    <2> QED BY <1>10, <2>1, <2>7
  <1> QED BY <1>12, <1>15, <1>16

-----------------------------------------------------------------------------
(* One lemma for each kind of step.                                           *)
LEMMA FinishedIsSeen ==
    ASSUME NEW e, Settled(e), e.player.state = "NotRunning", Fresh(e.player),
           e.loaded => Kind[e.look]["Normal"] # "none", NEW settled
    PROVE LET r == Finished(e)
              left == IF e.animationJobs = <<>> THEN <<>> ELSE Tail(e.animationJobs)
          IN /\ Seen(r, settled)
             /\ left # <<>> /\ ~IsPlaying(r) /\ r.loaded =>
                   LET plan == Transition(r, left[1].from, left[1].to)
                   IN /\ plan.does # "animate"
                      /\ plan.does = "show" => r.image = Still(r, plan.mode)
             /\ left = <<>> => ~IsPlaying(r)
  <1> DEFINE a == RememberHover(e)
             b == [a EXCEPT !.animationJobs = IF @ = <<>> THEN @ ELSE Tail(@)]
             r == Finished(e)
             left == IF e.animationJobs = <<>> THEN <<>> ELSE Tail(e.animationJobs)
  <1>1. r = GoOn(b)
    BY DEF Finished
  <1>2. Differ(e, a, Pictures)
    BY RememberHoverIs
  <1> HIDE DEF a
  <1>3. /\ IconOK(a) /\ a.player = e.player /\ a.look = e.look /\ a.animationJobs = e.animationJobs
        /\ a.loaded = e.loaded
    BY <1>2, OnlyPictures DEF Settled
  <1>4. Settled(a) /\ DOMAIN a = IconFields /\ a.animationJobs \in Seq(Jobs)
    BY <1>3 DEF Settled, IconOK
  <1>5. /\ Differ(a, b, {"animationJobs"}) /\ b.animationJobs = left /\ b.loaded = e.loaded
    BY <1>3, <1>4 DEF Differ, IconFields
  <1> HIDE DEF b, r
  <1>6. Fewer(e.animationJobs, b.animationJobs)
    BY <1>3, <1>4, <1>5, TailIsFewer, FewerSelf
  <1>7. Settled(b) /\ b.look = e.look /\ b.player = e.player
    BY <1>3, <1>4, <1>5, <1>6, OnlyJobs DEF Fewer
  <1>8. CASE left # <<>>
    <2>1. r = PlayFromQueue(b, {})
      BY <1>1, <1>5, <1>8 DEF GoOn
    <2>2. Seen(b, settled) /\ ~IsPlaying(b)
      BY <1>5, <1>7, SeenAtRest DEF IsPlaying
    <2> HIDE DEF left
    <2> QED BY <1>5, <1>7, <1>8, <2>1, <2>2, PlayFromQueueIsSeen DEF r, left
  <1>9. CASE left = <<>>
    <2>1. r = ComeToRest(b)
      BY <1>1, <1>5, <1>9 DEF GoOn
    <2>2. /\ r.loaded = e.loaded /\ r.look = e.look
          /\ r.player = e.player \/ r.player = ClearCache(e.player)
      BY <1>4, <1>5, <1>7, <2>1 DEF ComeToRest, IconFields, Differ
    <2>3. Sound(e.player)
      BY DEF Settled, IconOK
    <2>4. r.player.state = "NotRunning" /\ Fresh(r.player)
      <3>1. CASE r.player = e.player
        BY <3>1
      <3>2. CASE r.player = ClearCache(e.player)
        <4>1. r.player.state = "NotRunning"
          BY <2>3, <3>2, ClearCacheKeepsSound
        <4>2. r.player.cachedFrames = <<>>
          BY <2>3, <3>2, SoundIs, ClearCacheIs
        <4> QED BY <4>1, <4>2, ClearedIsFresh
      <3> QED BY <2>2, <3>1, <3>2
    <2>5. Seen(r, settled)
      BY <2>2, <2>4, SeenAtRest
    <2> QED BY <1>9, <2>4, <2>5 DEF r, IsPlaying
  <1> QED BY <1>8, <1>9

LEMMA RequestedIsSeen ==
    ASSUME NEW e, Settled(e), Len(e.animationJobs) <= MaxJobs, CallsOK(calls), PlayToQueue(e),
           Seen(e, Clean({"recoloured"})'), calls \in Seq({{}, {"Continue"}})
    PROVE SeenInv'
  <1> DEFINE settled == Clean({"recoloured"})'
  <1> HIDE DEF settled
  <1>1. Ignored(e) \/ Offset(e) \/ Behind(e) \/ Anew(e)
    BY PlayToQueueIs
  <1>2. Seen(e, settled)
    BY DEF settled
  <1>3. Seen(d', settled) /\ calls' \in Seq({{}, {"Continue"}}) /\ d'.animationJobs # <<>>
    BY <1>1, <1>2, PlayToQueueIsSeen
  <1> QED BY <1>3 DEF SeenInv, RightAtRest, settled

LEMMA InitIsSeen ==
    ASSUME IconPlayerInit
    PROVE SeenInv
  <1>1. PICK l \in Looks, pal \in Palettes :
            d = [player |-> NewPlayer(pal), look |-> l, loaded |-> FALSE, load |-> 0,
                 mode |-> "Normal", lastMode |-> "Normal", state |-> "Idle",
                 animationJobs |-> <<>>, saveImageForHoverModeOnFinished |-> FALSE,
                 image |-> NoImage, finishedImage |-> NoImage,
                 hoverModeLastImage |-> NoImage]
    BY DEF IconPlayerInit
  <1>2. d.player = NewPlayer(pal) /\ d.loaded = FALSE
    BY <1>1
  <1>3. d.player.state = "NotRunning" /\ d.player.cachedFrames = <<>>
    BY <1>2 DEF NewPlayer
  <1>4. Seen(d, Clean({"recoloured"}))
    BY <1>2, <1>3, ClearedIsFresh, SeenAtRest
  <1>5. calls \in Seq({{}, {"Continue"}})
    BY DEF IconPlayerInit
  <1> QED BY <1>2, <1>3, <1>4, <1>5 DEF SeenInv, RightAtRest, IsPlaying

LEMMA RestyleIsSeen ==
    ASSUME IconInv, SeenInv, NEW l \in Looks, Restyle(l)
    PROVE SeenInv'
  <1> DEFINE e == [d EXCEPT !.look = l]
             r == Reset(e)
             q == Stop(d.player)
             zero == [i \in Images |-> 0]
  <1>1. /\ Settled(d) /\ DOMAIN d = IconFields /\ d.mode \in Modes /\ d.lastMode \in Modes
        /\ Leads(d.lastMode, d.mode) /\ Sound(d.player)
    BY SettledIs DEF IconInv
  <1>2. Differ(d, e, {"look"}) /\ e.look = l
    BY <1>1 DEF Differ, IconFields
  <1>3. Differ(d, e, {"mode", "lastMode", "look"}) /\ e.mode = d.mode /\ e.lastMode = d.lastMode
        /\ e.player = d.player /\ DOMAIN e = IconFields
    BY <1>2 DEF Differ, IconFields
  <1>4. PlayToQueue(r)
    BY DEF Restyle
  <1> HIDE DEF e
  <1>5. Settled(e) /\ e.animationJobs = d.animationJobs
    BY <1>1, <1>2, <1>3, OnlyRequest
  <1>6. /\ Settled(r) /\ r.animationJobs = d.animationJobs /\ r.player.state = "NotRunning"
        /\ r.loaded = FALSE
    BY <1>5, ResetIs DEF Settled
  <1>7. Fresh(q) /\ q \in Players
    BY <1>1, StopIsFresh, SoundIs DEF SeenInv, Seen
  <1>8. r.player = [q EXCEPT !.number = zero]
    BY <1>3 DEF Reset, StopPlayer, IconFields
  <1>9. Fresh(r.player)
    BY <1>7, <1>8, RewoundIsFresh
  <1> HIDE DEF r
  <1>10. Seen(r, Clean({"recoloured"})')
    BY <1>6, <1>9, SeenAtRest
  <1>11. Len(r.animationJobs) <= MaxJobs /\ CallsOK(calls) /\ calls \in Seq({{}, {"Continue"}})
    BY <1>6 DEF IconInv, SeenInv
  <1> QED BY <1>4, <1>6, <1>10, <1>11, RequestedIsSeen

LEMMA AbortIsFresh ==
    ASSUME NEW e, IconOK(e), Fresh(e.player)
    PROVE LET r == Abort(e) IN
          Fresh(r.player) /\ r.look = e.look /\ r.loaded = e.loaded
  <1>1. DOMAIN e = IconFields /\ Sound(e.player)
    BY DEF IconOK
  <1>2. /\ Abort(e).player = Stop(e.player) /\ Abort(e).look = e.look
        /\ Abort(e).loaded = e.loaded
    BY <1>1 DEF Abort, StopPlayer, IconFields
  <1> QED BY <1>1, <1>2, StopIsFresh

LEMMA SetModeIsSeen ==
    ASSUME IconInv, SeenInv, NEW m \in Modes, setMode(m)
    PROVE SeenInv'
  <1> DEFINE e == [d EXCEPT !.lastMode = d.mode, !.mode = m]
             f == IF m = "Disabled" THEN Abort(e) ELSE e
  <1>1. /\ Settled(d) /\ DOMAIN d = IconFields /\ d.mode \in Modes /\ d.look \in Looks
        /\ d.animationJobs \in Seq(Jobs) /\ d.player.state \in {"NotRunning", "Running"}
    BY SettledIs DEF IconInv
  <1>2. Differ(d, e, {"mode", "lastMode"}) /\ e.mode = m /\ e.lastMode = d.mode
    BY <1>1 DEF Differ, IconFields
  <1>3. Differ(d, e, {"mode", "lastMode", "look"}) /\ e.look = d.look /\ e.player = d.player
        /\ e.loaded = d.loaded /\ e.load = d.load /\ e.image = d.image
        /\ e.finishedImage = d.finishedImage
    BY <1>2 DEF Differ, IconFields
  <1>4. PlayToQueue(f) /\ Leads(d.mode, m)
        /\ meddled' = IF Quiet /\ d.state = "Idle" /\ d.image = EndOf(d) THEN {} ELSE meddled
    BY DEF setMode, Leads
  <1> HIDE DEF e
  <1>5. Settled(e) /\ e.animationJobs = d.animationJobs
    BY <1>1, <1>2, <1>3, <1>4, OnlyRequest
  <1>6. Fresh(d.player) /\ (d.loaded => Kind[d.look]["Normal"] # "none")
    BY DEF SeenInv, Seen
  <1>7. Seen(d, Clean({"recoloured"})')
    <2>1. CASE meddled' = meddled
      BY <2>1 DEF SeenInv, Clean
    <2>2. CASE Quiet
      <3>1. d.player.state = "NotRunning"
        BY <1>1, <2>2 DEF Quiet, IsPlaying
      <3> QED BY <1>6, <3>1, SeenAtRest
    <2> QED BY <1>4, <2>1, <2>2
  <1>8. Seen(f, Clean({"recoloured"})')
    <2>1. CASE m = "Disabled"
      <3>1. f.player.state = "NotRunning" /\ Fresh(f.player) /\ f.look = d.look /\ f.loaded = d.loaded
        BY <1>3, <1>5, <1>6, <2>1, AbortIs, AbortIsFresh DEF Settled
      <3> QED BY <1>6, <3>1, SeenAtRest
    <2>2. CASE m # "Disabled"
      <3>1. Alike(d.player, e.player)
        BY <1>3 DEF Alike
      <3>2. Seen(e, Clean({"recoloured"})')
        BY <1>1, <1>3, <1>5, <1>6, <1>7, <3>1, SeenAlike
      <3> QED BY <2>2, <3>2
    <2> QED BY <2>1, <2>2
  <1>9. Settled(f) /\ f.animationJobs \in {<<>>, d.animationJobs}
    BY <1>5, AbortIs DEF Settled
  <1> HIDE DEF f
  <1>10. Len(f.animationJobs) <= MaxJobs
    BY <1>9, IconAssumption DEF IconInv
  <1>11. CallsOK(calls) /\ calls \in Seq({{}, {"Continue"}})
    BY DEF IconInv, SeenInv
  <1> QED BY <1>4, <1>8, <1>9, <1>10, <1>11, RequestedIsSeen

LEMMA SetIconPaletteIsSeen ==
    ASSUME IconInv, SeenInv, NEW pal \in Palettes, setIconPalette(pal)
    PROVE SeenInv'
  <1> DEFINE q == SetPalette(d.player, pal)
             last == IF Has(d, "Hover") THEN NoImage ELSE d.hoverModeLastImage
             e == [d EXCEPT !.player = q, !.hoverModeLastImage = last]
  <1>1. /\ Settled(d) /\ IconOK(d) /\ DOMAIN d = IconFields /\ Sound(d.player)
        /\ d.animationJobs \in Seq(Jobs)
    BY SettledIs DEF IconInv
  <1>2. Sound(q) /\ q.state = d.player.state
    BY <1>1, SetPaletteKeepsSound
  <1>3. /\ IF Has(d, d.mode) THEN PlayToQueue(e) ELSE d' = e /\ calls' = calls
        /\ "recoloured" \in meddled'
    BY DEF setIconPalette, Meddle
  <1>4. Fresh(d.player) /\ (d.loaded => Kind[d.look]["Normal"] # "none")
        /\ (Underway(d) => Serves(d, PlanOf(d))) /\ calls \in Seq({{}, {"Continue"}})
    BY DEF SeenInv, Seen
  <1>5. Fresh(q)
    BY <1>1, <1>4, SetPaletteIsFresh
  <1>6. q.images = d.player.images /\ (Reversed(q) <=> Reversed(d.player))
    BY <1>1, SoundIs, SetPaletteIs DEF StaysPut, Reversed
  <1> HIDE DEF q, last
  <1>7. Differ(d, e, {"player", "hoverModeLastImage"}) /\ e.player = q
    BY <1>1 DEF Differ, IconFields
  <1> HIDE DEF e
  <1>8. /\ e.look = d.look /\ e.loaded = d.loaded /\ e.load = d.load
        /\ e.animationJobs = d.animationJobs /\ Differ(d, e, Pictures \cup {"player"})
    BY <1>7 DEF Differ, Pictures, IconFields
  <1>9. Settled(e)
    BY <1>1, <1>2, <1>7, <1>8, OnlyPlayer DEF Settled, IsPlaying
  <1>10. Underway(e) => Serves(e, PlanOf(e))
    <2> SUFFICES ASSUME Underway(e) PROVE Serves(e, PlanOf(e))
      OBVIOUS
    <2>1. Serves(d, PlanOf(d)) /\ d.animationJobs # <<>>
      BY <1>2, <1>4, <1>7, <1>8 DEF Underway
    <2>2. d.animationJobs[1] \in Jobs
      BY <1>1, <2>1
    <2>3. PlanOf(e) = PlanOf(d)
      BY <1>8, <2>2, TransitionOfLooks DEF PlanOf, Jobs
    <2>4. \A m : ImageOf(e, m) = ImageOf(d, m)
      BY <1>8 DEF ImageOf
    <2> QED BY <1>6, <1>7, <2>1, <2>3, <2>4 DEF Serves
  <1>11. Seen(e, FALSE) /\ Clean({"recoloured"})' = FALSE
    BY <1>3, <1>4, <1>5, <1>7, <1>8, <1>10 DEF Seen, Clean
  <1>12. ~Clean(Meddling)'
    BY <1>3 DEF Clean, Meddling
  <1>13. CASE Has(d, d.mode)
    BY <1>3, <1>4, <1>8, <1>9, <1>11, <1>13, RequestedIsSeen DEF IconInv
  <1>14. CASE ~Has(d, d.mode)
    <2>1. d' = e /\ calls' = calls
      BY <1>3, <1>14
    <2>2. Clean({"played"})' => Clean({"played"})
      BY DEF setIconPalette, Meddle, Clean
    <2>3. IsPlaying(e) <=> IsPlaying(d)
      BY <1>2, <1>7 DEF IsPlaying
    <2> QED BY <1>4, <1>8, <1>11, <1>12, <2>1, <2>2, <2>3 DEF SeenInv
  <1> QED BY <1>13, <1>14

LEMMA PlayIsSeen ==
    ASSUME IconInv, SeenInv, NEW m \in Modes, NEW flags \in SUBSET Flags, play(m, flags)
    PROVE SeenInv'
  <1> DEFINE e == EnsureInit(d)
             s == StopPlayer(e)
             f == [s EXCEPT !.animationJobs = <<>>, !.finishedImage = NoImage]
             settled == Clean({"recoloured"})'
  <1> HIDE DEF settled
  <1>1. Settled(d) /\ IconOK(d) /\ DOMAIN d = IconFields /\ Sound(d.player)
    BY SettledIs DEF IconInv
  <1>2. Fresh(d.player) /\ (d.loaded => Kind[d.look]["Normal"] # "none")
        /\ calls \in Seq({{}, {"Continue"}})
    BY DEF SeenInv, Seen
  <1>3. /\ IconOK(e) /\ Differ(d, e, {"loaded", "load"}) /\ e.player = d.player
        /\ e.look = d.look
    BY <1>1, EnsureInitIs DEF Differ, IconFields
  <1>4. /\ d' = IF ~Has(e, "Normal") THEN e
                ELSE IF IsAnimated(e, m) THEN StartPlayer(f, <<m>>, m, flags) ELSE f
        /\ calls' = calls /\ "played" \in meddled' /\ meddled' = meddled \cup {"played"}
    BY DEF play, Meddle
  <1>5. ~Has(e, "Normal") => e = d
    BY <1>1, <1>2, <1>3 DEF EnsureInit, Has, IconFields
  <1> HIDE DEF e
  <1>6. IconOK(s) /\ Differ(e, s, {"player"}) /\ s.player.state = "NotRunning"
    BY <1>3, StopPlayerIs
  <1>7. Fresh(s.player)
    <2>1. s.player = Stop(d.player)
      BY <1>3 DEF StopPlayer, IconOK, IconFields
    <2> QED BY <1>1, <1>2, <2>1, StopIsFresh
  <1> HIDE DEF s
  <1>8. Differ(s, f, {"animationJobs", "finishedImage"}) /\ f.animationJobs = <<>>
    BY <1>6 DEF IconOK, Differ, IconFields
  <1> HIDE DEF f
  <1>9. /\ DOMAIN f = IconFields /\ f.player = s.player /\ f.state = s.state
        /\ f.loaded = e.loaded /\ f.load = s.load /\ f.look = e.look /\ f.mode = s.mode
        /\ f.lastMode = s.lastMode /\ f.loaded = s.loaded /\ f.look = s.look
    BY <1>6, <1>8 DEF Differ, IconFields
  <1>10. IconOK(f) /\ f.player.state = "NotRunning" /\ Fresh(f.player)
    <2>1. <<>> \in Seq(Jobs)
      OBVIOUS
    <2> QED BY <1>6, <1>7, <1>8, <1>9, <2>1 DEF IconOK, IsPlaying
  <1>11. CASE ~Has(e, "Normal")
    <2>1. d' = d
      BY <1>4, <1>5, <1>11
    <2>2. Clean({"recoloured"})' => Clean({"recoloured"})
      BY <1>4 DEF Clean
    <2>3. Seen(d, settled)
      BY <2>2 DEF SeenInv, Seen, settled
    <2> QED BY <1>2, <1>4, <2>1, <2>3 DEF SeenInv, Clean, Meddling, settled
  <1>12. CASE Has(e, "Normal") /\ IsAnimated(e, m)
    <2> DEFINE ms == <<m>>
               r == StartPlayer(f, ms, m, flags)
    <2>1. ms \in Seq(Modes) /\ Len(ms) = 1 /\ Len(ms) \in {1, 2} /\ \A k \in DOMAIN ms : ms[k] = m
      OBVIOUS
    <2> HIDE DEF ms
    <2>2. f.loaded /\ IsAnimated(f, m)
      BY <1>9, <1>12 DEF IsAnimated
    <2>3. \A k \in DOMAIN ms : IsAnimated(f, ms[k])
      BY <2>1, <2>2
    <2>4. d' = r
      BY <1>4, <1>12 DEF ms
    <2>5. Len(ms) = 2 => flags \cap {"CacheAll", "InvertedOrder"} # {}
      <3>1. Len(ms) = 1
        BY <2>1
      <3> HIDE DEF ms
      <3> QED BY <3>1
    <2>6. IconOK(r) /\ Differ(f, r, Pictures \cup {"player", "state"})
      BY <1>10, <2>1, <2>2, <2>3, <2>5, StartPlayerIs
    <2>7. Fresh(r.player) /\ OfPalette(r.player) /\ Shows(r)
      BY <1>10, <2>1, <2>2, <2>3, <2>5, StartPlayerShows
    <2> HIDE DEF r
    <2>8. r.animationJobs = <<>> /\ r.look = f.look /\ r.loaded = f.loaded
      BY <1>8, <2>6 DEF Differ, IconFields, Pictures
    <2>9. Kind[r.look]["Normal"] # "none"
      BY <1>9, <1>12, <2>8 DEF Has
    <2>10. Seen(r, settled)
      BY <2>7, <2>8, <2>9 DEF Seen, Underway
    <2> QED BY <1>2, <1>4, <2>4, <2>10 DEF SeenInv, Clean, Meddling, settled
  <1>13. CASE Has(e, "Normal") /\ ~IsAnimated(e, m)
    <2>1. d' = f /\ Kind[f.look]["Normal"] # "none"
      BY <1>4, <1>9, <1>13 DEF Has
    <2>2. Seen(f, settled)
      BY <1>10, <2>1, SeenAtRest
    <2> QED BY <1>2, <1>4, <2>1, <2>2 DEF SeenInv, Clean, Meddling, settled
  <1> QED BY <1>11, <1>12, <1>13

(* stop() and abort(): nothing plays, and the player has been meddled with.   *)
LEMMA StoppedIsSeen ==
    ASSUME IconInv, SeenInv, stopIcon \/ abort
    PROVE SeenInv'
  <1>1. Settled(d) /\ IconOK(d) /\ DOMAIN d = IconFields /\ Sound(d.player)
    BY SettledIs DEF IconInv
  <1>2. Fresh(d.player) /\ (d.loaded => Kind[d.look]["Normal"] # "none")
        /\ calls \in Seq({{}, {"Continue"}})
    BY DEF SeenInv, Seen
  <1>3. /\ d'.player = Stop(d.player) /\ d'.look = d.look /\ d'.loaded = d.loaded
        /\ calls' = calls /\ ~Clean(Meddling)'
    BY <1>1 DEF stopIcon, abort, Abort, StopPlayer, IconFields, Meddle, Clean, Meddling
  <1>4. d'.player.state = "NotRunning" /\ Fresh(d'.player)
    BY <1>1, <1>2, <1>3, StopIsFresh
  <1>5. Seen(d', Clean({"recoloured"})')
    BY <1>2, <1>3, <1>4, SeenAtRest
  <1> QED BY <1>2, <1>3, <1>4, <1>5 DEF SeenInv, IsPlaying

LEMMA LastIsFirst ==
    ASSUME NEW jobs \in Seq(Jobs), jobs # <<>>, Tail(jobs) = <<>>
    PROVE Len(jobs) = 1 /\ jobs[1] \in Jobs
  <1>1. Len(Tail(jobs)) = Len(jobs) - 1 /\ Len(jobs) \in Nat
    BY TailIsFewer
  <1> DEFINE left == Tail(jobs)
  <1> HIDE DEF left
  <1>2. left = <<>> => Len(left) = 0
    OBVIOUS
  <1>3. Len(jobs) = 1
    BY <1>1, <1>2 DEF left
  <1> QED BY <1>3

LEMMA InvokeQueuedIsSeen ==
    ASSUME IconInv, SeenInv, InvokeQueued
    PROVE SeenInv'
  <1> DEFINE extra == Head(calls)
             jobs == d.animationJobs
             settled == Clean({"recoloured"})
  <1>1. /\ calls # <<>> /\ d' = PlayFromQueue(d, extra) /\ calls' = Tail(calls)
        /\ meddled' = meddled
    BY DEF InvokeQueued
  <1>2. /\ calls \in Seq({{}, {"Continue"}}) /\ Seen(d, settled)
        /\ Settled(d) /\ jobs \in Seq(Jobs)
    BY SettledIs DEF SeenInv, IconInv
  <1>3. extra \in {{}, {"Continue"}} /\ calls' \in Seq({{}, {"Continue"}})
    BY <1>1, <1>2
  <1> HIDE DEF extra, settled
  <1>4. /\ Seen(d', settled)
        /\ ~IsPlaying(d) /\ jobs # <<>> /\ ~IsPlaying(d') /\ d'.loaded =>
              LET plan == Transition(d', jobs[1].from, jobs[1].to)
              IN plan.does # "animate" /\ (plan.does = "show" => d'.image = Still(d', plan.mode))
    BY <1>1, <1>2, <1>3, PlayFromQueueIsSeen
  <1>5. extra \in SUBSET Flags
    BY <1>3 DEF Flags
  <1>6. /\ Advanced(d, d')
        /\ IF IsPlaying(d) \/ jobs = <<>> THEN d' = d
           ELSE Resumed(d.look, jobs, d.state, d')
    BY <1>1, <1>2, <1>5, PlayFromQueueIs
  <1>7. Clean({"played"}) /\ IsPlaying(d') => d'.animationJobs # <<>>
    BY <1>6 DEF Resumed, SeenInv
  <1>8. ASSUME Clean(Meddling) PROVE RightAtRest(d')
    <2>1. CASE IsPlaying(d) \/ jobs = <<>>
      BY <1>6, <1>8, <2>1 DEF SeenInv
    <2>2. CASE ~IsPlaying(d) /\ jobs # <<>> /\ ~IsPlaying(d') /\ d'.animationJobs = <<>>
      <3>1. Tail(jobs) = <<>>
        BY <1>6, <2>2 DEF Resumed
      <3>2. Len(jobs) = 1
        BY <1>2, <2>2, <3>1, LastIsFirst
      <3>3. jobs[1] \in Jobs
        BY <1>2, <3>2
      <3>4. Clean({"restyled", "recoloured"})
        BY <1>8 DEF Clean, Meddling
      <3>5. jobs[1].to = d'.mode
        BY <1>6, <2>2, <3>2, <3>4 DEF IconInv, Chained, Advanced
      <3>6. d'.loaded => Kind[d'.look]["Normal"] # "none"
        BY <1>4 DEF Seen
      <3> QED BY <1>4, <2>2, <3>3, <3>5, <3>6, ShownIsRight
    <2>3. CASE IsPlaying(d') \/ d'.animationJobs # <<>>
      BY <2>3 DEF RightAtRest
    <2> QED BY <2>1, <2>2, <2>3
  <1> QED BY <1>1, <1>3, <1>4, <1>7, <1>8 DEF SeenInv, Clean, settled

LEMMA TimerFiresIsSeen ==
    ASSUME IconInv, SeenInv, TimerFires
    PROVE SeenInv'
  <1> DEFINE q == TimerEvent(d.player)
             r == ReadImage(q, TRUE)
             e == [d EXCEPT !.player = q]
             jobs == d.animationJobs
             left == IF jobs = <<>> THEN <<>> ELSE Tail(jobs)
             settled == Clean({"recoloured"})
  <1>1. d.player.timer /\ d' = PlayOn(d, q) /\ calls' = calls /\ meddled' = meddled
    BY DEF TimerFires
  <1>2. Settled(d) /\ IconOK(d) /\ Sound(d.player) /\ DOMAIN d = IconFields /\ jobs \in Seq(Jobs)
    BY SettledIs DEF IconInv
  <1>3. d.player.state = "Running" /\ IsPlaying(d)
    BY <1>1, <1>2 DEF Sound, IsPlaying
  <1>4. calls \in Seq({{}, {"Continue"}}) /\ Seen(d, settled)
    BY DEF SeenInv
  <1> HIDE DEF settled
  <1>5. Fresh(d.player) /\ (d.loaded => Kind[d.look]["Normal"] # "none")
    BY <1>4 DEF Seen
  <1>6. /\ Sound(q) /\ Fresh(q) /\ q.state \in {"NotRunning", "WaitingRead"}
        /\ q.state = "WaitingRead" =>
              /\ Fresh(r) /\ (OfPalette(d.player) => OfPalette(r)) /\ FrameRead(q) = FrameAt(r)
              /\ Same(d.player, r) /\ r.state = "Running"
    BY <1>2, <1>3, <1>5, TimerIsFresh
  <1>7. /\ Advanced(d, d')
        /\ \/ d'.animationJobs = jobs /\ IsPlaying(d')
           \/ left = <<>> /\ d'.animationJobs = <<>> /\ d'.state = "Idle"
           \/ left # <<>> /\ Resumed(d.look, left, d.state, d')
    BY TimerFiresIs
  <1>8. CASE q.state = "WaitingRead"
    <2>1. d' = ShowFrame(d, q)
      BY <1>1, <1>8 DEF PlayOn
    <2> HIDE DEF q
    <2>2. /\ d'.player = r /\ d'.image = Picture(FrameRead(q)) /\ d'.look = d.look
          /\ d'.loaded = d.loaded /\ d'.load = d.load /\ d'.finishedImage = d.finishedImage
          /\ d'.animationJobs = jobs
      BY <1>2, <2>1 DEF ShowFrame, IconFields
    <2> HIDE DEF r
    <2>3. Shows(d') /\ r.images = d.player.images /\ r.palette = d.player.palette
          /\ (Reversed(r) <=> Reversed(d.player))
      BY <1>6, <1>8, <2>2 DEF Shows, Same, Reversed
    <2>4. ASSUME Underway(d')
          PROVE Underway(d) /\ PlanOf(d') = PlanOf(d)
      <3>1. Underway(d)
        BY <1>3, <2>2, <2>4 DEF Underway
      <3>2. jobs[1] \in Jobs
        BY <1>2, <3>1 DEF Underway
      <3> QED BY <2>2, <3>1, <3>2, TransitionOfLooks DEF PlanOf, Jobs
    <2>5. ASSUME NEW plan
          PROVE (Serves(d, plan) => Serves(d', plan)) /\ (EndsWith(d, plan) => EndsWith(d', plan))
      <3>1. \A m : ImageOf(d', m) = ImageOf(d, m)
        BY <2>2 DEF ImageOf
      <3>2. Still(d', "Normal") = Still(d, "Normal")
        BY <2>2, <2>3 DEF Still
      <3> QED BY <2>2, <2>3, <3>1, <3>2 DEF Serves, EndsWith
    <2>6. Seen(d', settled)
      BY <1>4, <1>6, <1>8, <2>2, <2>3, <2>4, <2>5 DEF Seen
    <2>7. IsPlaying(d')
      BY <1>6, <1>8, <2>2 DEF IsPlaying
    <2> QED BY <1>1, <1>3, <1>4, <2>2, <2>6, <2>7 DEF SeenInv, Clean, RightAtRest, settled
  <1>9. CASE q.state = "NotRunning"
    <2>1. d' = Finished(e)
      BY <1>1, <1>9 DEF PlayOn
    <2>2. q = TimerEvent(d.player) /\ d' = Finished([d EXCEPT !.player = q])
      BY <2>1
    <2> HIDE DEF q
    <2>3. Differ(d, e, {"player"}) /\ e.player = q
      BY <1>2 DEF Differ, IconFields
    <2> HIDE DEF e
    <2>4. /\ Differ(d, e, Pictures \cup {"player"}) /\ e.look = d.look /\ e.loaded = d.loaded
          /\ e.animationJobs = jobs
      BY <2>3 DEF Differ, IconFields
    <2>5. Settled(e)
      BY <1>2, <1>6, <1>9, <2>3, <2>4, OnlyPlayer DEF Settled, IsPlaying
    <2>6. /\ Seen(d', settled)
          /\ left # <<>> /\ ~IsPlaying(d') /\ d'.loaded =>
                LET plan == Transition(d', left[1].from, left[1].to)
                IN plan.does # "animate" /\ (plan.does = "show" => d'.image = Still(d', plan.mode))
          /\ left = <<>> => ~IsPlaying(d')
      BY <1>5, <1>6, <1>9, <2>1, <2>3, <2>4, <2>5, FinishedIsSeen
    <2>7. d'.animationJobs = <<>> => ~IsPlaying(d')
      BY <1>7, <2>6 DEF Resumed
    <2>8. ASSUME Clean(Meddling), d'.animationJobs = <<>> PROVE RightAtRest(d')
      <3>1. Clean({"played"}) /\ Clean({"recoloured"}) /\ Clean({"restyled", "recoloured"})
        BY <2>8 DEF Clean, Meddling
      <3>2. jobs # <<>> /\ Chained(jobs, d.mode) /\ d.mode \in Modes
        BY <1>2, <1>3, <3>1, SettledIs DEF SeenInv, IconInv
      <3>3. /\ left = Tail(jobs) /\ left \in Seq(Jobs) /\ Chained(left, d.mode)
        BY <1>2, <3>2, TailIsFewer DEF Fewer
      <3> HIDE DEF left
      <3>4. CASE left = <<>>
        <4>1. Len(jobs) = 1
          BY <1>2, <3>2, <3>3, <3>4, LastIsFirst
        <4>2. jobs[1].to = d.mode
          BY <3>2, <4>1 DEF Chained
        <4>3. Seen(d, TRUE)
          BY <1>4, <3>1 DEF Seen, settled
        <4> QED BY <1>2, <1>3, <1>9, <2>2, <4>1, <4>2, <4>3, ComeToRestIsRight
      <3>5. CASE left # <<>>
        <4>1. Tail(left) = <<>> /\ ~IsPlaying(d')
          BY <1>7, <2>7, <2>8, <3>2, <3>5 DEF Resumed
        <4>2. Len(left) = 1 /\ left[1] \in Jobs
          BY <3>3, <3>5, <4>1, LastIsFirst
        <4>3. left[1].to = d'.mode
          BY <1>7, <3>3, <3>5, <4>2 DEF Chained, Advanced
        <4>4. d'.loaded => Kind[d'.look]["Normal"] # "none"
          BY <2>6 DEF Seen
        <4> QED BY <2>6, <3>5, <4>1, <4>2, <4>3, <4>4, ShownIsRight
      <3> QED BY <3>4, <3>5
    <2>9. Clean(Meddling) => RightAtRest(d')
      BY <2>8 DEF RightAtRest
    <2> QED BY <1>1, <1>4, <2>6, <2>7, <2>9 DEF SeenInv, Clean, settled
  <1> QED BY <1>6, <1>8, <1>9

(* What the icon player shows agrees with its image player, its queue and the *)
(* frames in its cache, in every state: the picture is the frame at the       *)
(* player's place, what plays is the transition of the first job, and an icon *)
(* player that has come to rest shows its mode.                               *)
THEOREM SeenInvariant == IconPlayerSpec => []SeenInv
  <1>1. IconPlayerInit => SeenInv
    BY InitIsSeen
  <1>2. IconInv /\ SeenInv /\ [IconPlayerNext]_iconPlayerVars => SeenInv'
    <2> SUFFICES ASSUME IconInv, SeenInv, [IconPlayerNext]_iconPlayerVars
                 PROVE SeenInv'
      OBVIOUS
    <2>1. CASE \E l \in Looks : setIcon(l) \/ setLook(l)
      BY <2>1, RestyleIsSeen DEF setIcon, setLook
    <2>2. CASE \E m \in Modes : setMode(m)
      BY <2>2, SetModeIsSeen
    <2>3. CASE \E pal \in Palettes : setIconPalette(pal)
      BY <2>3, SetIconPaletteIsSeen
    <2>4. CASE \E m \in PlayModes, flags \in PlayFlags : play(m, flags)
      BY <2>4, PlayIsSeen, IconAssumption
    <2>5. CASE stopIcon \/ abort
      BY <2>5, StoppedIsSeen
    <2>6. CASE InvokeQueued
      BY <2>6, InvokeQueuedIsSeen
    <2>7. CASE TimerFires
      BY <2>7, TimerFiresIsSeen
    <2>8. CASE UNCHANGED iconPlayerVars
      BY <2>8 DEF iconPlayerVars, SeenInv, Clean
    <2> QED BY <2>1, <2>2, <2>3, <2>4, <2>5, <2>6, <2>7, <2>8 DEF IconPlayerNext
  <1> QED BY <1>1, <1>2, IconInvariant, PTL DEF IconPlayerSpec

(* When the player is quiet after calls of setMode alone, it shows the end of *)
(* the transition to its mode: whatever was queued, offset, turned around or  *)
(* aborted in between, no frame of another transition and none that came from *)
(* the cache in the wrong order is left on the screen.                        *)
THEOREM RestShowsTheMode == IconPlayerSpec => []RestImage
  <1>1. SeenInv => RestImage
    BY DEF SeenInv, RightAtRest, RestImage, Quiet
  <1> QED BY <1>1, SeenInvariant, PTL

-----------------------------------------------------------------------------
(* An animation that is turned around: the opposite transition plays the same *)
(* images, from where the player stopped.                                     *)
LEMMA OppositeAnimates ==
    ASSUME NEW e, Has(e, "Normal"), NEW a \in Modes, NEW b \in Modes, a # b, a # "Disabled",
           Transition(e, a, b).does = "animate"
    PROVE /\ Transition(e, b, a).does = "animate"
          /\ Transition(e, b, a).modes = Transition(e, a, b).modes
  <1>1. a \in {"Normal", "Hover", "Pressed"} /\ b \in {"Normal", "Hover", "Pressed", "Disabled"}
    BY DEF Modes
  <1>2. /\ \A m, flags : Enter(e, m, flags).does = "animate" <=> IsAnimated(e, m)
        /\ \A m, flags : IsAnimated(e, m) =>
              Enter(e, m, flags).does = "animate" /\ Enter(e, m, flags).modes = <<m>>
        /\ \A ms, flags, end :
              Animate(ms, flags, end).does = "animate" /\ Animate(ms, flags, end).modes = ms
        /\ \A m : Show(m).does # "animate"
        /\ Stay.does # "animate"
        /\ \A m : IsAnimated(e, m) => Has(e, m)
    BY DEF Enter, Animate, Show, Stay, Has, IsAnimated
  <1>3. ASSUME ToDisabled(e).does = "animate"
        PROVE FromDisabled(e).does = "animate" /\ FromDisabled(e).modes = ToDisabled(e).modes
    BY <1>2, <1>3 DEF ToDisabled, FromDisabled
  <1>4. CASE a = "Normal"
    <2>1. Transition(e, a, b) = FromNormal(e, b) /\ b # "Normal"
      BY <1>4 DEF Transition
    <2>2. Has(e, b) /\ IsAnimated(e, b)
          /\ FromNormal(e, b).modes = IF b = "Pressed" THEN ThroughHover(e) ELSE <<b>>
      BY <1>1, <1>2, <2>1 DEF FromNormal
    <2>3. CASE b = "Hover"
      <3>1. Transition(e, b, a) = FromHover(e, "Normal")
        BY <1>4, <2>3 DEF Transition
      <3> QED BY <1>2, <2>1, <2>2, <2>3, <3>1 DEF FromHover
    <2>4. CASE b = "Pressed"
      <3>1. Transition(e, b, a) = FromPressed(e, "Normal")
        BY <1>4, <2>4 DEF Transition
      <3> QED BY <1>2, <2>1, <2>2, <2>4, <3>1 DEF FromPressed
    <2>5. CASE b = "Disabled"
      <3>1. Transition(e, b, a) = FromDisabled(e)
        BY <1>4, <2>5 DEF Transition
      <3> QED BY <1>2, <2>1, <2>2, <2>5, <3>1 DEF FromDisabled
    <2> QED BY <1>1, <2>1, <2>3, <2>4, <2>5
  <1>5. CASE a = "Hover"
    <2>1. Transition(e, a, b) = FromHover(e, b)
      BY <1>5 DEF Transition
    <2>2. CASE b = "Normal"
      <3>1. Transition(e, b, a) = FromNormal(e, "Hover")
        BY <1>5, <2>2 DEF Transition
      <3> QED BY <1>2, <2>1, <2>2, <3>1 DEF FromHover, FromNormal
    <2>3. CASE b = "Pressed"
      <3>1. Transition(e, b, a) = FromPressed(e, "Hover")
        BY <1>5, <2>3 DEF Transition
      <3> QED BY <1>2, <2>1, <2>3, <3>1 DEF FromHover, FromPressed
    <2>4. CASE b = "Disabled"
      <3>1. Transition(e, b, a) = FromDisabled(e) /\ FromHover(e, b) = ToDisabled(e)
        BY <2>4 DEF Transition, FromHover
      <3> QED BY <1>3, <2>1, <3>1
    <2> QED BY <1>1, <1>5, <2>2, <2>3, <2>4
  <1>6. CASE a = "Pressed"
    <2>1. Transition(e, a, b) = FromPressed(e, b)
      BY <1>6 DEF Transition
    <2>2. CASE b = "Normal"
      <3>1. Transition(e, b, a) = FromNormal(e, "Pressed")
        BY <1>6, <2>2 DEF Transition
      <3> QED BY <1>2, <2>1, <2>2, <3>1 DEF FromPressed, FromNormal
    <2>3. CASE b = "Hover"
      <3>1. Transition(e, b, a) = FromHover(e, "Pressed")
        BY <1>6, <2>3 DEF Transition
      <3> QED BY <1>2, <2>1, <2>3, <3>1 DEF FromHover, FromPressed
    <2>4. CASE b = "Disabled"
      <3>1. Transition(e, b, a) = FromDisabled(e) /\ FromPressed(e, b) = ToDisabled(e)
        BY <2>4 DEF Transition, FromPressed
      <3> QED BY <1>3, <2>1, <3>1
    <2> QED BY <1>1, <1>6, <2>2, <2>3, <2>4
  <1> QED BY <1>1, <1>4, <1>5, <1>6

LEMMA FrameAtIs ==
    ASSUME NEW q, Sound(q), InRange(q)
    PROVE FrameAt(q) \in Shots
  <1>1. /\ q \in Players /\ q.cachedFrames \in Seq(Seq(Shots)) /\ q.palette \in Palettes
        /\ Image(q) \in Images /\ q.currentFrameNumber \in 0..(Frames[Image(q)] - 1)
    <2>1. q \in Players /\ Placed(q)
      BY SoundIs
    <2>2. q.cachedFrames \in Seq(Seq(Shots)) /\ q.palette \in Palettes
      BY <2>1 DEF Players
    <2> QED BY <2>1, <2>2, ImageIs DEF Placed
  <1>2. CASE CurrentHasCache(q)
    <2> DEFINE k == q.current + 1
               n == q.currentFrameNumber + 1
               c == q.cachedFrames
    <2>1. FrameAt(q) = c[k][n] /\ k \in DOMAIN c /\ n \in DOMAIN c[k]
      BY <1>2 DEF FrameAt, CurrentHasCache, HasCache
    <2> HIDE DEF c, k, n
    <2>2. c \in Seq(Seq(Shots))
      BY <1>1 DEF c
    <2>3. c[k] \in Seq(Shots)
      BY <2>1, <2>2
    <2> QED BY <2>1, <2>3
  <1>3. CASE ~CurrentHasCache(q)
    <2>1. Frames[Image(q)] \in Nat
      BY <1>1, ImagesAssumption
    <2>2. q.currentFrameNumber \in Nat
      BY <1>1, <2>1
    <2> QED BY <1>1, <1>3, <2>2 DEF FrameAt, Shot, Shots
  <1> QED BY <1>2, <1>3

(* The frame at its place is that of a stopped player, too, if it is cached   *)
(* in order or its cache is kept.                                             *)
LEMMA StopKeepsTheFrame ==
    ASSUME NEW q, Sound(q), q.state = "Running", OfPalette(q),
           "ClearCacheOnStop" \in q.flags => FrameAt(q).frame = q.currentFrameNumber
    PROVE FrameAt(Stop(q)) = FrameAt(q) /\ InRange(Stop(q))
  <1> DEFINE r == Stop(q)
             k == q.current + 1
             n == q.currentFrameNumber + 1
             c == q.cachedFrames
  <1>1. /\ Same(q, r) /\ r.current = q.current /\ r.currentFrameNumber = q.currentFrameNumber
        /\ r.cachedFrames = IF "ClearCacheOnStop" \in q.flags THEN <<>> ELSE c
        /\ InRange(r) <=> InRange(q)
    BY SoundIs, StopIs
  <1>2. InRange(q) /\ Fits(q) /\ c \in Seq(Seq(Shots))
    BY SoundIs DEF Sound
  <1> HIDE DEF r
  <1>3. Image(r) = Image(q) /\ r.palette = q.palette
    BY <1>1 DEF Same, Image
  <1>4. CASE "ClearCacheOnStop" \notin q.flags
    BY <1>1, <1>2, <1>3, <1>4 DEF FrameAt, CurrentHasCache, HasCache, r
  <1>5. CASE "ClearCacheOnStop" \in q.flags
    <2>1. FrameAt(r) = Shot(Image(q), q.currentFrameNumber, q.palette)
      BY <1>1, <1>3, <1>5 DEF FrameAt, CurrentHasCache, HasCache
    <2>2. CASE ~CurrentHasCache(q)
      BY <1>1, <1>2, <2>1, <2>2 DEF FrameAt, r
    <2>3. CASE CurrentHasCache(q)
      <3>1. k \in DOMAIN c /\ n \in DOMAIN c[k] /\ FrameAt(q) = c[k][n]
        BY <2>3 DEF CurrentHasCache, HasCache, FrameAt
      <3>2. c[k][n] \in Shots /\ c[k][n].image = Image(q) /\ c[k][n].palette = q.palette
        BY <1>2, <3>1 DEF Fits, OfPalette, Image
      <3>3. c[k][n].frame = q.currentFrameNumber
        BY <1>5, <3>1
      <3>4. c[k][n] = Shot(Image(q), q.currentFrameNumber, q.palette)
        BY <3>2, <3>3 DEF Shots, Shot
      <3> QED BY <1>1, <1>2, <2>1, <3>1, <3>4 DEF r
    <2> QED BY <2>2, <2>3
  <1> QED BY <1>4, <1>5

(* Once the images are loaded they stay so.                                   *)
LEMMA PlayFromQueueKeepsLoad ==
    ASSUME NEW e, Settled(e), e.loaded, NEW extra \in SUBSET Flags
    PROVE LET r == PlayFromQueue(e, extra) IN r.loaded = e.loaded /\ r.load = e.load
  <1> DEFINE job == Head(e.animationJobs)
             b == [e EXCEPT !.finishedImage = NoImage]
             played == PlayPair(e, job.from, job.to, extra)
             r == PlayFromQueue(e, extra)
  <1>1. /\ IconOK(e) /\ DOMAIN e = IconFields /\ e.animationJobs \in Seq(Jobs)
        /\ e.player.state \in {"NotRunning", "Running"}
    BY SettledIs
  <1>2. CASE IsPlaying(e) \/ e.animationJobs = <<>>
    BY <1>2 DEF PlayFromQueue
  <1>3. CASE ~IsPlaying(e) /\ e.animationJobs # <<>>
    <2>1. r = KeepIfPlaying(played)
      BY <1>3 DEF PlayFromQueue
    <2>2. job.from \in Modes /\ job.to \in Modes
      <3>1. job \in Jobs
        BY <1>1, <1>3
      <3> QED BY <3>1 DEF Jobs
    <2> HIDE DEF job
    <2>3. EnsureInit(e) = e
      BY DEF EnsureInit
    <2>4. Differ(e, b, Pictures) /\ b.loaded = e.loaded /\ b.load = e.load /\ b.player = e.player
      BY <1>1 DEF Differ, IconFields, Pictures
    <2>5. played = IF ~Has(b, "Normal") THEN [b EXCEPT !.image = NoImage]
                   ELSE Perform(b, Transition(b, job.from, job.to), job.to, extra)
      BY <2>3 DEF PlayPair
    <2> HIDE DEF b, played
    <2>6. IconOK(b) /\ b.player.state = "NotRunning" /\ DOMAIN b = IconFields
      BY <1>1, <1>3, <2>4, OnlyPictures DEF IsPlaying, Differ
    <2>7. played.loaded = e.loaded /\ played.load = e.load /\ DOMAIN played = IconFields
      <3>1. CASE ~Has(b, "Normal")
        BY <2>4, <2>5, <2>6, <3>1 DEF IconFields
      <3>2. CASE Has(b, "Normal")
        <4>1. Differ(b, played, Pictures \cup {"player", "state"})
          BY <2>2, <2>4, <2>5, <2>6, <3>2, TransitionIs, PerformIs
        <4> QED BY <2>4, <4>1 DEF Differ, IconFields, Pictures
      <3> QED BY <3>1, <3>2
    <2> QED BY <2>1, <2>7 DEF KeepIfPlaying, IconFields
  <1> QED BY <1>2, <1>3

(* Only a request that turns the animation around queues a call to continue.  *)
LEMMA OnlyTurned ==
    ASSUME NEW e, Settled(e), Len(e.animationJobs) <= MaxJobs, CallsOK(calls), PlayToQueue(e),
           calls = <<>>, calls' = <<{"Continue"}>>
    PROVE /\ Anew(e) /\ Settled(d') /\ IsPlaying(e) /\ Len(e.animationJobs) = 1
          /\ LastJob(e) = Opposite(Request(e))
  <1>1. Settled(d') /\ (Ignored(e) \/ Offset(e) \/ Behind(e) \/ Anew(e))
    BY PlayToQueueIs
  <1>2. calls' # calls
    OBVIOUS
  <1>3. Append(calls, {}) = <<{}>> /\ <<{}>> # <<{"Continue"}>>
    <2>1. <<{}>>[1] = {} /\ <<{"Continue"}>>[1] = {"Continue"}
      OBVIOUS
    <2> QED BY <2>1
  <1> QED BY <1>1, <1>2, <1>3 DEF Ignored, Offset, Behind, Anew

LEMMA TurnedGoesOn ==
    ASSUME NEW e, Settled(e), Seen(e, TRUE), Anew(e), Settled(d'), calls = <<>>,
           IsPlaying(e), Len(e.animationJobs) = 1, LastJob(e) = Opposite(Request(e)),
           e.mode # e.lastMode, e.mode # "Disabled",
           "ClearCacheOnStop" \in e.player.flags => e.image.frame = e.player.currentFrameNumber
    PROVE LET r == PlayFromQueue(d', {"Continue"}) IN IsPlaying(r) /\ r.image = e.image
  <1> DEFINE from == e.mode
             to == e.lastMode
             extra == {"Continue"}
             r == PlayFromQueue(d', extra)
             forth == Transition(e, from, to)
             back == Transition(e, to, from)
  <1>1. /\ IconOK(e) /\ Sound(e.player) /\ e.mode \in Modes /\ e.lastMode \in Modes
        /\ e.player.state = "Running" /\ e.loaded /\ e.animationJobs \in Seq(Jobs)
    BY SettledIs DEF IsPlaying, IconOK
  <1>2. e.animationJobs[1] = [from |-> from, to |-> to] /\ e.animationJobs # <<>>
    BY <1>1 DEF LastJob, Opposite, Request
  <1>3. Fresh(e.player) /\ OfPalette(e.player) /\ e.image = Picture(FrameAt(e.player))
        /\ Serves(e, forth) /\ Kind[e.look]["Normal"] # "none"
    BY <1>1, <1>2 DEF Seen, Shows, Underway, PlanOf
  <1>4. Has(e, "Normal") /\ back.does = "animate" /\ back.modes = forth.modes
    BY <1>1, <1>3, OppositeAnimates DEF Has, Serves
  <1>5. /\ Differ(e, d', {"player", "animationJobs"})
        /\ d'.animationJobs = <<[from |-> to, to |-> from]>> /\ d'.player = Stop(e.player)
    BY <1>2 DEF Anew, Request
  <1>6. /\ d'.look = e.look /\ d'.loaded = e.loaded /\ d'.load = e.load /\ d'.image = e.image
    BY <1>5 DEF Differ, IconFields
  <1>7. Fresh(d'.player) /\ d'.player.images = e.player.images /\ d'.player.state = "NotRunning"
    BY <1>1, <1>3, <1>5, StopIsFresh
  <1>8. FrameAt(d'.player) = FrameAt(e.player) /\ InRange(d'.player)
    <2>1. FrameAt(e.player).frame = e.image.frame
      <3>1. FrameAt(e.player) \in Shots
        BY <1>1, FrameAtIs DEF Sound
      <3>2. \A shot \in Shots : Picture(shot).frame = shot.frame
        BY DEF Picture, Shots
      <3> QED BY <1>3, <3>1, <3>2
    <2> QED BY <1>1, <1>3, <1>5, <2>1, StopKeepsTheFrame
  <1>9. Seen(d', TRUE)
    BY <1>3, <1>6, <1>7, SeenAtRest
  <1>10. extra \in SUBSET Flags /\ extra \in {{}, {"Continue"}} /\ "Continue" \in extra
    BY DEF Flags
  <1>11. ~IsPlaying(d') /\ d'.animationJobs # <<>> /\ d'.animationJobs[1] = [from |-> to, to |-> from]
    BY <1>5, <1>7 DEF IsPlaying
  <1>12. Smooth(d'.look, d'.animationJobs[1])
    <2>1. Animates(e.look, to, from)
      BY <1>1, <1>4, TransitionOfLook
    <2> QED BY <1>6, <1>11, <2>1 DEF Smooth
  <1> HIDE DEF forth, back, extra, r
  <1>13. Advanced(d', r) /\ r.animationJobs = d'.animationJobs /\ IsPlaying(r)
    BY <1>10, <1>11, <1>12, PlayFromQueueIs DEF Resumed, r
  <1>14. r.loaded = e.loaded /\ r.load = e.load /\ r.look = e.look
    BY <1>1, <1>6, <1>10, <1>13, PlayFromQueueKeepsLoad DEF Advanced, r
  <1>15. Seen(r, TRUE)
         /\ (r.player.images = d'.player.images => r.image = Picture(FrameAt(d'.player)))
    BY <1>8, <1>9, <1>10, <1>11, <1>13, PlayFromQueueIsSeen DEF r
  <1>16. r.player.images = d'.player.images
    <2>1. Underway(r)
      BY <1>11, <1>13, SettledIs DEF Underway, Advanced, IsPlaying
    <2>2. PlanOf(r) = back
      <3>1. PlanOf(r) = Transition(r, to, from)
        BY <1>11, <1>13 DEF PlanOf
      <3>2. Transition(r, to, from) = Transition(e, to, from)
        BY <1>1, <1>14, TransitionOfLooks
      <3> QED BY <3>1, <3>2 DEF back
    <2>3. Serves(r, back)
      BY <1>15, <2>1, <2>2 DEF Seen
    <2>4. \A m : ImageOf(r, m) = ImageOf(e, m)
      BY <1>14 DEF ImageOf
    <2> QED BY <1>3, <1>4, <1>7, <2>3, <2>4 DEF Serves
  <1> QED BY <1>3, <1>8, <1>13, <1>15, <1>16 DEF r, extra

LEMMA SetModeTurns ==
    ASSUME IconInv, SeenInv, NEW m \in Modes, setMode(m), Clean({"recoloured"})',
           calls = <<>>, calls' = <<{"Continue"}>>,
           "ClearCacheOnStop" \in d.player.flags => d.image.frame = d.player.currentFrameNumber
    PROVE LET r == PlayFromQueue(d', {"Continue"}) IN IsPlaying(r) /\ r.image = d.image
  <1> DEFINE e == [d EXCEPT !.lastMode = d.mode, !.mode = m]
             f == IF m = "Disabled" THEN Abort(e) ELSE e
  <1>1. /\ Settled(d) /\ DOMAIN d = IconFields /\ d.mode \in Modes /\ d.look \in Looks
        /\ d.animationJobs \in Seq(Jobs) /\ CallsOK(calls) /\ Len(d.animationJobs) <= MaxJobs
    BY SettledIs DEF IconInv
  <1>2. /\ m # d.mode /\ PlayToQueue(f)
        /\ meddled' = IF Quiet /\ d.state = "Idle" /\ d.image = EndOf(d) THEN {} ELSE meddled
    BY DEF setMode
  <1>3. Differ(d, e, {"mode", "lastMode", "look"}) /\ e.mode = m /\ e.lastMode = d.mode
        /\ e.look = d.look
    BY <1>1 DEF Differ, IconFields
  <1>4. m = "Disabled" => f = Abort(e)
    OBVIOUS
  <1>5. m # "Disabled" => f = e
    OBVIOUS
  <1> HIDE DEF e, f
  <1>6. Settled(e) /\ e.animationJobs = d.animationJobs
    BY <1>1, <1>2, <1>3, OnlyRequest DEF Leads
  <1>7. CASE m = "Disabled"
    <2>1. Settled(f) /\ ~IsPlaying(f) /\ f.animationJobs = <<>>
      BY <1>4, <1>6, <1>7, AbortIs DEF Settled, IsPlaying
    <2>2. Len(f.animationJobs) <= MaxJobs
      BY <2>1, IconAssumption
    <2>3. IsPlaying(f)
      BY <1>1, <1>2, <2>1, <2>2, OnlyTurned
    <2> QED BY <2>1, <2>3
  <1>8. CASE m # "Disabled"
    <2>1. /\ Anew(e) /\ Settled(d') /\ IsPlaying(e) /\ Len(e.animationJobs) = 1
          /\ LastJob(e) = Opposite(Request(e))
      BY <1>1, <1>2, <1>5, <1>6, <1>8, OnlyTurned
    <2>2. /\ e.player = d.player /\ e.image = d.image /\ e.loaded = d.loaded /\ e.load = d.load
          /\ e.finishedImage = d.finishedImage
      BY <1>3 DEF Differ, IconFields
    <2>3. Clean({"recoloured"})
      BY <1>2, <2>1, <2>2 DEF Quiet, IsPlaying, Clean
    <2>4. Seen(d, TRUE)
      BY <2>3 DEF SeenInv, Seen
    <2>5. Alike(d.player, e.player) /\ Fresh(e.player)
      BY <2>2, <2>4 DEF Alike, Seen
    <2>6. Seen(e, TRUE)
      BY <1>1, <1>3, <1>6, <2>2, <2>4, <2>5, SeenAlike
    <2> QED BY <1>2, <1>3, <1>6, <1>8, <2>1, <2>2, <2>6, TurnedGoesOn
  <1> QED BY <1>7, <1>8

LEMMA RestyleNeverTurns ==
    ASSUME IconInv, NEW l \in Looks, Restyle(l), calls = <<>>
    PROVE calls' # <<{"Continue"}>>
  <1> DEFINE e == [d EXCEPT !.look = l]
             r == Reset(e)
  <1>1. /\ Settled(d) /\ DOMAIN d = IconFields /\ d.mode \in Modes /\ d.lastMode \in Modes
        /\ CallsOK(calls) /\ Len(d.animationJobs) <= MaxJobs /\ Leads(d.lastMode, d.mode)
    BY SettledIs DEF IconInv
  <1>2. PlayToQueue(r)
    BY DEF Restyle
  <1>3. Differ(d, e, {"mode", "lastMode", "look"}) /\ e.look = l /\ e.mode = d.mode
        /\ e.lastMode = d.lastMode
    BY <1>1 DEF Differ, IconFields
  <1> HIDE DEF e, r
  <1>4. Settled(e) /\ e.animationJobs = d.animationJobs
    BY <1>1, <1>3, OnlyRequest
  <1>5. Settled(r) /\ r.animationJobs = d.animationJobs /\ ~IsPlaying(r)
    BY <1>4, ResetIs DEF r, Settled, IsPlaying
  <1> QED BY <1>1, <1>2, <1>5, OnlyTurned

(* An animation that a request for the opposite transition interrupts is      *)
(* played back from the frame it shows: the call it queues finds the images   *)
(* of the opposite transition in the player and goes on at the same frame.    *)
THEOREM AnimationTurnsAround == IconPlayerSpec => TurnsAround
  <1> DEFINE resumed == PlayFromQueue(d', {"Continue"})
             Turns ==
               /\ Clean({"recoloured"})'
               /\ calls = <<>> /\ calls' = <<{"Continue"}>>
               /\ "ClearCacheOnStop" \in d.player.flags =>
                     d.image.frame = d.player.currentFrameNumber
               => IsPlaying(resumed) /\ resumed.image = d.image
  <1>1. IconInv /\ SeenInv /\ [IconPlayerNext]_iconPlayerVars => [Turns]_iconPlayerVars
    <2> SUFFICES ASSUME IconInv, SeenInv, IconPlayerNext, Clean({"recoloured"})',
                        calls = <<>>, calls' = <<{"Continue"}>>,
                        "ClearCacheOnStop" \in d.player.flags =>
                            d.image.frame = d.player.currentFrameNumber
                 PROVE IsPlaying(resumed) /\ resumed.image = d.image
      OBVIOUS
    <2>1. calls' # calls
      OBVIOUS
    <2>2. CASE \E l \in Looks : setIcon(l) \/ setLook(l)
      BY <2>2, RestyleNeverTurns DEF setIcon, setLook
    <2>3. CASE \E m \in Modes : setMode(m)
      BY <2>3, SetModeTurns
    <2>4. CASE \E pal \in Palettes : setIconPalette(pal)
      BY <2>4 DEF setIconPalette, Meddle, Clean
    <2>5. CASE \E m \in PlayModes, flags \in PlayFlags : play(m, flags)
      BY <2>1, <2>5 DEF play
    <2>6. CASE stopIcon \/ abort
      BY <2>1, <2>6 DEF stopIcon, abort
    <2>7. CASE InvokeQueued
      BY <2>7 DEF InvokeQueued
    <2>8. CASE TimerFires
      BY <2>1, <2>8 DEF TimerFires
    <2> QED BY <2>2, <2>3, <2>4, <2>5, <2>6, <2>7, <2>8 DEF IconPlayerNext
  <1>2. TurnsAround <=> [][Turns]_iconPlayerVars
    BY PTL DEF TurnsAround
  <1> QED BY <1>1, <1>2, IconInvariant, SeenInvariant, PTL DEF IconPlayerSpec
=============================================================================
