------------------------- MODULE ImagePlayer_proofs -------------------------
(* Machine-checked proofs about DciImagePlayer, the image player with any     *)
(* clients.  IconPlayer_proofs uses its lemmas.                               *)
EXTENDS DciImagePlayer, TLAPS, WellFoundedInduction

Same(q, r) ==
    /\ r.images = q.images /\ r.palette = q.palette /\ r.flags = q.flags
    /\ r.userLoopCount = q.userLoopCount

(* CacheFits, of any player.                                                  *)
Fits(q) ==
    /\ Len(q.cachedFrames) <= Len(q.images)
    /\ \A j \in DOMAIN q.cachedFrames :
          /\ Len(q.cachedFrames[j]) <= Frames[q.images[j]]
          /\ \A n \in DOMAIN q.cachedFrames[j] : q.cachedFrames[j][n].image = q.images[j]

(* The places for frames are those of c, or one more, empty, for image i.     *)
OneMore(c, c2, i) ==
    /\ Len(c) <= i
    /\ Len(c2) = Len(c) + 1
    /\ \A j \in 1..Len(c) : c2[j] = c[j]
    /\ c2[Len(c) + 1] = <<>>

(* c2 is c with a place for image i, if images are cached.                     *)
PlaceMade(flags, c, c2, i) ==
    \/ c2 = c /\ ("CacheAll" \in flags => i < Len(c))
    \/ "CacheAll" \in flags /\ OneMore(c, c2, i)

(* What r has cached is what q has, or frames in their order, newly read.      *)
Filled(q, r) ==
    \A j \in DOMAIN r.cachedFrames : \A n \in DOMAIN r.cachedFrames[j] :
        \/ /\ j \in DOMAIN q.cachedFrames /\ n \in DOMAIN q.cachedFrames[j]
           /\ r.cachedFrames[j][n] = q.cachedFrames[j][n]
        \/ r.cachedFrames[j][n] = Shot(r.images[j], n - 1, r.palette)

(* The player is at a frame of its current image, which it can show.          *)
HasFrame(r) ==
    /\ InRange(r)
    /\ r.currentFrameNumber \in 0..(Frames[Image(r)] - 1)
    /\ CurrentHasCache(r) \/ r.number[Image(r)] = r.currentFrameNumber
AtFrame(r) == HasFrame(r) /\ ("CacheAll" \in r.flags => r.cachedFrames # <<>>)

(* The image at index i is played.                                            *)
Usable(q, i) == CacheMissing(At(q, i)) \/ CanInit(At(q, i))
Ahead(q, i) == IF Reversed(q) THEN i <= q.current ELSE i >= q.current

LEMMA ImageIs ==
    ASSUME NEW q \in Players, InRange(q)
    PROVE /\ q.images \in Seq(Images) /\ q.current \in Nat /\ q.current < Len(q.images)
          /\ Image(q) \in Images /\ Image(q) = q.images[q.current + 1]
          /\ Frames[Image(q)] \in Nat /\ Loops[Image(q)] \in Int
  <1>1. q.images \in Seq(Images)
    BY DEF Players
  <1>2. q.current \in 0..(Len(q.images) - 1)
    BY DEF InRange
  <1>3. q.current + 1 \in 1..Len(q.images)
    BY <1>1, <1>2
  <1>4. q.images[q.current + 1] \in Images
    BY <1>1, <1>3
  <1> QED BY <1>1, <1>2, <1>4, ImagesAssumption DEF Image

LEMMA AtIs ==
    ASSUME NEW q \in Players, NEW i \in Int
    PROVE /\ At(q, i) \in Players /\ Same(q, At(q, i))
          /\ At(q, i).current = i /\ At(q, i).cachedFrames = q.cachedFrames
          /\ At(q, i).currentFrameNumber = IF i = q.current THEN q.currentFrameNumber ELSE -1
          /\ At(q, i).number = q.number /\ At(q, i).loopCount = q.loopCount
          /\ At(q, i).currentLoopCount = q.currentLoopCount
          /\ At(q, i).state = q.state /\ At(q, i).timer = q.timer
  <1>1. CASE i = q.current
    BY <1>1 DEF At, Same
  <1>2. CASE i # q.current
    <2>1. At(q, i) = [q EXCEPT !.current = i, !.currentFrameNumber = -1]
      BY <1>2 DEF At
    <2>2. -1 \in Int
      OBVIOUS
    <2>3. At(q, i) \in Players
      BY <2>1, <2>2 DEF Players
    <2> QED BY <1>2, <2>1, <2>2, <2>3 DEF Players, Same
  <1> QED BY <1>1, <1>2

LEMMA CacheSlotIs ==
    ASSUME NEW q \in Players
    PROVE /\ CacheSlot(q) \in Seq(Seq(Shots))
          /\ \/ CacheSlot(q) = q.cachedFrames
             \/ /\ "CacheAll" \in q.flags /\ Len(q.cachedFrames) <= q.current
                /\ Len(CacheSlot(q)) = Len(q.cachedFrames) + 1
                /\ \A j \in 1..Len(q.cachedFrames) : CacheSlot(q)[j] = q.cachedFrames[j]
                /\ CacheSlot(q)[Len(q.cachedFrames) + 1] = <<>>
          /\ "CacheAll" \in q.flags /\ 0 <= q.current => CacheSlot(q) # <<>>
          /\ "CacheAll" \in q.flags /\ CacheSlot(q) = q.cachedFrames =>
                q.current < Len(q.cachedFrames)
  <1> DEFINE c == q.cachedFrames
  <1>1. c \in Seq(Seq(Shots)) /\ q.current \in Int
    BY DEF Players
  <1>2. <<>> \in Seq(Shots)
    OBVIOUS
  <1>3. /\ Append(c, <<>>) \in Seq(Seq(Shots))
        /\ Len(Append(c, <<>>)) = Len(c) + 1
        /\ \A j \in 1..Len(c) : Append(c, <<>>)[j] = c[j]
        /\ Append(c, <<>>)[Len(c) + 1] = <<>>
    BY <1>1, <1>2
  <1>4. Append(c, <<>>) # <<>> /\ Append(c, <<>>) # c
    BY <1>1, <1>3
  <1>5. CASE "CacheAll" \in q.flags /\ Len(c) <= q.current
    <2>1. CacheSlot(q) = Append(c, <<>>)
      BY <1>5 DEF CacheSlot
    <2> QED BY <1>3, <1>4, <1>5, <2>1
  <1>6. CASE ~("CacheAll" \in q.flags /\ Len(c) <= q.current)
    <2>1. CacheSlot(q) = c
      BY <1>6 DEF CacheSlot
    <2>2. /\ "CacheAll" \in q.flags /\ 0 <= q.current => c # <<>>
          /\ "CacheAll" \in q.flags => q.current < Len(c)
      BY <1>1, <1>6
    <2> QED BY <1>1, <2>1, <2>2
  <1> QED BY <1>5, <1>6

LEMMA JumpToIs ==
    ASSUME NEW q \in Players, NEW n \in Nat, Image(q) \in Images, Frames[Image(q)] \in Nat \ {0}
    PROVE /\ JumpTo(q, n) \in Players /\ Same(q, JumpTo(q, n))
          /\ JumpTo(q, n).current = q.current /\ JumpTo(q, n).cachedFrames = q.cachedFrames
          /\ JumpTo(q, n).currentFrameNumber = q.currentFrameNumber
          /\ JumpTo(q, n).loopCount = q.loopCount /\ JumpTo(q, n).currentLoopCount = q.currentLoopCount
          /\ JumpTo(q, n).state = q.state /\ JumpTo(q, n).timer = q.timer
          /\ n < Frames[Image(q)] => JumpTo(q, n).number[Image(q)] = n
  <1> DEFINE m == IF n < Frames[Image(q)] THEN n ELSE Frames[Image(q)] - 1
             number == [q.number EXCEPT ![Image(q)] = m]
  <1>1. m \in Nat
    OBVIOUS
  <1>2. q.number \in [Images -> Nat]
    BY DEF Players
  <1>3. number \in [Images -> Nat] /\ number[Image(q)] = m
    BY <1>1, <1>2
  <1>4. JumpTo(q, n) = [q EXCEPT !.number = number]
    BY DEF JumpTo, Players
  <1> HIDE DEF number
  <1>5. JumpTo(q, n) \in Players /\ JumpTo(q, n).number = number
    BY <1>3, <1>4 DEF Players
  <1> QED BY <1>3, <1>4, <1>5 DEF Same, Players

LEMMA FirstFrameIs ==
    ASSUME NEW q \in Players, InRange(q), Fits(q), ~CacheMissing(q), CanInit(q)
    PROVE /\ FirstFrame(q) \in 0..(Frames[Image(q)] - 1)
          /\ \/ FirstFrame(q) = q.currentFrameNumber
             \/ q.currentFrameNumber < 0 /\ ~Reversed(q) /\ FirstFrame(q) = 0
             \/ /\ q.currentFrameNumber < 0 /\ Reversed(q) /\ q.current + 1 \in DOMAIN q.cachedFrames
                /\ FirstFrame(q) = Len(q.cachedFrames[q.current + 1]) - 1
  <1> DEFINE c == q.cachedFrames
             k == q.current + 1
  <1>1. /\ q.current \in Nat /\ k \in 1..Len(q.images) /\ Frames[Image(q)] \in Nat
        /\ c \in Seq(Seq(Shots)) /\ q.currentFrameNumber \in Int /\ Image(q) = q.images[k]
    <2>1. c \in Seq(Seq(Shots)) /\ q.currentFrameNumber \in Int
      BY DEF Players
    <2>2. /\ q.images \in Seq(Images) /\ q.current \in Nat /\ q.current < Len(q.images)
          /\ Frames[Image(q)] \in Nat /\ Image(q) = q.images[k]
      BY ImageIs
    <2>3. k \in 1..Len(q.images)
      BY <2>2
    <2> QED BY <2>1, <2>2, <2>3
  <1>2. FirstFrame(q) \in 0..(Frames[Image(q)] - 1)
    <2>1. CASE FirstFrame(q) \in 0..(Frames[Image(q)] - 1)
      BY <2>1
    <2>2. CASE HasCache(q, q.current, FirstFrame(q))
      <3>1. k \in DOMAIN c /\ FirstFrame(q) + 1 \in DOMAIN c[k]
        BY <2>2 DEF HasCache
      <3>2. c[k] \in Seq(Shots) /\ Len(c[k]) <= Frames[q.images[k]]
        BY <1>1, <3>1 DEF Fits
      <3>3. Len(c[k]) \in Nat /\ (FirstFrame(q) \in Int)
        <4>1. Len(c[k]) \in Nat
          BY <3>2
        <4> QED BY <4>1, <1>1 DEF FirstFrame
      <3>4. FirstFrame(q) + 1 \in 1..Len(c[k])
        BY <3>1, <3>2
      <3> QED BY <1>1, <3>2, <3>3, <3>4
    <2> QED BY <2>1, <2>2 DEF CanInit
  <1>3. CASE q.currentFrameNumber >= 0
    BY <1>2, <1>3 DEF FirstFrame
  <1>4. CASE ~(q.currentFrameNumber >= 0) /\ ~Reversed(q)
    BY <1>1, <1>2, <1>4 DEF FirstFrame
  <1>5. CASE ~(q.currentFrameNumber >= 0) /\ Reversed(q)
    <2>1. q.current < Len(c)
      BY <1>1, <1>5 DEF CacheMissing, CanInit
    <2>2. k \in DOMAIN c
      BY <1>1, <2>1
    <2> QED BY <1>1, <1>2, <1>5, <2>2 DEF FirstFrame
  <1> QED BY <1>2, <1>3, <1>4, <1>5

LEMMA InitCurrentIs ==
    ASSUME NEW q \in Players, InRange(q), Fits(q), ~CacheMissing(q), CanInit(q)
    PROVE /\ InitCurrent(q) \in Players /\ Same(q, InitCurrent(q))
          /\ AtFrame(InitCurrent(q))
          /\ InitCurrent(q).current = q.current
          /\ InitCurrent(q).currentFrameNumber = FirstFrame(q)
          /\ PlaceMade(q.flags, q.cachedFrames, InitCurrent(q).cachedFrames, q.current)
          /\ InitCurrent(q).loopCount = q.loopCount
          /\ "IgnoreLastImageLoop" \in q.flags /\ "AllowNonLastImageLoop" \notin q.flags =>
                InitCurrent(q).currentLoopCount = 1
          /\ InitCurrent(q).state = q.state /\ InitCurrent(q).timer = q.timer
  <1> DEFINE n == FirstFrame(q)
             c2 == CacheSlot(q)
             h == IF HasCache(q, q.current, n) THEN q ELSE JumpTo(q, n)
             r == InitCurrent(q)
  <1>1. n \in Nat /\ n < Frames[Image(q)] /\ Image(q) \in Images /\ Frames[Image(q)] \in Nat \ {0}
        /\ q.current \in Nat /\ Loops[Image(q)] \in Int
    BY FirstFrameIs, ImageIs
  <1>2. /\ h \in Players /\ Same(q, h) /\ h.current = q.current /\ h.cachedFrames = q.cachedFrames
        /\ h.loopCount = q.loopCount /\ h.state = q.state /\ h.timer = q.timer
        /\ HasCache(q, q.current, n) \/ h.number[Image(q)] = n
    BY <1>1, JumpToIs DEF Same
  <1>3. /\ c2 \in Seq(Seq(Shots))
        /\ PlaceMade(q.flags, q.cachedFrames, c2, q.current)
        /\ "CacheAll" \in q.flags => c2 # <<>>
    BY <1>1, CacheSlotIs DEF OneMore, PlaceMade
  <1>4. ImageLoops(q) \in Int
    BY <1>1 DEF ImageLoops
  <1>5. r = [h EXCEPT !.currentFrameNumber = n, !.currentLoopCount = ImageLoops(q), !.cachedFrames = c2]
    BY DEF InitCurrent
  <1> HIDE DEF c2, h, n, r
  <1>8. /\ r \in Players /\ Same(h, r) /\ r.current = h.current /\ r.number = h.number
        /\ r.cachedFrames = c2 /\ r.currentFrameNumber = n /\ r.loopCount = h.loopCount
        /\ r.state = h.state /\ r.timer = h.timer /\ r.currentLoopCount = ImageLoops(q)
    <2> DEFINE k == ImageLoops(q)
    <2>1. h \in Players /\ n \in Nat /\ k \in Int /\ c2 \in Seq(Seq(Shots))
      BY <1>1, <1>2, <1>3, <1>4
    <2>2. r = [h EXCEPT !.currentFrameNumber = n, !.currentLoopCount = k, !.cachedFrames = c2]
      BY <1>5
    <2> DEFINE a == [h EXCEPT !.currentFrameNumber = n]
               b == [a EXCEPT !.currentLoopCount = k]
               e == [b EXCEPT !.cachedFrames = c2]
    <2> HIDE DEF k
    <2>3. n \in Int
      BY <2>1
    <2>4. a \in Players /\ Same(h, a) /\ a.current = h.current /\ a.number = h.number
          /\ a.currentFrameNumber = n /\ a.loopCount = h.loopCount
          /\ a.state = h.state /\ a.timer = h.timer
      BY <2>1, <2>3 DEF Players, Same
    <2> HIDE DEF a
    <2>5. b \in Players /\ Same(a, b) /\ b.current = a.current /\ b.number = a.number
          /\ b.currentFrameNumber = a.currentFrameNumber /\ b.loopCount = a.loopCount
          /\ b.currentLoopCount = k
          /\ b.state = a.state /\ b.timer = a.timer
      BY <2>1, <2>4 DEF Players, Same
    <2> HIDE DEF b
    <2>6. e \in Players /\ Same(b, e) /\ e.current = b.current /\ e.number = b.number
          /\ e.currentFrameNumber = b.currentFrameNumber /\ e.loopCount = b.loopCount
          /\ e.currentLoopCount = b.currentLoopCount
          /\ e.state = b.state /\ e.timer = b.timer /\ e.cachedFrames = c2
      BY <2>1, <2>5 DEF Players, Same
    <2>7. r = e
      BY <2>2 DEF a, b
    <2> HIDE DEF e
    <2> QED BY <2>4, <2>5, <2>6, <2>7 DEF Same, k
  <1>9. /\ r \in Players /\ Same(q, r) /\ r.current = q.current /\ r.number = h.number
        /\ r.cachedFrames = c2 /\ r.currentFrameNumber = n /\ r.loopCount = q.loopCount
        /\ r.state = q.state /\ r.timer = q.timer /\ InRange(r) /\ Image(r) = Image(q)
        /\ r.currentLoopCount = ImageLoops(q)
    BY <1>2, <1>8 DEF Same, InRange, Image
  <1>10. CurrentHasCache(r) \/ r.number[Image(r)] = n
    <2>1. CASE HasCache(q, q.current, n)
      <3>1. q.current + 1 \in DOMAIN q.cachedFrames /\ n + 1 \in DOMAIN q.cachedFrames[q.current + 1]
        BY <2>1 DEF HasCache
      <3>2. q.current + 1 \in DOMAIN c2 /\ c2[q.current + 1] = q.cachedFrames[q.current + 1]
        BY <1>1, <1>3, <3>1 DEF OneMore, PlaceMade, Players
      <3> QED BY <1>9, <3>1, <3>2 DEF CurrentHasCache, HasCache
    <2>2. CASE ~HasCache(q, q.current, n)
      BY <1>2, <1>9, <2>2
    <2> QED BY <2>1, <2>2
  <1>11. AtFrame(r)
    BY <1>1, <1>3, <1>9, <1>10 DEF AtFrame, HasFrame, Same
  <1>12. "IgnoreLastImageLoop" \in q.flags /\ "AllowNonLastImageLoop" \notin q.flags =>
            ImageLoops(q) = 1
    BY DEF ImageLoops
  <1> QED BY <1>3, <1>9, <1>11, <1>12 DEF n, r

LEMMA HasLeast ==
    ASSUME NEW S, S \subseteq Nat, S # {}
    PROVE \E i \in S : \A j \in S : i <= j
  <1>1. \E i \in S : \A j \in S : ~(<<j, i>> \in OpToRel(<, Nat))
    BY WFMin, NatLessThanWellFounded
  <1>2. PICK i \in S : \A j \in S : ~(<<j, i>> \in OpToRel(<, Nat))
    BY <1>1
  <1>3. ASSUME NEW j \in S, ~(i <= j) PROVE FALSE
    <2>1. j \in Nat /\ i \in Nat /\ j < i
      BY <1>3
    <2>2. <<j, i>> \in OpToRel(<, Nat)
      BY <2>1 DEF OpToRel
    <2> QED BY <1>2, <2>2
  <1> QED BY <1>2, <1>3

LEMMA HasGreatest ==
    ASSUME NEW n \in Nat, NEW S, S \subseteq 0..n, S # {}
    PROVE \E i \in S : \A j \in S : j <= i
  <1> DEFINE T == {n - i : i \in S}
  <1>1. T \subseteq Nat /\ T # {}
    <2>1. PICK i \in S : TRUE
      OBVIOUS
    <2>2. n - i \in T
      BY <2>1
    <2>3. ASSUME NEW t \in T PROVE t \in Nat
      <3>1. PICK j \in S : t = n - j
        BY <2>3
      <3>2. j \in 0..n
        OBVIOUS
      <3> QED BY <3>1, <3>2
    <2> QED BY <2>2, <2>3
  <1>2. PICK t \in T : \A u \in T : t <= u
    BY <1>1, HasLeast
  <1>3. PICK i \in S : t = n - i
    BY <1>2
  <1>4. ASSUME NEW j \in S PROVE j <= i
    <2>1. n - i <= n - j
      BY <1>2, <1>3
    <2> QED BY <2>1
  <1> QED BY <1>4

LEMMA EnsureCurrentIs ==
    ASSUME NEW q \in Players, InRange(q), Fits(q)
    PROVE LET r == EnsureCurrent(q) IN
          /\ r \in Players /\ Same(q, r)
          /\ r.loopCount = q.loopCount /\ r.timer = q.timer
          /\ \/ /\ r.state = "undefined" /\ r.currentLoopCount = q.currentLoopCount
                /\ Reversed(q) /\ r.cachedFrames = q.cachedFrames
                /\ Len(q.cachedFrames) <= r.current /\ r.current <= q.current
                /\ Usable(q, q.current) => q.currentFrameNumber < 0
             \/ /\ r.state = q.state /\ r.currentLoopCount = q.currentLoopCount
                /\ ~InRange(r) /\ r.current = (IF Reversed(q) THEN -1 ELSE Len(q.images))
                /\ r.currentFrameNumber = -1
                /\ r.cachedFrames = q.cachedFrames
                /\ ~Usable(q, q.current)
                /\ \A j \in 0..(Len(q.images) - 1) : Ahead(q, j) => ~Usable(q, j)
             \/ /\ r.state = q.state /\ AtFrame(r) /\ Ahead(q, r.current)
                /\ "IgnoreLastImageLoop" \in q.flags /\ "AllowNonLastImageLoop" \notin q.flags =>
                      r.currentLoopCount = 1
                /\ PlaceMade(q.flags, q.cachedFrames, r.cachedFrames, r.current)
                /\ \/ /\ r.current = q.current
                      /\ r.currentFrameNumber = q.currentFrameNumber
                   \/ ~Reversed(q) /\ r.currentFrameNumber = 0
                   \/ /\ Reversed(q) /\ r.current + 1 \in DOMAIN q.cachedFrames
                      /\ r.currentFrameNumber = Len(q.cachedFrames[r.current + 1]) - 1
                /\ Usable(q, q.current) =>
                      /\ r.current = q.current
                      /\ q.currentFrameNumber >= 0 => r.currentFrameNumber = q.currentFrameNumber
  <1> DEFINE last == Len(q.images) - 1
             ahead == {i \in 0..last : IF Reversed(q) THEN i <= q.current ELSE i >= q.current}
             usable == {i \in ahead : CacheMissing(At(q, i)) \/ CanInit(At(q, i))}
             Best(i) == \A j \in usable : IF Reversed(q) THEN j <= i ELSE i <= j
             nearest == CHOOSE i \in usable : Best(i)
             r == EnsureCurrent(q)
  <1>1. /\ last \in Nat /\ q.current \in 0..last /\ q.current \in ahead /\ last = Len(q.images) - 1
        /\ q.images \in Seq(Images)
    BY ImageIs
  <1>2. ASSUME usable # {}
        PROVE nearest \in usable /\ Best(nearest)
    <2>1. usable \subseteq 0..last /\ usable \subseteq Nat
      BY <1>1
    <2>2. \E i \in usable : Best(i)
      <3> HIDE DEF usable
      <3>1. CASE Reversed(q)
        BY <1>1, <1>2, <2>1, <3>1, HasGreatest
      <3>2. CASE ~Reversed(q)
        BY <1>2, <2>1, <3>2, HasLeast
      <3> QED BY <3>1, <3>2
    <2> HIDE DEF usable, Best
    <2> QED BY <2>2
  <1>3. r = IF usable = {} THEN At(q, IF Reversed(q) THEN -1 ELSE Len(q.images))
            ELSE InitCurrent(At(q, nearest))
    BY DEF EnsureCurrent
  <1>4. q.current \in usable <=> Usable(q, q.current)
    BY <1>1 DEF Usable
  <1> HIDE DEF nearest, Best
  <1>5. CASE usable = {}
    <2> DEFINE i == IF Reversed(q) THEN -1 ELSE Len(q.images)
    <2>1. r = At(q, i) /\ i \in Int /\ i # q.current /\ i \notin 0..last
      BY <1>1, <1>3, <1>5
    <2>5. i = IF Reversed(q) THEN -1 ELSE Len(q.images)
      OBVIOUS
    <2> HIDE DEF i, r
    <2>2. /\ r \in Players /\ Same(q, r) /\ r.current = i /\ r.cachedFrames = q.cachedFrames
          /\ r.currentFrameNumber = -1 /\ r.loopCount = q.loopCount /\ r.state = q.state
          /\ r.timer = q.timer /\ r.currentLoopCount = q.currentLoopCount
      BY <2>1, AtIs
    <2>3. ~InRange(r)
      BY <1>1, <2>1, <2>2 DEF InRange, Same
    <2>4. ~Usable(q, q.current) /\ \A j \in 0..last : Ahead(q, j) => ~Usable(q, j)
      BY <1>4, <1>5 DEF Ahead, Usable
    <2> QED BY <2>2, <2>3, <2>4, <2>5 DEF r
  <1>6. CASE usable # {}
    <2> DEFINE i == nearest
               a == At(q, i)
    <2>1. i \in usable /\ Best(i) /\ i \in 0..last /\ i \in Int /\ Ahead(q, i)
          /\ (CacheMissing(a) \/ CanInit(a)) /\ r = InitCurrent(a)
      BY <1>2, <1>3, <1>6 DEF Ahead
    <2>2. /\ a \in Players /\ Same(q, a) /\ a.current = i /\ a.cachedFrames = q.cachedFrames
          /\ a.currentFrameNumber = (IF i = q.current THEN q.currentFrameNumber ELSE -1)
          /\ a.loopCount = q.loopCount /\ a.state = q.state /\ a.timer = q.timer
          /\ a.currentLoopCount = q.currentLoopCount
      BY <2>1, AtIs
    <2>3. Usable(q, q.current) => i = q.current
      BY <1>1, <1>4, <2>1 DEF Best, Ahead
    <2> HIDE DEF a, i, usable
    <2>4. InRange(a) /\ Fits(a) /\ (Reversed(a) <=> Reversed(q))
      BY <2>1, <2>2 DEF InRange, Fits, Reversed, Same
    <2>5. CASE CacheMissing(a)
      <3>1. r = [a EXCEPT !.state = "undefined"]
        BY <2>1, <2>5 DEF InitCurrent, Undefined
      <3>2. /\ r \in Players /\ Same(a, r) /\ r.loopCount = a.loopCount /\ r.timer = a.timer
            /\ r.state = "undefined" /\ r.currentLoopCount = a.currentLoopCount
            /\ r.cachedFrames = a.cachedFrames /\ r.current = a.current
        BY <2>2, <3>1 DEF Players, Same
      <3>3. Reversed(q) /\ Len(a.cachedFrames) <= a.current
              /\ a.currentFrameNumber < 0
        BY <2>2, <2>4, <2>5 DEF CacheMissing, Players
      <3> HIDE DEF r
      <3> QED BY <2>1, <2>2, <2>3, <3>2, <3>3 DEF Same, Ahead, r
    <2>6. CASE ~CacheMissing(a)
      <3>1. CanInit(a)
        BY <2>1, <2>6
      <3>2. /\ r \in Players /\ Same(a, r) /\ AtFrame(r) /\ r.current = i
            /\ r.currentFrameNumber = FirstFrame(a)
            /\ PlaceMade(q.flags, q.cachedFrames, r.cachedFrames, i)
            /\ r.loopCount = q.loopCount /\ r.state = q.state /\ r.timer = q.timer
            /\ "IgnoreLastImageLoop" \in q.flags /\ "AllowNonLastImageLoop" \notin q.flags =>
                  r.currentLoopCount = 1
        BY <2>1, <2>2, <2>4, <2>6, <3>1, InitCurrentIs DEF Same
      <3>3. /\ FirstFrame(a) \in Nat
            /\ \/ FirstFrame(a) = a.currentFrameNumber
               \/ a.currentFrameNumber < 0 /\ ~Reversed(q) /\ FirstFrame(a) = 0
               \/ /\ a.currentFrameNumber < 0 /\ Reversed(q) /\ i + 1 \in DOMAIN q.cachedFrames
                  /\ FirstFrame(a) = Len(q.cachedFrames[i + 1]) - 1
        BY <2>2, <2>4, <2>6, <3>1, FirstFrameIs
      <3> HIDE DEF r
      <3>4. /\ \/ i = q.current /\ FirstFrame(a) = q.currentFrameNumber
               \/ ~Reversed(q) /\ FirstFrame(a) = 0
               \/ /\ Reversed(q) /\ i + 1 \in DOMAIN q.cachedFrames
                  /\ FirstFrame(a) = Len(q.cachedFrames[i + 1]) - 1
            /\ Usable(q, q.current) =>
                  /\ i = q.current
                  /\ q.currentFrameNumber >= 0 => FirstFrame(a) = q.currentFrameNumber
        BY <2>2, <2>3, <3>3 DEF Players
      <3> QED BY <2>1, <2>2, <3>2, <3>4 DEF Same, r
    <2> QED BY <2>5, <2>6
  <1> QED BY <1>5, <1>6

LEMMA CompletedIs ==
    ASSUME NEW q \in Players, NEW i \in Images, NEW s \in Seq(Shots), Len(s) <= Frames[i]
    PROVE LET t == s \o FramesFrom(q, i, Len(s)) IN
          /\ t \in Seq(Shots) /\ Len(t) = Frames[i]
          /\ \A k \in 1..Len(t) : \/ k \in 1..Len(s) /\ t[k] = s[k]
                                 \/ t[k] = Shot(i, k - 1, q.palette)
  <1> DEFINE n == Len(s)
             m == Frames[i] - n
             u == FramesFrom(q, i, n)
             t == s \o u
  <1>1. n \in Nat /\ Frames[i] \in Nat /\ m \in Nat /\ q.palette \in Palettes
    BY ImagesAssumption DEF Players
  <1>2. u = [k \in 1..m |-> Shot(i, n + k - 1, q.palette)]
    <2>1. (IF n < Frames[i] THEN Frames[i] - n ELSE 0) = m
      BY <1>1
    <2> QED BY <2>1 DEF FramesFrom
  <1>3. \A k \in 1..m : Shot(i, n + k - 1, q.palette) \in Shots
    BY <1>1 DEF Shot, Shots
  <1> HIDE DEF u
  <1>4. u \in Seq(Shots) /\ Len(u) = m /\ \A k \in 1..m : u[k] = Shot(i, n + k - 1, q.palette)
    BY <1>1, <1>2, <1>3
  <1>5. t \in Seq(Shots) /\ Len(t) = n + m
    BY <1>4
  <1>6. ASSUME NEW k \in 1..Len(t), ~(k \in 1..n)
        PROVE t[k] = Shot(i, k - 1, q.palette)
    <2>1. k - n \in 1..m /\ t[k] = u[k - n]
      BY <1>1, <1>4, <1>5, <1>6
    <2>2. n + (k - n) - 1 = k - 1
      BY <1>1, <2>1
    <2> QED BY <1>4, <2>1, <2>2
  <1>7. ASSUME NEW k \in 1..Len(t), k \in 1..n
        PROVE t[k] = s[k]
    BY <1>4, <1>7
  <1>8. n + m = Frames[i]
    BY <1>1
  <1> QED BY <1>5, <1>6, <1>7, <1>8 DEF u

LEMMA FillCacheIs ==
    ASSUME NEW q \in Players, Fits(q), NEW S \in SUBSET Int
    PROVE LET r == FillCache(q, S) IN
          /\ r \in Players /\ Same(q, r)
          /\ \A i \in S : i + 1 \in 1..Len(q.images) =>
                Len(r.cachedFrames[i + 1]) = Frames[q.images[i + 1]]
          /\ r.current = q.current /\ r.currentFrameNumber = q.currentFrameNumber
          /\ r.loopCount = q.loopCount /\ r.currentLoopCount = q.currentLoopCount
          /\ r.state = q.state /\ r.timer = q.timer
          /\ Fits(r) /\ Filled(q, r) /\ Len(r.cachedFrames) = Len(q.images)
  <1> DEFINE N == Len(q.images)
             c == q.cachedFrames
             cached(j) == IF j \in DOMAIN c THEN c[j] ELSE <<>>
             slot(j) == IF j - 1 \in S THEN cached(j) \o FramesFrom(q, q.images[j], Len(cached(j)))
                        ELSE cached(j)
             c2 == [j \in 1..N |-> slot(j)]
             number == [i \in Images |->
                           IF Animated(i) /\ \E k \in S : q.images[k + 1] = i
                           THEN Frames[i] - 1 ELSE q.number[i]]
             a == [q EXCEPT !.cachedFrames = c2]
             r == [a EXCEPT !.number = number]
  <1>1. /\ q.images \in Seq(Images) /\ N \in Nat /\ c \in Seq(Seq(Shots)) /\ Len(c) <= N
        /\ q.number \in [Images -> Nat]
    BY DEF Players, Fits
  <1>2. FillCache(q, S) = r
    BY DEF FillCache
  <1>3. number \in [Images -> Nat]
    <2>1. ASSUME NEW i \in Images, Animated(i) PROVE Frames[i] - 1 \in Nat
      BY <2>1, ImagesAssumption DEF Animated
    <2> QED BY <1>1, <2>1
  <1>4. ASSUME NEW j \in 1..N
        PROVE /\ slot(j) \in Seq(Shots) /\ Len(slot(j)) <= Frames[q.images[j]]
              /\ j - 1 \in S => Len(slot(j)) = Frames[q.images[j]]
              /\ \A n \in 1..Len(slot(j)) :
                    \/ j \in DOMAIN c /\ n \in DOMAIN c[j] /\ slot(j)[n] = c[j][n]
                    \/ slot(j)[n] = Shot(q.images[j], n - 1, q.palette)
    <2> DEFINE i == q.images[j]
               s == cached(j)
    <2>1. i \in Images /\ Frames[i] \in Nat
      BY <1>1, ImagesAssumption
    <2>2. /\ s \in Seq(Shots) /\ Len(s) <= Frames[i]
          /\ \A n \in 1..Len(s) : j \in DOMAIN c /\ n \in DOMAIN c[j] /\ s[n] = c[j][n]
      <3>1. CASE j \in DOMAIN c
        <4>1. s = c[j] /\ c[j] \in Seq(Shots) /\ Len(c[j]) <= Frames[i]
          BY <1>1, <3>1 DEF Fits
        <4>2. DOMAIN c[j] = 1..Len(c[j])
          BY <4>1
        <4> QED BY <3>1, <4>1, <4>2
      <3>2. CASE j \notin DOMAIN c
        <4>1. s = <<>>
          BY <3>2
        <4>2. <<>> \in Seq(Shots) /\ Len(<<>>) = 0
          OBVIOUS
        <4> HIDE DEF s
        <4> QED BY <2>1, <4>1, <4>2
      <3> QED BY <3>1, <3>2
    <2>3. slot(j) = IF j - 1 \in S THEN s \o FramesFrom(q, i, Len(s)) ELSE s
      OBVIOUS
    <2> HIDE DEF slot, s, i, c
    <2>4. CASE j - 1 \in S
      <3> DEFINE t == s \o FramesFrom(q, i, Len(s))
      <3>1. /\ t \in Seq(Shots) /\ Len(t) = Frames[i]
            /\ \A k \in 1..Len(t) : \/ k \in 1..Len(s) /\ t[k] = s[k]
                                   \/ t[k] = Shot(i, k - 1, q.palette)
        BY <2>1, <2>2, CompletedIs
      <3>2. slot(j) = t
        BY <2>3, <2>4
      <3> HIDE DEF t
      <3> QED BY <2>1, <2>2, <3>1, <3>2 DEF i
    <2>5. CASE j - 1 \notin S
      BY <2>2, <2>3, <2>5 DEF i
    <2> QED BY <2>4, <2>5
  <1> HIDE DEF slot, c, N
  <1>5. c2 \in Seq(Seq(Shots)) /\ Len(c2) = N /\ DOMAIN c2 = 1..N /\ \A j \in 1..N : c2[j] = slot(j)
    BY <1>1, <1>4
  <1> HIDE DEF c2, number
  <1>6. /\ a \in Players /\ Same(q, a) /\ a.current = q.current
        /\ a.currentFrameNumber = q.currentFrameNumber
        /\ a.loopCount = q.loopCount /\ a.currentLoopCount = q.currentLoopCount
        /\ a.state = q.state /\ a.timer = q.timer /\ a.cachedFrames = c2
    BY <1>5 DEF Players, Same
  <1> HIDE DEF a
  <1>7. /\ r \in Players /\ Same(a, r) /\ r.current = a.current
        /\ r.currentFrameNumber = a.currentFrameNumber
        /\ r.loopCount = a.loopCount /\ r.currentLoopCount = a.currentLoopCount
        /\ r.state = a.state /\ r.timer = a.timer /\ r.cachedFrames = a.cachedFrames
    BY <1>3, <1>6 DEF Players, Same
  <1> HIDE DEF r
  <1>8. Same(q, r) /\ r.cachedFrames = c2 /\ r.images = q.images /\ r.palette = q.palette
    BY <1>6, <1>7 DEF Same
  <1>9. \A j \in 1..N : DOMAIN c2[j] = 1..Len(c2[j])
    BY <1>4, <1>5
  <1>10. Filled(q, r)
    BY <1>4, <1>5, <1>8, <1>9 DEF Filled, c
  <1>11. Fits(r)
    <2>1. ASSUME NEW j \in 1..N, NEW n \in DOMAIN c2[j] PROVE c2[j][n].image = q.images[j]
      <3>1. \/ j \in DOMAIN c /\ n \in DOMAIN c[j] /\ c2[j][n] = c[j][n]
            \/ c2[j][n] = Shot(q.images[j], n - 1, q.palette)
        BY <1>4, <1>5, <1>9
      <3> QED BY <3>1 DEF Fits, Shot, c
    <2> QED BY <1>1, <1>4, <1>5, <1>8, <2>1 DEF Fits, N
  <1>12. ASSUME NEW i \in S, i + 1 \in 1..N
         PROVE Len(r.cachedFrames[i + 1]) = Frames[q.images[i + 1]]
    <2>1. (i + 1) - 1 = i
      OBVIOUS
    <2>2. (i + 1) - 1 \in S
      BY <2>1
    <2> QED BY <1>4, <1>5, <1>8, <1>12, <2>2
  <1> QED BY <1>2, <1>5, <1>6, <1>7, <1>8, <1>10, <1>11, <1>12 DEF N

LEMMA FilledTrans ==
    ASSUME NEW q, NEW r, NEW t, Filled(q, r), Filled(r, t), t.images = r.images, t.palette = r.palette
    PROVE Filled(q, t)
  BY DEF Filled

(* The player's flags and place when an animation starts.                     *)
Begun(q, flags) ==
    [q EXCEPT !.flags = flags \cup (IF "InvertedOrder" \in flags THEN {"CacheAll"} ELSE {}),
              !.current = StartAt(q, flags)]
Prepared(s) == IF Reversed(s) THEN PrepareReversed(s) ELSE PrepareForward(s)

LEMMA BegunIs ==
    ASSUME NEW q \in Players, NEW flags \in SUBSET Flags
    PROVE LET s == Begun(q, flags) IN
          /\ s \in Players /\ s.images = q.images /\ s.palette = q.palette
          /\ s.userLoopCount = q.userLoopCount /\ s.cachedFrames = q.cachedFrames
          /\ s.currentFrameNumber = q.currentFrameNumber /\ s.state = q.state /\ s.timer = q.timer
          /\ s.loopCount = q.loopCount
          /\ s.flags = flags \cup (IF "InvertedOrder" \in flags THEN {"CacheAll"} ELSE {})
          /\ s.current = StartAt(q, flags)
  <1> DEFINE F == flags \cup (IF "InvertedOrder" \in flags THEN {"CacheAll"} ELSE {})
             a == [q EXCEPT !.flags = F]
             s == [a EXCEPT !.current = StartAt(q, flags)]
  <1>1. F \in SUBSET Flags
    BY DEF Flags
  <1>2. StartAt(q, flags) \in Int
    BY DEF StartAt, Players
  <1>3. s = Begun(q, flags)
    BY DEF Begun
  <1> HIDE DEF F
  <1>4. /\ a \in Players /\ a.images = q.images /\ a.palette = q.palette
        /\ a.userLoopCount = q.userLoopCount /\ a.cachedFrames = q.cachedFrames
        /\ a.currentFrameNumber = q.currentFrameNumber /\ a.state = q.state /\ a.timer = q.timer
        /\ a.loopCount = q.loopCount /\ a.flags = F
    BY <1>1 DEF Players
  <1> HIDE DEF a
  <1>5. /\ s \in Players /\ s.images = a.images /\ s.palette = a.palette
        /\ s.userLoopCount = a.userLoopCount /\ s.cachedFrames = a.cachedFrames
        /\ s.currentFrameNumber = a.currentFrameNumber /\ s.state = a.state /\ s.timer = a.timer
        /\ s.loopCount = a.loopCount /\ s.flags = a.flags
        /\ s.current = StartAt(q, flags)
    BY <1>2, <1>4 DEF Players
  <1> HIDE DEF s
  <1> QED BY <1>3, <1>4, <1>5 DEF F

LEMMA PreparedIs ==
    ASSUME NEW s \in Players, Fits(s), s.images # <<>>, s.current \in 0..Len(s.images),
           s.current = Len(s.images) => "Continue" \in s.flags,
           Reversed(s) => "CacheAll" \in s.flags,
           Reversed(s) /\ "Continue" \notin s.flags => s.current = Len(s.images) - 1
    PROVE LET t == Prepared(s) IN
          /\ t \in Players /\ Same(s, t) /\ t.timer = s.timer /\ t.loopCount = s.loopCount
          /\ Fits(t) /\ Filled(s, t)
          /\ \/ /\ t.state = "undefined" /\ s.current = Len(s.images) /\ t.current = s.current
                /\ t.cachedFrames = s.cachedFrames
             \/ /\ t.state = s.state
                /\ t.current = (IF "Continue" \in s.flags \/ Reversed(s) THEN s.current ELSE 0)
                /\ "Continue" \in s.flags => t.currentFrameNumber = s.currentFrameNumber
                /\ ~Reversed(s) /\ "Continue" \notin s.flags => t.currentFrameNumber = 0
                /\ \/ /\ t.cachedFrames = s.cachedFrames
                      /\ Reversed(s) => "Continue" \in s.flags /\ s.cachedFrames # <<>>
                      /\ \/ "CacheAll" \notin s.flags \/ s.cachedFrames # <<>>
                         \/ t.current <= 0 /\ t.currentFrameNumber <= 0
                   \/ /\ Len(t.cachedFrames) = Len(s.images) /\ InRange(t)
                      /\ "CacheAll" \in s.flags
                      /\ Reversed(s) \/ "Continue" \in s.flags
                      /\ Len(t.cachedFrames[t.current + 1]) = Frames[Image(t)]
  <1> DEFINE N == Len(s.images)
             c == s.cachedFrames
             t == Prepared(s)
  <1>1. s.images \in Seq(Images) /\ N \in Nat \ {0} /\ c \in Seq(Seq(Shots)) /\ Len(c) <= N
        /\ Len(c) \in Nat
    BY DEF Players, Fits
  <1>2. Filled(s, s)
    BY DEF Filled
  <1>3. ASSUME t = Undefined(s), s.current = N
        PROVE /\ t \in Players /\ Same(s, t) /\ t.timer = s.timer /\ t.loopCount = s.loopCount
              /\ Fits(t) /\ Filled(s, t) /\ t.state = "undefined" /\ t.current = s.current
              /\ t.cachedFrames = s.cachedFrames
    <2> HIDE DEF t
    <2>1. t = [s EXCEPT !.state = "undefined"]
      BY <1>3 DEF Undefined
    <2>2. /\ t \in Players /\ Same(s, t) /\ t.timer = s.timer /\ t.loopCount = s.loopCount
          /\ t.state = "undefined" /\ t.current = s.current /\ t.cachedFrames = s.cachedFrames
      BY <2>1 DEF Players, Same
    <2> QED BY <1>2, <2>2 DEF Fits, Filled, Same
  <1>4. CASE Reversed(s)
    <2>1. t = PrepareReversed(s)
      BY <1>4 DEF Prepared
    <2>2. CASE c = <<>>
      <3>1. Len(c) = 0
        BY <2>2
      <3>2. CASE s.current = N
        <4>1. t = Undefined(s)
          BY <1>1, <2>1, <3>1, <3>2 DEF PrepareReversed
        <4> HIDE DEF t
        <4> QED BY <1>3, <3>2, <4>1 DEF t
      <3>3. CASE s.current # N
        <4> DEFINE S == 0..s.current
        <4>1. t = FillCache(s, S)
          BY <1>1, <2>1, <3>1, <3>3 DEF PrepareReversed, Players
        <4>2. S \in SUBSET Int /\ s.current \in S /\ s.current \in Int /\ s.current + 1 \in 1..N
          BY <1>1, <3>3
        <4> HIDE DEF S, t
        <4>3. /\ t \in Players /\ Same(s, t) /\ t.timer = s.timer /\ t.loopCount = s.loopCount
              /\ t.current = s.current /\ t.currentFrameNumber = s.currentFrameNumber
              /\ t.state = s.state /\ Fits(t) /\ Filled(s, t) /\ Len(t.cachedFrames) = N
              /\ Len(t.cachedFrames[s.current + 1]) = Frames[s.images[s.current + 1]]
          BY <4>1, <4>2, FillCacheIs
        <4>4. InRange(t) /\ Image(t) = s.images[s.current + 1]
          BY <1>1, <3>3, <4>3 DEF InRange, Image, Same
        <4> QED BY <1>4, <4>3, <4>4 DEF t
      <3> QED BY <3>2, <3>3
    <2>3. CASE c # <<>> /\ "Continue" \in s.flags
      <3>1. t = s
        BY <1>1, <2>1, <2>3 DEF PrepareReversed
      <3> HIDE DEF t
      <3>2. Same(s, t)
        BY <3>1 DEF Same
      <3> QED BY <1>2, <1>4, <2>3, <3>1, <3>2 DEF t
    <2>4. CASE c # <<>> /\ "Continue" \notin s.flags
      <3> DEFINE S == (Len(c) - 1)..(N - 1)
                 u == FillCache(s, S)
                 n == Len(u.cachedFrames[u.current + 1]) - 1
      <3>1. t = [u EXCEPT !.currentFrameNumber = n]
        BY <1>1, <2>1, <2>4 DEF PrepareReversed
      <3>2. S \in SUBSET Int /\ s.current = N - 1 /\ s.current \in S /\ s.current + 1 \in 1..N
        BY <1>1, <1>4, <2>4
      <3> HIDE DEF S, t
      <3>3. /\ u \in Players /\ Same(s, u) /\ u.timer = s.timer /\ u.loopCount = s.loopCount
            /\ u.current = s.current
            /\ u.state = s.state /\ Fits(u) /\ Filled(s, u) /\ Len(u.cachedFrames) = N
            /\ Len(u.cachedFrames[s.current + 1]) = Frames[s.images[s.current + 1]]
        BY <3>2, FillCacheIs
      <3>4. n \in Int
        BY <1>1, <3>2, <3>3, ImagesAssumption
      <3> HIDE DEF u, n
      <3>5. /\ t \in Players /\ Same(u, t) /\ t.timer = u.timer /\ t.loopCount = u.loopCount
            /\ t.current = u.current /\ t.state = u.state /\ t.cachedFrames = u.cachedFrames
        BY <3>1, <3>3, <3>4 DEF Players, Same
      <3>6. InRange(t) /\ Image(t) = s.images[s.current + 1] /\ Fits(t) /\ Filled(s, t) /\ Same(s, t)
        BY <1>1, <3>2, <3>3, <3>5 DEF InRange, Image, Same, Fits, Filled
      <3> QED BY <1>4, <2>4, <3>2, <3>3, <3>5, <3>6 DEF t
    <2> QED BY <2>2, <2>3, <2>4
  <1>5. CASE ~Reversed(s)
    <2> DEFINE a == [s EXCEPT !.current = 0]
               b == [a EXCEPT !.currentFrameNumber = 0]
               u == IF "Continue" \in s.flags THEN s ELSE b
    <2>1. /\ u \in Players /\ Same(s, u) /\ u.timer = s.timer /\ u.loopCount = s.loopCount
          /\ u.state = s.state /\ u.cachedFrames = c
          /\ u.current = (IF "Continue" \in s.flags THEN s.current ELSE 0)
          /\ u.currentFrameNumber = (IF "Continue" \in s.flags THEN s.currentFrameNumber ELSE 0)
      <3>1. /\ a \in Players /\ Same(s, a) /\ a.timer = s.timer /\ a.loopCount = s.loopCount
            /\ a.state = s.state /\ a.cachedFrames = s.cachedFrames /\ a.current = 0
        <4>1. 0 \in Int
          OBVIOUS
        <4> QED BY <4>1 DEF Players, Same
      <3> HIDE DEF a
      <3>2. /\ b \in Players /\ Same(a, b) /\ b.timer = a.timer /\ b.loopCount = a.loopCount
            /\ b.state = a.state /\ b.cachedFrames = a.cachedFrames /\ b.current = a.current
            /\ b.currentFrameNumber = 0
        <4>1. 0 \in Int
          OBVIOUS
        <4> QED BY <3>1, <4>1 DEF Players, Same
      <3>3. Same(s, s)
        BY DEF Same
      <3> HIDE DEF b
      <3> QED BY <3>1, <3>2, <3>3 DEF Same
    <2>2. t = IF "CacheAll" \notin u.flags \/ u.cachedFrames # <<>>
                 \/ (u.current <= 0 /\ u.currentFrameNumber <= 0)
              THEN u ELSE IF InRange(u) THEN FillCache(u, {u.current}) ELSE Undefined(u)
      BY <1>5 DEF Prepared, PrepareForward
    <2>3. Fits(u) /\ Filled(s, u)
      BY <1>2, <2>1 DEF Fits, Filled, Same
    <2> HIDE DEF u, t
    <2>4. CASE "CacheAll" \notin u.flags \/ u.cachedFrames # <<>>
               \/ (u.current <= 0 /\ u.currentFrameNumber <= 0)
      <3>1. t = u
        BY <2>2, <2>4
      <3> QED BY <1>5, <2>1, <2>3, <2>4, <3>1 DEF t, Same
    <2>5. CASE ~("CacheAll" \notin u.flags \/ u.cachedFrames # <<>>
                 \/ (u.current <= 0 /\ u.currentFrameNumber <= 0))
      <3>1. "Continue" \in s.flags /\ "CacheAll" \in s.flags
        BY <2>1, <2>5 DEF Same
      <3>2. CASE InRange(u)
        <4> DEFINE S == {u.current}
        <4>1. t = FillCache(u, S)
          BY <2>2, <2>5, <3>2
        <4>2. S \in SUBSET Int /\ u.current \in S /\ u.current \in Int /\ u.current + 1 \in 1..N
          BY <2>1, <3>2, ImageIs DEF Same
        <4> HIDE DEF S
        <4>3. /\ t \in Players /\ Same(u, t) /\ t.timer = u.timer /\ t.loopCount = u.loopCount
              /\ t.current = u.current /\ t.currentFrameNumber = u.currentFrameNumber
              /\ t.state = u.state /\ Fits(t) /\ Filled(u, t) /\ Len(t.cachedFrames) = N
              /\ Len(t.cachedFrames[u.current + 1]) = Frames[u.images[u.current + 1]]
          BY <2>1, <2>3, <4>1, <4>2, FillCacheIs DEF Same
        <4>4. InRange(t) /\ Image(t) = u.images[u.current + 1] /\ Filled(s, t) /\ Same(s, t)
          BY <2>1, <2>3, <3>2, <4>3, FilledTrans DEF InRange, Image, Same
        <4> QED BY <1>5, <2>1, <3>1, <4>3, <4>4 DEF t
      <3>3. CASE ~InRange(u)
        <4>1. u.current = N /\ s.current = N
          BY <1>1, <2>1, <3>1, <3>3 DEF InRange, Same
        <4>2. t = [u EXCEPT !.state = "undefined"]
          BY <2>2, <2>5, <3>3 DEF Undefined
        <4>3. /\ t \in Players /\ Same(u, t) /\ t.timer = u.timer /\ t.loopCount = u.loopCount
              /\ t.state = "undefined" /\ t.current = u.current /\ t.cachedFrames = u.cachedFrames
          BY <2>1, <4>2 DEF Players, Same
        <4>4. Fits(t) /\ Filled(s, t) /\ Same(s, t)
          BY <2>1, <2>3, <4>3 DEF Fits, Filled, Same
        <4> QED BY <2>1, <4>1, <4>3, <4>4 DEF t
      <3> QED BY <3>2, <3>3
    <2> QED BY <2>4, <2>5
  <1> QED BY <1>4, <1>5

LEMMA OneMoreKeeps ==
    ASSUME NEW q \in Players, NEW r \in Players, Fits(q), r.images = q.images, r.palette = q.palette,
           NEW i \in Int, i < Len(q.images),
           r.cachedFrames = q.cachedFrames \/ OneMore(q.cachedFrames, r.cachedFrames, i)
    PROVE Fits(r) /\ Filled(q, r)
  <1> DEFINE c == q.cachedFrames
             c2 == r.cachedFrames
  <1>1. c \in Seq(Seq(Shots)) /\ c2 \in Seq(Seq(Shots)) /\ q.images \in Seq(Images)
    BY DEF Players
  <1>2. CASE c2 = c
    BY <1>2 DEF Fits, Filled
  <1>3. CASE OneMore(c, c2, i)
    <2>1. /\ Len(c) \in Nat /\ Len(c2) = Len(c) + 1 /\ Len(c2) <= Len(q.images)
          /\ c2[Len(c) + 1] = <<>> /\ \A j \in 1..Len(c) : c2[j] = c[j]
          /\ DOMAIN c2 = 1..Len(c2) /\ DOMAIN c = 1..Len(c)
      BY <1>1, <1>3 DEF OneMore
    <2>2. ASSUME NEW j \in DOMAIN c2
          PROVE \/ j \in DOMAIN c /\ c2[j] = c[j]
                \/ c2[j] = <<>> /\ Len(c2[j]) = 0 /\ DOMAIN c2[j] = {} /\ j \in 1..Len(q.images)
      <3>1. j \in 1..Len(c) \/ j = Len(c) + 1
        BY <2>1
      <3>2. Len(<<>>) = 0 /\ DOMAIN <<>> = {}
        OBVIOUS
      <3> QED BY <2>1, <3>1, <3>2
    <2>3. \A j \in 1..Len(q.images) : Frames[q.images[j]] \in Nat
      BY <1>1, ImagesAssumption
    <2>4. Fits(r)
      <3>1. ASSUME NEW j \in DOMAIN c2
            PROVE /\ Len(c2[j]) <= Frames[q.images[j]]
                  /\ \A n \in DOMAIN c2[j] : c2[j][n].image = q.images[j]
        <4>1. CASE j \in DOMAIN c /\ c2[j] = c[j]
          BY <4>1 DEF Fits
        <4>2. CASE Len(c2[j]) = 0 /\ DOMAIN c2[j] = {} /\ j \in 1..Len(q.images)
          <5>1. Frames[q.images[j]] \in Nat
            BY <2>3, <4>2
          <5> QED BY <4>2, <5>1
        <4> QED BY <2>2, <4>1, <4>2
      <3> QED BY <2>1, <3>1 DEF Fits
    <2>5. Filled(q, r)
      BY <2>2 DEF Filled
    <2> QED BY <2>4, <2>5
  <1> QED BY <1>2, <1>3

LEMMA UsableIs ==
    ASSUME NEW q \in Players, InRange(q), Fits(q)
    PROVE /\ q.currentFrameNumber \in 0..(Frames[Image(q)] - 1) => Usable(q, q.current)
          /\ ~Reversed(q) /\ q.currentFrameNumber \in {-1, 0} /\ Animated(Image(q)) =>
                Usable(q, q.current)
          /\ /\ Reversed(q) /\ q.currentFrameNumber < 0 /\ Animated(Image(q))
             /\ q.current + 1 \in DOMAIN q.cachedFrames => q.cachedFrames[q.current + 1] # <<>>
             => Usable(q, q.current)
  <1>1. At(q, q.current) = q
    BY DEF At
  <1>2. Frames[Image(q)] \in Nat /\ q.current \in Nat /\ q.currentFrameNumber \in Int
        /\ q.cachedFrames \in Seq(Seq(Shots)) /\ Image(q) = q.images[q.current + 1]
    BY ImageIs DEF Players
  <1>3. ASSUME q.currentFrameNumber \in 0..(Frames[Image(q)] - 1)
        PROVE Usable(q, q.current)
    <2>1. FirstFrame(q) = q.currentFrameNumber /\ Animated(Image(q))
      BY <1>2, <1>3 DEF FirstFrame, Animated
    <2> QED BY <1>1, <1>3, <2>1 DEF CanInit, Usable
  <1>4. ASSUME ~Reversed(q), q.currentFrameNumber \in {-1, 0}, Animated(Image(q))
        PROVE Usable(q, q.current)
    <2>1. FirstFrame(q) = 0
      BY <1>2, <1>4 DEF FirstFrame
    <2>2. 0 \in 0..(Frames[Image(q)] - 1)
      BY <1>2, <1>4 DEF Animated
    <2> QED BY <1>1, <1>4, <2>1, <2>2 DEF CanInit, Usable
  <1>5. ASSUME Reversed(q), q.currentFrameNumber < 0, Animated(Image(q)),
               q.current + 1 \in DOMAIN q.cachedFrames => q.cachedFrames[q.current + 1] # <<>>
        PROVE Usable(q, q.current)
    <2> DEFINE k == q.current + 1
               c == q.cachedFrames
    <2>1. CASE k \in DOMAIN c
      <3>1. c[k] \in Seq(Shots) /\ c[k] # <<>> /\ Len(c[k]) <= Frames[Image(q)]
        BY <1>2, <1>5, <2>1 DEF Fits
      <3>2. Len(c[k]) - 1 \in 0..(Frames[Image(q)] - 1)
        <4>1. Len(c[k]) \in Nat \ {0}
          BY <3>1
        <4> HIDE DEF c, k
        <4> QED BY <1>2, <3>1, <4>1
      <3>3. FirstFrame(q) = Len(c[k]) - 1
        BY <1>2, <1>5 DEF FirstFrame
      <3> QED BY <1>1, <1>5, <3>2, <3>3 DEF CanInit, Usable
    <2>2. CASE k \notin DOMAIN c
      <3>1. q.current >= Len(c)
        BY <1>2, <2>2
      <3> QED BY <1>1, <1>5, <3>1 DEF CacheMissing, Usable
    <2> QED BY <2>1, <2>2
  <1> QED BY <1>3, <1>4, <1>5

SomeStill(q) == \E j \in DOMAIN q.images : ~Animated(q.images[j])

(* Where the player q can be when an animation begins or ends.                *)
Placed(q) ==
    /\ q.current \in -1..Len(q.images)
    /\ InRange(q) => q.currentFrameNumber \in 0..(Frames[Image(q)] - 1)
    /\ q.current < 0 => q.currentFrameNumber = -1

(* What start makes of q: it fails, it finds nothing to play, or it plays.    *)
StartFails(q, r, flags) ==
    /\ r.state = "undefined" /\ r.loopCount \in {q.loopCount, q.userLoopCount}
    /\ "Continue" \in flags /\ ~InRange(q)
    /\ \/ q.current = Len(q.images)
       \/ q.cachedFrames # <<>> /\ Len(q.cachedFrames) < Len(q.images)

StartIdles(q, r) ==
    /\ r.state = "NotRunning" /\ ~InRange(r) /\ r.loopCount \in {q.loopCount, q.userLoopCount}
    /\ r.current < 0 => r.currentFrameNumber = -1
    /\ r.current = Len(q.images) => q.current = Len(q.images) \/ SomeStill(q)
    /\ \/ SomeStill(q)
       \/ Len(r.cachedFrames) = Len(q.images)
       \/ r.cachedFrames = q.cachedFrames /\ ~InRange(q)

StartPlays(q, r, flags) ==
    /\ r.state = "WaitingRead" /\ AtFrame(r) /\ r.loopCount = q.userLoopCount
    /\ "Continue" \in flags /\ InRange(q) =>
          r.current = q.current /\ r.currentFrameNumber = q.currentFrameNumber
    /\ \/ r.currentFrameNumber = 0
       \/ r.cachedFrames = <<>>
       \/ /\ r.current + 1 \in DOMAIN r.cachedFrames
          /\ r.currentFrameNumber < Len(r.cachedFrames[r.current + 1])
       \/ /\ InRange(q) /\ r.current = q.current /\ r.currentFrameNumber = q.currentFrameNumber
          /\ q.cachedFrames # <<>>
          /\ r.cachedFrames = q.cachedFrames \/ OneMore(q.cachedFrames, r.cachedFrames, r.current)
    /\ \/ SomeStill(q) \/ Len(r.cachedFrames) = Len(q.images) \/ r.cachedFrames = <<>>
       \/ q.cachedFrames = <<>> /\ r.current = 0 /\ Len(r.cachedFrames) = 1
       \/ /\ q.cachedFrames # <<>>
          /\ InRange(q) =>
                /\ r.current \in {0, q.current}
                /\ \/ r.cachedFrames = q.cachedFrames
                   \/ OneMore(q.cachedFrames, r.cachedFrames, r.current)

LEMMA StartIs ==
    ASSUME NEW q \in Players, NEW flags \in SUBSET Flags, q.state = "NotRunning", q.images # <<>>,
           Placed(q), Fits(q)
    PROVE LET r == Start(q, flags) IN
          /\ r \in Players /\ r.images = q.images /\ r.palette = q.palette
          /\ r.userLoopCount = q.userLoopCount /\ r.timer = q.timer
          /\ r.flags = flags \cup (IF "InvertedOrder" \in flags THEN {"CacheAll"} ELSE {})
          /\ Fits(r) /\ Filled(q, r) /\ r.current \in -1..Len(r.images)
          /\ Len(q.cachedFrames) <= Len(r.cachedFrames)
          /\ r.cachedFrames # q.cachedFrames => "CacheAll" \in r.flags
          /\ StartFails(q, r, flags) \/ StartIdles(q, r) \/ StartPlays(q, r, flags)
  <1> DEFINE N == Len(q.images)
             F == flags \cup (IF "InvertedOrder" \in flags THEN {"CacheAll"} ELSE {})
             s == Begun(q, flags)
             t == Prepared(s)
             u == [t EXCEPT !.loopCount = t.userLoopCount]
             e == EnsureCurrent(u)
             w == [e EXCEPT !.state = "WaitingRead"]
             r == Start(q, flags)
  <1>1. q.images \in Seq(Images) /\ N \in Nat \ {0} /\ q.cachedFrames \in Seq(Seq(Shots))
        /\ q.current \in -1..N
    BY DEF Players, Placed
  <1>2. r = IF t.state = "undefined" THEN t
            ELSE IF e.state = "undefined" \/ ~InRange(e) THEN e ELSE w
    BY DEF Start, Begun, Prepared
  <1>3. /\ s \in Players /\ s.images = q.images /\ s.palette = q.palette
        /\ s.userLoopCount = q.userLoopCount /\ s.cachedFrames = q.cachedFrames
        /\ s.currentFrameNumber = q.currentFrameNumber /\ s.state = "NotRunning"
        /\ s.timer = q.timer /\ s.loopCount = q.loopCount /\ s.flags = F
        /\ s.current = StartAt(q, flags)
    BY BegunIs
  <1> HIDE DEF s
  <1>4. /\ Reversed(s) <=> "InvertedOrder" \in flags
        /\ "Continue" \in F <=> "Continue" \in flags
        /\ Reversed(s) => "CacheAll" \in F
    BY <1>3 DEF Reversed
  <1>5. /\ s.current \in 0..N
        /\ s.current = N => "Continue" \in flags /\ q.current = N
        /\ Reversed(s) /\ "Continue" \notin flags => s.current = N - 1
        /\ "Continue" \in flags /\ q.current >= 0 => s.current = q.current
        /\ "Continue" \in flags /\ q.current < 0 /\ ~Reversed(s) => s.current = 0
    BY <1>1, <1>3, <1>4 DEF StartAt
  <1>6. Fits(s) /\ Filled(q, s)
    BY <1>3 DEF Fits, Filled
  <1>7. /\ t \in Players /\ Same(s, t) /\ t.timer = s.timer /\ t.loopCount = s.loopCount
        /\ Fits(t) /\ Filled(s, t)
        /\ \/ /\ t.state = "undefined" /\ s.current = N /\ t.current = s.current
              /\ t.cachedFrames = s.cachedFrames
           \/ /\ t.state = "NotRunning"
              /\ t.current = (IF "Continue" \in F \/ Reversed(s) THEN s.current ELSE 0)
              /\ "Continue" \in F => t.currentFrameNumber = s.currentFrameNumber
              /\ ~Reversed(s) /\ "Continue" \notin F => t.currentFrameNumber = 0
              /\ \/ /\ t.cachedFrames = s.cachedFrames
                    /\ Reversed(s) => "Continue" \in F /\ s.cachedFrames # <<>>
                    /\ \/ "CacheAll" \notin F \/ s.cachedFrames # <<>>
                       \/ t.current <= 0 /\ t.currentFrameNumber <= 0
                 \/ /\ Len(t.cachedFrames) = N /\ InRange(t) /\ "CacheAll" \in F
                    /\ Reversed(s) \/ "Continue" \in F
                    /\ Len(t.cachedFrames[t.current + 1]) = Frames[Image(t)]
    BY <1>3, <1>4, <1>5, <1>6, PreparedIs
  <1>14. /\ Len(q.cachedFrames) <= Len(t.cachedFrames) /\ Len(t.cachedFrames) \in Nat
         /\ t.cachedFrames # q.cachedFrames => "CacheAll" \in F
    <2>1. t.cachedFrames \in Seq(Seq(Shots)) /\ Len(q.cachedFrames) <= N
      BY <1>7 DEF Players, Fits
    <2>2. \/ t.cachedFrames = q.cachedFrames
          \/ Len(t.cachedFrames) = N /\ "CacheAll" \in F
      BY <1>3, <1>7
    <2> QED BY <1>1, <2>1, <2>2
  <1> HIDE DEF t, F
  <1>8. /\ t.images = q.images /\ t.palette = q.palette /\ t.userLoopCount = q.userLoopCount
        /\ t.flags = F /\ t.timer = q.timer /\ Filled(q, t) /\ t.loopCount = q.loopCount
    BY <1>3, <1>6, <1>7, FilledTrans DEF Same
  <1>9. /\ u \in Players /\ Same(t, u) /\ u.timer = t.timer /\ u.state = t.state
        /\ u.cachedFrames = t.cachedFrames /\ u.current = t.current
        /\ u.currentFrameNumber = t.currentFrameNumber /\ u.loopCount = q.userLoopCount
    <2>1. t.userLoopCount \in Int
      BY <1>7 DEF Players
    <2> QED BY <1>7, <1>8, <2>1 DEF Players, Same
  <1> HIDE DEF u
  <1>10. /\ Fits(u) /\ Filled(q, u) /\ (InRange(u) <=> InRange(t)) /\ Image(u) = Image(t)
         /\ (Reversed(u) <=> Reversed(s)) /\ u.images = q.images /\ u.palette = q.palette
         /\ u.flags = F /\ u.userLoopCount = q.userLoopCount
    BY <1>3, <1>7, <1>8, <1>9 DEF Fits, Filled, Same, InRange, Image, Reversed
  <1>11. CASE t.state = "undefined"
    <2>1. r = t
      BY <1>2, <1>11
    <2>2. StartFails(q, t, flags)
      BY <1>1, <1>5, <1>7, <1>8, <1>11 DEF StartFails, InRange
    <2>3. t.current \in -1..Len(t.images)
      BY <1>1, <1>5, <1>7, <1>8, <1>11
    <2> HIDE DEF r
    <2> QED BY <1>7, <1>8, <1>14, <2>1, <2>2, <2>3 DEF r, F
  <1>12. CASE t.state = "NotRunning" /\ ~InRange(u)
    <2>1. e = u /\ r = u
      <3>1. e = u
        BY <1>12 DEF EnsureCurrent
      <3> QED BY <1>2, <1>9, <1>12, <3>1
    <2>2. u.current = N /\ q.current = N /\ ~InRange(q) /\ u.cachedFrames = q.cachedFrames
      BY <1>1, <1>3, <1>5, <1>7, <1>9, <1>10, <1>12 DEF InRange
    <2>3. StartIdles(q, u)
      BY <1>1, <1>9, <1>12, <2>2 DEF StartIdles
    <2>4. u.current \in -1..Len(u.images)
      BY <1>1, <1>10, <2>2
    <2> HIDE DEF r, e
    <2> QED BY <1>8, <1>9, <1>10, <1>14, <2>1, <2>3, <2>4 DEF r, F
  <1>13. CASE t.state = "NotRunning" /\ InRange(u)
    <2>1. /\ u.current \in Nat /\ u.current < N /\ u.current + 1 \in DOMAIN q.images
          /\ Image(u) = q.images[u.current + 1] /\ Frames[Image(u)] \in Nat
          /\ u.currentFrameNumber \in Int
      <3>1. /\ u.current \in Nat /\ u.current < N /\ Frames[Image(u)] \in Nat
            /\ Image(u) = q.images[u.current + 1]
        BY <1>9, <1>10, <1>13, ImageIs
      <3>2. u.current + 1 \in DOMAIN q.images
        BY <1>1, <3>1
      <3>3. u.currentFrameNumber \in Int
        BY <1>9 DEF Players
      <3> QED BY <3>1, <3>2, <3>3
    (* An image to go on with can be played.                                  *)
    <2>2. /\ ~Reversed(s) => u.currentFrameNumber \in {-1, 0} \/ Usable(u, u.current)
          /\ "Continue" \in flags /\ InRange(q) =>
                /\ Usable(u, u.current) /\ u.current = q.current
                /\ u.currentFrameNumber = q.currentFrameNumber /\ u.currentFrameNumber >= 0
      <3>1. ASSUME "Continue" \in flags, q.current >= 0
            PROVE /\ Usable(u, u.current) /\ u.current = q.current
                  /\ u.currentFrameNumber = q.currentFrameNumber /\ u.currentFrameNumber >= 0
        <4>1. u.current = q.current /\ u.currentFrameNumber = q.currentFrameNumber
          BY <1>3, <1>4, <1>5, <1>7, <1>9, <1>13, <3>1
        <4>2. InRange(q) /\ Image(q) = Image(u)
          BY <1>10, <1>13, <4>1 DEF InRange, Image
        <4>3. u.currentFrameNumber \in 0..(Frames[Image(u)] - 1)
          BY <4>1, <4>2 DEF Placed
        <4> QED BY <1>9, <1>10, <1>13, <2>1, <4>1, <4>3, UsableIs
      <3>2. ASSUME ~Reversed(s), ~("Continue" \in flags /\ q.current >= 0)
            PROVE u.currentFrameNumber \in {-1, 0}
        BY <1>1, <1>3, <1>4, <1>7, <1>9, <1>13, <3>2 DEF Placed
      <3> QED BY <3>1, <3>2 DEF InRange
    <2>3. ~Reversed(s) => SomeStill(q) \/ Usable(u, u.current)
      BY <1>9, <1>10, <1>13, <2>1, <2>2, UsableIs DEF SomeStill
    <2>4. /\ e \in Players /\ Same(u, e)
          /\ e.loopCount = u.loopCount /\ e.timer = u.timer
          /\ \/ /\ e.state = "undefined"
                /\ Reversed(u) /\ e.cachedFrames = u.cachedFrames
                /\ Len(u.cachedFrames) <= e.current /\ e.current <= u.current
                /\ Usable(u, u.current) => u.currentFrameNumber < 0
             \/ /\ e.state = u.state
                /\ ~InRange(e) /\ e.current = (IF Reversed(u) THEN -1 ELSE Len(u.images))
                /\ e.currentFrameNumber = -1
                /\ e.cachedFrames = u.cachedFrames
                /\ ~Usable(u, u.current)
             \/ /\ e.state = u.state /\ AtFrame(e)
                /\ \/ e.cachedFrames = u.cachedFrames
                   \/ /\ "CacheAll" \in u.flags
                      /\ OneMore(u.cachedFrames, e.cachedFrames, e.current)
                /\ \/ /\ e.current = u.current
                      /\ e.currentFrameNumber = u.currentFrameNumber
                   \/ ~Reversed(u) /\ e.currentFrameNumber = 0
                   \/ /\ Reversed(u) /\ e.current + 1 \in DOMAIN u.cachedFrames
                      /\ e.currentFrameNumber = Len(u.cachedFrames[e.current + 1]) - 1
                /\ Usable(u, u.current) =>
                      /\ e.current = u.current
                      /\ u.currentFrameNumber >= 0 => e.currentFrameNumber = u.currentFrameNumber
      BY <1>9, <1>10, <1>13, EnsureCurrentIs DEF PlaceMade
    <2> HIDE DEF e
    <2>5. /\ e.images = q.images /\ e.palette = q.palette /\ e.flags = F
          /\ e.userLoopCount = q.userLoopCount /\ e.timer = q.timer /\ e.loopCount = q.userLoopCount
          /\ u.cachedFrames \in Seq(Seq(Shots)) /\ Len(u.cachedFrames) \in Nat /\ e.current \in Int
      <3>1. /\ e.images = q.images /\ e.palette = q.palette /\ e.flags = F
            /\ e.userLoopCount = q.userLoopCount /\ e.timer = q.timer /\ e.loopCount = q.userLoopCount
        BY <1>8, <1>9, <1>10, <2>4 DEF Same
      <3>2. u.cachedFrames \in Seq(Seq(Shots)) /\ e.current \in Int
        BY <1>9, <1>10, <2>4 DEF Players
      <3> QED BY <3>1, <3>2
    (* What the cache of u is.                                                *)
    <2>6. \/ /\ u.cachedFrames = q.cachedFrames
             /\ Reversed(s) => "Continue" \in flags /\ q.cachedFrames # <<>>
             /\ \/ "CacheAll" \notin F \/ q.cachedFrames # <<>>
                \/ u.current = 0 /\ u.currentFrameNumber <= 0
          \/ /\ Len(u.cachedFrames) = N
             /\ Reversed(s) \/ "Continue" \in flags
             /\ Len(u.cachedFrames[u.current + 1]) = Frames[Image(u)]
      BY <1>3, <1>4, <1>7, <1>9, <1>10, <1>13, <2>1
    <2>7. CASE e.state = "undefined"
      <3>1. r = e
        BY <1>2, <1>13, <2>7
      <3>2. /\ Reversed(s) /\ Len(u.cachedFrames) <= e.current /\ e.current <= u.current
            /\ e.cachedFrames = u.cachedFrames
            /\ Usable(u, u.current) => u.currentFrameNumber < 0
        BY <1>9, <1>10, <1>13, <2>4, <2>7
      <3>3. /\ u.cachedFrames = q.cachedFrames /\ "Continue" \in flags /\ q.cachedFrames # <<>>
            /\ Len(q.cachedFrames) < N /\ e.current \in -1..N
        BY <1>1, <2>1, <2>5, <2>6, <3>2
      <3>4. ~InRange(q)
        BY <2>1, <2>2, <3>2, <3>3
      <3>5. StartFails(q, e, flags)
        BY <2>5, <2>7, <3>3, <3>4 DEF StartFails
      <3>6. Fits(e) /\ Filled(q, e)
        BY <1>10, <2>5, <3>2 DEF Fits, Filled
      <3> HIDE DEF r
      <3>7. /\ Len(q.cachedFrames) <= Len(e.cachedFrames)
            /\ e.cachedFrames # q.cachedFrames => "CacheAll" \in F
        BY <1>9, <1>14, <3>2
      <3> QED BY <2>4, <2>5, <3>1, <3>3, <3>5, <3>6, <3>7 DEF r, F
    <2>8. CASE e.state # "undefined" /\ ~InRange(e)
      <3>1. r = e
        BY <1>2, <1>13, <2>8
      <3>2. /\ e.state = "NotRunning" /\ e.current = (IF Reversed(s) THEN -1 ELSE N)
            /\ e.currentFrameNumber = -1 /\ e.cachedFrames = u.cachedFrames /\ ~Usable(u, u.current)
        BY <1>9, <1>10, <1>13, <2>4, <2>8 DEF AtFrame, HasFrame
      <3>3. ~Reversed(s) => SomeStill(q)
        BY <2>3, <3>2
      <3>4. \/ SomeStill(q) \/ Len(e.cachedFrames) = N
            \/ e.cachedFrames = q.cachedFrames /\ ~InRange(q)
        BY <2>2, <2>6, <3>2, <3>3
      <3>5. StartIdles(q, e)
        BY <1>1, <2>5, <2>8, <3>2, <3>3, <3>4 DEF StartIdles
      <3>6. Fits(e) /\ Filled(q, e) /\ e.current \in -1..N
        BY <1>1, <1>10, <2>5, <3>2 DEF Fits, Filled
      <3> HIDE DEF r
      <3>7. /\ Len(q.cachedFrames) <= Len(e.cachedFrames)
            /\ e.cachedFrames # q.cachedFrames => "CacheAll" \in F
        BY <1>9, <1>14, <3>2
      <3> QED BY <2>4, <2>5, <3>1, <3>5, <3>6, <3>7 DEF r, F
    <2>9. CASE e.state # "undefined" /\ InRange(e)
      <3>1. r = w
        BY <1>2, <1>13, <2>9
      <3> DEFINE c == u.cachedFrames
                 c2 == e.cachedFrames
                 k == e.current + 1
      <3>2. /\ AtFrame(e)
            /\ \/ c2 = c
               \/ "CacheAll" \in F /\ OneMore(c, c2, e.current)
            /\ \/ e.current = u.current /\ e.currentFrameNumber = u.currentFrameNumber
               \/ ~Reversed(s) /\ e.currentFrameNumber = 0
               \/ /\ Reversed(s) /\ k \in DOMAIN c
                  /\ e.currentFrameNumber = Len(c[k]) - 1
            /\ Usable(u, u.current) =>
                  /\ e.current = u.current
                  /\ u.currentFrameNumber >= 0 => e.currentFrameNumber = u.currentFrameNumber
        BY <1>10, <2>4, <2>9
      <3>3. /\ w \in Players /\ Same(e, w) /\ w.timer = e.timer /\ w.state = "WaitingRead"
            /\ w.cachedFrames = c2 /\ w.current = e.current /\ w.loopCount = e.loopCount
            /\ w.currentFrameNumber = e.currentFrameNumber /\ w.number = e.number
        BY <2>4 DEF Players, Same
      <3> HIDE DEF w
      <3>4. /\ InRange(w) /\ Image(w) = Image(e) /\ AtFrame(w) /\ w.images = q.images
            /\ w.palette = q.palette /\ w.flags = F /\ w.userLoopCount = q.userLoopCount
            /\ w.loopCount = q.userLoopCount /\ w.timer = q.timer
        BY <2>5, <3>2, <3>3 DEF AtFrame, HasFrame, InRange, Image, Same, CurrentHasCache, HasCache
      <3>5. /\ e.current \in Nat /\ e.current < N /\ Frames[Image(e)] \in Nat
            /\ e.currentFrameNumber \in 0..(Frames[Image(e)] - 1) /\ Image(e) = q.images[k]
            /\ c2 \in Seq(Seq(Shots)) /\ Len(c2) \in Nat
        <4>1. /\ e.current \in Nat /\ e.current < N /\ Frames[Image(e)] \in Nat
              /\ Image(e) = q.images[k]
          BY <2>4, <2>5, <2>9, ImageIs
        <4>2. e.currentFrameNumber \in 0..(Frames[Image(e)] - 1)
          BY <3>2 DEF AtFrame, HasFrame
        <4>3. c2 \in Seq(Seq(Shots))
          BY <2>4 DEF Players
        <4> QED BY <4>1, <4>2, <4>3
      <3>6. Fits(w) /\ Filled(q, w) /\ w.current \in -1..N
        <4>1. Fits(w) /\ Filled(u, w)
          BY <1>9, <1>10, <3>2, <3>3, <3>4, <3>5, OneMoreKeeps
        <4> QED BY <1>10, <3>3, <3>4, <3>5, <4>1, FilledTrans
      (* Places that there are in c stay as they are.                         *)
      <3>7. \A j \in DOMAIN c : j \in DOMAIN c2 /\ c2[j] = c[j]
        <4> HIDE DEF c, c2
        <4>1. DOMAIN c = 1..Len(c) /\ DOMAIN c2 = 1..Len(c2) /\ Len(c) \in Nat
          BY <2>5, <3>5 DEF c
        <4>2. CASE c2 = c
          BY <4>2
        <4>3. CASE OneMore(c, c2, e.current)
          BY <4>1, <4>3 DEF OneMore
        <4> QED BY <3>2, <4>2, <4>3
      <3>8. "Continue" \in flags /\ InRange(q) =>
              e.current = q.current /\ e.currentFrameNumber = q.currentFrameNumber
        BY <2>2, <3>2
      <3>9. Len(c) = N => c2 = c
        BY <3>2, <3>5 DEF OneMore
      <3>10. \/ e.currentFrameNumber = 0 \/ c2 = <<>>
             \/ k \in DOMAIN c2 /\ e.currentFrameNumber < Len(c2[k])
             \/ /\ InRange(q) /\ e.current = q.current
                /\ e.currentFrameNumber = q.currentFrameNumber
                /\ q.cachedFrames # <<>>
                /\ c2 = q.cachedFrames \/ OneMore(q.cachedFrames, c2, e.current)
        <4>1. CASE ~Reversed(s) /\ e.currentFrameNumber = 0
          BY <4>1
        <4>2. CASE k \in DOMAIN c /\ e.currentFrameNumber = Len(c[k]) - 1
          <5>1. k \in DOMAIN c2 /\ c2[k] = c[k] /\ c[k] \in Seq(Shots)
            BY <2>5, <3>7, <4>2
          <5> QED BY <4>2, <5>1
        <4>3. CASE e.current = u.current /\ e.currentFrameNumber = u.currentFrameNumber
          <5>1. CASE Len(c) = N /\ Len(c[u.current + 1]) = Frames[Image(u)]
            <6>1. k \in DOMAIN c /\ Image(u) = Image(e) /\ c2 = c
              BY <2>1, <2>5, <3>5, <3>9, <4>3, <5>1
            <6> QED BY <3>5, <4>3, <5>1, <6>1
          <5>2. CASE /\ c = q.cachedFrames
                     /\ Reversed(s) => "Continue" \in flags /\ q.cachedFrames # <<>>
                     /\ \/ "CacheAll" \notin F \/ q.cachedFrames # <<>>
                        \/ u.current = 0 /\ u.currentFrameNumber <= 0
            <6>1. CASE q.cachedFrames = <<>>
              BY <3>2, <3>5, <4>3, <5>2, <6>1
            <6>2. CASE q.cachedFrames # <<>> /\ "Continue" \in flags /\ q.current >= 0
              <7>1. InRange(q)
                BY <1>3, <1>4, <1>5, <1>7, <1>9, <1>13, <2>1, <6>2 DEF InRange
              <7> QED BY <3>2, <3>8, <5>2, <6>2, <7>1
            <6>3. CASE q.cachedFrames # <<>> /\ "Continue" \in flags /\ ~(q.current >= 0)
              <7>1. e.currentFrameNumber = -1
                BY <1>1, <1>3, <1>4, <1>7, <1>9, <1>13, <4>3, <6>3 DEF Placed
              <7> QED BY <3>5, <7>1
            <6>4. CASE "Continue" \notin flags
              BY <1>4, <1>7, <1>9, <1>13, <4>3, <5>2, <6>4
            <6> QED BY <6>1, <6>2, <6>3, <6>4
          <5> QED BY <2>6, <5>1, <5>2
        <4> QED BY <3>2, <4>1, <4>2, <4>3
      <3>11. \/ SomeStill(q) \/ Len(c2) = N \/ c2 = <<>>
             \/ q.cachedFrames = <<>> /\ e.current = 0 /\ Len(c2) = 1
             \/ /\ q.cachedFrames # <<>>
                /\ InRange(q) =>
                      /\ e.current \in {0, q.current}
                      /\ c2 = q.cachedFrames \/ OneMore(q.cachedFrames, c2, e.current)
        <4>1. CASE Len(c) = N
          BY <3>9, <4>1
        <4>2. CASE c = q.cachedFrames /\ c = <<>>
          <5>1. (~Reversed(s) /\ Len(c) = 0) \/ Len(c) = N
            BY <2>6, <4>2
          <5>2. CASE ~Reversed(s) /\ c2 # <<>> /\ Len(c) = 0 /\ ~SomeStill(q) /\ Len(c) # N
            <6>1. "CacheAll" \in F /\ Len(c2) = 1
              BY <3>2, <4>2, <5>2 DEF OneMore
            <6>2. u.current = 0
              BY <2>6, <4>2, <5>2, <6>1
            <6>3. e.current = 0
              BY <2>3, <3>2, <5>2, <6>2
            <6> QED BY <4>2, <6>1, <6>3
          <5> QED BY <3>9, <5>1, <5>2
        <4>3. CASE c = q.cachedFrames /\ c # <<>> /\ Len(c) # N
          <5>1. CASE ~InRange(q)
            BY <4>3, <5>1
          <5>2. CASE InRange(q) /\ "Continue" \in flags
            BY <3>2, <3>8, <4>3, <5>2
          <5>3. CASE InRange(q) /\ "Continue" \notin flags
            <6>1. ~Reversed(s) /\ u.current = 0
              BY <1>4, <1>7, <1>9, <1>13, <2>6, <4>3, <5>3
            <6> QED BY <2>3, <3>2, <4>3, <6>1
          <5> QED BY <5>1, <5>2, <5>3
        <4> QED BY <2>6, <4>1, <4>2, <4>3
      <3>12. StartPlays(q, w, flags)
        BY <3>3, <3>4, <3>8, <3>10, <3>11 DEF StartPlays
      <3>13. /\ Len(q.cachedFrames) <= Len(c2)
             /\ c2 # q.cachedFrames => "CacheAll" \in F
        <4>1. Len(q.cachedFrames) <= Len(c) /\ (c # q.cachedFrames => "CacheAll" \in F)
          BY <1>9, <1>14
        <4>2. Len(q.cachedFrames) \in Nat
          BY <1>1
        <4>3. CASE c2 = c
          BY <4>1, <4>3
        <4>4. CASE "CacheAll" \in F /\ OneMore(c, c2, e.current)
          BY <2>5, <3>5, <4>1, <4>2, <4>4 DEF OneMore
        <4> QED BY <3>2, <4>3, <4>4
      <3> HIDE DEF r
      <3> QED BY <3>1, <3>3, <3>4, <3>6, <3>12, <3>13 DEF r, F
    <2> QED BY <2>7, <2>8, <2>9
  <1> QED BY <1>7, <1>3, <1>11, <1>12, <1>13

(* The player v, at no frame yet, has become r, at the first frame of an      *)
(* image in the direction of play.                                            *)
Entered(v, r) ==
    /\ AtFrame(r)
    /\ "IgnoreLastImageLoop" \in v.flags /\ "AllowNonLastImageLoop" \notin v.flags =>
          r.currentLoopCount = 1
    /\ PlaceMade(v.flags, v.cachedFrames, r.cachedFrames, r.current)
    /\ IF Reversed(v)
       THEN /\ r.current + 1 \in DOMAIN v.cachedFrames
            /\ r.currentFrameNumber = Len(v.cachedFrames[r.current + 1]) - 1
       ELSE r.currentFrameNumber = 0

LEMMA EntersIs ==
    ASSUME NEW v \in Players, InRange(v), Fits(v), v.currentFrameNumber = -1
    PROVE LET r == EnsureCurrent(v) IN
          /\ r \in Players /\ Same(v, r) /\ Fits(r) /\ Filled(v, r)
          /\ r.loopCount = v.loopCount /\ r.timer = v.timer
          /\ r.current \in -1..Len(v.images)
          /\ \/ /\ r.state = "undefined" /\ r.currentLoopCount = v.currentLoopCount
                /\ Reversed(v) /\ r.cachedFrames = v.cachedFrames /\ InRange(r)
                /\ Len(v.cachedFrames) <= r.current /\ r.current <= v.current
             \/ /\ r.state = v.state /\ r.currentLoopCount = v.currentLoopCount
                /\ ~InRange(r) /\ r.current = (IF Reversed(v) THEN -1 ELSE Len(v.images))
                /\ r.currentFrameNumber = -1 /\ r.cachedFrames = v.cachedFrames
                /\ \/ SomeStill(v)
                   \/ /\ Reversed(v) /\ v.current + 1 \in DOMAIN v.cachedFrames
                      /\ v.cachedFrames[v.current + 1] = <<>>
             \/ /\ r.state = v.state /\ InRange(r) /\ Entered(v, r) /\ Ahead(v, r.current)
                /\ Reversed(v) \/ SomeStill(v) \/ r.current = v.current
  <1> DEFINE r == EnsureCurrent(v)
  <1>1. /\ v.current \in Nat /\ v.current < Len(v.images) /\ v.images \in Seq(Images)
        /\ Len(v.images) \in Nat /\ v.current + 1 \in DOMAIN v.images
        /\ Image(v) = v.images[v.current + 1]
        /\ v.cachedFrames \in Seq(Seq(Shots)) /\ Len(v.cachedFrames) \in Nat
    <2>1. /\ v.current \in Nat /\ v.current < Len(v.images) /\ v.images \in Seq(Images)
          /\ Image(v) = v.images[v.current + 1]
      BY ImageIs
    <2>2. v.cachedFrames \in Seq(Seq(Shots))
      BY DEF Players
    <2> QED BY <2>1, <2>2
  <1>2. /\ r \in Players /\ Same(v, r) /\ r.loopCount = v.loopCount /\ r.timer = v.timer
        /\ \/ /\ r.state = "undefined" /\ r.currentLoopCount = v.currentLoopCount
              /\ Reversed(v) /\ r.cachedFrames = v.cachedFrames
              /\ Len(v.cachedFrames) <= r.current /\ r.current <= v.current
           \/ /\ r.state = v.state /\ r.currentLoopCount = v.currentLoopCount
              /\ ~InRange(r) /\ r.current = (IF Reversed(v) THEN -1 ELSE Len(v.images))
              /\ r.currentFrameNumber = -1 /\ r.cachedFrames = v.cachedFrames
              /\ ~Usable(v, v.current)
           \/ /\ r.state = v.state /\ AtFrame(r) /\ Ahead(v, r.current)
              /\ "IgnoreLastImageLoop" \in v.flags /\ "AllowNonLastImageLoop" \notin v.flags =>
                    r.currentLoopCount = 1
              /\ PlaceMade(v.flags, v.cachedFrames, r.cachedFrames, r.current)
              /\ \/ r.current = v.current /\ r.currentFrameNumber = -1
                 \/ ~Reversed(v) /\ r.currentFrameNumber = 0
                 \/ /\ Reversed(v) /\ r.current + 1 \in DOMAIN v.cachedFrames
                    /\ r.currentFrameNumber = Len(v.cachedFrames[r.current + 1]) - 1
              /\ Usable(v, v.current) => r.current = v.current
    BY EnsureCurrentIs
  <1> HIDE DEF r
  <1>3. r.current \in Int /\ r.images = v.images /\ r.palette = v.palette
    BY <1>2 DEF Players, Same
  <1>4. \/ Usable(v, v.current) \/ SomeStill(v)
        \/ /\ Reversed(v) /\ v.current + 1 \in DOMAIN v.cachedFrames
           /\ v.cachedFrames[v.current + 1] = <<>>
    <2>1. CASE ~Animated(Image(v))
      BY <1>1, <2>1 DEF SomeStill
    <2>2. CASE Animated(Image(v)) /\ ~Reversed(v)
      BY <2>2, UsableIs
    <2>3. CASE Animated(Image(v)) /\ Reversed(v)
      BY <1>1, <2>3, UsableIs
    <2> QED BY <2>1, <2>2, <2>3
  <1>5. ASSUME r.cachedFrames = v.cachedFrames PROVE Fits(r) /\ Filled(v, r)
    BY <1>3, <1>5 DEF Fits, Filled
  <1>6. CASE /\ r.state = "undefined" /\ r.currentLoopCount = v.currentLoopCount
             /\ Reversed(v) /\ r.cachedFrames = v.cachedFrames
             /\ Len(v.cachedFrames) <= r.current /\ r.current <= v.current
    <2>1. r.current \in 0..(Len(v.images) - 1)
      BY <1>1, <1>3, <1>6
    <2>2. InRange(r) /\ r.current \in -1..Len(v.images)
      BY <1>1, <1>3, <2>1 DEF InRange
    <2> QED BY <1>2, <1>5, <1>6, <2>2 DEF r
  <1>7. CASE /\ r.state = v.state /\ r.currentLoopCount = v.currentLoopCount
             /\ ~InRange(r) /\ r.current = (IF Reversed(v) THEN -1 ELSE Len(v.images))
             /\ r.currentFrameNumber = -1 /\ r.cachedFrames = v.cachedFrames
             /\ ~Usable(v, v.current)
    <2>1. r.current \in -1..Len(v.images)
      BY <1>1, <1>7
    <2> QED BY <1>2, <1>4, <1>5, <1>7, <2>1 DEF r
  <1>8. CASE /\ r.state = v.state /\ AtFrame(r) /\ Ahead(v, r.current)
             /\ "IgnoreLastImageLoop" \in v.flags /\ "AllowNonLastImageLoop" \notin v.flags =>
                   r.currentLoopCount = 1
             /\ PlaceMade(v.flags, v.cachedFrames, r.cachedFrames, r.current)
             /\ \/ r.current = v.current /\ r.currentFrameNumber = -1
                \/ ~Reversed(v) /\ r.currentFrameNumber = 0
                \/ /\ Reversed(v) /\ r.current + 1 \in DOMAIN v.cachedFrames
                   /\ r.currentFrameNumber = Len(v.cachedFrames[r.current + 1]) - 1
             /\ Usable(v, v.current) => r.current = v.current
    <2>1. InRange(r) /\ r.currentFrameNumber # -1
      <3>1. InRange(r) /\ r.currentFrameNumber \in 0..(Frames[Image(r)] - 1)
        BY <1>8 DEF AtFrame, HasFrame
      <3> QED BY <3>1
    <2>2. r.current \in -1..Len(v.images) /\ r.current < Len(v.images)
      BY <1>1, <1>2, <1>3, <2>1, ImageIs
    <2>3. Fits(r) /\ Filled(v, r)
      BY <1>2, <1>3, <1>8, <2>2, OneMoreKeeps DEF PlaceMade
    <2>4. Entered(v, r)
      BY <1>8, <2>1 DEF Entered
    <2>5. Reversed(v) \/ SomeStill(v) \/ r.current = v.current
      BY <1>4, <1>8
    <2> QED BY <1>2, <1>8, <2>1, <2>2, <2>3, <2>4, <2>5 DEF r
  <1> QED BY <1>2, <1>6, <1>7, <1>8

LEMMA EmptyFits ==
    ASSUME NEW q \in Players, NEW r \in Players, r.cachedFrames = <<>>
    PROVE Fits(r) /\ Filled(q, r)
  <1>1. Len(r.images) \in Nat
    BY DEF Players
  <1>2. Len(r.cachedFrames) = 0 /\ DOMAIN r.cachedFrames = {}
    OBVIOUS
  <1> QED BY <1>1, <1>2 DEF Fits, Filled

LEMMA StopIs ==
    ASSUME NEW q \in Players, Fits(q), q.state # "NotRunning"
    PROVE LET r == Stop(q) IN
          /\ r \in Players /\ Same(q, r) /\ Fits(r) /\ Filled(q, r)
          /\ r.state = "NotRunning" /\ r.timer = FALSE
          /\ r.current = q.current /\ r.currentFrameNumber = q.currentFrameNumber
          /\ r.loopCount = q.loopCount /\ r.currentLoopCount = q.currentLoopCount
          /\ r.cachedFrames = (IF "ClearCacheOnStop" \in q.flags THEN <<>> ELSE q.cachedFrames)
          /\ InRange(r) <=> InRange(q)
          /\ r.number = q.number
  <1> DEFINE c == IF "ClearCacheOnStop" \in q.flags THEN <<>> ELSE q.cachedFrames
             a == [q EXCEPT !.timer = FALSE]
             b == [a EXCEPT !.state = "NotRunning"]
             r == [b EXCEPT !.cachedFrames = c]
  <1>1. c \in Seq(Seq(Shots))
    BY DEF Players
  <1>2. Stop(q) = r
    BY DEF Stop
  <1>3. c = <<>> \/ c = q.cachedFrames
    OBVIOUS
  <1> HIDE DEF c
  <1>4. /\ a \in Players /\ Same(q, a) /\ a.timer = FALSE
        /\ a.current = q.current /\ a.currentFrameNumber = q.currentFrameNumber
        /\ a.loopCount = q.loopCount /\ a.currentLoopCount = q.currentLoopCount
        /\ a.number = q.number
    BY DEF Players, Same
  <1> HIDE DEF a
  <1>5. /\ b \in Players /\ Same(a, b) /\ b.timer = a.timer /\ b.state = "NotRunning"
        /\ b.current = a.current /\ b.currentFrameNumber = a.currentFrameNumber
        /\ b.loopCount = a.loopCount /\ b.currentLoopCount = a.currentLoopCount
        /\ b.number = a.number
    BY <1>4 DEF Players, Same
  <1> HIDE DEF b
  <1>6. /\ r \in Players /\ Same(b, r) /\ r.timer = b.timer /\ r.state = b.state
        /\ r.current = b.current /\ r.currentFrameNumber = b.currentFrameNumber
        /\ r.loopCount = b.loopCount /\ r.currentLoopCount = b.currentLoopCount
        /\ r.cachedFrames = c /\ r.number = b.number
    BY <1>1, <1>5 DEF Players, Same
  <1> HIDE DEF r
  <1>7. Same(q, r) /\ (InRange(r) <=> InRange(q))
    BY <1>4, <1>5, <1>6 DEF Same, InRange
  <1>8. Fits(r) /\ Filled(q, r)
    <2>1. CASE c = <<>>
      BY <1>6, <2>1, EmptyFits
    <2>2. CASE c = q.cachedFrames
      BY <1>6, <1>7, <2>2 DEF Fits, Filled, Same
    <2> QED BY <1>3, <2>1, <2>2
  <1> QED BY <1>2, <1>4, <1>5, <1>6, <1>7, <1>8 DEF c

(* What a timer event makes of the running player q: it goes to the frame     *)
(* beside, or at the last frame of its image to another image or round, to    *)
(* the end, or it fails.                                                      *)
TimerAdvances(q, r) ==
    /\ r.state = "WaitingRead" /\ HasFrame(r) /\ Image(r) = Image(q)
    /\ r.current = q.current /\ r.currentFrameNumber = NextFrame(q)
    /\ r.loopCount = q.loopCount /\ r.currentLoopCount = q.currentLoopCount
    /\ r.cachedFrames = q.cachedFrames
    /\ HasCache(q, q.current, NextFrame(q)) \/ ~Reversed(q)

TimerMoves(q, r) ==
    /\ r.state = "WaitingRead" /\ InRange(r) /\ Entered(q, r)
    /\ \/ /\ q.currentLoopCount \notin {0, 1} /\ r.loopCount = q.loopCount
          /\ r.current = q.current
       \/ /\ q.currentLoopCount \in {0, 1} /\ r.loopCount = q.loopCount
          /\ IF Reversed(q) THEN r.current < q.current
             ELSE q.current < r.current /\ (SomeStill(q) \/ r.current = q.current + 1)
       \/ /\ q.loopCount \notin {0, 1} /\ r.loopCount = q.loopCount - 1
          /\ Reversed(q) \/ SomeStill(q) \/ r.current = 0

TimerEnds(q, r) ==
    /\ r.state = "NotRunning"
    /\ \/ r.loopCount = 0
       \/ q.loopCount \notin {0, 1} /\ r.loopCount = q.loopCount - 1
    /\ r.cachedFrames = (IF "ClearCacheOnStop" \in q.flags THEN <<>> ELSE q.cachedFrames)
    /\ \/ r.current = q.current /\ r.currentFrameNumber = q.currentFrameNumber
       \/ /\ r.current = (IF Reversed(q) THEN -1 ELSE Len(q.images)) /\ ~InRange(r)
          /\ r.currentFrameNumber = -1
          /\ \/ SomeStill(q)
             \/ q.loopCount \notin {0, 1} /\ Reversed(q) /\ Len(q.cachedFrames) = Len(q.images)
             \/ Reversed(q) /\ q.current \in DOMAIN q.cachedFrames /\ q.cachedFrames[q.current] = <<>>

TimerFails(q, r) ==
    /\ r.state = "undefined" /\ Reversed(q) /\ InRange(r)
    /\ r.cachedFrames = q.cachedFrames /\ Len(q.cachedFrames) <= r.current
    /\ \/ /\ r.current <= q.current /\ r.loopCount = q.loopCount
          /\ q.currentLoopCount \in {0, 1} => r.currentLoopCount = 0
       \/ q.loopCount \notin {0, 1} /\ r.loopCount = q.loopCount - 1

Waiting(r) == IF r.state = "undefined" THEN r ELSE [r EXCEPT !.state = "WaitingRead"]

LEMMA WaitingIs ==
    ASSUME NEW r \in Players, Fits(r)
    PROVE LET w == Waiting(r) IN
          /\ w \in Players /\ Same(r, w) /\ Fits(w) /\ w.timer = r.timer
          /\ w.state = (IF r.state = "undefined" THEN "undefined" ELSE "WaitingRead")
          /\ w.current = r.current /\ w.currentFrameNumber = r.currentFrameNumber
          /\ w.loopCount = r.loopCount /\ w.currentLoopCount = r.currentLoopCount
          /\ w.cachedFrames = r.cachedFrames /\ Image(w) = Image(r)
          /\ InRange(w) <=> InRange(r)
          /\ HasFrame(w) <=> HasFrame(r)
          /\ AtFrame(w) <=> AtFrame(r)
  <1> DEFINE w == Waiting(r)
  <1>1. /\ w \in Players /\ Same(r, w) /\ w.timer = r.timer /\ w.number = r.number
        /\ w.state = (IF r.state = "undefined" THEN "undefined" ELSE "WaitingRead")
        /\ w.current = r.current /\ w.currentFrameNumber = r.currentFrameNumber
        /\ w.loopCount = r.loopCount /\ w.currentLoopCount = r.currentLoopCount
        /\ w.cachedFrames = r.cachedFrames
    BY DEF Waiting, Players, Same
  <1> HIDE DEF w
  <1>2. Image(w) = Image(r) /\ (InRange(w) <=> InRange(r)) /\ Fits(w)
    BY <1>1 DEF Image, InRange, Fits, Same
  <1>3. (HasFrame(w) <=> HasFrame(r)) /\ (AtFrame(w) <=> AtFrame(r))
    BY <1>1, <1>2 DEF HasFrame, AtFrame, CurrentHasCache, HasCache, Same
  <1> QED BY <1>1, <1>2, <1>3 DEF w

LEMMA EnteredAt ==
    ASSUME NEW v \in Players, InRange(v), Fits(v), v.currentFrameNumber = -1, Usable(v, v.current)
    PROVE LET r == InitCurrent(v) IN
          /\ r \in Players /\ Same(v, r) /\ Fits(r)
          /\ r.loopCount = v.loopCount /\ r.timer = v.timer /\ r.current = v.current
          /\ InRange(r)
          /\ \/ /\ r.state = "undefined" /\ Reversed(v) /\ r.cachedFrames = v.cachedFrames
                /\ Len(v.cachedFrames) <= r.current
             \/ r.state = v.state /\ Entered(v, r)
  <1> DEFINE r == InitCurrent(v)
  <1>1. CacheMissing(v) \/ CanInit(v)
    BY DEF Usable, At
  <1>2. CASE CacheMissing(v)
    <2>1. r = [v EXCEPT !.state = "undefined"]
      BY <1>2 DEF InitCurrent, Undefined
    <2>2. /\ r \in Players /\ Same(v, r) /\ r.loopCount = v.loopCount /\ r.timer = v.timer
          /\ r.current = v.current /\ r.state = "undefined" /\ r.cachedFrames = v.cachedFrames
      BY <2>1 DEF Players, Same
    <2>3. v.current \in Int /\ Len(v.cachedFrames) \in Nat
      BY DEF Players
    <2>4. Reversed(v) /\ Len(v.cachedFrames) <= v.current
      BY <1>2, <2>3 DEF CacheMissing
    <2> HIDE DEF r
    <2>5. InRange(r) /\ Fits(r)
      BY <2>2 DEF InRange, Fits, Same
    <2> QED BY <2>2, <2>4, <2>5 DEF r
  <1>3. CASE ~CacheMissing(v)
    <2>1. /\ r \in Players /\ Same(v, r) /\ AtFrame(r) /\ r.current = v.current
          /\ r.currentFrameNumber = FirstFrame(v)
          /\ PlaceMade(v.flags, v.cachedFrames, r.cachedFrames, v.current)
          /\ r.loopCount = v.loopCount
          /\ "IgnoreLastImageLoop" \in v.flags /\ "AllowNonLastImageLoop" \notin v.flags =>
                r.currentLoopCount = 1
          /\ r.state = v.state /\ r.timer = v.timer
      BY <1>1, <1>3, InitCurrentIs
    <2>2. /\ FirstFrame(v) \in Nat
          /\ IF Reversed(v)
             THEN /\ v.current + 1 \in DOMAIN v.cachedFrames
                  /\ FirstFrame(v) = Len(v.cachedFrames[v.current + 1]) - 1
             ELSE FirstFrame(v) = 0
      <3>1. FirstFrame(v) \in 0..(Frames[Image(v)] - 1)
        BY <1>1, <1>3, FirstFrameIs
      <3>2. FirstFrame(v) # -1
        BY <3>1
      <3> QED BY <1>1, <1>3, <3>1, <3>2, FirstFrameIs
    <2> HIDE DEF r
    <2>3. Entered(v, r)
      BY <2>1, <2>2 DEF Entered
    <2>4. v.current \in Int /\ v.current < Len(v.images)
      BY ImageIs
    <2>5. Fits(r) /\ InRange(r)
      BY <2>1, <2>4, OneMoreKeeps DEF AtFrame, HasFrame, PlaceMade, Same
    <2> QED BY <2>1, <2>3, <2>5 DEF r
  <1> QED BY <1>2, <1>3

(* Entered depends only on the flags and the cache of the player left.        *)
LEMMA EnteredFrom ==
    ASSUME NEW q, NEW v, NEW r, NEW w, Same(q, v), v.cachedFrames = q.cachedFrames, Entered(v, r),
           Same(r, w), w.cachedFrames = r.cachedFrames, w.current = r.current,
           w.currentFrameNumber = r.currentFrameNumber,
           w.currentLoopCount = r.currentLoopCount, AtFrame(w)
    PROVE Entered(q, w)
  BY DEF Entered, Same, Reversed

LEMMA TimerIs ==
    ASSUME NEW q \in Players, InRange(q), Fits(q), q.state = "Running",
           q.currentFrameNumber \in 0..(Frames[Image(q)] - 1),
           Reversed(q) => "CacheAll" \in q.flags,
           "CacheAll" \in q.flags /\ q.current + 1 \in DOMAIN q.cachedFrames =>
               q.cachedFrames[q.current + 1] # <<>>
    PROVE LET r == TimerEvent(q) IN
          /\ r \in Players /\ Same(q, r) /\ r.timer = FALSE /\ Fits(r)
          /\ r.current \in -1..Len(r.images)
          /\ \/ TimerAdvances(q, r)
             \/ /\ ~HasNextFrame(q)
                /\ TimerMoves(q, r) \/ TimerEnds(q, r) \/ TimerFails(q, r)
  <1> DEFINE N == Len(q.images)
             e == [q EXCEPT !.timer = FALSE]
             q1 == IF Reversed(q) THEN e ELSE JumpTo(e, NextFrame(e))
             v == [q1 EXCEPT !.currentLoopCount = 0, !.currentFrameNumber = -1,
                             !.current = @ + Toward(q1)]
             next == NextImage(q1)
             z == [q1 EXCEPT !.currentLoopCount = 0]
             over == IF HasNextImage(q1) THEN next ELSE z
             v2 == [over EXCEPT !.loopCount = @ - 1, !.currentFrameNumber = -1,
                        !.current = IF Reversed(over) THEN Len(over.images) - 1 ELSE 0]
             again == PlayAgain(over)
             last == [over EXCEPT !.loopCount = 0]
             r == TimerEvent(q)
  <1>1. r = IF HasNextFrame(e) THEN Waiting(AdvanceFrame(e))
            ELSE IF q1.currentLoopCount \notin {0, 1} THEN Waiting(Replay(q1))
            ELSE IF InRange(next) THEN Waiting(next)
            ELSE IF q1.loopCount \in {0, 1} THEN Stop(last)
            ELSE IF InRange(again) THEN Waiting(again) ELSE Stop(again)
    BY DEF TimerEvent, Waiting
  <1>7. next = EnsureCurrent(v) /\ again = EnsureCurrent(v2)
    BY DEF NextImage, PlayAgain
  <1>2. /\ q.current \in Nat /\ q.current < N /\ N \in Nat /\ q.images \in Seq(Images)
        /\ Image(q) \in Images /\ Image(q) = q.images[q.current + 1]
        /\ Frames[Image(q)] \in Nat \ {0} /\ q.currentFrameNumber \in Nat
        /\ q.cachedFrames \in Seq(Seq(Shots)) /\ q.loopCount \in Int /\ q.currentLoopCount \in Int
        /\ q.current + 1 \in DOMAIN q.images
    <2>1. /\ q.current \in Nat /\ q.current < N /\ q.images \in Seq(Images)
          /\ Image(q) \in Images /\ Image(q) = q.images[q.current + 1] /\ Frames[Image(q)] \in Nat
      BY ImageIs
    <2>2. q.cachedFrames \in Seq(Seq(Shots)) /\ q.loopCount \in Int /\ q.currentLoopCount \in Int
      BY DEF Players
    <2>3. Frames[Image(q)] \in Nat \ {0} /\ q.currentFrameNumber \in Nat
      BY <2>1
    <2>4. q.current + 1 \in DOMAIN q.images /\ N \in Nat
      BY <2>1
    <2> QED BY <2>1, <2>2, <2>3, <2>4
  <1>3. /\ e \in Players /\ Same(q, e) /\ e.timer = FALSE /\ e.state = q.state
        /\ e.current = q.current /\ e.currentFrameNumber = q.currentFrameNumber
        /\ e.loopCount = q.loopCount /\ e.currentLoopCount = q.currentLoopCount
        /\ e.cachedFrames = q.cachedFrames /\ e.number = q.number
    BY DEF Players, Same
  <1> HIDE DEF r, e, next, again
  <1>4. /\ NextFrame(e) = NextFrame(q) /\ (HasNextFrame(e) <=> HasNextFrame(q))
        /\ HasCache(e, e.current, NextFrame(e)) <=> HasCache(q, q.current, NextFrame(q))
        /\ Image(e) = Image(q) /\ (Reversed(e) <=> Reversed(q)) /\ Fits(e) /\ InRange(e)
        /\ NextFrame(q) \in Int /\ (~Reversed(q) => NextFrame(q) \in Nat)
    <2>1. NextFrame(e) = NextFrame(q) /\ Image(e) = Image(q) /\ (Reversed(e) <=> Reversed(q))
          /\ Fits(e) /\ InRange(e)
      BY <1>3 DEF NextFrame, Toward, Reversed, Image, Fits, InRange, Same
    <2>2. HasCache(e, e.current, NextFrame(e)) <=> HasCache(q, q.current, NextFrame(q))
      BY <1>3, <2>1 DEF HasCache
    <2>3. NextFrame(q) \in Int /\ (~Reversed(q) => NextFrame(q) \in Nat)
      BY <1>2 DEF NextFrame, Toward
    <2> QED BY <1>3, <2>1, <2>2, <2>3 DEF HasNextFrame
  <1>5. CASE HasNextFrame(q)
    <2> DEFINE n == NextFrame(q)
               h == IF HasCache(e, e.current, n) THEN e ELSE JumpTo(e, n)
               a == [h EXCEPT !.currentFrameNumber = n]
    <2>1. r = Waiting(a)
      BY <1>1, <1>4, <1>5 DEF AdvanceFrame
    <2>2. /\ n \in 0..(Frames[Image(q)] - 1)
          /\ HasCache(q, q.current, n) \/ ~Reversed(q)
      <3>1. CASE HasCache(q, q.current, n)
        <4>1. /\ q.current + 1 \in DOMAIN q.cachedFrames /\ n + 1 \in DOMAIN q.cachedFrames[q.current + 1]
          BY <3>1 DEF HasCache
        <4>2. /\ q.cachedFrames[q.current + 1] \in Seq(Shots)
              /\ Len(q.cachedFrames[q.current + 1]) <= Frames[Image(q)]
          BY <1>2, <4>1 DEF Fits
        <4>3. n + 1 \in 1..Len(q.cachedFrames[q.current + 1]) /\ n \in Int
              /\ Len(q.cachedFrames[q.current + 1]) \in Nat
          BY <1>4, <4>1, <4>2
        <4> HIDE DEF n
        <4>4. n \in 0..(Frames[Image(q)] - 1)
          BY <1>2, <4>2, <4>3
        <4> QED BY <3>1, <4>4
      <3>2. CASE ~Reversed(q) /\ n < Frames[Image(q)]
        BY <1>2, <1>4, <3>2
      <3>3. HasCache(q, q.current, n) \/ (~Reversed(q) /\ n < Frames[Image(q)])
        BY <1>5 DEF HasNextFrame
      <3> HIDE DEF n
      <3> QED BY <3>1, <3>2, <3>3
    <2>3. n \in Nat /\ n \in Int /\ n < Frames[Image(q)]
      BY <1>2, <2>2
    <2> HIDE DEF n
    <2>4. /\ h \in Players /\ Same(e, h) /\ h.timer = FALSE /\ h.state = q.state
          /\ h.current = q.current /\ h.loopCount = q.loopCount
          /\ h.currentLoopCount = q.currentLoopCount /\ h.cachedFrames = q.cachedFrames
          /\ HasCache(q, q.current, n) \/ h.number[Image(q)] = n
      <3>1. CASE HasCache(e, e.current, n)
        BY <1>3, <1>4, <3>1 DEF n, Same
      <3>2. CASE ~HasCache(e, e.current, n)
        BY <1>2, <1>3, <1>4, <2>3, <3>2, JumpToIs
      <3> QED BY <3>1, <3>2
    <2> HIDE DEF h
    <2>5. /\ a \in Players /\ Same(h, a) /\ a.timer = FALSE /\ a.state = q.state
          /\ a.current = q.current /\ a.loopCount = q.loopCount /\ a.currentFrameNumber = n
          /\ a.currentLoopCount = q.currentLoopCount /\ a.cachedFrames = q.cachedFrames
          /\ a.number = h.number
      BY <2>3, <2>4 DEF Players, Same
    <2> HIDE DEF a
    <2>6. Same(q, a) /\ Image(a) = Image(q) /\ InRange(a) /\ Fits(a)
      BY <1>3, <2>4, <2>5 DEF Same, Image, InRange, Fits
    <2>7. HasFrame(a)
      BY <2>2, <2>4, <2>5, <2>6 DEF HasFrame, CurrentHasCache, HasCache
    <2>8. /\ r \in Players /\ Same(a, r) /\ Fits(r) /\ r.timer = FALSE /\ r.state = "WaitingRead"
          /\ r.current = q.current /\ r.currentFrameNumber = n /\ r.loopCount = q.loopCount
          /\ r.currentLoopCount = q.currentLoopCount /\ r.cachedFrames = q.cachedFrames
          /\ Image(r) = Image(q) /\ HasFrame(r)
      BY <2>1, <2>5, <2>6, <2>7, WaitingIs
    <2>9. TimerAdvances(q, r) /\ Same(q, r)
      BY <2>2, <2>6, <2>8 DEF TimerAdvances, n, Same
    <2>10. r.current \in -1..Len(r.images)
      BY <1>2, <2>8, <2>9 DEF Same
    <2> QED BY <2>8, <2>9, <2>10 DEF r
  <1>6. CASE ~HasNextFrame(q)
    <2>1. /\ q1 \in Players /\ Same(q, q1) /\ q1.timer = FALSE /\ q1.state = q.state
          /\ q1.current = q.current /\ q1.currentFrameNumber = q.currentFrameNumber
          /\ q1.loopCount = q.loopCount /\ q1.currentLoopCount = q.currentLoopCount
          /\ q1.cachedFrames = q.cachedFrames
      <3>1. CASE Reversed(q)
        BY <1>3, <1>4, <3>1
      <3>2. CASE ~Reversed(q)
        BY <1>2, <1>3, <1>4, <3>2, JumpToIs DEF Same
      <3> QED BY <3>1, <3>2
    <2> HIDE DEF q1
    <2>2. /\ Fits(q1) /\ InRange(q1) /\ Image(q1) = Image(q) /\ (Reversed(q1) <=> Reversed(q))
          /\ Toward(q1) = Toward(q) /\ (SomeStill(q1) <=> SomeStill(q))
      BY <2>1 DEF Fits, InRange, Image, Reversed, Toward, Same, SomeStill
    <2>3. Toward(q) = (IF Reversed(q) THEN -1 ELSE 1)
      BY DEF Toward
    <2>4. CASE q.currentLoopCount \notin {0, 1}
      <3> DEFINE b == [q1 EXCEPT !.currentLoopCount = @ - 1, !.currentFrameNumber = -1]
                 c2 == InitCurrent(b)
      <3>1. r = Waiting(c2)
        BY <1>1, <1>4, <1>6, <2>1, <2>4 DEF Replay
      <3>2. /\ b \in Players /\ Same(q1, b) /\ b.cachedFrames = q.cachedFrames
            /\ b.timer = FALSE /\ b.state = q.state /\ b.loopCount = q.loopCount
            /\ b.currentFrameNumber = -1 /\ b.current = q.current
        <4>1. -1 \in Int /\ q1.currentLoopCount - 1 \in Int
          BY <1>2, <2>1
        <4> QED BY <2>1, <4>1 DEF Players, Same
      <3> HIDE DEF b
      <3>3. /\ Fits(b) /\ InRange(b) /\ Image(b) = Image(q) /\ (Reversed(b) <=> Reversed(q))
            /\ Same(q, b)
        BY <2>1, <3>2 DEF Fits, InRange, Image, Reversed, Same
      <3>4. Usable(b, b.current)
        <4>1. Animated(Image(b))
          BY <1>2, <3>3 DEF Animated
        <4>2. CASE Reversed(q)
          BY <3>2, <3>3, <4>1, <4>2, UsableIs
        <4>3. CASE ~Reversed(q)
          BY <3>2, <3>3, <4>1, <4>3, UsableIs
        <4> QED BY <4>2, <4>3
      <3>5. /\ c2 \in Players /\ Same(b, c2) /\ Fits(c2)
            /\ c2.loopCount = q.loopCount /\ c2.timer = FALSE /\ c2.current = q.current
            /\ InRange(c2)
            /\ \/ /\ c2.state = "undefined" /\ Reversed(q) /\ c2.cachedFrames = q.cachedFrames
                  /\ Len(q.cachedFrames) <= c2.current
               \/ c2.state = "Running" /\ Entered(b, c2)
        BY <3>2, <3>3, <3>4, EnteredAt
      <3> HIDE DEF c2
      <3>6. /\ r \in Players /\ Same(c2, r) /\ Fits(r) /\ r.timer = FALSE
            /\ r.state = (IF c2.state = "undefined" THEN "undefined" ELSE "WaitingRead")
            /\ r.current = c2.current /\ r.currentFrameNumber = c2.currentFrameNumber
            /\ r.loopCount = q.loopCount /\ r.currentLoopCount = c2.currentLoopCount
            /\ r.cachedFrames = c2.cachedFrames /\ InRange(r) /\ (AtFrame(r) <=> AtFrame(c2))
        BY <3>1, <3>5, WaitingIs
      <3>7. Same(q, r) /\ r.current \in -1..Len(r.images)
        BY <1>2, <3>3, <3>5, <3>6 DEF Same
      <3>8. CASE c2.state = "undefined"
        <4>1. c2.state # "Running"
          BY <3>8
        <4>2. TimerFails(q, r)
          BY <1>2, <2>4, <3>5, <3>6, <3>8, <4>1 DEF TimerFails
        <4> QED BY <1>6, <3>6, <3>7, <4>2 DEF r
      <3>9. CASE c2.state = "Running" /\ Entered(b, c2)
        <4>1. AtFrame(r)
          BY <3>6, <3>9 DEF Entered
        <4>2. Entered(q, r)
          BY <3>2, <3>3, <3>6, <3>9, <4>1, EnteredFrom
        <4>3. TimerMoves(q, r)
          BY <2>4, <3>5, <3>6, <3>9, <4>2 DEF TimerMoves
        <4> QED BY <1>6, <3>6, <3>7, <4>3 DEF r
      <3> QED BY <3>5, <3>8, <3>9
    <2>5. CASE q.currentLoopCount \in {0, 1}
      <3>1. r = IF InRange(next) THEN Waiting(next)
                ELSE IF q.loopCount \in {0, 1} THEN Stop(last)
                ELSE IF InRange(again) THEN Waiting(again) ELSE Stop(again)
        BY <1>1, <1>4, <1>6, <2>1, <2>5
      <3>2. /\ v \in Players /\ Same(q1, v) /\ v.cachedFrames = q.cachedFrames
            /\ v.timer = FALSE /\ v.state = q.state /\ v.loopCount = q.loopCount
            /\ v.currentLoopCount = 0
            /\ v.currentFrameNumber = -1 /\ v.current = q.current + Toward(q)
        <4>1. -1 \in Int /\ 0 \in Int /\ q1.current + Toward(q1) \in Int
          BY <1>2, <2>1, <2>2, <2>3
        <4> QED BY <2>1, <2>2, <4>1 DEF Players, Same
      <3> HIDE DEF v
      <3>3. /\ Fits(v) /\ (Reversed(v) <=> Reversed(q)) /\ Same(q, v)
            /\ InRange(v) <=> HasNextImage(q1)
            /\ SomeStill(v) <=> SomeStill(q)
        BY <2>1, <2>2, <3>2 DEF Fits, InRange, HasNextImage, Reversed, Same, SomeStill
      <3>4. CASE InRange(next)
        <4>1. InRange(v)
          <5>1. ~InRange(v) => next = v
            BY <1>7 DEF EnsureCurrent
          <5> QED BY <3>4, <5>1
        <4>2. /\ next \in Players /\ Same(v, next) /\ Fits(next)
              /\ next.loopCount = q.loopCount /\ next.timer = FALSE
              /\ \/ /\ next.state = "undefined" /\ next.currentLoopCount = 0
                    /\ Reversed(q) /\ next.cachedFrames = q.cachedFrames
                    /\ Len(q.cachedFrames) <= next.current /\ next.current <= v.current
                 \/ /\ next.state = "Running" /\ Entered(v, next) /\ Ahead(v, next.current)
                    /\ Reversed(q) \/ SomeStill(q) \/ next.current = v.current
          BY <1>7, <3>2, <3>3, <3>4, <4>1, EntersIs
        <4>3. r = Waiting(next)
          BY <3>1, <3>4
        <4> HIDE DEF next
        <4>4. /\ r \in Players /\ Same(next, r) /\ Fits(r) /\ r.timer = FALSE
              /\ r.state = (IF next.state = "undefined" THEN "undefined" ELSE "WaitingRead")
              /\ r.current = next.current /\ r.currentFrameNumber = next.currentFrameNumber
              /\ r.loopCount = q.loopCount /\ r.currentLoopCount = next.currentLoopCount
              /\ r.cachedFrames = next.cachedFrames /\ InRange(r) /\ (AtFrame(r) <=> AtFrame(next))
          BY <3>4, <4>2, <4>3, WaitingIs
        <4>5. Same(q, r)
          BY <3>3, <4>2, <4>4 DEF Same
        <4>6. r.current \in -1..Len(r.images) /\ r.current \in Int
          <5>1. r.current \in 0..(N - 1) /\ r.images = q.images
            BY <4>4, <4>5 DEF InRange, Same
          <5> QED BY <1>2, <5>1
        <4>7. CASE next.state = "undefined"
          <5>1. next.state # "Running"
            BY <4>7
          <5>2. r.current <= q.current
            BY <1>2, <2>3, <3>2, <4>2, <4>4, <4>6, <5>1
          <5>3. TimerFails(q, r)
            BY <4>2, <4>4, <4>7, <5>1, <5>2 DEF TimerFails
          <5> QED BY <1>6, <4>4, <4>5, <4>6, <5>3 DEF r
        <4>8. CASE /\ next.state = "Running" /\ Entered(v, next) /\ Ahead(v, next.current)
                   /\ Reversed(q) \/ SomeStill(q) \/ next.current = v.current
          <5>1. AtFrame(r)
            BY <4>4, <4>8 DEF Entered
          <5>2. Entered(q, r)
            BY <3>2, <3>3, <4>4, <4>8, <5>1, EnteredFrom
          <5>3. IF Reversed(q) THEN r.current < q.current
                ELSE q.current < r.current /\ (SomeStill(q) \/ r.current = q.current + 1)
            BY <1>2, <2>3, <3>2, <3>3, <4>4, <4>6, <4>8 DEF Ahead
          <5>4. TimerMoves(q, r)
            BY <2>5, <4>4, <4>8, <5>2, <5>3 DEF TimerMoves
          <5> QED BY <1>6, <4>4, <4>5, <4>6, <5>4 DEF r
        <4> QED BY <4>2, <4>7, <4>8
      <3>5. CASE ~InRange(next)
        (* Where the last image has been left, or not.                        *)
        <4>1. /\ over \in Players /\ Same(q, over) /\ Fits(over) /\ over.timer = FALSE
              /\ over.state = "Running" /\ over.loopCount = q.loopCount /\ over.currentLoopCount = 0
              /\ over.cachedFrames = q.cachedFrames
              /\ \/ over.current = q.current /\ over.currentFrameNumber = q.currentFrameNumber
                 \/ /\ over.current = (IF Reversed(q) THEN -1 ELSE N) /\ ~InRange(over)
                    /\ over.currentFrameNumber = -1
                    /\ \/ SomeStill(q)
                       \/ /\ Reversed(q) /\ q.current \in DOMAIN q.cachedFrames
                          /\ q.cachedFrames[q.current] = <<>>
          <5>1. CASE HasNextImage(q1)
            <6>1. InRange(v) /\ over = next
              BY <3>3, <5>1
            <6>2. /\ next \in Players /\ Same(v, next) /\ Fits(next)
                  /\ next.loopCount = q.loopCount /\ next.timer = FALSE /\ next.state = "Running"
                  /\ next.currentLoopCount = 0 /\ next.current = (IF Reversed(v) THEN -1 ELSE Len(v.images))
                  /\ next.currentFrameNumber = -1 /\ next.cachedFrames = q.cachedFrames
                  /\ \/ SomeStill(q)
                     \/ /\ Reversed(v) /\ v.current + 1 \in DOMAIN v.cachedFrames
                        /\ v.cachedFrames[v.current + 1] = <<>>
              BY <1>7, <3>2, <3>3, <3>5, <6>1, EntersIs
            <6> HIDE DEF next, over
            <6>3. Reversed(q) => v.current + 1 = q.current
              BY <1>2, <2>3, <3>2
            <6>4. Same(q, next) /\ v.images = q.images
              BY <3>3, <6>2 DEF Same
            <6> QED BY <3>2, <3>3, <3>5, <6>1, <6>2, <6>3, <6>4
          <5>2. CASE ~HasNextImage(q1)
            <6>1. over = z
              BY <5>2
            <6>2. /\ z \in Players /\ Same(q1, z) /\ z.timer = q1.timer /\ z.state = q1.state
                  /\ z.loopCount = q1.loopCount /\ z.currentLoopCount = 0
                  /\ z.cachedFrames = q1.cachedFrames /\ z.current = q1.current
                  /\ z.currentFrameNumber = q1.currentFrameNumber
              <7>1. 0 \in Int
                OBVIOUS
              <7> QED BY <2>1, <7>1 DEF Players, Same
            <6> HIDE DEF z, over
            <6>3. Same(q, z) /\ Fits(z)
              BY <2>1, <2>2, <6>2 DEF Same, Fits
            <6> QED BY <2>1, <6>1, <6>2, <6>3
          <5> QED BY <5>1, <5>2
        <4> HIDE DEF over
        <4>2. CASE q.loopCount \in {0, 1}
          <5>1. r = Stop(last)
            BY <3>1, <3>5, <4>2
          <5>2. /\ last \in Players /\ Same(over, last) /\ last.timer = FALSE
                /\ last.state = "Running" /\ last.loopCount = 0
                /\ last.cachedFrames = q.cachedFrames /\ last.current = over.current
                /\ last.currentFrameNumber = over.currentFrameNumber
            <6>1. 0 \in Int
              OBVIOUS
            <6> QED BY <4>1, <6>1 DEF Players, Same
          <5> HIDE DEF last
          <5>3. Fits(last) /\ (InRange(last) <=> InRange(over)) /\ last.flags = q.flags
                /\ Same(q, last)
            BY <4>1, <5>2 DEF Fits, InRange, Same
          <5>4. /\ r \in Players /\ Same(last, r) /\ Fits(r)
                /\ r.state = "NotRunning" /\ r.timer = FALSE
                /\ r.current = last.current /\ r.currentFrameNumber = last.currentFrameNumber
                /\ r.loopCount = 0
                /\ r.cachedFrames = (IF "ClearCacheOnStop" \in q.flags THEN <<>> ELSE q.cachedFrames)
                /\ InRange(r) <=> InRange(last)
            BY <5>1, <5>2, <5>3, StopIs
          <5>5. TimerEnds(q, r)
            BY <4>1, <5>2, <5>3, <5>4 DEF TimerEnds
          <5>6. Same(q, r) /\ r.current \in -1..Len(r.images)
            BY <1>2, <4>1, <5>2, <5>3, <5>4 DEF Same
          <5> QED BY <1>6, <5>4, <5>5, <5>6 DEF r
        <4>3. CASE q.loopCount \notin {0, 1}
          <5>1. r = IF InRange(again) THEN Waiting(again) ELSE Stop(again)
            BY <3>1, <3>5, <4>3
          <5>2. /\ v2 \in Players /\ Same(over, v2) /\ v2.timer = FALSE
                /\ v2.state = "Running" /\ v2.loopCount = q.loopCount - 1
                /\ v2.cachedFrames = q.cachedFrames /\ v2.currentFrameNumber = -1
                /\ v2.current = (IF Reversed(q) THEN N - 1 ELSE 0)
            <6>1. (Reversed(over) <=> Reversed(q)) /\ over.images = q.images
              BY <4>1 DEF Reversed, Same
            <6> DEFINE l == over.loopCount - 1
                       i == IF Reversed(over) THEN Len(over.images) - 1 ELSE 0
            <6>2. /\ -1 \in Int /\ l \in Int /\ i \in Int /\ l = q.loopCount - 1
                  /\ i = (IF Reversed(q) THEN N - 1 ELSE 0)
              BY <1>2, <4>1, <6>1
            <6>3. v2 = [over EXCEPT !.loopCount = l, !.currentFrameNumber = -1, !.current = i]
              OBVIOUS
            <6> HIDE DEF l, i, v2
            <6>4. /\ v2 \in Players /\ v2.state = over.state /\ v2.timer = over.timer
                  /\ v2.cachedFrames = over.cachedFrames /\ v2.loopCount = l
                  /\ v2.currentFrameNumber = -1 /\ v2.current = i /\ Same(over, v2)
              <7>1. over \in Players
                BY <4>1
              <7> QED BY <6>2, <6>3, <7>1 DEF Players, Same
            <6> QED BY <4>1, <6>2, <6>4
          <5> HIDE DEF v2
          <5>3. /\ Fits(v2) /\ Same(q, v2) /\ (Reversed(v2) <=> Reversed(q))
                /\ (SomeStill(v2) <=> SomeStill(q)) /\ v2.images = q.images
            BY <4>1, <5>2 DEF Fits, Reversed, Same, SomeStill
          <5>4. InRange(v2)
            BY <1>2, <5>2, <5>3 DEF InRange
          <5>5. /\ again \in Players /\ Same(v2, again) /\ Fits(again)
                /\ again.loopCount = q.loopCount - 1 /\ again.timer = FALSE
                /\ again.current \in -1..N
                /\ \/ /\ again.state = "undefined" /\ Reversed(q)
                      /\ again.cachedFrames = q.cachedFrames /\ InRange(again)
                      /\ Len(q.cachedFrames) <= again.current
                   \/ /\ again.state = "Running" /\ ~InRange(again)
                      /\ again.current = (IF Reversed(q) THEN -1 ELSE N)
                      /\ again.currentFrameNumber = -1 /\ again.cachedFrames = q.cachedFrames
                      /\ \/ SomeStill(q)
                         \/ Reversed(q) /\ v2.current + 1 \in DOMAIN v2.cachedFrames
                   \/ /\ again.state = "Running" /\ InRange(again) /\ Entered(v2, again)
                      /\ Reversed(q) \/ SomeStill(q) \/ again.current = v2.current
            BY <1>7, <5>2, <5>3, <5>4, EntersIs
          <5> HIDE DEF again
          <5>6. Same(q, again)
            BY <5>3, <5>5 DEF Same
          <5>7. CASE InRange(again)
            <6>1. r = Waiting(again)
              BY <5>1, <5>7
            <6>2. /\ r \in Players /\ Same(again, r) /\ Fits(r) /\ r.timer = FALSE
                  /\ r.state = (IF again.state = "undefined" THEN "undefined" ELSE "WaitingRead")
                  /\ r.current = again.current /\ r.currentFrameNumber = again.currentFrameNumber
                  /\ r.loopCount = q.loopCount - 1 /\ r.currentLoopCount = again.currentLoopCount
                  /\ r.cachedFrames = again.cachedFrames /\ InRange(r)
                  /\ AtFrame(r) <=> AtFrame(again)
              BY <5>5, <5>7, <6>1, WaitingIs
            <6>3. Same(q, r) /\ r.current \in -1..Len(r.images)
              BY <5>5, <5>6, <6>2 DEF Same
            <6>4. CASE again.state = "undefined"
              <7>1. again.state # "Running"
                BY <6>4
              <7>2. TimerFails(q, r)
                BY <4>3, <5>5, <6>2, <6>4, <7>1 DEF TimerFails
              <7> QED BY <1>6, <6>2, <6>3, <7>2 DEF r
            <6>5. CASE again.state = "Running"
              <7>1. Entered(v2, again) /\ (Reversed(q) \/ SomeStill(q) \/ again.current = v2.current)
                BY <5>5, <5>7, <6>5
              <7>2. AtFrame(r)
                BY <6>2, <7>1 DEF Entered
              <7>3. Entered(q, r)
                BY <5>2, <5>3, <6>2, <7>1, <7>2, EnteredFrom
              <7>4. TimerMoves(q, r)
                BY <4>3, <5>2, <6>2, <6>5, <7>1, <7>3 DEF TimerMoves
              <7> QED BY <1>6, <6>2, <6>3, <7>4 DEF r
            <6> QED BY <5>5, <6>4, <6>5
          <5>8. CASE ~InRange(again)
            <6>1. r = Stop(again)
              BY <5>1, <5>8
            <6>2. /\ again.state = "Running" /\ again.state # "NotRunning"
                  /\ again.current = (IF Reversed(q) THEN -1 ELSE N)
                  /\ again.currentFrameNumber = -1 /\ again.cachedFrames = q.cachedFrames
                  /\ \/ SomeStill(q)
                     \/ Reversed(q) /\ v2.current + 1 \in DOMAIN v2.cachedFrames
              BY <5>5, <5>8
            <6>3. SomeStill(q) \/ (Reversed(q) /\ Len(q.cachedFrames) = N)
              <7>1. Len(q.cachedFrames) <= N /\ Len(q.cachedFrames) \in Nat
                BY <1>2 DEF Fits
              <7>2. CASE Reversed(q) /\ v2.current + 1 \in DOMAIN v2.cachedFrames
                <8>1. N \in DOMAIN q.cachedFrames
                  <9>1. v2.current + 1 = N
                    BY <1>2, <5>2, <7>2
                  <9> QED BY <5>2, <7>2, <9>1
                <8>2. N <= Len(q.cachedFrames)
                  BY <1>2, <8>1
                <8> QED BY <1>2, <7>1, <7>2, <8>2
              <7> QED BY <6>2, <7>2
            <6>4. again.flags = q.flags
              BY <5>6 DEF Same
            <6>5. /\ r \in Players /\ Same(again, r) /\ Fits(r)
                  /\ r.state = "NotRunning" /\ r.timer = FALSE
                  /\ r.current = again.current /\ r.currentFrameNumber = -1
                  /\ r.loopCount = q.loopCount - 1
                  /\ r.cachedFrames = (IF "ClearCacheOnStop" \in q.flags THEN <<>> ELSE q.cachedFrames)
                  /\ ~InRange(r)
              BY <5>5, <5>8, <6>1, <6>2, <6>4, StopIs
            <6>6. TimerEnds(q, r)
              BY <4>3, <6>2, <6>3, <6>5 DEF TimerEnds
            <6>7. Same(q, r) /\ r.current \in -1..Len(r.images)
              BY <5>5, <5>6, <6>5 DEF Same
            <6> QED BY <1>6, <6>5, <6>6, <6>7 DEF r
          <5> QED BY <5>7, <5>8
        <4> QED BY <4>2, <4>3
      <3> QED BY <3>4, <3>5
    <2> QED BY <2>4, <2>5
  <1> QED BY <1>5, <1>6

-----------------------------------------------------------------------------
(* The player stays where it is, plays in the same way, and keeps its cache    *)
(* or gives it up.                                                            *)
StaysPut(q, r) ==
    /\ r.images = q.images /\ r.current = q.current
    /\ r.currentFrameNumber = q.currentFrameNumber
    /\ r.cachedFrames \in {q.cachedFrames, <<>>}
    /\ \A flag \in {"CacheAll", "InvertedOrder"} : flag \in r.flags <=> flag \in q.flags

LEMMA SetPaletteIs ==
    ASSUME NEW q \in Players, NEW pal \in Palettes
    PROVE LET r == SetPalette(q, pal) IN
          /\ r \in Players /\ StaysPut(q, r) /\ r.state = q.state /\ r.timer = q.timer
          /\ r.loopCount = q.loopCount /\ r.currentLoopCount = q.currentLoopCount
          /\ r.userLoopCount = q.userLoopCount /\ r.number = q.number /\ r.palette = pal
          /\ q.state # "NotRunning" => r.cachedFrames = q.cachedFrames
          /\ r.flags = q.flags \/ r.flags = q.flags \cup {"ClearCacheOnStop"}
          /\ \/ pal = q.palette \/ ~HasPalette(q) \/ r.cachedFrames = <<>>
             \/ q.state # "NotRunning" /\ "ClearCacheOnStop" \in r.flags
  <1> DEFINE a == [q EXCEPT !.palette = pal]
             b == [a EXCEPT !.cachedFrames = <<>>]
             F == a.flags \cup {"ClearCacheOnStop"}
             c == [a EXCEPT !.flags = F]
             r == SetPalette(q, pal)
  <1>1. /\ a \in Players /\ a.images = q.images /\ a.current = q.current /\ a.palette = pal
        /\ a.currentFrameNumber = q.currentFrameNumber /\ a.cachedFrames = q.cachedFrames
        /\ a.flags = q.flags /\ a.state = q.state /\ a.timer = q.timer
        /\ a.loopCount = q.loopCount /\ a.currentLoopCount = q.currentLoopCount
        /\ a.userLoopCount = q.userLoopCount /\ a.number = q.number
    BY DEF Players
  <1>2. r = IF pal = q.palette \/ ~HasPalette(q) THEN a
            ELSE IF q.state = "NotRunning" THEN b ELSE c
    BY DEF SetPalette, ClearCache
  <1> HIDE DEF a, r
  <1>3. /\ b \in Players /\ b.images = q.images /\ b.current = q.current /\ b.palette = pal
        /\ b.currentFrameNumber = q.currentFrameNumber /\ b.cachedFrames = <<>>
        /\ b.flags = q.flags /\ b.state = q.state /\ b.timer = q.timer
        /\ b.loopCount = q.loopCount /\ b.currentLoopCount = q.currentLoopCount
        /\ b.userLoopCount = q.userLoopCount /\ b.number = q.number
    <2>1. <<>> \in Seq(Seq(Shots))
      OBVIOUS
    <2> QED BY <1>1, <2>1 DEF Players
  <1>4. F \in SUBSET Flags /\ F = q.flags \cup {"ClearCacheOnStop"}
    BY <1>1 DEF Players, Flags
  <1> HIDE DEF F
  <1>5. /\ c \in Players /\ c.images = q.images /\ c.current = q.current /\ c.palette = pal
        /\ c.currentFrameNumber = q.currentFrameNumber /\ c.cachedFrames = q.cachedFrames
        /\ c.flags = F /\ c.state = q.state /\ c.timer = q.timer
        /\ c.loopCount = q.loopCount /\ c.currentLoopCount = q.currentLoopCount
        /\ c.userLoopCount = q.userLoopCount /\ c.number = q.number
    BY <1>1, <1>4 DEF Players
  <1> HIDE DEF b, c
  <1>6. CASE pal = q.palette \/ ~HasPalette(q)
    BY <1>1, <1>2, <1>6 DEF StaysPut, r
  <1>7. CASE ~(pal = q.palette \/ ~HasPalette(q)) /\ q.state = "NotRunning"
    BY <1>2, <1>3, <1>7 DEF StaysPut, r
  <1>8. CASE ~(pal = q.palette \/ ~HasPalette(q)) /\ q.state # "NotRunning"
    BY <1>2, <1>4, <1>5, <1>8 DEF StaysPut, r
  <1> QED BY <1>6, <1>7, <1>8

LEMMA SetLoopCountIs ==
    ASSUME NEW q \in Players, NEW count \in Nat \ {0}
    PROVE LET r == SetLoopCount(q, count) IN
          /\ r \in Players /\ StaysPut(q, r) /\ r.state = q.state /\ r.timer = q.timer
          /\ r.loopCount = (IF q.state = "NotRunning" THEN q.loopCount
                            ELSE q.loopCount + (count - q.userLoopCount))
          /\ r.currentLoopCount = q.currentLoopCount /\ r.cachedFrames = q.cachedFrames
          /\ r.userLoopCount = count /\ r.number = q.number /\ r.palette = q.palette
          /\ r.flags = q.flags
  <1> DEFINE l == IF q.state = "NotRunning" THEN q.loopCount
                  ELSE q.loopCount + (count - q.userLoopCount)
  <1>1. q.userLoopCount \in Int /\ count \in Int /\ l \in Int
    BY DEF Players
  <1>2. SetLoopCount(q, count) = [q EXCEPT !.userLoopCount = count, !.loopCount = l]
    BY DEF SetLoopCount
  <1> HIDE DEF l
  <1> QED BY <1>1, <1>2 DEF Players, StaysPut, l

LEMMA AbortLoopIs ==
    ASSUME NEW q \in Players, q.state # "NotRunning"
    PROVE LET r == AbortLoop(q) IN
          /\ r \in Players /\ StaysPut(q, r) /\ r.state = q.state /\ r.timer = q.timer
          /\ r.loopCount = 0 /\ r.currentLoopCount = 0 /\ r.cachedFrames = q.cachedFrames
          /\ r.userLoopCount = q.userLoopCount /\ r.number = q.number /\ r.palette = q.palette
          /\ r.flags = (q.flags \cup {"IgnoreLastImageLoop"}) \ {"AllowNonLastImageLoop"}
  <1> DEFINE F == (q.flags \cup {"IgnoreLastImageLoop"}) \ {"AllowNonLastImageLoop"}
             a == [q EXCEPT !.flags = F]
  <1>1. F \in SUBSET Flags /\ 0 \in Int
    BY DEF Players, Flags
  <1>2. AbortLoop(q) = [a EXCEPT !.currentLoopCount = 0, !.loopCount = 0]
    BY DEF AbortLoop
  <1>3. \A flag \in {"CacheAll", "InvertedOrder"} : flag \in F <=> flag \in q.flags
    OBVIOUS
  <1> HIDE DEF F
  <1>4. /\ a \in Players /\ a.images = q.images /\ a.current = q.current /\ a.palette = q.palette
        /\ a.currentFrameNumber = q.currentFrameNumber /\ a.cachedFrames = q.cachedFrames
        /\ a.flags = F /\ a.state = q.state /\ a.timer = q.timer
        /\ a.userLoopCount = q.userLoopCount /\ a.number = q.number
    BY <1>1 DEF Players
  <1> HIDE DEF a
  <1> QED BY <1>1, <1>2, <1>3, <1>4 DEF Players, StaysPut, F

LEMMA ClearCacheIs ==
    ASSUME NEW q \in Players
    PROVE LET r == ClearCache(q) IN
          /\ r \in Players /\ StaysPut(q, r) /\ Same(q, r) /\ r.state = q.state /\ r.timer = q.timer
          /\ r.loopCount = q.loopCount /\ r.currentLoopCount = q.currentLoopCount
          /\ r.number = q.number /\ r.cachedFrames = <<>>
  <1>1. <<>> \in Seq(Seq(Shots))
    OBVIOUS
  <1> QED BY <1>1 DEF ClearCache, Players, StaysPut, Same

LEMMA SetImagesIs ==
    ASSUME NEW q \in Players, NEW images \in Seq(Images), images # q.images, Fits(q),
           q.state = "NotRunning" => q.timer = FALSE
    PROVE LET r == SetImages(q, images) IN
          /\ r \in Players /\ r.state = "NotRunning" /\ r.timer = FALSE /\ r.images = images
          /\ r.current = -1 /\ r.currentFrameNumber = -1 /\ r.cachedFrames = <<>>
          /\ r.flags = q.flags /\ r.palette = q.palette /\ r.userLoopCount = q.userLoopCount
          /\ r.loopCount = q.loopCount
  <1> DEFINE a == Stop(q)
             b == ClearCache(a)
             number == [i \in Images |->
                           IF \E j \in DOMAIN q.images : q.images[j] = i THEN 0 ELSE b.number[i]]
             c == [b EXCEPT !.images = images, !.current = -1, !.currentFrameNumber = -1]
             r == [c EXCEPT !.number = number]
  <1>1. /\ a \in Players /\ Same(q, a) /\ a.state = "NotRunning" /\ a.timer = FALSE
        /\ a.loopCount = q.loopCount
    <2>1. CASE q.state = "NotRunning"
      BY <2>1 DEF Stop, Same
    <2>2. CASE q.state # "NotRunning"
      BY <2>2, StopIs
    <2> QED BY <2>1, <2>2
  <1>2. SetImages(q, images) = r
    BY DEF SetImages
  <1> HIDE DEF a
  <1>3. /\ b \in Players /\ Same(q, b) /\ b.state = "NotRunning" /\ b.timer = FALSE
        /\ b.loopCount = q.loopCount /\ b.cachedFrames = <<>>
    BY <1>1, ClearCacheIs DEF Same
  <1> HIDE DEF b
  <1>4. number \in [Images -> Nat]
    BY <1>3 DEF Players
  <1> HIDE DEF number
  <1>5. /\ c \in Players /\ c.state = b.state /\ c.timer = b.timer /\ c.images = images
        /\ c.current = -1 /\ c.currentFrameNumber = -1 /\ c.cachedFrames = b.cachedFrames
        /\ c.flags = b.flags /\ c.palette = b.palette /\ c.userLoopCount = b.userLoopCount
        /\ c.loopCount = b.loopCount
    <2>1. -1 \in Int
      OBVIOUS
    <2> QED BY <1>3, <2>1 DEF Players
  <1> HIDE DEF c
  <1> QED BY <1>2, <1>3, <1>4, <1>5 DEF Players, Same

(* What is cached once the frame q is at has been read.                       *)
CachedAt(q, c2) ==
    \/ c2 = q.cachedFrames /\ ("CacheAll" \in q.flags => CurrentHasCache(q))
    \/ /\ "CacheAll" \in q.flags /\ ~CurrentHasCache(q)
       /\ q.current + 1 \in DOMAIN q.cachedFrames
       /\ DOMAIN c2 = DOMAIN q.cachedFrames
       /\ \A j \in DOMAIN c2 : c2[j] = IF j = q.current + 1
                                     THEN Append(q.cachedFrames[j], FrameRead(q))
                                     ELSE q.cachedFrames[j]

LEMMA FrameReadIs ==
    ASSUME NEW q \in Players, InRange(q), Fits(q)
    PROVE /\ FrameRead(q) \in Shots /\ FrameRead(q).image = Image(q)
          /\ ~CurrentHasCache(q) => FrameRead(q) = Shot(Image(q), q.number[Image(q)], q.palette)
  <1>1. /\ Image(q) \in Images /\ Image(q) = q.images[q.current + 1] /\ q.palette \in Palettes
        /\ q.number[Image(q)] \in Nat /\ q.cachedFrames \in Seq(Seq(Shots))
    BY ImageIs DEF Players
  <1>2. CASE CurrentHasCache(q)
    <2> DEFINE k == q.current + 1
               n == q.currentFrameNumber + 1
    <2>1. k \in DOMAIN q.cachedFrames /\ n \in DOMAIN q.cachedFrames[k]
      BY <1>2 DEF CurrentHasCache, HasCache
    <2>2. FrameRead(q) = q.cachedFrames[k][n]
      BY <1>2 DEF FrameRead
    <2>3. q.cachedFrames[k] \in Seq(Shots)
      BY <1>1, <2>1
    <2>4. q.cachedFrames[k][n] \in Shots
      BY <2>1, <2>3
    <2> QED BY <1>1, <1>2, <2>1, <2>2, <2>4 DEF Fits
  <1>3. CASE ~CurrentHasCache(q)
    BY <1>1, <1>3 DEF FrameRead, Shot, Shots
  <1> QED BY <1>2, <1>3

LEMMA CacheReadIs ==
    ASSUME NEW q \in Players, InRange(q), Fits(q),
           q.currentFrameNumber \in 0..(Frames[Image(q)] - 1)
    PROVE LET r == CacheRead(q) IN
          /\ r \in Players /\ Same(q, r) /\ r.timer = q.timer /\ Fits(r)
          /\ r.current = q.current /\ r.currentFrameNumber = q.currentFrameNumber
          /\ r.loopCount = q.loopCount /\ r.currentLoopCount = q.currentLoopCount
          /\ \/ /\ r.state = "undefined" /\ r.cachedFrames = q.cachedFrames
                /\ "CacheAll" \in q.flags /\ Len(q.cachedFrames) <= q.current
             \/ r.state = q.state /\ CachedAt(q, r.cachedFrames)
  <1> DEFINE k == q.current + 1
             c == q.cachedFrames
             r == CacheRead(q)
  <1>1. /\ q.current \in Nat /\ k \in Nat \ {0} /\ k \in 1..Len(q.images) /\ Frames[Image(q)] \in Nat
        /\ Image(q) = q.images[k] /\ c \in Seq(Seq(Shots))
        /\ q.currentFrameNumber \in Nat /\ q.currentFrameNumber < Frames[Image(q)]
    <2>1. c \in Seq(Seq(Shots))
      BY DEF Players
    <2>2. /\ q.current \in Nat /\ Frames[Image(q)] \in Nat /\ q.current < Len(q.images)
          /\ Image(q) = q.images[k]
      BY ImageIs
    <2>3. k \in 1..Len(q.images)
      BY <2>2
    <2> QED BY <2>1, <2>2, <2>3
  <1>2. CASE CurrentHasCache(q) \/ "CacheAll" \notin q.flags
    <2>1. r = q
      BY <1>2 DEF CacheRead
    <2> HIDE DEF r
    <2> QED BY <1>2, <2>1 DEF Same, CachedAt, r
  <1>3. CASE ~(CurrentHasCache(q) \/ "CacheAll" \notin q.flags) /\ q.current >= Len(c)
    <2>1. r = [q EXCEPT !.state = "undefined"]
      BY <1>3 DEF CacheRead, Undefined
    <2>2. Len(c) <= q.current
      BY <1>1, <1>3
    <2> HIDE DEF r
    <2>3. /\ r \in Players /\ Same(q, r) /\ r.timer = q.timer
          /\ r.current = q.current /\ r.currentFrameNumber = q.currentFrameNumber
          /\ r.loopCount = q.loopCount /\ r.currentLoopCount = q.currentLoopCount
          /\ r.state = "undefined" /\ r.cachedFrames = q.cachedFrames
      BY <2>1 DEF Players, Same
    <2> QED BY <1>3, <2>2, <2>3 DEF r, Fits, Same
  <1>4. CASE ~(CurrentHasCache(q) \/ "CacheAll" \notin q.flags) /\ ~(q.current >= Len(c))
    <2> DEFINE s == Append(c[k], FrameRead(q))
               c2 == [c EXCEPT ![k] = s]
    <2>1. r = [q EXCEPT !.cachedFrames = c2]
      BY <1>4 DEF CacheRead
    <2>2. k \in DOMAIN c /\ c[k] \in Seq(Shots) /\ DOMAIN c = 1..Len(c)
      BY <1>1, <1>4
    <2>3. /\ s \in Seq(Shots) /\ Len(s) = Len(c[k]) + 1
          /\ \A n \in 1..Len(s) : s[n] = IF n <= Len(c[k]) THEN c[k][n] ELSE FrameRead(q)
      BY <2>2, FrameReadIs
    <2>4. Len(c[k]) <= q.currentFrameNumber /\ Len(c[k]) \in Nat
      <3>1. ~(q.currentFrameNumber + 1 \in DOMAIN c[k])
        BY <1>4, <2>2 DEF CurrentHasCache, HasCache
      <3>2. Len(c[k]) \in Nat /\ DOMAIN c[k] = 1..Len(c[k])
        BY <2>2
      <3>3. q.currentFrameNumber \in Nat
        BY <1>1
      <3> DEFINE m == q.currentFrameNumber
                 l == Len(c[k])
      <3>4. m \in Nat /\ l \in Nat /\ ~(m + 1 \in 1..l)
        BY <3>1, <3>2, <3>3
      <3> HIDE DEF m, l
      <3>5. l <= m
        BY <3>4
      <3> QED BY <3>2, <3>5 DEF m, l
    <2> HIDE DEF s
    <2>5. c2 \in Seq(Seq(Shots)) /\ DOMAIN c2 = DOMAIN c /\ Len(c2) = Len(c)
          /\ \A j \in DOMAIN c2 : c2[j] = IF j = k THEN s ELSE c[j]
      BY <1>1, <2>2, <2>3
    <2> HIDE DEF c2, r
    <2>6. /\ r \in Players /\ Same(q, r) /\ r.timer = q.timer /\ r.state = q.state
          /\ r.current = q.current /\ r.currentFrameNumber = q.currentFrameNumber
          /\ r.loopCount = q.loopCount /\ r.currentLoopCount = q.currentLoopCount
          /\ r.cachedFrames = c2
      BY <2>1, <2>5 DEF Players, Same
    <2>7. CachedAt(q, c2)
      BY <1>4, <2>2, <2>5 DEF CachedAt, s
    <2>8. Fits(r)
      <3>1. ASSUME NEW j \in DOMAIN c2
            PROVE /\ Len(c2[j]) <= Frames[q.images[j]]
                  /\ \A n \in DOMAIN c2[j] : c2[j][n].image = q.images[j]
        <4>1. CASE j = k
          <5>1. c2[j] = s /\ DOMAIN s = 1..Len(s)
            BY <2>3, <2>5, <4>1
          <5>2. Len(s) <= Frames[q.images[j]]
            BY <1>1, <2>3, <2>4, <4>1
          <5>3. ASSUME NEW n \in 1..Len(s) PROVE s[n].image = q.images[j]
            <6>1. CASE n <= Len(c[k])
              <7>1. n \in DOMAIN c[k]
                BY <2>2, <2>4, <6>1
              <7> QED BY <2>2, <2>3, <4>1, <6>1, <7>1 DEF Fits
            <6>2. CASE ~(n <= Len(c[k]))
              BY <1>1, <2>3, <4>1, <6>2, FrameReadIs
            <6> QED BY <6>1, <6>2
          <5> QED BY <5>1, <5>2, <5>3
        <4>2. CASE j # k
          BY <2>5, <4>2 DEF Fits
        <4> QED BY <4>1, <4>2
      <3> QED BY <2>5, <2>6, <3>1 DEF Fits, Same
    <2> QED BY <2>6, <2>7, <2>8 DEF r
  <1> QED BY <1>2, <1>3, <1>4

LEMMA ReadIs ==
    ASSUME NEW q \in Players, InRange(q), Fits(q), q.state = "WaitingRead",
           q.currentFrameNumber \in 0..(Frames[Image(q)] - 1), NEW ok \in BOOLEAN
    PROVE LET r == ReadImage(q, ok) IN
          /\ r \in Players /\ Same(q, r) /\ Fits(r)
          /\ r.current = q.current /\ r.currentFrameNumber = q.currentFrameNumber
          /\ r.loopCount = q.loopCount /\ r.currentLoopCount = q.currentLoopCount
          /\ \/ /\ r.state = "undefined" /\ r.cachedFrames = q.cachedFrames /\ r.timer = q.timer
                /\ "CacheAll" \in q.flags /\ Len(q.cachedFrames) <= q.current
             \/ /\ ok /\ r.state = "Running" /\ r.timer = TRUE
                /\ CachedAt(q, r.cachedFrames)
             \/ /\ ~ok /\ r.state = "NotRunning" /\ r.timer = FALSE
                /\ \/ "ClearCacheOnStop" \in q.flags /\ r.cachedFrames = <<>>
                   \/ "ClearCacheOnStop" \notin q.flags /\ CachedAt(q, r.cachedFrames)
  <1> DEFINE c == CacheRead(q)
             a == [c EXCEPT !.timer = TRUE, !.state = "Running"]
             r == ReadImage(q, ok)
  <1>1. /\ c \in Players /\ Same(q, c) /\ c.timer = q.timer /\ Fits(c)
        /\ c.current = q.current /\ c.currentFrameNumber = q.currentFrameNumber
        /\ c.loopCount = q.loopCount /\ c.currentLoopCount = q.currentLoopCount
        /\ \/ /\ c.state = "undefined" /\ c.cachedFrames = q.cachedFrames
              /\ "CacheAll" \in q.flags /\ Len(q.cachedFrames) <= q.current
           \/ c.state = "WaitingRead" /\ CachedAt(q, c.cachedFrames)
    BY CacheReadIs
  <1>2. r = IF c.state = "undefined" THEN c ELSE IF ok THEN a ELSE Stop(c)
    BY DEF ReadImage
  <1> HIDE DEF c, r
  <1>3. /\ a \in Players /\ Same(c, a) /\ a.timer = TRUE /\ a.state = "Running"
        /\ a.current = c.current /\ a.currentFrameNumber = c.currentFrameNumber
        /\ a.loopCount = c.loopCount /\ a.currentLoopCount = c.currentLoopCount
        /\ a.cachedFrames = c.cachedFrames
    BY <1>1 DEF Players, Same
  <1> HIDE DEF a
  <1>4. Fits(a)
    BY <1>1, <1>3 DEF Fits, Same
  <1>5. CASE c.state = "undefined"
    <2>1. c.state # "WaitingRead"
      BY <1>5
    <2> QED BY <1>1, <1>2, <1>5, <2>1 DEF r
  <1>6. CASE c.state = "WaitingRead" /\ CachedAt(q, c.cachedFrames) /\ ok
    <2>1. r = a
      BY <1>2, <1>6
    <2>2. Same(q, a)
      BY <1>1, <1>3 DEF Same
    <2> QED BY <1>1, <1>3, <1>4, <1>6, <2>1, <2>2 DEF r
  <1>7. CASE c.state = "WaitingRead" /\ CachedAt(q, c.cachedFrames) /\ ~ok
    <2>1. r = Stop(c)
      BY <1>2, <1>7
    <2>2. c.state # "NotRunning" /\ c.flags = q.flags
      BY <1>1, <1>7 DEF Same
    <2>3. /\ r \in Players /\ Same(c, r) /\ Fits(r)
          /\ r.state = "NotRunning" /\ r.timer = FALSE
          /\ r.current = c.current /\ r.currentFrameNumber = c.currentFrameNumber
          /\ r.loopCount = c.loopCount /\ r.currentLoopCount = c.currentLoopCount
          /\ r.cachedFrames = (IF "ClearCacheOnStop" \in c.flags THEN <<>> ELSE c.cachedFrames)
      BY <1>1, <2>1, <2>2, StopIs
    <2>4. Same(q, r)
      BY <1>1, <2>3 DEF Same
    <2> QED BY <1>1, <1>7, <2>2, <2>3, <2>4 DEF r
  <1> QED BY <1>1, <1>5, <1>6, <1>7

-----------------------------------------------------------------------------
(* The inductive invariant.                                                   *)
IInv == PlayerOK /\ ShownRight /\ DefinedUse

(* What concerns the place and the cache, and only these.                     *)
Kept ==
    /\ TimerDiscipline /\ PositionOK /\ WaysOK /\ CacheFits /\ SlotReaches /\ CacheRight
    /\ NumberRight /\ PlacesOK /\ ShownRight /\ DefinedUse

(* Either the history of the cache goes on, or there is no cache any more.    *)
UsageGoesOn(done) ==
    /\ usage' \subseteq Usages
    /\ \/ usage' = usage \cup done
       \/ usage' = {} /\ p'.state = "NotRunning" /\ p'.cachedFrames = <<>>
    /\ p'.state # "NotRunning" \/ p'.cachedFrames # <<>> => usage' = usage \cup done

LEMMA BecomesIs ==
    ASSUME TypeOK, NEW q, NEW done \in SUBSET Usages, Becomes(q, done)
    PROVE p' = q /\ UsageGoesOn(done)
  BY DEF Becomes, UsageGoesOn, TypeOK

LEMMA InitIs == Init => IInv
  <1> SUFFICES ASSUME Init PROVE IInv
    OBVIOUS
  <1>1. PICK pal \in Palettes : p = NewPlayer(pal)
    BY DEF Init
  <1>2. /\ p.images = <<>> /\ p.palette = pal /\ p.state = "NotRunning" /\ p.flags = {}
        /\ p.userLoopCount = 1 /\ p.cachedFrames = <<>> /\ p.timer = FALSE /\ p.loopCount = 1
        /\ p.current = 0 /\ p.currentFrameNumber = 0
    BY <1>1 DEF NewPlayer
  <1>3. /\ Len(p.images) = 0 /\ Len(p.cachedFrames) = 0 /\ DOMAIN p.cachedFrames = {}
        /\ ~(0 \in 0..(0 - 1)) /\ Nowhere \in [current : Int, frame : Int]
    <2>1. -1 \in Int
      OBVIOUS
    <2> QED BY <1>2, <2>1 DEF Nowhere
  <1>4. p \in Players
    <2>1. <<>> \in Seq(Seq(Shots)) /\ 0 \in Int /\ 1 \in Int /\ [i \in Images |-> 0] \in [Images -> Nat]
      OBVIOUS
    <2> QED BY <1>1, <2>1 DEF NewPlayer, Players
  <1>5. TypeOK
    <2>1. 0 \in -1..0 /\ 1 >= -MaxDebt
      BY ClientAssumption
    <2> QED BY <1>2, <1>3, <1>4, <2>1 DEF Init, TypeOK
  <1>6. TimerDiscipline /\ PositionOK
    BY <1>2, <1>3 DEF TimerDiscipline, PositionOK, Playing, InRange
  <1>7. LoopsOK /\ WaysOK
    BY <1>2 DEF Init, LoopsOK, WaysOK, Playing, Reversed
  <1>8. CacheFits /\ SlotReaches /\ CacheRight
    BY <1>2, <1>3 DEF CacheFits, SlotReaches, CacheRight, Playing
  <1>9. NumberRight /\ PaletteKnown /\ PlacesOK
    BY <1>2, <1>3 DEF NumberRight, PaletteKnown, PlacesOK
  <1>10. ShownRight /\ DefinedUse
    BY <1>2 DEF ShownRight, DefinedUse, Defined
  <1> QED BY <1>5, <1>6, <1>7, <1>8, <1>9, <1>10 DEF IInv, PlayerOK

(* A call that leaves the player at its place, or ends the animation there.   *)
LEMMA QuietStep ==
    ASSUME Kept, TypeOK, Defined, NEW done, UsageGoesOn(done), StaysPut(p, p'), p' \in Players, Fits(p'),
           p'.state = p.state \/ p'.state = "NotRunning",
           p'.timer = (p'.state = "Running"),
           Playing /\ p'.state = p.state => p'.cachedFrames = p.cachedFrames \/ "cleared" \in usage',
           Playing => p'.number = p.number \/ "rewound" \in usage',
           shown' = shown
    PROVE Kept'
  <1>1. /\ p'.images = p.images /\ p'.current = p.current
        /\ p'.currentFrameNumber = p.currentFrameNumber
        /\ p'.cachedFrames = p.cachedFrames \/ p'.cachedFrames = <<>>
        /\ "CacheAll" \in p'.flags <=> "CacheAll" \in p.flags
        /\ Reversed(p') <=> Reversed(p)
        /\ InRange(p') <=> InRange(p)
        /\ Image(p') = Image(p)
    BY DEF StaysPut, Reversed, InRange, Image
  <1>2. p'.cachedFrames # p.cachedFrames => DOMAIN p'.cachedFrames = {}
    BY <1>1
  <1>3. p'.state # "NotRunning" \/ p'.cachedFrames # <<>> =>
            /\ usage \subseteq usage'
            /\ OneWayOfCaching' => OneWayOfCaching
            /\ "cleared" \notin usage' => "cleared" \notin usage
            /\ "rewound" \notin usage' => "rewound" \notin usage
    BY DEF UsageGoesOn, OneWayOfCaching
  <1>4. Playing' => Playing /\ p'.state = p.state
    BY DEF Playing
  <1>5. OneWayOfCaching' => "cleared" \notin usage'
    BY DEF OneWayOfCaching
  <1>6. TimerDiscipline' /\ Defined' /\ DefinedUse'
    BY DEF TimerDiscipline, Defined, DefinedUse
  <1>7. PositionOK'
    BY <1>1, <1>4 DEF Kept, PositionOK, InRange, Image
  <1>8. WaysOK'
    BY <1>1, <1>3, <1>4 DEF Kept, WaysOK, Playing
  <1>9. CacheFits'
    BY DEF Fits, CacheFits
  <1>10. SlotReaches'
    <2>1. ASSUME p'.state = "Running", "CacheAll" \in p'.flags, HasSlot' PROVE Slot' # <<>>
      BY <1>1, <1>2, <2>1 DEF Kept, SlotReaches, HasSlot, Slot
    <2>2. ASSUME Playing', "CacheAll" \in p'.flags, OneWayOfCaching' PROVE p'.cachedFrames # <<>>
      BY <1>1, <1>3, <1>4, <1>5, <2>2 DEF Kept, SlotReaches, Playing
    <2>3. ASSUME OneWayOfCaching', InRange(p'), p'.cachedFrames # <<>>
          PROVE IF HasSlot'
                THEN Len(Slot') >= p'.currentFrameNumber + (IF p'.state = "Running" THEN 1 ELSE 0)
                ELSE p'.currentFrameNumber = 0 /\ p'.state # "Running"
      <3>1. OneWayOfCaching /\ InRange(p) /\ p'.cachedFrames = p.cachedFrames
        BY <1>1, <1>3, <2>3
      <3>2. /\ IF HasSlot
               THEN Len(Slot) >= p.currentFrameNumber + (IF p.state = "Running" THEN 1 ELSE 0)
               ELSE p.currentFrameNumber = 0 /\ p.state # "Running"
            /\ HasSlot' = HasSlot /\ (HasSlot => Slot' = Slot)
        BY <1>1, <2>3, <3>1 DEF Kept, SlotReaches, HasSlot, Slot
      <3>3. CASE HasSlot
        <4>1. p.cachedFrames[p.current + 1] \in Seq(Shots)
          BY <3>3 DEF HasSlot, TypeOK, Players
        <4>2. Len(Slot) \in Nat /\ p.currentFrameNumber \in Int
          BY <4>1 DEF Slot, TypeOK, Players
        <4>3. p'.state = "Running" => p.state = "Running"
          OBVIOUS
        <4> QED BY <1>1, <3>2, <3>3, <4>2, <4>3
      <3>4. CASE ~HasSlot
        BY <1>1, <3>2, <3>4
      <3> QED BY <3>3, <3>4
    <2> QED BY <2>1, <2>2, <2>3 DEF SlotReaches, InRange
  <1>11. CacheRight'
    BY <1>1, <1>2, <1>3 DEF Kept, CacheRight
  <1>12. NumberRight'
    <2>1. ASSUME p'.state = "WaitingRead", usage' \cap {"cleared", "rewound"} = {}
          PROVE CurrentHasCache(p') \/ p'.number[Image(p')] = p'.currentFrameNumber
      <3>1. p.state = "WaitingRead" /\ p'.cachedFrames = p.cachedFrames /\ p'.number = p.number
            /\ usage \cap {"cleared", "rewound"} = {}
        BY <1>3, <2>1 DEF Playing
      <3> QED BY <1>1, <3>1 DEF Kept, NumberRight, CurrentHasCache, HasCache
    <2> QED BY <2>1 DEF NumberRight, CurrentHasCache, HasCache, Image
  <1>13. PlacesOK'
    <2>1. AllAnimated' <=> AllAnimated
      BY <1>1 DEF AllAnimated
    <2> QED BY <1>1, <1>3, <2>1 DEF Kept, PlacesOK
  <1>14. ShownRight'
    <2>1. ASSUME p'.state = "Running", OneWayOfCaching', "rewound" \notin usage'
          PROVE shown'.image = Image(p') /\ shown'.frame = p'.currentFrameNumber
      BY <1>1, <1>3, <2>1 DEF Kept, ShownRight
    <2> QED BY <2>1 DEF ShownRight, Image
  <1> QED BY <1>6, <1>7, <1>8, <1>9, <1>10, <1>11, <1>12, <1>13, <1>14 DEF Kept

LEMMA Parts ==
    ASSUME IInv
    PROVE /\ Kept /\ TypeOK /\ LoopsOK /\ PaletteKnown /\ Fits(p) /\ p \in Players
          /\ p.timer = (p.state = "Running")
  <1>1. TypeOK /\ TimerDiscipline /\ CacheFits
    BY DEF IInv, PlayerOK
  <1>2. Fits(p)
    BY <1>1 DEF CacheFits, Fits
  <1>3. p \in Players /\ p.timer \in BOOLEAN
    BY <1>1 DEF TypeOK, Players
  <1>4. p.timer = (p.state = "Running")
    BY <1>1, <1>3 DEF TimerDiscipline
  <1> QED BY <1>2, <1>3, <1>4 DEF IInv, PlayerOK, Kept

LEMMA Together ==
    ASSUME Kept', TypeOK', LoopsOK', PaletteKnown'
    PROVE IInv'
  BY DEF IInv, PlayerOK, Kept

LEMMA LoopCountIs ==
    ASSUME NEW q \in Players
    PROVE q.userLoopCount \in Nat \ {0}
  BY DEF Players

LEMMA SetPaletteStep ==
    ASSUME IInv, NEW pal \in Palettes, setPalette(pal)
    PROVE IInv'
  <1> USE Parts
  <1> DEFINE r == SetPalette(p, pal)
  <1>1. /\ r \in Players /\ StaysPut(p, r) /\ r.state = p.state /\ r.timer = p.timer
        /\ r.loopCount = p.loopCount /\ r.currentLoopCount = p.currentLoopCount
        /\ r.userLoopCount = p.userLoopCount /\ r.number = p.number /\ r.palette = pal
        /\ p.state # "NotRunning" => r.cachedFrames = p.cachedFrames
        /\ r.flags = p.flags \/ r.flags = p.flags \cup {"ClearCacheOnStop"}
        /\ \/ pal = p.palette \/ ~HasPalette(p) \/ r.cachedFrames = <<>>
           \/ p.state # "NotRunning" /\ "ClearCacheOnStop" \in r.flags
    BY SetPaletteIs
  <1> HIDE DEF r
  <1>2. p' = r /\ UsageGoesOn({}) /\ Defined
    <2>1. Becomes(r, {}) /\ Defined /\ {} \in SUBSET Usages
      BY DEF setPalette, r
    <2> QED BY <2>1, BecomesIs
  <1>3. UNCHANGED <<shown, paused, aborted>>
    BY DEF setPalette
  <1>4. Fits(p')
    <2>1. p'.cachedFrames = p.cachedFrames \/ p'.cachedFrames = <<>>
      BY <1>1, <1>2 DEF StaysPut
    <2> QED BY <1>1, <1>2, <2>1, EmptyFits DEF Fits, StaysPut
  <1>5. Kept'
    BY <1>1, <1>2, <1>3, <1>4, QuietStep DEF Playing
  <1>6. TypeOK'
    BY <1>1, <1>2, <1>3 DEF TypeOK, UsageGoesOn, StaysPut
  <1>7. LoopsOK'
    BY <1>1, <1>2, <1>3 DEF LoopsOK, Playing, StaysPut, InRange, Here
  <1>8. PaletteKnown'
    <2>1. CASE p'.cachedFrames = <<>>
      BY <2>1 DEF PaletteKnown
    <2>2. CASE p'.cachedFrames = p.cachedFrames /\ pal = p.palette
      BY <1>1, <1>2, <2>2 DEF PaletteKnown, Playing, Defined
    <2>3. CASE p'.cachedFrames = p.cachedFrames /\ ~HasPalette(p)
      <3>1. ASSUME NEW j \in DOMAIN p.cachedFrames, NEW n \in DOMAIN p.cachedFrames[j]
            PROVE p.cachedFrames[j][n].image \notin Tinted
        <4>1. p.cachedFrames[j][n].image = p.images[j] /\ j \in DOMAIN p.images
          <5>1. /\ p.cachedFrames \in Seq(Seq(Shots)) /\ Len(p.cachedFrames) <= Len(p.images)
                /\ p.images \in Seq(Images)
            BY ClientAssumption DEF Fits, Players
          <5> QED BY <5>1 DEF Fits
        <4> QED BY <2>3, <4>1 DEF HasPalette
      <3> QED BY <2>3, <3>1 DEF PaletteKnown
    <2>4. CASE p.state # "NotRunning" /\ "ClearCacheOnStop" \in p'.flags
      <3>1. Playing'
        BY <1>1, <1>2, <2>4 DEF Playing, Defined, Players
      <3> QED BY <2>4, <3>1 DEF PaletteKnown
    <2> QED BY <1>1, <1>2, <2>1, <2>2, <2>3, <2>4 DEF StaysPut
  <1> QED BY <1>5, <1>6, <1>7, <1>8, Together

LEMMA SetLoopCountStep ==
    ASSUME IInv, NEW count \in LoopCounts, setLoopCount(count)
    PROVE IInv'
  <1> USE Parts
  <1> DEFINE r == SetLoopCount(p, count)
  <1>1. /\ r \in Players /\ StaysPut(p, r) /\ r.state = p.state /\ r.timer = p.timer
        /\ r.loopCount = (IF p.state = "NotRunning" THEN p.loopCount
                          ELSE p.loopCount + (count - p.userLoopCount))
        /\ r.currentLoopCount = p.currentLoopCount /\ r.cachedFrames = p.cachedFrames
        /\ r.userLoopCount = count /\ r.number = p.number /\ r.palette = p.palette
        /\ r.flags = p.flags
    BY SetLoopCountIs, ClientAssumption
  <1> HIDE DEF r
  <1>2. p' = r /\ UsageGoesOn({}) /\ Defined
    <2>1. Becomes(r, {}) /\ Defined /\ {} \in SUBSET Usages
      BY DEF setLoopCount, r
    <2> QED BY <2>1, BecomesIs
  <1>3. aborted' = FALSE /\ UNCHANGED <<shown, paused>> /\ p'.loopCount >= -MaxDebt
    BY DEF setLoopCount
  <1>4. Fits(p')
    BY <1>1, <1>2 DEF Fits, StaysPut
  <1>5. Kept'
    BY <1>1, <1>2, <1>3, <1>4, QuietStep DEF Playing
  <1>6. TypeOK'
    BY <1>1, <1>2, <1>3 DEF TypeOK, UsageGoesOn, StaysPut
  <1>7. LoopsOK'
    <2>1. p.userLoopCount \in Int /\ count \in Int /\ p.loopCount \in Int
      <3>1. \A n \in LoopCounts : n \in Int
        BY ClientAssumption
      <3>2. p.userLoopCount \in Int
        BY LoopCountIs
      <3> QED BY <3>1, <3>2 DEF Players
    <2>2. Playing' => p'.loopCount <= p'.userLoopCount
      BY <1>1, <1>2, <2>1 DEF LoopsOK, Playing
    <2> QED BY <1>1, <1>2, <1>3, <2>2 DEF LoopsOK, Playing, StaysPut, InRange, Here
  <1>8. PaletteKnown'
    BY <1>1, <1>2 DEF PaletteKnown, Playing, Defined
  <1> QED BY <1>5, <1>6, <1>7, <1>8, Together

LEMMA AbortLoopStep ==
    ASSUME IInv, abortLoop
    PROVE IInv'
  <1> USE Parts
  <1> DEFINE r == AbortLoop(p)
  <1>1. Playing /\ p.state # "NotRunning" /\ Defined
    BY DEF abortLoop, Playing, Defined
  <1>2. /\ r \in Players /\ StaysPut(p, r) /\ r.state = p.state /\ r.timer = p.timer
        /\ r.loopCount = 0 /\ r.currentLoopCount = 0 /\ r.cachedFrames = p.cachedFrames
        /\ r.userLoopCount = p.userLoopCount /\ r.number = p.number /\ r.palette = p.palette
        /\ r.flags = (p.flags \cup {"IgnoreLastImageLoop"}) \ {"AllowNonLastImageLoop"}
    BY <1>1, AbortLoopIs
  <1> HIDE DEF r
  <1>3. p' = r /\ UsageGoesOn({})
    <2>1. Becomes(r, {}) /\ {} \in SUBSET Usages
      BY DEF abortLoop, r
    <2> QED BY <2>1, BecomesIs
  <1>4. aborted' = TRUE /\ UNCHANGED <<shown, paused>>
    BY DEF abortLoop
  <1>5. Fits(p')
    BY <1>2, <1>3 DEF Fits, StaysPut
  <1>6. Kept'
    BY <1>1, <1>2, <1>3, <1>4, <1>5, QuietStep
  <1>7. TypeOK'
    <2>1. 0 >= -MaxDebt
      BY ClientAssumption
    <2> QED BY <1>2, <1>3, <1>4, <2>1 DEF TypeOK, UsageGoesOn, StaysPut
  <1>8. LoopsOK'
    <2>1. 0 <= p.userLoopCount
      BY LoopCountIs
    <2> QED BY <1>1, <1>2, <1>3, <1>4, <2>1 DEF LoopsOK, Playing
  <1>9. PaletteKnown'
    BY <1>2, <1>3 DEF PaletteKnown, Playing, Defined
  <1> QED BY <1>6, <1>7, <1>8, <1>9, Together

LEMMA ClearCacheStep ==
    ASSUME IInv, clearCache
    PROVE IInv'
  <1> USE Parts
  <1> DEFINE r == ClearCache(p)
  <1>1. /\ r \in Players /\ StaysPut(p, r) /\ Same(p, r) /\ r.state = p.state /\ r.timer = p.timer
        /\ r.loopCount = p.loopCount /\ r.currentLoopCount = p.currentLoopCount
        /\ r.number = p.number /\ r.cachedFrames = <<>>
    BY ClearCacheIs
  <1> HIDE DEF r
  <1>2. p' = r /\ UsageGoesOn({"cleared"}) /\ Defined
    <2>1. Becomes(r, {"cleared"}) /\ Defined /\ {"cleared"} \in SUBSET Usages
      BY DEF clearCache, r, Usages
    <2> QED BY <2>1, BecomesIs
  <1>3. UNCHANGED <<shown, paused, aborted>>
    BY DEF clearCache
  <1>4. Fits(p')
    BY <1>1, <1>2, EmptyFits
  <1>5. Playing => "cleared" \in usage'
    BY <1>1, <1>2 DEF UsageGoesOn, Playing
  <1>6. Kept'
    BY <1>1, <1>2, <1>3, <1>4, <1>5, QuietStep
  <1>7. TypeOK'
    BY <1>1, <1>2, <1>3 DEF TypeOK, UsageGoesOn, StaysPut
  <1>8. LoopsOK'
    BY <1>1, <1>2, <1>3 DEF LoopsOK, Playing, StaysPut, InRange, Here, Same
  <1>9. PaletteKnown'
    BY <1>1, <1>2 DEF PaletteKnown
  <1> QED BY <1>6, <1>7, <1>8, <1>9, Together

LEMMA StopStep ==
    ASSUME IInv, stop
    PROVE IInv'
  <1> USE Parts
  <1> DEFINE r == Stop(p)
  <1>1. Playing /\ p.state # "NotRunning" /\ Defined
    BY DEF stop, Playing, Defined
  <1>2. /\ r \in Players /\ Same(p, r) /\ Fits(r)
        /\ r.state = "NotRunning" /\ r.timer = FALSE
        /\ r.current = p.current /\ r.currentFrameNumber = p.currentFrameNumber
        /\ r.loopCount = p.loopCount /\ r.currentLoopCount = p.currentLoopCount
        /\ r.cachedFrames = (IF "ClearCacheOnStop" \in p.flags THEN <<>> ELSE p.cachedFrames)
        /\ InRange(r) <=> InRange(p)
        /\ r.number = p.number
    BY <1>1, StopIs
  <1> HIDE DEF r
  <1>3. p' = r /\ UsageGoesOn({})
    <2>1. Becomes(r, {}) /\ {} \in SUBSET Usages
      BY DEF stop, r
    <2> QED BY <2>1, BecomesIs
  <1>4. aborted' = FALSE /\ paused' = Here /\ UNCHANGED shown
    BY <1>2, <1>3 DEF stop, StillAborted
  <1>5. Kept'
    <2>1. StaysPut(p, p')
      BY <1>2, <1>3 DEF StaysPut, Same
    <2> QED BY <1>1, <1>2, <1>3, <1>4, <2>1, QuietStep
  <1>6. TypeOK'
    BY <1>2, <1>3, <1>4 DEF TypeOK, UsageGoesOn, Same, Here, Players
  <1>7. LoopsOK'
    <2>1. InRange(p)
      BY <1>1 DEF Kept, PositionOK
    <2>2. InRange(p)'
      BY <1>2, <1>3, <2>1 DEF InRange
    <2> QED BY <1>2, <1>3, <1>4, <2>2 DEF LoopsOK, Playing, Here
  <1>8. PaletteKnown'
    <2>1. CASE "ClearCacheOnStop" \in p.flags
      BY <1>2, <1>3, <2>1 DEF PaletteKnown
    <2>2. CASE "ClearCacheOnStop" \notin p.flags
      BY <1>1, <1>2, <1>3, <2>2 DEF PaletteKnown, Same
    <2> QED BY <2>1, <2>2
  <1> QED BY <1>5, <1>6, <1>7, <1>8, Together

LEMMA CopyDestroyedStep ==
    ASSUME IInv, NEW i \in Images, copyDestroyed(i)
    PROVE IInv'
  <1> USE Parts
  <1> DEFINE number == [p.number EXCEPT ![i] = 0]
             r == [p EXCEPT !.number = number]
  <1>1. /\ r \in Players /\ StaysPut(p, r) /\ Same(p, r) /\ r.state = p.state /\ r.timer = p.timer
        /\ r.loopCount = p.loopCount /\ r.currentLoopCount = p.currentLoopCount
        /\ r.cachedFrames = p.cachedFrames
    <2>1. number \in [Images -> Nat]
      BY DEF Players
    <2> HIDE DEF number
    <2> QED BY <2>1 DEF Players, StaysPut, Same
  <1>2. p' = r /\ UsageGoesOn({"rewound"}) /\ Defined
    <2>1. Becomes([p EXCEPT !.number[i] = 0], {"rewound"}) /\ Defined /\ {"rewound"} \in SUBSET Usages
      BY DEF copyDestroyed, Usages
    <2>2. [p EXCEPT !.number[i] = 0] = r
      BY DEF Players
    <2> QED BY <2>1, <2>2, BecomesIs
  <1> HIDE DEF r
  <1>3. UNCHANGED <<shown, paused, aborted>>
    BY DEF copyDestroyed
  <1>4. Fits(p')
    BY <1>1, <1>2 DEF Fits, StaysPut
  <1>5. TypeOK'
    BY <1>1, <1>2, <1>3 DEF TypeOK, UsageGoesOn, StaysPut
  <1>6. LoopsOK'
    BY <1>1, <1>2, <1>3 DEF LoopsOK, Playing, StaysPut, InRange, Here, Same
  <1>7. PaletteKnown'
    BY <1>1, <1>2 DEF PaletteKnown, Playing, Defined, Same
  <1>8. Kept'
    <2>1. Playing => "rewound" \in usage'
      BY <1>1, <1>2 DEF UsageGoesOn, Playing
    <2> QED BY <1>1, <1>2, <1>3, <1>4, <2>1, QuietStep
  <1> QED BY <1>5, <1>6, <1>7, <1>8, Together

LEMMA SetImagesStep ==
    ASSUME IInv, NEW images \in ImageLists, setImages(images)
    PROVE IInv'
  <1> USE Parts
  <1> DEFINE r == SetImages(p, images)
  <1>1. Defined /\ images # p.images
    BY DEF setImages
  <1>2. /\ r \in Players /\ r.state = "NotRunning" /\ r.timer = FALSE /\ r.images = images
        /\ r.current = -1 /\ r.currentFrameNumber = -1 /\ r.cachedFrames = <<>>
        /\ r.flags = p.flags /\ r.palette = p.palette /\ r.userLoopCount = p.userLoopCount
        /\ r.loopCount = p.loopCount
    BY <1>1, SetImagesIs, ClientAssumption
  <1> HIDE DEF r
  <1>3. p' = r /\ UsageGoesOn({})
    <2>1. Becomes(r, {}) /\ {} \in SUBSET Usages
      BY DEF setImages, r
    <2> QED BY <2>1, BecomesIs
  <1>4. aborted' = FALSE /\ paused' = Nowhere /\ UNCHANGED shown
    BY <1>2, <1>3 DEF setImages, StillAborted
  <1>5. ~Playing' /\ ~InRange(p)' /\ DOMAIN p'.cachedFrames = {} /\ Len(p'.images) \in Nat
    <2>1. Len(images) \in Nat
      BY ClientAssumption
    <2> QED BY <1>2, <1>3, <2>1 DEF Playing, InRange
  <1>6. TypeOK'
    <2>1. -1 \in -1..Len(p'.images) /\ -1 \in Int
      BY <1>5
    <2> QED BY <1>2, <1>3, <1>4, <2>1 DEF TypeOK, UsageGoesOn, Nowhere
  <1>7. LoopsOK' /\ PositionOK' /\ TimerDiscipline'
    BY <1>2, <1>3, <1>4, <1>5 DEF LoopsOK, PositionOK, TimerDiscipline, Nowhere
  <1>8. WaysOK'
    BY <1>2, <1>3, <1>5 DEF Kept, WaysOK, Reversed
  <1>9. CacheFits'
    <2>1. Fits(p')
      BY <1>2, <1>3, EmptyFits
    <2> QED BY <2>1 DEF CacheFits, Fits
  <1>10. SlotReaches' /\ CacheRight' /\ NumberRight' /\ PaletteKnown'
    BY <1>2, <1>3, <1>5 DEF SlotReaches, CacheRight, NumberRight, PaletteKnown
  <1>11. PlacesOK'
    <2>1. p'.current # Len(p'.images)
      BY <1>2, <1>3, <1>5
    <2> QED BY <1>2, <1>3, <2>1 DEF PlacesOK
  <1>12. ShownRight' /\ DefinedUse'
    BY <1>2, <1>3 DEF ShownRight, DefinedUse, Defined
  <1>13. Kept'
    BY <1>7, <1>8, <1>9, <1>10, <1>11, <1>12 DEF Kept
  <1> QED BY <1>6, <1>7, <1>10, <1>13, Together

-----------------------------------------------------------------------------
LEMMA StartStep ==
    ASSUME IInv, NEW flags \in FlagSets, start(flags)
    PROVE IInv'
  <1> USE Parts
  <1> DEFINE r == Start(p, flags)
             F == flags \cup (IF "InvertedOrder" \in flags THEN {"CacheAll"} ELSE {})
             done == {IF flags \cap {"CacheAll", "InvertedOrder"} = {} THEN "plain" ELSE "cached"}
             c == p.cachedFrames
             N == Len(p.images)
  <1>1. p.state = "NotRunning" /\ p.images # <<>> /\ Defined /\ ~Playing
    BY DEF start, Defined, Playing
  <1>2. Placed(p)
    BY <1>1 DEF Kept, PositionOK, TypeOK, Placed
  <1>3. /\ r \in Players /\ r.images = p.images /\ r.palette = p.palette
        /\ r.userLoopCount = p.userLoopCount /\ r.timer = p.timer
        /\ r.flags = F
        /\ Fits(r) /\ Filled(p, r) /\ r.current \in -1..Len(r.images)
        /\ Len(c) <= Len(r.cachedFrames)
        /\ r.cachedFrames # c => "CacheAll" \in r.flags
        /\ StartFails(p, r, flags) \/ StartIdles(p, r) \/ StartPlays(p, r, flags)
    BY <1>1, <1>2, StartIs, ClientAssumption
  <1> HIDE DEF r
  <1>4. p' = r /\ UsageGoesOn(done)
    <2>1. Becomes(r, done) /\ done \in SUBSET Usages
      BY DEF start, r, Usages
    <2> HIDE DEF done
    <2> QED BY <2>1, BecomesIs
  <1>5. ("CacheAll" \in p'.flags <=> done = {"cached"}) /\ (done = {"cached"} \/ done = {"plain"})
    BY <1>3, <1>4
  <1>6. paused' = Nowhere /\ UNCHANGED <<shown, aborted>>
    BY DEF start
  <1>7. aborted = FALSE
    BY <1>1 DEF LoopsOK, TypeOK
  <1>8. /\ p'.state # "Running" /\ p'.state # "NotRunning" => usage' = usage \cup done
        /\ p'.state # "NotRunning" \/ p'.cachedFrames # <<>> =>
              /\ usage' = usage \cup done
              /\ OneWayOfCaching' => OneWayOfCaching
              /\ "rewound" \notin usage' => "rewound" \notin usage
    BY <1>4 DEF UsageGoesOn, OneWayOfCaching
  <1>9. /\ p.images \in Seq(Images) /\ N \in Nat \ {0} /\ c \in Seq(Seq(Shots)) /\ Len(c) \in Nat
        /\ p'.cachedFrames \in Seq(Seq(Shots)) /\ Len(p'.cachedFrames) \in Nat
        /\ Len(c) <= N /\ Len(p'.cachedFrames) <= N /\ p.current \in Int
    <2>1. p.images \in Seq(Images)
      BY DEF Players
    <2>2. c \in Seq(Seq(Shots)) /\ p'.cachedFrames \in Seq(Seq(Shots)) /\ p.current \in Int
      BY <1>3, <1>4 DEF Players
    <2>3. Len(c) <= N /\ Len(p'.cachedFrames) <= N
      BY <1>3, <1>4 DEF Fits
    <2> QED BY <1>1, <2>1, <2>2, <2>3, ClientAssumption
  <1> HIDE DEF done, F
  <1>10. (AllAnimated' <=> AllAnimated) /\ (AllAnimated <=> ~SomeStill(p))
    BY <1>3, <1>4 DEF AllAnimated, SomeStill
  (* If all images are animated, a cache that is not empty has all places, or *)
  (* the player is at one of them.                                            *)
  <1>11. ASSUME OneWayOfCaching, AllAnimated
         PROVE /\ p.current # N
               /\ c # <<>> /\ Len(c) < N =>
                     /\ InRange(p) /\ p.current \in 0..(Len(c) - 1)
                     /\ \A j \in 1..(Len(c) - 1) : c[j] # <<>>
    <2>1. p.current # N
      BY <1>1, <1>11 DEF Kept, PlacesOK
    <2>2. ASSUME c # <<>>, Len(c) < N
          PROVE /\ InRange(p) /\ p.current \in 0..(Len(c) - 1)
                /\ \A j \in 1..(Len(c) - 1) : c[j] # <<>>
      <3>1. p.current \in 0..(Len(c) - 1) /\ \A j \in 1..(Len(c) - 1) : c[j] # <<>>
        BY <1>1, <1>11, <2>2 DEF Kept, PlacesOK
      <3> QED BY <1>9, <2>2, <3>1 DEF InRange
    <2> QED BY <2>1, <2>2
  <1>26. ASSUME NEW j \in DOMAIN p'.cachedFrames, NEW n \in DOMAIN p'.cachedFrames[j]
         PROVE \/ /\ j \in DOMAIN c /\ n \in DOMAIN c[j]
                  /\ p'.cachedFrames[j][n] = c[j][n]
               \/ p'.cachedFrames[j][n].frame = n - 1 /\ p'.cachedFrames[j][n].palette = p.palette
    <2>1. CASE p'.cachedFrames[j][n] = Shot(r.images[j], n - 1, r.palette)
      BY <1>3, <2>1 DEF Shot
    <2> QED BY <1>3, <1>4, <2>1 DEF Filled
  <1>12. TypeOK'
    <2>1. p.loopCount >= -MaxDebt /\ p.userLoopCount >= -MaxDebt
      BY LoopCountIs, ClientAssumption DEF TypeOK
    <2>2. p'.loopCount >= -MaxDebt
      BY <1>3, <1>4, <2>1 DEF StartFails, StartIdles, StartPlays
    <2>3. -1 \in Int
      OBVIOUS
    <2> QED BY <1>3, <1>4, <1>6, <1>7, <2>2, <2>3 DEF TypeOK, UsageGoesOn, Nowhere
  <1>13. TimerDiscipline'
    BY <1>1, <1>3, <1>4 DEF TimerDiscipline, StartFails, StartIdles, StartPlays
  <1>14. PositionOK'
    <2>1. CASE StartFails(p, r, flags)
      BY <1>4, <2>1 DEF StartFails, PositionOK, Playing, Defined
    <2>2. CASE StartIdles(p, r)
      BY <1>4, <2>2 DEF StartIdles, PositionOK, Playing, InRange
    <2>3. CASE StartPlays(p, r, flags)
      <3>1. InRange(r) /\ r.currentFrameNumber \in 0..(Frames[Image(r)] - 1)
        BY <2>3 DEF StartPlays, AtFrame, HasFrame
      <3>2. ~(r.current < 0)
        BY <1>3, <3>1, ImageIs
      <3> QED BY <1>4, <3>1, <3>2 DEF PositionOK, InRange, Image
    <2> QED BY <1>3, <2>1, <2>2, <2>3
  <1>15. LoopsOK'
    <2>1. p.userLoopCount <= p.userLoopCount
      BY LoopCountIs
    <2>2. Playing' => p'.loopCount = p'.userLoopCount
      BY <1>3, <1>4 DEF StartFails, StartIdles, StartPlays, Playing
    <2> QED BY <1>3, <1>4, <1>6, <1>7, <2>1, <2>2 DEF LoopsOK
  <1>16. WaysOK'
    <2>1. Reversed(p)' => "CacheAll" \in p'.flags
      BY <1>3, <1>4 DEF Reversed, F
    <2>2. Playing' => (IF "CacheAll" \in p'.flags THEN "cached" ELSE "plain") \in usage'
      BY <1>5, <1>8 DEF Playing
    <2>3. p'.cachedFrames # <<>> => "cached" \in usage'
      BY <1>3, <1>4, <1>5, <1>8 DEF Kept, WaysOK
    <2> QED BY <2>1, <2>2, <2>3 DEF WaysOK
  <1>17. CacheFits'
    BY <1>3, <1>4 DEF CacheFits, Fits
  <1>18. SlotReaches'
    <2>1. p'.state # "Running"
      BY <1>3, <1>4 DEF StartFails, StartIdles, StartPlays
    <2>2. Playing' /\ "CacheAll" \in p'.flags => p'.cachedFrames # <<>>
      BY <1>3, <1>4 DEF StartFails, StartIdles, StartPlays, Playing, AtFrame
    <2>3. ASSUME Defined', OneWayOfCaching', InRange(p)', p'.cachedFrames # <<>>
          PROVE IF HasSlot' THEN Len(Slot)' >= p'.currentFrameNumber
                            ELSE p'.currentFrameNumber = 0
      <3>1. StartPlays(p, r, flags)
        BY <1>3, <1>4, <2>3 DEF StartFails, StartIdles, Defined, InRange
      <3>2. HasSlot' => Len(Slot)' \in Nat
        BY <1>9 DEF HasSlot, Slot
      <3>3. CASE p'.currentFrameNumber = 0
        BY <3>2, <3>3
      <3>4. CASE /\ p'.current + 1 \in DOMAIN p'.cachedFrames
                 /\ p'.currentFrameNumber < Len(p'.cachedFrames[p'.current + 1])
        <4>1. HasSlot' /\ Len(Slot)' \in Nat /\ p'.currentFrameNumber \in Int
              /\ p'.currentFrameNumber < Len(Slot)'
          BY <1>3, <1>4, <3>2, <3>4 DEF HasSlot, Slot, Players
        <4> QED BY <4>1
      <3>5. CASE /\ InRange(p) /\ p'.current = p.current
                 /\ p'.currentFrameNumber = p.currentFrameNumber
                 /\ c # <<>>
                 /\ p'.cachedFrames = c \/ OneMore(c, p'.cachedFrames, p'.current)
        <4>1. IF HasSlot THEN Len(Slot) >= p.currentFrameNumber ELSE p.currentFrameNumber = 0
          <5>1. IF HasSlot THEN Len(Slot) >= p.currentFrameNumber + 0 ELSE p.currentFrameNumber = 0
            BY <1>1, <1>8, <2>3, <3>5 DEF Kept, SlotReaches
          <5>2. p.currentFrameNumber \in Int
            BY DEF Players
          <5> QED BY <5>1, <5>2
        <4>2. CASE HasSlot
          <5>1. HasSlot' /\ Slot' = Slot
            BY <1>9, <3>5, <4>2 DEF HasSlot, Slot, OneMore
          <5> QED BY <3>5, <4>1, <4>2, <5>1
        <4>3. CASE ~HasSlot
          BY <3>2, <3>5, <4>1, <4>3
        <4> QED BY <4>2, <4>3
      <3> QED BY <1>4, <2>3, <3>1, <3>3, <3>4, <3>5 DEF StartPlays
    <2>4. p'.currentFrameNumber + 0 = p'.currentFrameNumber
      BY <1>3, <1>4 DEF Players
    <2> QED BY <2>1, <2>2, <2>3, <2>4 DEF SlotReaches
  <1>19. CacheRight'
    <2>1. ASSUME OneWayOfCaching', "rewound" \notin usage',
                 NEW j \in DOMAIN p'.cachedFrames, NEW n \in DOMAIN p'.cachedFrames[j]
          PROVE p'.cachedFrames[j][n].frame = n - 1
      <3>1. p'.cachedFrames # <<>>
        OBVIOUS
      <3>2. OneWayOfCaching /\ "rewound" \notin usage
        BY <1>8, <2>1, <3>1
      <3> QED BY <1>26, <3>2 DEF Kept, CacheRight
    <2> QED BY <2>1 DEF CacheRight
  <1>20. NumberRight'
    BY <1>3, <1>4 DEF NumberRight, StartFails, StartIdles, StartPlays, AtFrame, HasFrame,
                     CurrentHasCache, HasCache, Image
  <1>21. PaletteKnown'
    <2>1. ASSUME NEW j \in DOMAIN p'.cachedFrames, NEW n \in DOMAIN p'.cachedFrames[j]
          PROVE \/ p'.cachedFrames[j][n].image \notin Tinted
                \/ p'.cachedFrames[j][n].palette = p'.palette
      BY <1>1, <1>3, <1>4, <1>26 DEF PaletteKnown
    <2> QED BY <2>1 DEF PaletteKnown
  <1>22. PlacesOK'
    <2>1. ASSUME Defined', AllAnimated' PROVE p'.current # Len(p'.images)
      <3>1. p.current # N
        BY <1>1, <1>10, <2>1 DEF Kept, PlacesOK
      <3>2. CASE StartIdles(p, r)
        BY <1>3, <1>4, <1>10, <2>1, <3>1, <3>2 DEF StartIdles
      <3>3. CASE StartPlays(p, r, flags)
        <4>1. r.current < Len(r.images) /\ r.current \in Nat
          BY <1>3, <3>3, ImageIs DEF StartPlays, AtFrame, HasFrame
        <4> QED BY <1>3, <1>4, <1>9, <4>1
      <3> QED BY <1>3, <1>4, <2>1, <3>2, <3>3 DEF StartFails, Defined
    <2>2. ASSUME Defined', AllAnimated', OneWayOfCaching', p'.cachedFrames # <<>>,
                 Len(p'.cachedFrames) < Len(p'.images)
          PROVE /\ p'.current \in 0..(Len(p'.cachedFrames) - 1)
                /\ \A j \in 1..(Len(p'.cachedFrames) - 1) : p'.cachedFrames[j] # <<>>
      <3>1. /\ OneWayOfCaching /\ AllAnimated /\ ~SomeStill(p) /\ Len(c) < N
            /\ Len(p'.cachedFrames) < N
        BY <1>3, <1>4, <1>8, <1>9, <1>10, <2>2
      <3>2. c # <<>> => /\ InRange(p) /\ p.current \in 0..(Len(c) - 1)
                        /\ \A j \in 1..(Len(c) - 1) : c[j] # <<>>
        BY <1>11, <3>1
      <3>3. CASE StartIdles(p, r)
        BY <1>3, <1>4, <1>9, <2>2, <3>1, <3>2, <3>3 DEF StartIdles
      <3>4. CASE c = <<>> /\ p'.current = 0 /\ Len(p'.cachedFrames) = 1
        BY <3>4
      <3>5. CASE /\ c # <<>> /\ p'.current \in {0, p.current}
                 /\ p'.cachedFrames = c \/ OneMore(c, p'.cachedFrames, p'.current)
        <4>1. p'.current < Len(c) /\ p'.current \in 0..(Len(c) - 1)
          BY <1>9, <3>2, <3>5
        <4>2. p'.cachedFrames = c
          BY <1>9, <3>5, <4>1 DEF OneMore
        <4> QED BY <3>2, <3>5, <4>1, <4>2
      <3>6. CASE StartPlays(p, r, flags)
        BY <1>4, <1>9, <2>2, <3>1, <3>2, <3>4, <3>5, <3>6 DEF StartPlays
      <3> QED BY <1>3, <1>4, <2>2, <3>3, <3>6 DEF StartFails, Defined
    <2> QED BY <2>1, <2>2 DEF PlacesOK
  <1>23. ShownRight'
    BY <1>3, <1>4 DEF ShownRight, StartFails, StartIdles, StartPlays
  <1>24. DefinedUse'
    <2>1. ASSUME ~Defined', OneWayOfCaching', AllAnimated' PROVE FALSE
      <3>1. StartFails(p, r, flags) /\ p'.state # "NotRunning"
        BY <1>3, <1>4, <2>1 DEF StartIdles, StartPlays, Defined
      <3>2. OneWayOfCaching /\ AllAnimated
        BY <1>8, <1>10, <2>1, <3>1
      <3> QED BY <1>11, <3>1, <3>2 DEF StartFails
    <2> QED BY <2>1 DEF DefinedUse, AllAnimated
  <1>25. Kept'
    BY <1>13, <1>14, <1>16, <1>17, <1>18, <1>19, <1>20, <1>22, <1>23, <1>24 DEF Kept
  <1> QED BY <1>12, <1>15, <1>21, <1>25, Together

-----------------------------------------------------------------------------
(* What is in the cache d that reading the current frame leaves.              *)
LEMMA CachedAtIs ==
    ASSUME IInv, p.state = "WaitingRead", NEW c2 \in Seq(Seq(Shots)), CachedAt(p, c2)
    PROVE LET k == p.current + 1 IN
          /\ Len(c2) = Len(p.cachedFrames) /\ DOMAIN c2 = DOMAIN p.cachedFrames
          /\ \A j \in DOMAIN c2 : p.cachedFrames[j] # <<>> => c2[j] # <<>>
          /\ "CacheAll" \in p.flags /\ k \in DOMAIN c2 => c2[k] # <<>>
          /\ OneWayOfCaching /\ c2 # <<>> =>
                k \in DOMAIN c2 /\ Len(c2[k]) >= p.currentFrameNumber + 1
          /\ OneWayOfCaching /\ "rewound" \notin usage =>
                \A j \in DOMAIN c2 : \A n \in DOMAIN c2[j] : c2[j][n].frame = n - 1
          /\ \A j \in DOMAIN c2 : \A n \in DOMAIN c2[j] :
                \/ c2[j][n].image \notin Tinted
                \/ c2[j][n].palette = p.palette
                \/ "ClearCacheOnStop" \in p.flags
          /\ c2 # <<>> => "cached" \in usage
  <1> USE Parts
  <1> DEFINE k == p.current + 1
             c == p.cachedFrames
             f == p.currentFrameNumber
  <1>1. Playing /\ Defined /\ InRange(p) /\ f \in 0..(Frames[Image(p)] - 1)
    BY DEF Playing, Defined, Kept, PositionOK
  <1>2. /\ c \in Seq(Seq(Shots)) /\ Len(c) \in Nat /\ DOMAIN c = 1..Len(c) /\ k \in Int /\ f \in Nat
        /\ \A j \in DOMAIN c : /\ c[j] \in Seq(Shots) /\ Len(c[j]) \in Nat
                               /\ DOMAIN c[j] = 1..Len(c[j])
    BY <1>1 DEF Players
  <1>3. CurrentHasCache(p) => k \in DOMAIN c /\ f + 1 \in DOMAIN c[k]
    BY DEF CurrentHasCache, HasCache
  <1>4. /\ OneWayOfCaching /\ "CacheAll" \notin p.flags => c = <<>>
        /\ c # <<>> => "cached" \in usage
    BY <1>1 DEF Kept, WaysOK, OneWayOfCaching
  <1>5. /\ FrameRead(p) \in Shots
        /\ ~CurrentHasCache(p) => FrameRead(p) = Shot(Image(p), p.number[Image(p)], p.palette)
    BY <1>1, FrameReadIs
  <1>6. /\ OneWayOfCaching /\ "rewound" \notin usage =>
                \A j \in DOMAIN c : \A n \in DOMAIN c[j] : c[j][n].frame = n - 1
        /\ \A j \in DOMAIN c : \A n \in DOMAIN c[j] :
                \/ c[j][n].image \notin Tinted
                \/ c[j][n].palette = p.palette
                \/ "ClearCacheOnStop" \in p.flags
    BY <1>1 DEF Kept, CacheRight, PaletteKnown
  <1>7. CASE c2 = c /\ ("CacheAll" \in p.flags => CurrentHasCache(p))
    <2>1. "CacheAll" \in p.flags => k \in DOMAIN c2 /\ c2[k] # <<>> /\ Len(c2[k]) >= f + 1
      BY <1>2, <1>3, <1>7
    <2> HIDE DEF k, c, f
    <2> QED BY <1>4, <1>6, <1>7, <2>1 DEF k, c, f
  <1>8. CASE /\ "CacheAll" \in p.flags /\ ~CurrentHasCache(p) /\ k \in DOMAIN c
             /\ DOMAIN c2 = DOMAIN c
             /\ \A j \in DOMAIN c2 : c2[j] = IF j = k THEN Append(c[j], FrameRead(p)) ELSE c[j]
    <2> DEFINE s == c2[k]
               a == c[k]
               x == FrameRead(p)
               m == Len(a)
    <2>1. /\ Len(s) = m + 1 /\ s # <<>> /\ DOMAIN s = 1..(m + 1)
          /\ s[m + 1] = x /\ \A n \in 1..m : s[n] = a[n]
          /\ m \in Nat /\ DOMAIN a = 1..m
      <3>1. a \in Seq(Shots) /\ x \in Shots /\ s = Append(a, x)
        BY <1>2, <1>5, <1>8
      <3> HIDE DEF a, x, s
      <3> QED BY <3>1
    <2>2. m <= f
      <3>1. f + 1 \notin 1..m
        BY <1>8, <2>1 DEF CurrentHasCache, HasCache
      <3> QED BY <1>2, <2>1, <3>1
    <2>3. OneWayOfCaching => m >= f
      <3>1. c # <<>> /\ HasSlot /\ Slot = c[k]
        BY <1>2, <1>8 DEF HasSlot, Slot
      <3>2. OneWayOfCaching => Len(Slot) >= p.currentFrameNumber + 0
        BY <1>1, <3>1 DEF Kept, SlotReaches
      <3> QED BY <1>2, <2>1, <3>1, <3>2
    <2>4. Len(c2) = Len(c)
      BY <1>2, <1>8
    <2>5. OneWayOfCaching /\ "rewound" \notin usage => p.number[Image(p)] = f
      <3>1. OneWayOfCaching => "cleared" \notin usage
        BY DEF OneWayOfCaching
      <3> QED BY <1>8, <3>1 DEF Kept, NumberRight
    <2>6. ASSUME NEW j \in DOMAIN c2, NEW n \in DOMAIN c2[j]
          PROVE /\ OneWayOfCaching /\ "rewound" \notin usage => c2[j][n].frame = n - 1
                /\ \/ c2[j][n].image \notin Tinted
                   \/ c2[j][n].palette = p.palette
                   \/ "ClearCacheOnStop" \in p.flags
      <3>1. CASE j = k /\ n = m + 1
        <4>1. c2[j][n].frame = p.number[Image(p)] /\ c2[j][n].palette = p.palette
          BY <1>5, <1>8, <2>1, <3>1 DEF Shot
        <4> QED BY <1>2, <2>1, <2>2, <2>3, <2>5, <3>1, <4>1
      <3>2. CASE j = k /\ n # m + 1
        <4>1. n \in 1..m /\ c2[j][n] = c[j][n]
          <5>1. n \in DOMAIN s
            BY <3>2
          <5>2. n \in 1..m
            BY <2>1, <3>2, <5>1
          <5> QED BY <2>1, <3>2, <5>2
        <4> QED BY <1>6, <1>8, <2>1, <3>2, <4>1
      <3>3. CASE j # k
        BY <1>6, <1>8, <3>3
      <3> QED BY <3>1, <3>2, <3>3
    <2>7. OneWayOfCaching => Len(c2[k]) >= f + 1
      BY <1>2, <2>1, <2>3
    <2>8. \A j \in DOMAIN c2 : c[j] # <<>> => c2[j] # <<>>
      BY <1>8, <2>1
    <2>9. c2[k] # <<>> /\ k \in DOMAIN c2 /\ "cached" \in usage
      BY <1>2, <1>4, <1>8, <2>1
    <2> HIDE DEF m, a, s, x
    <2> QED BY <1>8, <2>4, <2>6, <2>7, <2>8, <2>9
  <1> QED BY <1>7, <1>8 DEF CachedAt

LEMMA ReadStep ==
    ASSUME IInv, NEW ok \in BOOLEAN, readImage(ok)
    PROVE IInv'
  <1> USE Parts
  <1> DEFINE r == ReadImage(p, ok)
             c == p.cachedFrames
             N == Len(p.images)
  <1>1. /\ p.state = "WaitingRead" /\ p.timer = FALSE /\ Playing /\ Defined /\ InRange(p)
        /\ p.currentFrameNumber \in 0..(Frames[Image(p)] - 1)
    <2>1. p.state = "WaitingRead"
      BY DEF readImage
    <2> QED BY <2>1 DEF Playing, Defined, Kept, PositionOK
  <1>2. /\ r \in Players /\ Same(p, r) /\ Fits(r)
        /\ r.current = p.current /\ r.currentFrameNumber = p.currentFrameNumber
        /\ r.loopCount = p.loopCount /\ r.currentLoopCount = p.currentLoopCount
        /\ \/ /\ r.state = "undefined" /\ r.cachedFrames = p.cachedFrames /\ r.timer = p.timer
              /\ "CacheAll" \in p.flags /\ Len(p.cachedFrames) <= p.current
           \/ /\ ok /\ r.state = "Running" /\ r.timer = TRUE
              /\ CachedAt(p, r.cachedFrames)
           \/ /\ ~ok /\ r.state = "NotRunning" /\ r.timer = FALSE
              /\ \/ "ClearCacheOnStop" \in p.flags /\ r.cachedFrames = <<>>
                 \/ "ClearCacheOnStop" \notin p.flags /\ CachedAt(p, r.cachedFrames)
    BY <1>1, ReadIs
  <1> HIDE DEF r
  <1>3. p' = r /\ UsageGoesOn({})
    <2>1. Becomes(r, {}) /\ {} \in SUBSET Usages
      BY DEF readImage, r
    <2> QED BY <2>1, BecomesIs
  <1>4. /\ shown' = FrameRead(p) /\ paused' = (IF ok THEN paused ELSE Here)
        /\ aborted' = (aborted /\ p'.state # "NotRunning")
    BY DEF readImage, StillAborted
  <1>5. /\ p'.images = p.images /\ p'.palette = p.palette /\ p'.flags = p.flags
        /\ p'.userLoopCount = p.userLoopCount /\ p' \in Players /\ Fits(p')
        /\ p'.current = p.current /\ p'.currentFrameNumber = p.currentFrameNumber
        /\ p'.loopCount = p.loopCount /\ p'.currentLoopCount = p.currentLoopCount
        /\ p'.cachedFrames \in Seq(Seq(Shots))
        /\ InRange(p)' /\ Image(p)' = Image(p) /\ Reversed(p)' = Reversed(p)
        /\ p.current \in Nat /\ p.current < N /\ p.currentFrameNumber \in Nat
    <2>1. p.current \in Nat /\ p.current < N /\ p.currentFrameNumber \in Nat
      BY <1>1, ImageIs
    <2> QED BY <1>1, <1>2, <1>3, <2>1 DEF Same, InRange, Image, Reversed, Players
  <1>6. p'.state # "NotRunning" \/ p'.cachedFrames # <<>> => usage' = usage
    BY <1>3 DEF UsageGoesOn
  <1>7. OneWayOfCaching' /\ usage' = usage => OneWayOfCaching
    BY DEF OneWayOfCaching
  <1>8. AllAnimated' <=> AllAnimated
    BY <1>5 DEF AllAnimated
  <1>9. p.loopCount <= p.userLoopCount /\ paused = Nowhere
    BY <1>1 DEF LoopsOK
  <1>10. TypeOK'
    <2>1. FrameRead(p) \in Shots
      BY <1>1, FrameReadIs
    <2>2. Here \in [current : Int, frame : Int]
      BY <1>5 DEF Here
    <2>3. paused' \in [current : Int, frame : Int] /\ shown' \in Shots \cup {NoShot}
      BY <1>4, <2>1, <2>2 DEF TypeOK
    <2> QED BY <1>3, <1>4, <1>5, <2>3 DEF TypeOK, UsageGoesOn
  <1>11. TimerDiscipline'
    BY <1>1, <1>2, <1>3 DEF TimerDiscipline
  <1>12. PositionOK'
    <2>1. ~(p'.current < 0)
      BY <1>5
    <2> QED BY <1>1, <1>5, <2>1 DEF PositionOK
  <1>13. LoopsOK'
    <2>1. Playing' => ok
      BY <1>2, <1>3 DEF Playing
    <2>2. p'.state = "NotRunning" => ~ok
      BY <1>2, <1>3
    <2>3. Here' = Here
      BY <1>5 DEF Here
    <2> QED BY <1>4, <1>5, <1>9, <2>1, <2>2, <2>3 DEF LoopsOK
  <1>14. CacheFits'
    BY <1>5 DEF CacheFits, Fits
  <1>15. CASE p'.state = "undefined"
    <2>1. p'.cachedFrames = c /\ usage' = usage /\ "CacheAll" \in p.flags /\ Len(c) <= p.current
      BY <1>2, <1>3, <1>6, <1>15
    <2>2. ~Playing' /\ ~Defined'
      BY <1>15 DEF Playing, Defined
    <2>3. WaysOK'
      BY <1>5, <2>1, <2>2 DEF Kept, WaysOK
    <2>4. CacheRight'
      BY <1>7, <2>1 DEF Kept, CacheRight
    <2>5. SlotReaches' /\ NumberRight' /\ PaletteKnown' /\ PlacesOK' /\ ShownRight'
      BY <1>15, <2>2 DEF SlotReaches, NumberRight, PaletteKnown, PlacesOK, ShownRight
    <2>6. DefinedUse'
      <3>1. ASSUME OneWayOfCaching', AllAnimated' PROVE FALSE
        <4>1. c # <<>>
          BY <1>1, <1>7, <2>1, <3>1 DEF Kept, SlotReaches
        <4>2. Len(c) \in Nat /\ Len(c) < N
          BY <1>5, <2>1, ClientAssumption DEF Players
        <4>3. p.current \in 0..(Len(c) - 1)
          BY <1>1, <1>7, <1>8, <2>1, <3>1, <4>1, <4>2 DEF Kept, PlacesOK
        <4> QED BY <2>1, <4>2, <4>3
      <3> QED BY <3>1 DEF DefinedUse, AllAnimated
    <2>7. Kept'
      BY <1>11, <1>12, <1>14, <2>3, <2>4, <2>5, <2>6 DEF Kept
    <2> QED BY <1>10, <1>13, <2>5, <2>7, Together
  <1>16. CASE p'.state \in {"Running", "NotRunning"} /\ CachedAt(p, p'.cachedFrames)
              /\ (p'.state = "NotRunning" => "ClearCacheOnStop" \notin p.flags)
    <2> DEFINE c2 == p'.cachedFrames
               k == p.current + 1
    <2>1. /\ Len(c2) = Len(c) /\ DOMAIN c2 = DOMAIN c
          /\ \A j \in DOMAIN c2 : c[j] # <<>> => c2[j] # <<>>
          /\ "CacheAll" \in p.flags /\ k \in DOMAIN c2 => c2[k] # <<>>
          /\ OneWayOfCaching /\ c2 # <<>> =>
                k \in DOMAIN c2 /\ Len(c2[k]) >= p.currentFrameNumber + 1
          /\ OneWayOfCaching /\ "rewound" \notin usage =>
                \A j \in DOMAIN c2 : \A n \in DOMAIN c2[j] : c2[j][n].frame = n - 1
          /\ \A j \in DOMAIN c2 : \A n \in DOMAIN c2[j] :
                \/ c2[j][n].image \notin Tinted
                \/ c2[j][n].palette = p.palette
                \/ "ClearCacheOnStop" \in p.flags
          /\ c2 # <<>> => "cached" \in usage
      BY <1>1, <1>5, <1>16, CachedAtIs
    <2>2. Defined' /\ (Playing' <=> p'.state = "Running") /\ p'.state # "WaitingRead"
      BY <1>16 DEF Defined, Playing
    <2>3. /\ c \in Seq(Seq(Shots)) /\ Len(c) \in Nat /\ DOMAIN c2 = 1..Len(c2)
      BY <1>5 DEF Players
    <2>4. HasSlot' = (k \in DOMAIN c2) /\ Slot' = c2[k]
      BY <1>5 DEF HasSlot, Slot
    <2>5. c2 # <<>> => (OneWayOfCaching' => OneWayOfCaching)
      BY <1>6, <1>7
    <2>6. p'.state = "Running" => usage' = usage /\ (OneWayOfCaching' => OneWayOfCaching)
      BY <1>6, <1>7
    <2> HIDE DEF c2, k
    <2>7. WaysOK'
      BY <1>1, <1>5, <1>6, <2>1, <2>2 DEF Kept, WaysOK, c2
    <2>8. SlotReaches'
      <3>1. ASSUME p'.state = "Running", "CacheAll" \in p'.flags, HasSlot' PROVE Slot' # <<>>
        BY <1>5, <2>1, <2>4, <3>1
      <3>2. ASSUME Playing', "CacheAll" \in p'.flags, OneWayOfCaching' PROVE c2 # <<>>
        <4>1. c # <<>>
          BY <1>1, <1>5, <2>2, <2>6, <3>2 DEF Kept, SlotReaches
        <4>2. Len(c2) > 0
          BY <2>1, <2>3, <4>1
        <4> QED BY <4>2
      <3>3. ASSUME OneWayOfCaching', c2 # <<>>
            PROVE HasSlot' /\ Len(Slot') >= p'.currentFrameNumber + (IF p'.state = "Running" THEN 1 ELSE 0)
        <4>1. k \in DOMAIN c2 /\ Len(c2[k]) >= p.currentFrameNumber + 1
          BY <2>1, <2>5, <3>3
        <4>2. Len(c2[k]) \in Nat
          BY <1>5, <4>1 DEF c2
        <4>3. HasSlot' /\ Len(Slot') = Len(c2[k])
          BY <2>4, <4>1
        <4>4. p'.currentFrameNumber = p.currentFrameNumber /\ p.currentFrameNumber \in Nat
          BY <1>5
        <4> QED BY <4>1, <4>2, <4>3, <4>4
      <3> QED BY <3>1, <3>2, <3>3 DEF SlotReaches, c2
    <2>9. CacheRight'
      <3>1. c2 # <<>> => usage' = usage
        BY <1>6 DEF c2
      <3>2. c2 = <<>> => DOMAIN c2 = {}
        OBVIOUS
      <3> QED BY <2>1, <2>5, <3>1, <3>2 DEF CacheRight, c2
    <2>10. NumberRight' /\ DefinedUse'
      BY <2>2 DEF NumberRight, DefinedUse
    <2>11. PaletteKnown'
      BY <1>5, <1>16, <2>1, <2>2 DEF PaletteKnown, c2
    <2>12. PlacesOK'
      <3>1. p'.current # Len(p'.images)
        BY <1>5
      <3>2. ASSUME AllAnimated', OneWayOfCaching', c2 # <<>>, Len(c2) < Len(p'.images)
            PROVE /\ p'.current \in 0..(Len(c2) - 1)
                  /\ \A j \in 1..(Len(c2) - 1) : c2[j] # <<>>
        <4>1. Len(c) < N /\ c # <<>>
          BY <1>5, <2>1, <2>3, <3>2 DEF c2
        <4>2. p.current \in 0..(Len(c) - 1) /\ \A j \in 1..(Len(c) - 1) : c[j] # <<>>
          BY <1>1, <1>8, <2>5, <3>2, <4>1 DEF Kept, PlacesOK
        <4>3. ASSUME NEW j \in 1..(Len(c2) - 1) PROVE c2[j] # <<>>
          <5>1. j \in 1..(Len(c) - 1) /\ j \in DOMAIN c2
            BY <2>1, <2>3
          <5> QED BY <2>1, <4>2, <5>1
        <4> QED BY <1>5, <2>1, <4>2, <4>3
      <3> QED BY <3>1, <3>2 DEF PlacesOK, c2
    <2>13. ShownRight'
      <3>1. ASSUME p'.state = "Running", OneWayOfCaching', "rewound" \notin usage'
            PROVE shown'.image = Image(p)' /\ shown'.frame = p'.currentFrameNumber
        <4>1. OneWayOfCaching /\ "rewound" \notin usage /\ "cleared" \notin usage
          BY <2>6, <3>1 DEF OneWayOfCaching
        <4>2. FrameRead(p).image = Image(p)
          BY <1>1, FrameReadIs
        <4>3. FrameRead(p).frame = p.currentFrameNumber
          <5>1. CASE CurrentHasCache(p)
            <6>1. /\ p.current + 1 \in DOMAIN c
                  /\ p.currentFrameNumber + 1 \in DOMAIN c[p.current + 1]
                  /\ FrameRead(p) = c[p.current + 1][p.currentFrameNumber + 1]
              BY <5>1 DEF CurrentHasCache, HasCache, FrameRead
            <6>2. FrameRead(p).frame = (p.currentFrameNumber + 1) - 1
              BY <4>1, <6>1 DEF Kept, CacheRight
            <6> QED BY <1>5, <6>2
          <5>2. CASE ~CurrentHasCache(p)
            <6>1. p.number[Image(p)] = p.currentFrameNumber
              BY <1>1, <4>1, <5>2 DEF Kept, NumberRight
            <6> QED BY <5>2, <6>1 DEF FrameRead, Shot
          <5> QED BY <5>1, <5>2
        <4> QED BY <1>4, <1>5, <4>2, <4>3
      <3> QED BY <3>1 DEF ShownRight
    <2>14. Kept'
      BY <1>11, <1>12, <1>14, <2>7, <2>8, <2>9, <2>10, <2>12, <2>13 DEF Kept
    <2> QED BY <1>10, <1>13, <2>11, <2>14, Together
  <1>17. CASE p'.state = "NotRunning" /\ p'.cachedFrames = <<>>
    <2>1. Defined' /\ ~Playing' /\ DOMAIN p'.cachedFrames = {}
      BY <1>17 DEF Defined, Playing
    <2>2. WaysOK'
      BY <1>5, <1>17, <2>1 DEF Kept, WaysOK
    <2>3. SlotReaches' /\ CacheRight' /\ NumberRight' /\ PaletteKnown'
      BY <1>17, <2>1 DEF SlotReaches, CacheRight, NumberRight, PaletteKnown
    <2>4. PlacesOK'
      <3>1. p'.current # Len(p'.images)
        BY <1>5
      <3> QED BY <1>17, <3>1 DEF PlacesOK
    <2>5. ShownRight' /\ DefinedUse'
      BY <1>17, <2>1 DEF ShownRight, DefinedUse
    <2>6. Kept'
      BY <1>11, <1>12, <1>14, <2>2, <2>3, <2>4, <2>5 DEF Kept
    <2> QED BY <1>10, <1>13, <2>3, <2>6, Together
  <1> QED BY <1>2, <1>3, <1>15, <1>16, <1>17

-----------------------------------------------------------------------------
(* What the invariant says of a running player.                               *)
LEMMA RunningIs ==
    ASSUME IInv, p.state = "Running"
    PROVE LET c == p.cachedFrames
              k == p.current + 1 IN
          /\ Playing /\ Defined /\ InRange(p) /\ paused = Nowhere
          /\ p.current \in Nat /\ p.current < Len(p.images) /\ p.currentFrameNumber \in Nat
          /\ p.currentFrameNumber \in 0..(Frames[Image(p)] - 1)
          /\ p.images \in Seq(Images) /\ Len(p.images) \in Nat
          /\ c \in Seq(Seq(Shots)) /\ Len(c) \in Nat /\ DOMAIN c = 1..Len(c)
          /\ \A j \in DOMAIN c : Len(c[j]) \in Nat
          /\ p.loopCount \in Int /\ p.currentLoopCount \in Int
          /\ p.loopCount <= p.userLoopCount
          /\ Reversed(p) => "CacheAll" \in p.flags
          /\ "CacheAll" \in p.flags /\ k \in DOMAIN c => c[k] # <<>>
          /\ OneWayOfCaching => ("CacheAll" \in p.flags <=> c # <<>>)
          /\ OneWayOfCaching /\ c # <<>> =>
                k \in DOMAIN c /\ Len(c[k]) >= p.currentFrameNumber + 1
          /\ OneWayOfCaching /\ AllAnimated /\ c # <<>> /\ Len(c) < Len(p.images) =>
                /\ p.current \in 0..(Len(c) - 1)
                /\ \A j \in 1..(Len(c) - 1) : c[j] # <<>>
  <1> USE Parts
  <1> DEFINE c == p.cachedFrames
             k == p.current + 1
  <1>1. Playing /\ Defined
    BY DEF Playing, Defined
  <1>2. InRange(p) /\ p.currentFrameNumber \in 0..(Frames[Image(p)] - 1)
    BY <1>1 DEF Kept, PositionOK
  <1>3. /\ p.current \in Nat /\ p.current < Len(p.images) /\ p.currentFrameNumber \in Nat
        /\ p.images \in Seq(Images) /\ Len(p.images) \in Nat
    BY <1>2, ImageIs
  <1>4. /\ c \in Seq(Seq(Shots)) /\ Len(c) \in Nat /\ DOMAIN c = 1..Len(c)
        /\ \A j \in DOMAIN c : Len(c[j]) \in Nat
        /\ p.loopCount \in Int /\ p.currentLoopCount \in Int
    BY DEF Players
  <1>5. paused = Nowhere /\ p.loopCount <= p.userLoopCount
    BY <1>1 DEF LoopsOK
  <1>6. Reversed(p) => "CacheAll" \in p.flags
    BY DEF Kept, WaysOK
  <1>7. "CacheAll" \in p.flags /\ k \in DOMAIN c => c[k] # <<>>
    BY DEF Kept, SlotReaches, HasSlot, Slot
  <1>8. OneWayOfCaching => ("CacheAll" \in p.flags <=> c # <<>>)
    BY <1>1 DEF Kept, WaysOK, SlotReaches, OneWayOfCaching
  <1>9. ASSUME OneWayOfCaching, c # <<>>
        PROVE k \in DOMAIN c /\ Len(c[k]) >= p.currentFrameNumber + 1
    BY <1>1, <1>2, <1>9 DEF Kept, SlotReaches, HasSlot, Slot
  <1>10. ASSUME OneWayOfCaching, AllAnimated, c # <<>>, Len(c) < Len(p.images)
         PROVE /\ p.current \in 0..(Len(c) - 1)
               /\ \A j \in 1..(Len(c) - 1) : c[j] # <<>>
    BY <1>1, <1>10 DEF Kept, PlacesOK
  <1> QED BY <1>1, <1>2, <1>3, <1>4, <1>5, <1>6, <1>7, <1>8, <1>9, <1>10

(* What a timer event does, from a state that satisfies the invariant.        *)
LEMMA EventIs ==
    ASSUME IInv, timerEvent
    PROVE /\ p.state = "Running" /\ p.loopCount > -MaxDebt
          /\ p' \in Players /\ Same(p, p') /\ p'.timer = FALSE /\ Fits(p')
          /\ p'.current \in -1..Len(p'.images)
          /\ \/ TimerAdvances(p, p')
             \/ /\ ~HasNextFrame(p)
                /\ TimerMoves(p, p') \/ TimerEnds(p, p') \/ TimerFails(p, p')
          /\ UsageGoesOn({}) /\ UNCHANGED <<shown, paused>>
          /\ aborted' = (aborted /\ p'.state # "NotRunning")
  <1> USE Parts
  <1> DEFINE r == TimerEvent(p)
  <1>1. p.state = "Running" /\ p.loopCount > -MaxDebt
    BY DEF timerEvent
  <1>2. /\ r \in Players /\ Same(p, r) /\ r.timer = FALSE /\ Fits(r)
        /\ r.current \in -1..Len(r.images)
        /\ \/ TimerAdvances(p, r)
           \/ /\ ~HasNextFrame(p)
              /\ TimerMoves(p, r) \/ TimerEnds(p, r) \/ TimerFails(p, r)
    BY <1>1, RunningIs, TimerIs
  <1> HIDE DEF r
  <1>3. p' = r /\ UsageGoesOn({})
    <2>1. Becomes(r, {}) /\ {} \in SUBSET Usages
      BY DEF timerEvent, r
    <2> QED BY <2>1, BecomesIs
  <1>4. UNCHANGED <<shown, paused>> /\ aborted' = (aborted /\ p'.state # "NotRunning")
    BY DEF timerEvent, StillAborted
  <1> QED BY <1>1, <1>2, <1>3, <1>4

LEMMA TimerStep ==
    ASSUME IInv, timerEvent
    PROVE IInv'
  <1> USE Parts
  <1> DEFINE c == p.cachedFrames
             c2 == p'.cachedFrames
             N == Len(p.images)
             k == p.current + 1
             Adv == TimerAdvances(p, p')
             Moves == TimerMoves(p, p')
             Ends == TimerEnds(p, p')
             Fails == TimerFails(p, p')
  <1>1. /\ p.state = "Running" /\ p.loopCount > -MaxDebt
        /\ p' \in Players /\ Same(p, p') /\ p'.timer = FALSE /\ Fits(p')
        /\ p'.current \in -1..Len(p'.images)
        /\ Adv \/ Moves \/ Ends \/ Fails
        /\ UsageGoesOn({}) /\ UNCHANGED <<shown, paused>>
        /\ aborted' = (aborted /\ p'.state # "NotRunning")
    BY EventIs
  <1>2. /\ Playing /\ Defined /\ InRange(p) /\ paused = Nowhere
        /\ p.current \in Nat /\ p.current < N /\ p.currentFrameNumber \in Nat
        /\ p.currentFrameNumber \in 0..(Frames[Image(p)] - 1)
        /\ p.images \in Seq(Images) /\ N \in Nat
        /\ c \in Seq(Seq(Shots)) /\ Len(c) \in Nat /\ DOMAIN c = 1..Len(c)
        /\ \A j \in DOMAIN c : Len(c[j]) \in Nat
        /\ p.loopCount \in Int /\ p.currentLoopCount \in Int
        /\ p.loopCount <= p.userLoopCount
        /\ Reversed(p) => "CacheAll" \in p.flags
        /\ "CacheAll" \in p.flags /\ k \in DOMAIN c => c[k] # <<>>
        /\ OneWayOfCaching => ("CacheAll" \in p.flags <=> c # <<>>)
        /\ OneWayOfCaching /\ c # <<>> => k \in DOMAIN c /\ Len(c[k]) >= p.currentFrameNumber + 1
        /\ OneWayOfCaching /\ AllAnimated /\ c # <<>> /\ Len(c) < N =>
              /\ p.current \in 0..(Len(c) - 1)
              /\ \A j \in 1..(Len(c) - 1) : c[j] # <<>>
    BY <1>1, RunningIs
  <1>3. /\ Adv \/ Moves => p'.state = "WaitingRead" /\ HasFrame(p')
        /\ Ends => p'.state = "NotRunning"
        /\ Fails => p'.state = "undefined"
    BY DEF TimerAdvances, TimerMoves, TimerEnds, TimerFails, Entered, AtFrame
  <1>4. /\ p'.images = p.images /\ p'.palette = p.palette /\ p'.flags = p.flags
        /\ p'.userLoopCount = p.userLoopCount /\ (Reversed(p)' <=> Reversed(p))
        /\ p'.current \in -1..N /\ p'.currentFrameNumber \in Int /\ p'.loopCount \in Int
        /\ c2 \in Seq(Seq(Shots)) /\ Len(c2) \in Nat /\ DOMAIN c2 = 1..Len(c2)
        /\ \A j \in DOMAIN c2 : Len(c2[j]) \in Nat
        /\ AllAnimated' <=> AllAnimated
        /\ AllAnimated <=> ~SomeStill(p)
    BY <1>1 DEF Same, Reversed, Players, AllAnimated, SomeStill
  <1>5. /\ p'.state # "NotRunning" \/ c2 # <<>> => usage' = usage
        /\ p'.state # "NotRunning" \/ c2 # <<>> => (OneWayOfCaching' => OneWayOfCaching)
    BY <1>1 DEF UsageGoesOn, OneWayOfCaching
  <1>6. /\ Adv => c2 = c
        /\ Moves => PlaceMade(p.flags, c, c2, p'.current)
        /\ Ends => IF "ClearCacheOnStop" \in p.flags THEN c2 = <<>> ELSE c2 = c
        /\ Fails => c2 = c
    BY DEF TimerAdvances, TimerMoves, TimerEnds, TimerFails, Entered
  (* The cache is what it was, or empty, or has one more place.               *)
  <1>7. \/ c2 = c
        \/ c2 = <<>> /\ Ends
        \/ /\ Moves /\ "CacheAll" \in p.flags /\ OneMore(c, c2, p'.current)
    BY <1>1, <1>6 DEF PlaceMade
  <1>8. ASSUME NEW j \in DOMAIN c2, NEW n \in DOMAIN c2[j]
        PROVE j \in DOMAIN c /\ n \in DOMAIN c[j] /\ c2[j][n] = c[j][n]
    <2>1. CASE OneMore(c, c2, p'.current)
      <3>1. /\ Len(c2) = Len(c) + 1 /\ c2[Len(c) + 1] = <<>>
            /\ \A i \in 1..Len(c) : c2[i] = c[i]
        BY <2>1 DEF OneMore
      <3>2. c2[j] # <<>>
        OBVIOUS
      <3>3. j \in 1..Len(c)
        BY <1>2, <1>4, <3>1, <3>2
      <3> QED BY <1>2, <3>1, <3>3
    <2> QED BY <1>7, <2>1
  <1>9. HasFrame(p') => InRange(p)' /\ p'.current \in Nat /\ p'.current < N
    <2>1. InRange(p') => p'.current \in Nat /\ p'.current < Len(p'.images)
      BY <1>1, ImageIs
    <2> QED BY <1>4, <2>1 DEF HasFrame, InRange
  <1> HIDE DEF Adv, Moves, Ends, Fails
  <1>10. TypeOK'
    <2>1. p'.loopCount \in {p.loopCount, p.loopCount - 1, 0}
      BY <1>1 DEF TimerAdvances, TimerMoves, TimerEnds, TimerFails, Adv, Moves, Ends, Fails
    <2>2. p'.loopCount >= -MaxDebt
      BY <1>1, <1>2, <2>1, ClientAssumption
    <2> QED BY <1>1, <1>4, <2>2 DEF TypeOK, UsageGoesOn
  <1>11. TimerDiscipline'
    BY <1>1, <1>3 DEF TimerDiscipline
  <1>12. PositionOK'
    <2>1. CASE Adv \/ Moves
      <3>1. InRange(p)' /\ p'.currentFrameNumber \in 0..(Frames[Image(p')] - 1) /\ ~(p'.current < 0)
        BY <1>3, <1>9, <2>1 DEF HasFrame
      <3> QED BY <3>1 DEF PositionOK, Image
    <2>2. CASE Ends
      <3>1. ~Playing'
        BY <1>3, <2>2 DEF Playing
      <3>2. CASE p'.current = p.current /\ p'.currentFrameNumber = p.currentFrameNumber
        <4>1. Image(p)' = Image(p) /\ ~(p'.current < 0)
          BY <1>2, <1>4, <3>2 DEF Image
        <4> QED BY <1>2, <3>1, <3>2, <4>1 DEF PositionOK
      <3>3. CASE ~InRange(p') /\ p'.currentFrameNumber = -1
        BY <3>1, <3>3 DEF PositionOK, InRange
      <3> QED BY <2>2, <3>2, <3>3 DEF Ends, TimerEnds
    <2>3. CASE Fails
      BY <1>3, <2>3 DEF PositionOK, Playing, Defined
    <2> QED BY <1>1, <2>1, <2>2, <2>3
  <1>13. LoopsOK'
    <2>1. Playing' => p'.loopCount <= p'.userLoopCount
      <3>1. ASSUME Playing' PROVE p'.loopCount = p.loopCount \/ p'.loopCount = p.loopCount - 1
        <4>1. Adv \/ Moves
          BY <1>1, <1>3, <3>1 DEF Playing
        <4> QED BY <4>1 DEF TimerAdvances, TimerMoves, Adv, Moves
      <3>2. p.userLoopCount \in Int /\ p.loopCount \in Int /\ p.loopCount <= p.userLoopCount
        BY <1>2, LoopCountIs
      <3>3. p.loopCount - 1 <= p.userLoopCount
        BY <3>2
      <3> QED BY <1>4, <3>1, <3>2, <3>3
    <2>2. ASSUME aborted'
          PROVE /\ p'.state # "NotRunning" /\ p'.loopCount = 0 /\ p'.currentLoopCount \in {0, 1}
                /\ "IgnoreLastImageLoop" \in p'.flags /\ "AllowNonLastImageLoop" \notin p'.flags
      <3>1. /\ aborted /\ p'.state # "NotRunning"
            /\ p.loopCount = 0 /\ p.currentLoopCount \in {0, 1}
            /\ "IgnoreLastImageLoop" \in p.flags /\ "AllowNonLastImageLoop" \notin p.flags
        BY <1>1, <2>2 DEF LoopsOK
      <3>2. CASE Adv
        BY <1>4, <3>1, <3>2 DEF Adv, TimerAdvances
      <3>3. CASE Moves
        BY <1>4, <3>1, <3>3 DEF Moves, TimerMoves, Entered
      <3>4. CASE Fails
        BY <1>4, <3>1, <3>4 DEF Fails, TimerFails
      <3> QED BY <1>1, <1>3, <3>1, <3>2, <3>3, <3>4
    <2> QED BY <1>1, <1>2, <2>1, <2>2 DEF LoopsOK
  <1>14. WaysOK'
    <2>1. c2 # <<>> => "cached" \in usage'
      <3>1. "CacheAll" \in p.flags => "cached" \in usage
        BY <1>2 DEF Kept, WaysOK
      <3>2. c # <<>> => "cached" \in usage
        BY DEF Kept, WaysOK
      <3> QED BY <1>5, <1>7, <3>1, <3>2
    <2>2. Playing' => (IF "CacheAll" \in p'.flags THEN "cached" ELSE "plain") \in usage'
      BY <1>2, <1>4, <1>5 DEF Kept, WaysOK, Playing
    <2> QED BY <1>2, <1>4, <2>1, <2>2 DEF WaysOK
  <1>15. CacheFits'
    BY <1>1 DEF CacheFits, Fits
  <1>16. SlotReaches'
    <2>1. ASSUME Playing', "CacheAll" \in p'.flags, OneWayOfCaching' PROVE c2 # <<>>
      <3>1. Adv \/ Moves
        BY <1>1, <1>3, <2>1 DEF Playing
      <3>2. CASE Adv
        BY <1>2, <1>3, <1>4, <1>5, <1>6, <2>1, <3>2
      <3>3. CASE Moves
        BY <1>4, <2>1, <3>3 DEF Moves, TimerMoves, Entered, AtFrame
      <3> QED BY <3>1, <3>2, <3>3
    <2>2. ASSUME Defined', OneWayOfCaching', InRange(p)', c2 # <<>>
          PROVE IF HasSlot' THEN Len(Slot') >= p'.currentFrameNumber
                            ELSE p'.currentFrameNumber = 0
      <3>1. OneWayOfCaching
        BY <1>5, <2>2
      <3>2. HasSlot' => Slot' = c2[p'.current + 1] /\ Len(Slot') \in Nat
        BY <1>4 DEF HasSlot, Slot
      <3>3. CASE c2 = c /\ p'.current = p.current /\ p'.currentFrameNumber <= p.currentFrameNumber + 1
        <4>1. HasSlot' /\ Slot' = c[k] /\ Len(c[k]) >= p.currentFrameNumber + 1
          BY <1>2, <2>2, <3>1, <3>2, <3>3 DEF HasSlot
        <4> QED BY <1>2, <1>4, <3>2, <3>3, <4>1
      <3>4. CASE p'.currentFrameNumber = 0
        BY <3>2, <3>4
      <3>5. CASE Moves /\ Reversed(p)
        <4>1. /\ p'.current + 1 \in DOMAIN c
              /\ p'.currentFrameNumber = Len(c[p'.current + 1]) - 1
          BY <3>5 DEF Moves, TimerMoves, Entered
        <4>2. p'.current + 1 \in DOMAIN c2 /\ c2[p'.current + 1] = c[p'.current + 1]
          BY <1>2, <1>4, <1>7, <2>2, <4>1 DEF OneMore
        <4>3. HasSlot' /\ Len(Slot') = Len(c[p'.current + 1]) /\ Len(c[p'.current + 1]) \in Nat
          BY <1>2, <3>2, <4>1, <4>2 DEF HasSlot
        <4> QED BY <4>1, <4>3
      <3>6. CASE Moves /\ ~Reversed(p)
        BY <3>4, <3>6 DEF Moves, TimerMoves, Entered
      <3>7. CASE Adv
        BY <1>2, <1>6, <3>3, <3>7 DEF Adv, TimerAdvances, NextFrame, Toward
      <3>8. CASE Ends
        <4>1. p'.current = p.current /\ p'.currentFrameNumber = p.currentFrameNumber
          BY <2>2, <3>8 DEF Ends, TimerEnds, InRange
        <4> QED BY <1>2, <1>6, <2>2, <3>3, <3>8, <4>1
      <3> QED BY <1>1, <1>3, <2>2, <3>5, <3>6, <3>7, <3>8 DEF Defined
    <2>3. p'.state # "Running" /\ p'.currentFrameNumber + 0 = p'.currentFrameNumber
      BY <1>1, <1>3, <1>4
    <2> QED BY <2>1, <2>2, <2>3 DEF SlotReaches
  <1>17. CacheRight'
    <2>1. ASSUME OneWayOfCaching', "rewound" \notin usage',
                 NEW j \in DOMAIN c2, NEW n \in DOMAIN c2[j]
          PROVE c2[j][n].frame = n - 1
      <3>1. c2 # <<>>
        OBVIOUS
      <3>2. OneWayOfCaching /\ "rewound" \notin usage
        BY <1>5, <2>1, <3>1
      <3> QED BY <1>8, <3>2 DEF Kept, CacheRight
    <2> QED BY <2>1 DEF CacheRight
  <1>18. NumberRight'
    BY <1>1, <1>3 DEF NumberRight, HasFrame, CurrentHasCache, HasCache, Image
  <1>19. PaletteKnown'
    <2>1. ASSUME Defined', NEW j \in DOMAIN c2, NEW n \in DOMAIN c2[j]
          PROVE \/ c2[j][n].image \notin Tinted
                \/ c2[j][n].palette = p'.palette
                \/ Playing' /\ "ClearCacheOnStop" \in p'.flags
      <3>1. \/ c[j][n].image \notin Tinted
            \/ c[j][n].palette = p.palette
            \/ "ClearCacheOnStop" \in p.flags
        BY <1>2, <1>8 DEF PaletteKnown
      <3>2. Adv \/ Moves => Playing'
        BY <1>3 DEF Playing
      <3>3. Ends => "ClearCacheOnStop" \notin p.flags
        BY <1>6
      <3> QED BY <1>1, <1>3, <1>4, <1>8, <2>1, <3>1, <3>2, <3>3 DEF Defined
    <2> QED BY <2>1 DEF PaletteKnown
  <1>20. PlacesOK'
    <2>1. ASSUME Defined', AllAnimated' PROVE p'.current # Len(p'.images)
      <3>1. CASE Adv \/ Moves
        BY <1>3, <1>4, <1>9, <3>1
      <3>2. CASE Ends
        BY <1>2, <1>4, <2>1, <3>2 DEF Ends, TimerEnds
      <3> QED BY <1>1, <1>3, <2>1, <3>1, <3>2 DEF Defined
    <2>2. ASSUME Defined', AllAnimated', OneWayOfCaching', c2 # <<>>, Len(c2) < Len(p'.images)
          PROVE /\ p'.current \in 0..(Len(c2) - 1)
                /\ \A j \in 1..(Len(c2) - 1) : c2[j] # <<>>
      <3>1. OneWayOfCaching /\ AllAnimated /\ ~SomeStill(p)
        BY <1>4, <1>5, <2>2
      <3>2. c # <<>> /\ Len(c) < N /\ "CacheAll" \in p.flags
        <4>1. c # <<>>
          BY <1>2, <1>7, <2>2, <3>1
        <4>2. Len(c) <= Len(c2)
          BY <1>2, <1>4, <1>7, <2>2 DEF OneMore
        <4> QED BY <1>2, <1>4, <2>2, <3>1, <4>1, <4>2
      <3>3. /\ p.current \in 0..(Len(c) - 1) /\ \A j \in 1..(Len(c) - 1) : c[j] # <<>>
            /\ k \in DOMAIN c /\ c[k] # <<>>
        BY <1>2, <3>1, <3>2
      <3>4. CASE c2 = c /\ p'.current \in 0..(Len(c) - 1)
        BY <3>3, <3>4
      <3>5. CASE Adv
        BY <1>6, <3>3, <3>4, <3>5 DEF Adv, TimerAdvances
      <3>6. CASE Ends
        <4>1. c2 = c
          BY <1>6, <2>2, <3>6
        <4>2. CASE p'.current = p.current
          BY <3>3, <3>4, <4>1, <4>2
        <4>3. CASE p.current \in DOMAIN c /\ c[p.current] = <<>>
          <5>1. p.current \in 1..(Len(c) - 1)
            BY <1>2, <3>3, <4>3
          <5> QED BY <3>3, <4>3, <5>1
        <4> QED BY <1>2, <3>1, <3>2, <3>6, <4>2, <4>3 DEF Ends, TimerEnds
      <3>7. CASE Moves
        <4>1. /\ p'.current \in Nat /\ p'.current < N
          BY <1>3, <1>9, <3>7
        <4>2. Reversed(p) => p'.current + 1 \in DOMAIN c
          BY <3>7 DEF Moves, TimerMoves, Entered
        <4>3. ~Reversed(p) => p'.current \in {p.current, p.current + 1, 0}
          BY <3>1, <3>7 DEF Moves, TimerMoves
        <4>4. CASE c2 = c
          <5>1. p'.current < Len(c)
            <6>1. c2 # c \/ p'.current < Len(c)
              <7>1. PlaceMade(p.flags, c, c2, p'.current)
                BY <1>6, <3>7
              <7>2. OneMore(c, c2, p'.current) => c2 # c
                <8>1. Len(c) + 1 # Len(c)
                  BY <1>2
                <8> QED BY <8>1 DEF OneMore
              <7> QED BY <3>2, <7>1, <7>2 DEF PlaceMade
            <6> QED BY <4>4, <6>1
          <5>2. p'.current \in 0..(Len(c) - 1)
            BY <1>2, <4>1, <5>1
          <5> QED BY <3>4, <4>4, <5>2
        <4>5. CASE OneMore(c, c2, p'.current)
          <5>1. /\ Len(c2) = Len(c) + 1 /\ Len(c) <= p'.current
                /\ \A j \in 1..Len(c) : c2[j] = c[j]
            BY <4>5 DEF OneMore
          <5>2. p'.current = p.current + 1 /\ p'.current = Len(c)
            BY <1>2, <3>3, <4>1, <4>2, <4>3, <5>1
          <5>3. ASSUME NEW j \in 1..Len(c) PROVE c2[j] # <<>>
            <6>1. j \in 1..(Len(c) - 1) \/ j = k
              BY <1>2, <5>2
            <6> QED BY <3>3, <5>1, <6>1
          <5>4. p'.current \in 0..(Len(c2) - 1) /\ 1..(Len(c2) - 1) = 1..Len(c)
            BY <1>2, <4>1, <5>1, <5>2
          <5> QED BY <5>3, <5>4
        <4> QED BY <1>6, <3>7, <4>4, <4>5 DEF PlaceMade
      <3> QED BY <1>1, <1>3, <2>2, <3>5, <3>6, <3>7 DEF Defined
    <2> QED BY <2>1, <2>2 DEF PlacesOK
  <1>21. ShownRight'
    BY <1>1, <1>3 DEF ShownRight
  <1>22. DefinedUse'
    <2>1. ASSUME ~Defined', OneWayOfCaching', AllAnimated', p'.userLoopCount <= 1
          PROVE p'.loopCount < 0
      <3>1. Fails
        BY <1>1, <1>3, <2>1 DEF Defined
      <3>2. OneWayOfCaching /\ AllAnimated
        BY <1>3, <1>4, <1>5, <2>1, <3>1
      <3>3. /\ Reversed(p) /\ InRange(p') /\ Len(c) <= p'.current
            /\ \/ p'.current <= p.current
               \/ p.loopCount \notin {0, 1} /\ p'.loopCount = p.loopCount - 1
        BY <3>1 DEF Fails, TimerFails
      <3>4. p'.current < N
        BY <1>1, <1>4, <3>3, ImageIs
      <3>5. c # <<>> /\ Len(c) < N
        BY <1>2, <1>4, <3>2, <3>3, <3>4
      <3>6. p.current < Len(c)
        BY <1>2, <3>2, <3>5
      <3>7. p.loopCount \notin {0, 1} /\ p'.loopCount = p.loopCount - 1
        BY <1>2, <1>4, <3>3, <3>6
      <3>8. p.userLoopCount \in Nat
        BY LoopCountIs
      <3> QED BY <1>2, <1>4, <2>1, <3>7, <3>8
    <2>2. p'.userLoopCount \in Nat
      BY <1>4, LoopCountIs
    <2> QED BY <2>1, <2>2 DEF DefinedUse, AllAnimated
  <1>23. Kept'
    BY <1>11, <1>12, <1>14, <1>15, <1>16, <1>17, <1>18, <1>20, <1>21, <1>22 DEF Kept
  <1> QED BY <1>10, <1>13, <1>19, <1>23, Together

-----------------------------------------------------------------------------
LEMMA Step ==
    ASSUME IInv, Next
    PROVE IInv'
  BY SetImagesStep, SetPaletteStep, SetLoopCountStep, AbortLoopStep, ClearCacheStep, StartStep,
     StopStep, ReadStep, TimerStep, CopyDestroyedStep DEF Next

LEMMA Stutter ==
    ASSUME IInv, UNCHANGED vars
    PROVE IInv'
  <1> USE DEF vars, Here, InRange, Image, Reversed, CurrentHasCache, HasCache, Playing, Defined,
              OneWayOfCaching, AllAnimated, HasSlot, Slot
  <1>1. TypeOK' /\ TimerDiscipline' /\ PositionOK' /\ LoopsOK' /\ WaysOK' /\ CacheFits'
    BY DEF IInv, PlayerOK, TypeOK, TimerDiscipline, PositionOK, LoopsOK, WaysOK, CacheFits
  <1>2. SlotReaches' /\ CacheRight' /\ NumberRight'
    BY DEF IInv, PlayerOK, SlotReaches, CacheRight, NumberRight
  <1>3. PaletteKnown' /\ PlacesOK' /\ ShownRight' /\ DefinedUse'
    BY DEF IInv, PlayerOK, PaletteKnown, PlacesOK, ShownRight, DefinedUse
  <1> QED BY <1>1, <1>2, <1>3 DEF IInv, PlayerOK

(* The inductive invariant holds in every reachable state of an image player: *)
(* its parts, each kept by every public method and by timerEvent, are what    *)
(* the properties below rest on.                                              *)
THEOREM PlayerInvariant == Spec => []IInv
  <1>1. IInv /\ [Next]_vars => IInv'
    BY Step, Stutter
  <1> QED BY InitIs, <1>1, PTL DEF Spec

(* The player's state is well formed in every reachable state: its place, its *)
(* counters, the timer and the cache agree, whatever is called in which order.*)
THEOREM PlayerIsOK == Spec => []PlayerOK
  <1>1. IInv => PlayerOK
    BY DEF IInv
  <1> QED BY PlayerInvariant, <1>1, PTL

(* readImage returns the frame the player is at, of the image the player is   *)
(* at, if the client keeps to one way of caching and no copy of an image was  *)
(* destroyed.                                                                 *)
THEOREM FramesAreRight == Spec => []ShownRight
  <1>1. IInv => ShownRight
    BY DEF IInv
  <1> QED BY PlayerInvariant, <1>1, PTL

(* When nothing plays no frame of another palette is cached: setPalette       *)
(* clears the cache, or has the animation clear it when it ends.              *)
THEOREM PaletteIsFresh == Spec => []PaletteFresh
  <1>1. IInv => PaletteFresh
    BY DEF IInv, PlayerOK, PaletteKnown, PaletteFresh, Defined, Playing
  <1> QED BY PlayerInvariant, <1>1, PTL

(* Under the four conditions of DefinedUse the player never indexes a vector  *)
(* out of its range, in any of start, readImage and timerEvent.               *)
THEOREM UseIsDefined == Spec => []DefinedUse
  <1>1. IInv => DefinedUse
    BY DEF IInv
  <1> QED BY PlayerInvariant, <1>1, PTL

(* timerEvent skips no frame, repeats none and plays none after the end: it   *)
(* goes to the frame beside, or the frame left was the last of its image.     *)
THEOREM NoFrameIsSkipped == Spec => NoFrameSkipped
  <1>1. ASSUME IInv, timerEvent, p'.state # "undefined", OneWayOfCaching
        PROVE \/ p'.current = p.current /\ p'.currentFrameNumber = NextFrame(p)
              \/ p.currentFrameNumber = (IF Reversed(p) THEN 0 ELSE Frames[Image(p)] - 1)
    <2> DEFINE c == p.cachedFrames
               k == p.current + 1
               f == p.currentFrameNumber
    <2>1. p.state = "Running" /\ (TimerAdvances(p, p') \/ ~HasNextFrame(p))
      BY <1>1, EventIs
    <2>2. /\ f \in 0..(Frames[Image(p)] - 1) /\ f \in Nat /\ c \in Seq(Seq(Shots))
          /\ Reversed(p) => "CacheAll" \in p.flags
          /\ "CacheAll" \in p.flags <=> c # <<>>
          /\ c # <<>> => k \in DOMAIN c /\ Len(c[k]) >= f + 1
          /\ \A j \in DOMAIN c : Len(c[j]) \in Nat
      BY <1>1, <2>1, RunningIs
    <2>3. CASE TimerAdvances(p, p')
      BY <2>3 DEF TimerAdvances
    <2>4. CASE ~HasNextFrame(p) /\ Reversed(p)
      <3>1. k \in DOMAIN c /\ Len(c[k]) >= f + 1 /\ Len(c[k]) \in Nat /\ DOMAIN c[k] = 1..Len(c[k])
        BY <2>2, <2>4
      <3>2. NextFrame(p) + 1 \notin DOMAIN c[k]
        BY <2>4, <3>1 DEF HasNextFrame, HasCache
      <3>3. NextFrame(p) = f - 1
        BY <2>2, <2>4 DEF NextFrame, Toward
      <3>4. f = 0
        <4> DEFINE l == Len(c[k])
        <4>1. l \in Nat /\ l >= f + 1 /\ ~(f - 1 + 1 \in 1..l)
          BY <3>1, <3>2, <3>3
        <4> HIDE DEF l
        <4> QED BY <2>2, <4>1
      <3> QED BY <2>4, <3>4
    <2>5. CASE ~HasNextFrame(p) /\ ~Reversed(p)
      <3>1. NextFrame(p) = f + 1 /\ ~(f + 1 < Frames[Image(p)])
        BY <2>2, <2>5 DEF HasNextFrame, NextFrame, Toward
      <3>2. InRange(p)
        BY <1>1, <2>1, RunningIs
      <3>3. Frames[Image(p)] \in Nat
        BY <1>1, <3>2, ImageIs, Parts
      <3> QED BY <2>2, <2>5, <3>1, <3>3
    <2> QED BY <2>1, <2>3, <2>4, <2>5
  <1>2. IInv /\ [Next]_vars =>
            [timerEvent /\ p'.state # "undefined" /\ OneWayOfCaching =>
                \/ p'.current = p.current /\ p'.currentFrameNumber = NextFrame(p)
                \/ p.currentFrameNumber = (IF Reversed(p) THEN 0 ELSE Frames[Image(p)] - 1)]_vars
    BY <1>1
  <1> QED BY PlayerInvariant, <1>2, PTL DEF Spec, NoFrameSkipped

(* start with Continue goes on at the very frame where stop, or a timer that  *)
(* could not be started, interrupted the animation.                           *)
THEOREM ContinueGoesOn == Spec => ContinueResumes
  <1> DEFINE Resumes ==
          p.state = "NotRunning" /\ p'.state # "NotRunning"
          /\ paused # Nowhere /\ "Continue" \in p'.flags =>
             /\ p'.state = "WaitingRead"
             /\ p'.current = paused.current
             /\ p'.currentFrameNumber = paused.frame
  <1>1. ASSUME IInv, NEW flags \in FlagSets, start(flags) PROVE Resumes
    <2> DEFINE r == Start(p, flags)
    <2>1. p.state = "NotRunning" /\ p.images # <<>> /\ Placed(p) /\ p' = r
      BY <1>1, BecomesIs, Parts DEF start, Becomes, Kept, PositionOK, TypeOK, Placed, Defined
    <2>2. /\ StartFails(p, r, flags) \/ StartIdles(p, r) \/ StartPlays(p, r, flags)
          /\ r.flags = flags \cup (IF "InvertedOrder" \in flags THEN {"CacheAll"} ELSE {})
      BY <1>1, <2>1, StartIs, Parts, ClientAssumption
    <2> HIDE DEF r
    <2>3. paused # Nowhere => InRange(p) /\ paused = Here
      BY <1>1, <2>1, Parts DEF LoopsOK
    <2> QED BY <2>1, <2>2, <2>3 DEF StartFails, StartIdles, StartPlays, Here
  <1>2. ASSUME IInv, Next, p.state = "NotRunning", p'.state # "NotRunning"
        PROVE \E flags \in FlagSets : start(flags)
    <2>1. CASE \E images \in ImageLists : setImages(images)
      <3>1. PICK images \in ImageLists : setImages(images)
        BY <2>1
      <3>2. p' = SetImages(p, images) /\ images # p.images
        BY <3>1 DEF setImages, Becomes
      <3>3. SetImages(p, images).state = "NotRunning"
        BY <1>2, <3>1, <3>2, SetImagesIs, Parts, ClientAssumption
      <3> QED BY <1>2, <3>2, <3>3
    <2>2. CASE \E pal \in Palettes : setPalette(pal)
      <3>1. PICK pal \in Palettes : p' = SetPalette(p, pal)
        BY <2>2 DEF setPalette, Becomes
      <3> QED BY <1>2, <3>1, SetPaletteIs, Parts
    <2>3. CASE \E count \in LoopCounts : setLoopCount(count)
      <3>1. PICK count \in LoopCounts : p' = SetLoopCount(p, count)
        BY <2>3 DEF setLoopCount, Becomes
      <3> QED BY <1>2, <3>1, SetLoopCountIs, Parts, ClientAssumption
    <2>4. CASE clearCache
      <3>1. p' = ClearCache(p)
        BY <2>4 DEF clearCache, Becomes
      <3> QED BY <1>2, <3>1, ClearCacheIs, Parts
    <2>5. CASE timerEvent
      BY <1>2, <2>5, EventIs
    <2>6. CASE \E i \in Images : copyDestroyed(i)
      <3>1. PICK i \in Images : p' = [p EXCEPT !.number[i] = 0]
        BY <2>6 DEF copyDestroyed, Becomes
      <3> QED BY <1>2, <3>1, Parts DEF Players
    <2> QED BY <1>2, <2>1, <2>2, <2>3, <2>4, <2>5, <2>6
            DEF Next, abortLoop, stop, readImage, Playing
  <1>3. IInv /\ [Next]_vars => [Resumes]_vars
    BY <1>1, <1>2
  <1>4. ContinueResumes <=> [][Resumes]_vars
    BY PTL DEF ContinueResumes
  <1> QED BY PlayerInvariant, <1>3, <1>4, PTL DEF Spec

(* After abortLoop every timer event ends the animation or brings its end     *)
(* nearer: no loop of an image or of the list goes on.                        *)
THEOREM AbortingEndsLoops == Spec => AbortEndsLoops
  <1>1. ASSUME IInv, aborted, timerEvent, p'.state = "WaitingRead"
        PROVE \/ ImagesLeft(p') < ImagesLeft(p)
              \/ ImagesLeft(p') = ImagesLeft(p) /\ FramesLeft(p') < FramesLeft(p)
    <2>1. /\ p.state = "Running" /\ p' \in Players /\ Same(p, p')
          /\ TimerAdvances(p, p') \/ TimerMoves(p, p') \/ TimerEnds(p, p') \/ TimerFails(p, p')
      BY <1>1, EventIs
    <2>2. p.loopCount = 0 /\ p.currentLoopCount \in {0, 1}
      BY <1>1, Parts DEF LoopsOK
    <2>3. /\ p.current \in Nat /\ p.currentFrameNumber \in Nat /\ Len(p.images) \in Nat
          /\ InRange(p) /\ p'.current \in Int
      BY <1>1, <2>1, RunningIs DEF Players
    <2>4. Frames[Image(p)] \in Nat
      BY <1>1, <2>3, ImageIs, Parts
    <2>5. p'.images = p.images /\ (Reversed(p') <=> Reversed(p))
      BY <2>1 DEF Same, Reversed
    <2>6. CASE TimerAdvances(p, p')
      <3>1. /\ p'.current = p.current /\ Image(p') = Image(p)
            /\ p'.currentFrameNumber = (IF Reversed(p) THEN p.currentFrameNumber - 1
                                        ELSE p.currentFrameNumber + 1)
        BY <2>3, <2>6 DEF TimerAdvances, NextFrame, Toward
      <3>2. ImagesLeft(p') = ImagesLeft(p)
        BY <2>5, <3>1 DEF ImagesLeft
      <3>3. FramesLeft(p') < FramesLeft(p)
        BY <2>3, <2>4, <2>5, <3>1 DEF FramesLeft
      <3> QED BY <3>2, <3>3
    <2>7. CASE TimerMoves(p, p')
      <3>1. IF Reversed(p) THEN p'.current < p.current ELSE p.current < p'.current
        BY <2>2, <2>7 DEF TimerMoves
      <3>2. ImagesLeft(p') < ImagesLeft(p)
        BY <2>3, <2>5, <3>1 DEF ImagesLeft
      <3> QED BY <3>2
    <2> QED BY <1>1, <2>1, <2>6, <2>7 DEF TimerEnds, TimerFails
  <1>2. IInv /\ [Next]_vars =>
            [aborted /\ timerEvent /\ p'.state = "WaitingRead" =>
                \/ ImagesLeft(p') < ImagesLeft(p)
                \/ ImagesLeft(p') = ImagesLeft(p) /\ FramesLeft(p') < FramesLeft(p)]_vars
    BY <1>1
  <1> QED BY PlayerInvariant, <1>2, PTL DEF Spec, AbortEndsLoops
=============================================================================
