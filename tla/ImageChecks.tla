---------------------------- MODULE ImageChecks -----------------------------
(* The filters of DImageHandler against what they are for, over small images: *)
(* where they agree with it and where they do not.  TLC evaluates these with  *)
(* every run of a module that extends this one.                               *)
LOCAL INSTANCE Integers
LOCAL INSTANCE FiniteSets
LOCAL INSTANCE ImageFilters

LOCAL Levels == {0, 1, 100, 127, 128, 129, 254, 255}
LOCAL Samples == Levels \X Levels \X Levels

(* The image of width w and height h with the pixel P[at] at each place; the  *)
(* bytes behind a row are 0.                                                  *)
LOCAL Picture(w, h, P) ==
    [w |-> w, h |-> h,
     bytes |-> [a \in 0..(h * RowBytes(w) - 1) |->
        LET o == a % RowBytes(w)
        IN IF o < 3 * w THEN P[<<o \div 3, a \div RowBytes(w)>>][(o % 3) + 1] ELSE 0]]
LOCAL PlacesOf(w, h) == (0..(w - 1)) \X (0..(h - 1))
LOCAL Pictures(w, h, colors) == {Picture(w, h, P) : P \in [PlacesOf(w, h) -> colors]}
LOCAL Whole(img) == [at \in Places(img) |-> At(img, at[1], at[2])]
LOCAL Mirrored(img, Flip(_)) ==
    Picture(img.w, img.h, [at \in Places(img) |-> At(img, Flip(at)[1], Flip(at)[2])])

-----------------------------------------------------------------------------
(* An intensity below zero is no colder filter: the channel wraps around as   *)
(* soon as the sum is negative (warmColorFilter, coolColorFilter).            *)
ASSUME WarmWrapsBelowZero ==
    \A v \in Byte, i \in {-255, -129, -128, -1, 0, 1, 128, 255} :
        Warmer(v, i) = Bound(v + i) <=> v + i >= 0

(* Whatever the image is, the filters that count width * height triples of    *)
(* bytes change every pixel as it stands, if and only if the rows have no     *)
(* bytes behind them or there is only one.                                    *)
ASSUME PaddedRowsAreMissed ==
    \A w \in 1..4, h \in 1..3 :
        LET right(img) == Whole(Through(AntiColor, img)) = [at \in Places(img) |-> AntiColor(Whole(img)[at])]
        IN (\A k \in {1, 7, 100} :
               right(Picture(w, h, [at \in PlacesOf(w, h) |-> Grey((k * (at[1] + 5 * at[2])) % 256)])))
           <=> (h = 1 \/ RowBytes(w) = 3 * w)

(* contourExtraction does not depend on which side of a picture is up: the    *)
(* contour of a mirrored picture is the mirrored contour.                     *)
ASSUME ContourIsMirrored ==
    \A img \in Pictures(4, 3, {Black, White}) :
        LET across(at) == FlipHorizontal(at, 4)
            down(at) == FlipVertical(at, 3)
        IN /\ \A at \in Places(img) : Contour(Mirrored(img, across))[at] = Contour(img)[across(at)]
           /\ \A at \in Places(img) : Contour(Mirrored(img, down))[at] = Contour(img)[down(at)]

(* laplaceSharpen is the sharpened picture, the pixel and its difference from *)
(* its neighbours, where the row below has the same colour; elsewhere it adds *)
(* that row instead of the pixel.                                             *)
LOCAL Light == <<200, 200, 200>>
LOCAL Sharpened(img, x, y) ==
    LET v(n) == At(img, n[1], n[2])[1]
    IN Grey(Bound(5 * v(<<x, y>>) - v(<<x - 1, y>>) - v(<<x + 1, y>>) - v(<<x, y - 1>>) - v(<<x, y + 1>>)))
ASSUME SharpensBesideItsOwn ==
    \A img \in Pictures(3, 3, {Black, Grey(10), Light}) :
        LET s == Sharpened(img, 1, 1)
            new == LaplaceSharpen(img, TRUE)[<<1, 1>>]
        IN At(img, 1, 1) = At(img, 1, 2) => new = s

(* sobelEdgeDetector divides by zero just for a picture that is black when    *)
(* grey, as blue alone is.                                                    *)
ASSUME SobelOfTheDark ==
    \A img \in Pictures(4, 2, {Black, <<0, 0, 255>>, Light}) :
        LET edges == SobelEdges(img)
        IN (\E at \in Places(img) : edges[at] = Unset)
           <=> \A at \in Places(img) : GrayScale(At(img, at[1], at[2])) = Black

(* changeStauration: 0 leaves a pixel as it is, -100 makes it grey, and the   *)
(* quotient is undefined from 100 on for two channels next to each other.     *)
ASSUME StaurationEnds ==
    \A p \in Samples :
        /\ Stauration(p, 0) = p
        /\ Stauration(p, -100) = IF Least(p) = Most(p) THEN p ELSE Grey((Least(p) + Most(p)) \div 2)
        /\ \A s \in {-50, 50, 99, 100, 200} :
              Stauration(p, s) = Unset <=>
                 /\ s >= 100 /\ Least(p) # Most(p)
                 /\ Saturated(Least(p), Most(p)) = 0

(* changeLightAndContrast(100, 150) changes nothing, changeBrightness(-255)   *)
(* and (255) leave one colour.                                                *)
ASSUME NeutralValues ==
    \A p \in Samples :
        /\ LightAndContrast(p, 100, 150) = p
        /\ Brighter(p, -255) = Black /\ Brighter(p, 255) = White

(* An orientation names the sides where row 0 and column 0 are seen: after    *)
(* adjustImageToRealOrientation they are there, and no two pixels fall on the *)
(* same place.                                                                *)
ASSUME OrientationsAreRight ==
    \A o \in Orientations, w \in 1..3, h \in 1..3 :
        /\ OnSides(o, w, h)
        /\ {Seen(o, at, w, h) : at \in PlacesOf(w, h)}
              = PlacesOf(SeenWidth(o, w, h), SeenHeight(o, w, h))
=============================================================================
