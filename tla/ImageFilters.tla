---------------------------- MODULE ImageFilters ----------------------------
(* The filters of DImageHandler: what they make of a pixel, of the bytes of   *)
(* an image, and of a pixel and those around it.                              *)
(*                                                                            *)
(* A pixel is <<red, green, blue>>, from 0 to 255.  An image of the format    *)
(* RGB888 is its width, its height and its bytes; a row begins at a multiple  *)
(* of four bytes.  The products of float and double are taken exactly.        *)
EXTENDS Integers

Byte == 0..255
Pixels == Byte \X Byte \X Byte
Black == <<0, 0, 0>>
White == <<255, 255, 255>>
Unset == <<>>

Lesser(a, b) == IF a < b THEN a ELSE b
Greater(a, b) == IF a < b THEN b ELSE a
Bound(v) == Greater(0, Lesser(v, 255))
Stored(v) == v % 256
Grey(v) == <<v, v, v>>

-----------------------------------------------------------------------------
(* Filters of one pixel.  Those of warm and cool colours have no lower bound. *)
OldColor(p) ==
    <<Bound((393 * p[1] + 769 * p[2] + 189 * p[3]) \div 1000),
      Bound((349 * p[1] + 686 * p[2] + 168 * p[3]) \div 1000),
      Bound((272 * p[1] + 534 * p[2] + 131 * p[3]) \div 1000)>>

Warmer(v, intensity) == Stored(Lesser(v + intensity, 255))
WarmColor(p, intensity) == <<Warmer(p[1], intensity), Warmer(p[2], intensity), p[3]>>
CoolColor(p, intensity) == <<p[1], p[2], Warmer(p[3], intensity)>>

Average(p) == (p[1] + p[2] + p[3]) \div 3
GrayScaleColor(p) == Grey(Lesser(Average(p), 255))
AntiColor(p) == <<255 - p[1], 255 - p[2], 255 - p[3]>>
Binary(p) == IF Average(p) > 128 THEN White ELSE Black

(* The third addend is the green channel again.                               *)
GrayScale(p) == Grey((p[1] * 299 + p[2] * 587 + p[2] * 114 + 500) \div 1000)

Brighter(p, brightness) ==
    <<Bound(p[1] + brightness), Bound(p[2] + brightness), Bound(p[3] + brightness)>>

Lit(v, light, contrast) == Bound((light * v) \div 100 - 150 + contrast)
LightAndContrast(p, light, contrast) ==
    <<Lit(p[1], light, contrast), Lit(p[2], light, contrast), Lit(p[3], light, contrast)>>

(* metalColorFilter: half of the pixel and half of its dark grey.             *)
Metal(p) ==
    LET dark == GrayScale(Brighter(p, -100))
    IN <<(p[1] + dark[1]) \div 2, (p[2] + dark[2]) \div 2, (p[3] + dark[3]) \div 2>>

Transparent(p, alpha) == [color |-> p, alpha |-> Stored(alpha)]

Replaced(p, old, new) == IF p = old THEN new ELSE p

(* changeStauration: from lightness and saturation by the extreme channels;   *)
(* the factor alpha is a quotient that nothing keeps from dividing by zero.   *)
Least(p) == Lesser(Lesser(p[1], p[2]), p[3])
Most(p) == Greater(Greater(p[1], p[2]), p[3])
Saturated(least, most) ==
    LET value == most + least
        delta == most - least
    IN IF value \div 2 < 128 THEN (delta * 128) \div value ELSE (delta * 128) \div (510 - value)
Divisor(s, saturation) ==
    IF 128 * saturation + 100 * s >= 12800 THEN s ELSE (12800 - 128 * saturation) \div 100
Alpha(s, saturation) ==
    IF saturation < 0 THEN -((-128 * saturation) \div 100)
    ELSE 16384 \div Divisor(s, saturation) - 128
Divides(least, most, saturation) ==
    saturation < 0 \/ Divisor(Saturated(least, most), saturation) # 0
Spread(v, l, alpha) == Bound(v + ((v - l) * alpha) \div 128)
Stauration(p, saturation) ==
    LET least == Least(p)
        most == Most(p)
        l == (least + most) \div 2
        alpha == Alpha(Saturated(least, most), saturation)
    IN IF least = most THEN p
       ELSE IF ~Divides(least, most, saturation) THEN Unset
       ELSE <<Spread(p[1], l, alpha), Spread(p[2], l, alpha), Spread(p[3], l, alpha)>>

-----------------------------------------------------------------------------
(* Images.                                                                    *)
RowBytes(w) == ((w * 24 + 31) \div 32) * 4
Places(img) == (0..(img.w - 1)) \X (0..(img.h - 1))
At(img, x, y) ==
    LET o == y * RowBytes(img.w) + 3 * x
    IN <<img.bytes[o], img.bytes[o + 1], img.bytes[o + 2]>>

(* The loop of most filters: over width * height triples of bytes, as if no   *)
(* row were padded.  (The iterations, which run in parallel, are disjoint.)   *)
Through(F(_), img) ==
    [img EXCEPT !.bytes = [a \in DOMAIN img.bytes |->
        LET o == 3 * (a \div 3)
        IN IF a < 3 * img.w * img.h
           THEN F(<<img.bytes[o], img.bytes[o + 1], img.bytes[o + 2]>>)[(a % 3) + 1]
           ELSE img.bytes[a]]]
Binaryzation(img) == Through(Binary, img)
GrayImage(img) == Through(GrayScale, img)

Interior(img, x, y) == x \in 1..(img.w - 2) /\ y \in 1..(img.h - 2)
Around(x, y) == ((x - 1)..(x + 1)) \X ((y - 1)..(y + 1))

(* contourExtraction, of what binaryzation leaves                             *)
Contour(img) ==
    LET bin == Binaryzation(img)
        dark(x, y) == At(bin, x, y)[1] = 0
    IN [at \in Places(img) |->
           IF /\ Interior(img, at[1], at[2]) /\ dark(at[1], at[2])
              /\ \E n \in Around(at[1], at[2]) : ~dark(n[1], n[2])
           THEN Black ELSE White]

(* laplaceSharpen: what is added to the difference from the four neighbours   *)
(* is read from the last row of the window.  The first row and column are     *)
(* left alone: not set at all where the image had another format.             *)
Inside(img, x, y) == x \in 0..(img.w - 1) /\ y \in 0..(img.h - 1)
Sharper(img, x, y, c) ==
    LET v(i, j) == IF Inside(img, i, j) THEN At(img, i, j)[c] ELSE 0
    IN Bound(4 * v(x, y) - v(x - 1, y) - v(x + 1, y) - v(x, y - 1) - v(x, y + 1)
             + v(x, Lesser(y + 1, img.h - 1)))
LaplaceSharpen(img, isRgb888) ==
    [at \in Places(img) |->
        IF at[1] > 0 /\ at[2] > 0
        THEN [c \in 1..3 |-> Sharper(img, at[1], at[2], c)]
        ELSE IF isRgb888 THEN At(img, at[1], at[2]) ELSE Unset]

(* sobelEdgeDetector: the window of (x, y) goes from there to (x + 2, y + 2), *)
(* less what is beyond the edges, and is added up from its last column.  The  *)
(* greatest sum is kept of the unfinished ones too.                           *)
Size(v) == IF v < 0 THEN -v ELSE v
Gradient(grey, x, y, columns) ==
    LET v(i, j) == IF 2 - i < columns /\ Inside(grey, x + i, y + j)
                   THEN At(grey, x + i, y + j)[1] ELSE 0
        gx == v(2, 2) + 2 * v(2, 1) + v(2, 0) - v(0, 2) - 2 * v(0, 1) - v(0, 0)
        gy == v(0, 0) + 2 * v(1, 0) + v(2, 0) - v(0, 2) - 2 * v(1, 2) - v(2, 2)
    IN Size(gx) + Size(gy)
SobelEdges(img) ==
    LET grey == GrayImage(img)
        sums == {Gradient(grey, at[1], at[2], columns) : at \in Places(img), columns \in 1..3}
        max == CHOOSE m \in sums : \A s \in sums : s <= m
    IN [at \in Places(img) |->
           IF max = 0 THEN Unset
           ELSE Grey(255 - (255 * Gradient(grey, at[1], at[2], 3)) \div max)]

-----------------------------------------------------------------------------
(* rotateImage and the flips, as the place of a stored image of width w and   *)
(* height h that is seen at (x, y); and adjustImageToRealOrientation.         *)
Orientations == {"TopLeft", "TopRight", "BottomRight", "BottomLeft",
                 "LeftTop", "RightTop", "RightBottom", "LeftBottom"}
Sideways(o) == o \in {"LeftTop", "RightTop", "RightBottom", "LeftBottom"}
SeenWidth(o, w, h) == IF Sideways(o) THEN h ELSE w
SeenHeight(o, w, h) == IF Sideways(o) THEN w ELSE h

Rotated(at, w, h) == <<h - 1 - at[2], at[1]>>
HalfTurned(at, w, h) == <<w - 1 - at[1], h - 1 - at[2]>>
RotatedBack(at, w, h) == <<at[2], w - 1 - at[1]>>
FlipHorizontal(at, w) == <<w - 1 - at[1], at[2]>>
FlipVertical(at, h) == <<at[1], h - 1 - at[2]>>

(* Where the pixel stored at "at" is seen.                                    *)
Seen(o, at, w, h) ==
    CASE o = "TopRight" -> FlipHorizontal(at, w)
      [] o = "BottomRight" -> HalfTurned(at, w, h)
      [] o = "BottomLeft" -> FlipVertical(at, h)
      [] o = "LeftTop" -> FlipHorizontal(Rotated(at, w, h), h)
      [] o = "RightTop" -> Rotated(at, w, h)
      [] o = "RightBottom" -> FlipVertical(Rotated(at, w, h), w)
      [] o = "LeftBottom" -> RotatedBack(at, w, h)
      [] OTHER -> at

(* What an orientation says: where row 0 and column 0 of the file are seen.   *)
RowZero(o) ==
    CASE o \in {"TopLeft", "TopRight"} -> "top"
      [] o \in {"BottomLeft", "BottomRight"} -> "bottom"
      [] o \in {"LeftTop", "LeftBottom"} -> "left"
      [] OTHER -> "right"
ColumnZero(o) ==
    CASE o \in {"TopLeft", "BottomLeft"} -> "left"
      [] o \in {"TopRight", "BottomRight"} -> "right"
      [] o \in {"LeftTop", "RightTop"} -> "top"
      [] OTHER -> "bottom"
IsOnSide(side, at, w, h) ==
    CASE side = "top" -> at[2] = 0
      [] side = "bottom" -> at[2] = h - 1
      [] side = "left" -> at[1] = 0
      [] OTHER -> at[1] = w - 1
OnSides(o, w, h) ==
    \A x \in 0..(w - 1), y \in 0..(h - 1) :
        /\ IsOnSide(RowZero(o), Seen(o, <<x, 0>>, w, h), SeenWidth(o, w, h), SeenHeight(o, w, h))
        /\ IsOnSide(ColumnZero(o), Seen(o, <<0, y>>, w, h), SeenWidth(o, w, h), SeenHeight(o, w, h))
=============================================================================
