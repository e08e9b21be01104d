----------------------------------- MODULE Gpu -----------------------------------
(***************************************************************************)
(* gpu.cpp of the emulator: which cells the pixels of a frame come from,   *)
(* and what the filters make of a color.  A color is <<r, g, b>>.  The     *)
(* doubles of a hue or a channel are the fractions they round; where an    *)
(* exact value is whole its double may lie just below, so that a           *)
(* conversion to a byte may lose 1.                                        *)
(***************************************************************************)
EXTENDS Integers, FiniteSetsExt, SequencesExt

kDisplayWidth == 64
kDisplayHeight == 60

getPixelAddress(width, height) == 20992 + 2 * (width + height * kDisplayWidth)

(* render: current_column_ is assigned after decodePixel, which sees the    *)
(* column of the pixel before, or of the last one of the row before.        *)
Row(y, column) ==
  [x \in 0 .. kDisplayWidth - 1 |->
     [address |-> getPixelAddress(x, y), line |-> y, column |-> IF x = 0 THEN column ELSE x - 1]]

render(column) ==
  [y \in 0 .. kDisplayHeight - 1 |-> Row(y, IF y = 0 THEN column ELSE kDisplayWidth - 1)]

----------------------------------------------------------------------------
(* Hue, saturation and value.  The hue is h/d, in sixths of the circle; c   *)
(* is saturation times value.                                               *)
HSV(v, c, d, h) == [v |-> v, c |-> c, d |-> d, h |-> h]

rgb2hsv(r, g, b) ==
  LET max == Max({r, g, b})
      delta == max - Min({r, g, b})
  IN HSV(max, delta, IF delta = 0 THEN 1 ELSE delta,
         IF delta = 0 THEN 0
         ELSE IF r = max THEN g - b
         ELSE IF g = max THEN 2 * delta + b - r
         ELSE 4 * delta + r - g)

(* fmod has the sign of its first argument. *)
fmod(x, y) == IF x >= 0 THEN x % y ELSE -((-x) % y)
Distance(x, y) == IF x > y THEN x - y ELSE y - x

(* The channels, times d.  What is no sector below the last, a negative hue *)
(* too, is the last.                                                        *)
hsv2rgb(in) ==
  LET c == in.c * in.d
      x == in.c * (in.d - Distance(fmod(in.h, 2 * in.d), in.d))
      m == (in.v - in.c) * in.d
      sector == IF in.h >= 0 /\ in.h < 5 * in.d THEN in.h \div in.d ELSE 5
  IN CASE sector = 0 -> <<c + m, x + m, m>>
       [] sector = 1 -> <<x + m, c + m, m>>
       [] sector = 2 -> <<m, c + m, x + m>>
       [] sector = 3 -> <<m, x + m, c + m>>
       [] sector = 4 -> <<x + m, m, c + m>>
       [] sector = 5 -> <<c + m, m, x + m>>

RotatedUnwrapped(in, degrees) == HSV(in.v, in.c, 60 * in.d, 60 * in.h + degrees * in.d)

rotate_hue(in, degrees) ==
  HSV(in.v, in.c, 60 * in.d, fmod(60 * in.h + degrees * in.d, 360 * in.d))

(* Saturation times 0.6, in tenths. *)
Paled(in) == HSV(10 * in.v, 6 * in.c, in.d, in.h)

----------------------------------------------------------------------------
(* The filters, as the sets of colors a color may become.                   *)
Bytes == 0 .. 255

(* A fraction to a byte; for a negative number that is undefined.           *)
Truncated(n, d) ==
  IF n < 0 THEN Bytes
  ELSE {n \div d} \cup (IF n % d = 0 /\ n > 0 THEN {n \div d - 1} ELSE {})

Equal(c) == c[1] = c[2] /\ c[2] = c[3]

(* Channels of a gray are computed alike. *)
Converted(c, d) ==
  IF Equal(c) THEN {<<n, n, n>> : n \in Truncated(c[1], d)}
  ELSE Truncated(c[1], d) \X Truncated(c[2], d) \X Truncated(c[3], d)

applyPastelFilter(c) ==
  LET hsv == Paled(rgb2hsv(c[1], c[2], c[3])) IN Converted(hsv2rgb(hsv), 10 * hsv.d)

applyHueFilter(c, degrees) ==
  LET hsv == rotate_hue(rgb2hsv(c[1], c[2], c[3]), degrees) IN Converted(hsv2rgb(hsv), hsv.d)

applyInvertFilter(c) == {<<255 - c[1], 255 - c[2], 255 - c[3]>>}

applyGrayScaleFilter(c) ==
  {<<n, n, n>> : n \in Truncated(2126 * c[1] + 7152 * c[2] + 722 * c[3], 10000)}

Noise == -5 .. 5
Clamp(n) == Max({0, Min({n, 255})})

applyCRTFilter(c, line) ==
  LET dark == [i \in 1 .. 3 |-> IF line % 2 = 0 THEN (9 * c[i]) \div 10 ELSE c[i]]
  IN {[i \in 1 .. 3 |-> Clamp(dark[i] + noise)] : noise \in Noise}

(* duck.h: where the duck is, it has one of these colors. *)
applyDuckSkin(c) ==
  {c, <<0, 0, 0>>, <<255, 255, 255>>, <<255, 255, 0>>, <<255, 128, 0>>}

Field(pixelData, shift) == (((pixelData \div 2^shift) % 32) * 255) \div 31

(* decodePixel: the filters that are on, one after the other. *)
decodePixel(pixelData, on, line, degrees) ==
  LET Through(f, Apply(_), S) == IF f \in on THEN UNION {Apply(c) : c \in S} ELSE S
      c0 == {<<Field(pixelData, 10), Field(pixelData, 5), Field(pixelData, 0)>>}
      c1 == Through("duck", applyDuckSkin, c0)
      c2 == Through("grayscale", applyGrayScaleFilter, c1)
      c3 == Through("invert", applyInvertFilter, c2)
      c4 == Through("pastel", applyPastelFilter, c3)
      c5 == Through("hue", LAMBDA c : applyHueFilter(c, degrees), c4)
  IN Through("crt", LAMBDA c : applyCRTFilter(c, line), c5)
=============================================================================
