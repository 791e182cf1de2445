---------------------------- MODULE ColorPalette ----------------------------
(***************************************************************************)
(* The colours of the modules                                              *)
(* (transmision/implementation/color_palette.py, ColorPalette) and how     *)
(* bright they are to the camera.                                          *)
(*                                                                         *)
(* A colour is <<red, green, blue>>.  What a codec remembers is the list   *)
(* of its calibrated colours; encode() and decode() both use it.           *)
(***************************************************************************)
EXTENDS Integers, Sequences

\* int(255 * BASE_VAL * (1 - BASE_SAT * k / n)): what hsv_to_rgb makes of a hue.
Level(k, n) == (255 * 9 * (100 * n - 85 * k)) \div (1000 * n)

\* _build_palette: n hues at equal distances.
Palette(n) ==
    [j \in 1 .. n |->
        LET k == (6 * (j - 1)) % n
            v == Level(0, n)
            p == Level(n, n)
            q == Level(k, n)
            t == Level(n - k, n)
        IN  <<<<v, t, p>>, <<q, v, p>>, <<p, v, t>>,
              <<p, q, v>>, <<t, p, v>>, <<v, p, q>>>>[((6 * (j - 1)) \div n) + 1]]

Encode(calibrated, nibble) == calibrated[nibble + 1]

\* What decode may return: of colours at distance 0 the first one.  The distance
\* of another colour is floating point: any answer is possible.
Decode(calibrated, color) ==
    LET nibbles == 0 .. Len(calibrated) - 1
        equal   == {i \in nibbles : Encode(calibrated, i) = color}
    IN  IF equal = {} THEN nibbles ELSE {i \in equal : \A j \in equal : i <= j}

\* Slip: the patch shows the theoretical colours.
CellTheoretical(calibrated, k) == Encode(Palette(Len(calibrated)), k % Len(calibrated))

\* The k-th cell of the patch that _draw_cal_patch draws, from 0.
Cell(calibrated, k) == Encode(calibrated, k % Len(calibrated))

CalPatch(calibrated) == [k \in 1 .. 16 |-> Cell(calibrated, k - 1)]

Apart(calibrated) ==
    \A i, j \in DOMAIN calibrated : calibrated[i] = calibrated[j] => i = j

\* cv2.COLOR_BGR2GRAY
Grey(color) == (299 * color[1] + 587 * color[2] + 114 * color[3] + 500) \div 1000
=============================================================================
