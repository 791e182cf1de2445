------------------------------ MODULE GridImage ------------------------------
(***************************************************************************)
(* From the frame in the window of one end to the buffer of the other one. *)
(*                                                                         *)
(* After the lengths and the contents that GridCodec goes through, a       *)
(* behaviour does one of two things.  It sends one frame of the link in 16 *)
(* colours, of which the other end may misread one module.  Or it draws a  *)
(* short frame while the consumer thread of the same end calibrates the    *)
(* codec it draws with from other images: encode_grid asks that codec for  *)
(* a colour per module and per cell, decode_grid replaces its colours one  *)
(* by one, before it looks at the depth of the image.                      *)
(***************************************************************************)
EXTENDS GridCodec, ColorPalette

CONSTANTS
    LinkFrameSet,   \* the frames that are sent
    DrawnFrame,     \* the frame that is drawn while colours change
    Worlds,         \* in what surroundings: see World
    NoLinkFrame, NoWorld

\* The depth of the codec; the quarters of every colour that the camera shows; the
\* depths of the other end's images; and how many of them are captured (a bound).
World == [own : Depths, exposure : 1 .. 4, others : SUBSET (1 .. 4), captures : Nat]

ASSUME LinkFrameAssumption == LinkFrameSet \subseteq HandshakeFrame \cup DataFrame
ASSUME WorldsAssumption == Worlds \subseteq World
ASSUME NoneAssumption == NoLinkFrame \notin LinkFrameSet /\ NoWorld \notin Worlds

VARIABLES
    sent,      \* the frame of the link whose bytes are frame
    raw,       \* what decode_grid returns of it
    intact,    \* raw has been read without a mistake
    world,     \* what the camera sees while a frame is drawn
    palette,   \* _calibrated of the codec
    modules,   \* colours of the payload modules drawn so far
    cells,     \* colours of the cells of the calibration patch drawn so far
    patch,     \* the patch the consumer thread calibrates from
    entry,     \* the entry of _calibrated it sets next; 0: none
    captures,  \* images it has calibrated from
    untouched  \* no colour changed while the image was drawn

wire    == <<sent, raw, intact>>
drawing == <<modules, cells>>
reading == <<patch, entry, captures>>
ivars   == <<vars, wire, world, palette, drawing, reading, untouched>>

Colors == 2^bpc

ImageInit ==
    /\ Init
    /\ sent = NoLinkFrame
    /\ raw = <<>>
    /\ intact = TRUE
    /\ world = NoWorld
    /\ palette = Palette(Colors)
    /\ modules = <<>>
    /\ cells = <<>>
    /\ patch = <<>>
    /\ entry = 0
    /\ captures = 0
    /\ untouched = TRUE

-----------------------------------------------------------------------------
(* detect_change *)

SILENCE_MODULES == 2
DiffThreshold   == 8

\* All modules have the same number of pixels.
ImageModules == (GRID_MODULES + 2 * SILENCE_MODULES)^2

\* The greatest difference of grey levels between two colours of a palette.
GreyGap(b) ==
    LET greys == {Grey(Palette(2^b)[k]) : k \in 1 .. 2^b}
        gaps  == {x - y : x, y \in greys}
    IN  CHOOSE gap \in gaps : \A other \in gaps : gap >= other

BitsOf(info) == {i \in 0 .. 23 : (info \div 2^i) % 2 = 1}

\* At most by how much the images of two frames of n and m bytes differ, summed
\* over the modules, whatever the frames hold.
GreatestChange(n, m, b) ==
    LET bits    == BitsOf(FormatInfo(n, b))
        others  == BitsOf(FormatInfo(m, b))
        written == Greatest(Symbols(n, b), Symbols(m, b))
    IN  written * GreyGap(b) + 255 * Cardinality((bits \ others) \cup (others \ bits))

-----------------------------------------------------------------------------
(* A frame of the link *)

Codec ==
    /\ sent = NoLinkFrame
    /\ world = NoWorld
    /\ CutFrame \/ AddByte
    /\ UNCHANGED <<wire, world, palette, drawing, reading, untouched>>

Transmit(f) ==
    /\ sent = NoLinkFrame
    /\ bpc = 4 /\ left = 0 /\ frame = <<>>
    /\ sent' = f
    /\ raw' = FrameBytes(f)
    /\ UNCHANGED <<vars, intact, world, palette, drawing, reading, untouched>>

\* One module is taken for the next colour or for the one before.
Misread(k, by) ==
    /\ sent # NoLinkFrame /\ intact
    /\ intact' = FALSE
    /\ k \in 1 .. Symbols(Len(raw), bpc)
    /\ raw' = [raw EXCEPT ![(k + 1) \div 2] =
                  IF k % 2 = 1 THEN (((@ \div 16) + by) % 16) * 16 + (@ % 16)
                  ELSE (@ \div 16) * 16 + (((@ % 16) + by) % 16)]
    /\ UNCHANGED <<vars, sent, world, palette, drawing, reading, untouched>>

\* One bit of the format information is misread; another depth is refused, and
\* modules that no byte was written to are read as zeros.
MisreadFormat(i) ==
    /\ sent # NoLinkFrame /\ intact
    /\ intact' = FALSE
    /\ LET seen   == ReadFormat(Toggled(FormatInfo(Len(raw), bpc), 2^i))
           padded == raw \o Zeros(MAX_PAYLOAD)
       IN  /\ Symbols(seen.length, bpc) <= FirstDrawnOver
           /\ seen.length <= Len(padded)
           /\ raw' = IF seen.depth = bpc THEN SubSeq(padded, 1, seen.length) ELSE <<>>
    /\ UNCHANGED <<vars, sent, world, palette, drawing, reading, untouched>>

-----------------------------------------------------------------------------
(* encode_grid and decode_grid share a codec *)

Look(w) ==
    /\ frame = DrawnFrame
    /\ world = NoWorld
    /\ w.own = bpc
    /\ world' = w
    /\ UNCHANGED <<vars, wire, palette, drawing, reading, untouched>>

Payload == BytesToSymbols(frame, bpc)

DrawModule ==
    /\ world # NoWorld
    /\ Len(modules) < Len(Payload)
    /\ modules' = Append(modules, Encode(palette, Payload[Len(modules) + 1]))
    /\ untouched' = (modules = <<>> \/ untouched)
    /\ UNCHANGED <<vars, wire, world, palette, cells, reading>>

\* One row of the patch: a colour that changes within a row spoils the image just
\* as one that changes between two rows.
DrawCells ==
    /\ world # NoWorld
    /\ Len(modules) = Len(Payload)
    /\ Len(cells) < CAL_SIZE * CAL_SIZE
    /\ cells' = cells \o [k \in 1 .. CAL_SIZE |-> Cell(palette, Len(cells) + k - 1)]
    /\ UNCHANGED <<vars, wire, world, palette, modules, reading, untouched>>

Complete == Len(cells) = CAL_SIZE * CAL_SIZE

Sees(color) == [k \in 1 .. 3 |-> (color[k] * world.exposure) \div 4]

SeesAll(colors) == [k \in DOMAIN colors |-> Sees(colors[k])]

\* What is on the other screen: an image of theoretical colours, or one drawn in
\* the colours that the other end has learnt from this end's window.
CalPatches ==
    {CalPatch(Palette(2^b)) : b \in world.others} \cup (IF Complete THEN {SeesAll(cells)} ELSE {})

Capture ==
    /\ world # NoWorld
    /\ entry = 0
    /\ captures < world.captures
    /\ captures' = captures + 1
    /\ \E cal \in CalPatches : patch' = SeesAll(cal)
    /\ entry' = 1
    /\ UNCHANGED <<vars, wire, world, palette, drawing, untouched>>

\* Slip: the list is cleared before it is filled again.
CalibrateAnew ==
    /\ entry > 0
    /\ palette' = [k \in 1 .. Colors |->
                      IF k = entry THEN patch[k] ELSE IF entry = 1 THEN <<0, 0, 0>> ELSE palette[k]]
    /\ entry' = IF entry < Colors THEN entry + 1 ELSE 0
    /\ untouched' = (untouched /\ (Complete \/ palette' = palette))
    /\ UNCHANGED <<vars, wire, world, drawing, patch, captures>>

Calibrate ==
    /\ entry > 0
    /\ palette' = [palette EXCEPT ![entry] = patch[entry]]
    /\ entry' = IF entry < Colors THEN entry + 1 ELSE 0
    /\ untouched' = (untouched /\ (Complete \/ palette' = palette))
    /\ UNCHANGED <<vars, wire, world, drawing, patch, captures>>

ImageNext ==
    \/ Codec
    \/ \E f \in LinkFrameSet : Transmit(f)
    \/ \E k \in 1 .. 2 * (FrameHeader + MAX_PAYLOAD), by \in {1, 15} : Misread(k, by)
    \/ \E i \in 0 .. 23 : MisreadFormat(i)
    \/ \E w \in Worlds : Look(w)
    \/ DrawModule \/ DrawCells \/ Capture \/ Calibrate

ImageSpec == ImageInit /\ [][ImageNext]_ivars

-----------------------------------------------------------------------------
(* Properties *)

\* The bytes of a data frame pass for a handshake frame: the second and third
\* byte of its sender's address are the MAGIC (adapter.py, line 324).
LooksLikeHandshake(f) ==
    /\ f.type = DATA
    /\ Len(f.payload) + FrameHeader >= HANDSHAKE_SIZE
    /\ SubSeq(f.src, 2, 3) = MAGIC
    /\ f.payload[4] \div 16 \in Compressions

\* A frame that is read as it was drawn gets into the buffer under its key as
\* what it is, and no frame is taken for another kind, but for the data frames
\* that pass for a handshake: those are lost.
StoredAsSent ==
    sent # NoLinkFrame /\ intact =>
        Stored(raw) = IF LooksLikeHandshake(sent) THEN Nothing ELSE Entry(sent)

\* The misread module makes the other end compare the checksum of another part of
\* the frame, an ACK that says that it is data or a data frame that says that it
\* ends earlier, and the bytes after that part happen to be the checksum of it.
PassesForAnother ==
    /\ Len(raw) = Len(FrameBytes(sent))
    /\ IF IsHandshakeType(sent.type) THEN raw[1] % 16 = DATA ELSE raw[16] < FrameBytes(sent)[16]
    /\ IsData(raw)

\* One misread module, or one misread bit of the format information, never makes
\* another frame of a frame: the buffer gets what was sent or nothing (the two
\* from_bytes raise, and the consumer goes on), and of a misread module nothing,
\* be it in the frame or in its checksum, but for the frames that pass for another.
DamageNeverStored ==
    sent # NoLinkFrame /\ ~ PassesForAnother =>
        /\ Stored(raw) \in {Entry(sent), Nothing}
        /\ Len(raw) = Len(FrameBytes(sent)) /\ raw # FrameBytes(sent) => Stored(raw) = Nothing

\* decode_grid, by any codec of the depth of the image: its calibration is the
\* patch of the image, whatever it held before.
ReadsBack ==
    LET calibrated == SubSeq(SeesAll(cells), 1, Colors) IN
    \A k \in DOMAIN Payload : Decode(calibrated, Sees(modules[k])) = {Payload[k]}

\* An image is read back whatever was captured before it was drawn, images of
\* other depths and a camera that darkens everything included, if the colours
\* did not change while it was drawn and can still be told apart.
UntouchedImageReads ==
    Complete /\ untouched /\ Apart(SubSeq(SeesAll(cells), 1, Colors)) => ReadsBack

\* Between two ends of one depth and with a camera that shows colours as they are,
\* calibration changes nothing, however it interleaves with the drawing: every
\* image is read back.
SettledEndsRead ==
    Complete /\ world.exposure = 4 /\ world.others = {bpc} => ReadsBack

\* The producer thread "captura frames y los encola si cambiaron" (adapter.py, line
\* 296): when a message has a next frame, there are contents of the two that make
\* detect_change tell them apart, in the colours every handshake ends in.
NextFrameNoticed ==
    LET n == Fragment(left, bpc) IN
    bpc = 4 /\ left > n =>
        GreatestChange(n + FrameHeader, Fragment(left - n, bpc) + FrameHeader, bpc)
            > DiffThreshold * ImageModules

\* Why they are not noticed: in 16 colours so few modules differ that no contents
\* of two full frames, or of a handshake frame and the frame after it, reach
\* diff_threshold for a camera that sees just the window (camera.py, line 91).
NextFrameUnnoticed ==
    bpc = 4 =>
        LET n == Fragment(left, bpc) + FrameHeader IN
        /\ GreatestChange(n, n, bpc) <= DiffThreshold * ImageModules
        /\ GreatestChange(HANDSHAKE_SIZE, n, bpc) <= DiffThreshold * ImageModules
=============================================================================
