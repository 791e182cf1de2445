------------------------------ MODULE GridCodec ------------------------------
(***************************************************************************)
(* From the bytes that send() has to transmit to the modules of the grid   *)
(* and back: _fragment of transmision/adapter.py, encode_grid and          *)
(* decode_grid of transmision/implementation/grid.py.                      *)
(*                                                                         *)
(* A behaviour cuts a message of some length into frames, one after the    *)
(* other; when nothing is left, it goes through the contents of one frame, *)
(* byte after byte.                                                        *)
(***************************************************************************)
EXTENDS GridLayout, GridSymbols

CONSTANTS
    Depths,     \* bits_per_cell of the codecs
    MaxLength,  \* bound: the longest message
    Bytes,      \* the byte values of the instance
    MaxFrame    \* bound: the bytes of a frame whose contents are looked at

ASSUME DepthsAssumption == Depths \subseteq 1 .. 4
ASSUME LengthAssumption == MaxLength \in Nat /\ MaxFrame \in Nat
ASSUME BytesAssumption == Bytes \subseteq 0 .. 255

VARIABLES
    bpc,    \* bits_per_cell of the codec
    left,   \* len(data) - offset in _fragment
    frame   \* a payload of encode_grid

vars == <<bpc, left, frame>>

Init ==
    /\ bpc \in Depths
    /\ left \in 0 .. MaxLength
    /\ frame = <<>>

\* The next DataFrame of the message.
CutFrame ==
    /\ left > 0
    /\ left' = left - Fragment(left, bpc)
    /\ UNCHANGED <<bpc, frame>>

\* One more byte in the frame that is encoded.
AddByte ==
    /\ left = 0
    /\ Len(frame) < MaxFrame
    /\ \E byte \in Bytes : frame' = Append(frame, byte)
    /\ UNCHANGED <<bpc, left>>

Next == CutFrame \/ AddByte

Spec == Init /\ [][Next]_vars

-----------------------------------------------------------------------------
(* Properties *)

\* A frame that send() makes fits: its payload is one that DataFrame accepts and
\* the frame around it one that encode_grid accepts, at every depth; and every
\* frame makes progress.
FragmentsFit ==
    left > 0 =>
        /\ Fragment(left, bpc) \in 1 .. MAX_PAYLOAD
        /\ Fragment(left, bpc) + FrameHeader <= MaxPayloadBytes(bpc)

\* With 16 colours, what is drawn after the payload leaves the frame alone, data
\* or handshake: "True = modulo disponible para datos" (grid.py, line 148).
FrameSurvives ==
    bpc = 4 =>
        /\ Symbols(Fragment(left, bpc) + FrameHeader, bpc) <= FirstDrawnOver
        /\ Symbols(HANDSHAKE_SIZE, bpc) <= FirstDrawnOver

\* decode_grid reads back the frame that encode_grid wrote: it reads exactly as
\* many modules as were written, zero modules that follow them add nothing, and
\* the bytes are the same ones.
RoundTrip ==
    LET padded == BytesToSymbols(frame, bpc) \o <<0, 0, 0>>
        read   == SubSeq(padded, 1, Symbols(Len(frame), bpc))
    IN  SymbolsToBytes(read, bpc, Len(frame)) = frame

\* The k-th bit of a sequence of values of some width.
Bit(values, width, k) ==
    (values[((k - 1) \div width) + 1] \div 2^(width - 1 - ((k - 1) % width))) % 2

\* The bits of the symbols are the bits of the frame, in order, and then zeros;
\* and each symbol is one that codec.encode accepts.
SameBits ==
    LET symbols == BytesToSymbols(frame, bpc) IN
    /\ \A k \in DOMAIN symbols : symbols[k] \in 0 .. 2^bpc - 1
    /\ \A k \in 1 .. Len(symbols) * bpc :
          Bit(symbols, bpc, k) = IF k <= 8 * Len(frame) THEN Bit(frame, 8, k) ELSE 0
=============================================================================
