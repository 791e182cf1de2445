----------------------------- MODULE GridLayout -----------------------------
(***************************************************************************)
(* Where a frame lands on the 64 x 64 grid                                 *)
(* (transmision/implementation/grid.py, Grid64Codec), and how the adapter  *)
(* cuts what it sends to fit (transmision/adapter.py).                     *)
(*                                                                         *)
(* encode_grid fills the payload modules in reading order, then draws the  *)
(* fixed structure over them.  decode_grid reads the same modules back.    *)
(***************************************************************************)
EXTENDS Integers, FiniteSets, LinkFrames

GRID_MODULES == 64
FINDER_SIZE  == 7
CAL_SIZE     == 4
FrameHeader  == DATAFRAME_HEADER_SIZE + 2   \* a DataFrame around its payload

Edge == GRID_MODULES - 1
fs   == FINDER_SIZE + 1

Modules == (0 .. Edge) \X (0 .. Edge)

\* _build_payload_mask: the modules that are not available.
Reserved ==
    ((0 .. fs - 1) \X (0 .. fs - 1))
      \cup ((0 .. fs - 1) \X (GRID_MODULES - fs .. Edge))
      \cup ((GRID_MODULES - fs .. Edge) \X (0 .. fs - 1))
      \cup ({6} \X (fs .. Edge - fs))
      \cup ((fs .. Edge - fs) \X {6})
      \cup ((GRID_MODULES - CAL_SIZE .. Edge) \X (GRID_MODULES - CAL_SIZE .. Edge))
      \cup ({8} \X (0 .. 8))
      \cup ((0 .. 8) \X {8})
      \cup ({8} \X (GRID_MODULES - 8 .. Edge))
      \cup ((GRID_MODULES - 8 .. Edge) \X {8})

PayloadModules == Modules \ Reserved

Capacity == Cardinality(PayloadModules)

\* Slip: the format information is drawn two rows higher than the mask has it.
DrawnHigher == ({6} \X (fs .. Edge - fs)) \cup ({4} \X (9 .. 9 + 23))

\* _draw_finder_patterns, _draw_timing_patterns, _draw_cal_patch
\* and _draw_format_info, which come after the payload.
Corners == {<<0, 0>>, <<0, GRID_MODULES - FINDER_SIZE>>, <<GRID_MODULES - FINDER_SIZE, 0>>}

Drawn ==
    (UNION {(p[1] .. p[1] + 6) \X (p[2] .. p[2] + 6) : p \in Corners})
      \cup ({6} \X (fs .. Edge - fs))
      \cup ((fs .. Edge - fs) \X {6})
      \cup ((GRID_MODULES - CAL_SIZE .. Edge) \X (GRID_MODULES - CAL_SIZE .. Edge))
      \cup ({8} \X (9 .. 9 + 23))

\* The number of payload modules that come before one in reading order.
Place(m) ==
    Cardinality({p \in PayloadModules : p[1] < m[1] \/ (p[1] = m[1] /\ p[2] < m[2])})

\* The place of the first payload module that something is drawn over.
FirstDrawnOver ==
    LET places == {Place(m) : m \in PayloadModules \cap Drawn} IN
    IF places = {} THEN Capacity ELSE CHOOSE k \in places : \A j \in places : k <= j

\* max_payload_bytes_for_bpc
MaxPayloadBytes(b) == (Capacity * b) \div 8

\* Slip: a module too few when the depth does not divide the bits.
SymbolsFloor(n, b) == (n * 8) \div b

\* Payload modules that n bytes take: n_symbols of decode_grid.
Symbols(n, b) == (n * 8 + b - 1) \div b

\* _draw_format_info and _read_format_info: 20 bits of length, two that are not
\* used, and two of depth.
FormatInfo(n, b) == (n % 2^20) * 16 + (b - 1)

ReadFormat(info) == [length |-> info \div 16, depth |-> (info % 4) + 1]

\* Slip: what fits on the grid is cut off, whatever a DataFrame may hold.
FragmentWhole(n, b) == Least(n, MaxPayloadBytes(b))

\* _fragment: the payload of the next frame, of n bytes that are left.
Fragment(n, b) == Least(n, Least(MaxPayloadBytes(b), MAX_PAYLOAD))
=============================================================================
