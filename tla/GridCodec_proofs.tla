-------------------------- MODULE GridCodec_proofs --------------------------
(***************************************************************************)
(* Theorems about GridCodec, for messages of every length, frames of every *)
(* content and every set of depths: how the frames of a message fit on the *)
(* grid, and that their bytes become symbols and bytes again.              *)
(***************************************************************************)
EXTENDS GridCodec, FiniteSetTheorems, LeastElement

CutInv == bpc \in Depths /\ left \in 0 .. MaxLength

-----------------------------------------------------------------------------
(* How many modules there are *)

\* The solvers do not compute with intervals of numbers that are written out.
LEMMA IntervalFacts ==
    /\ IsFiniteSet(0 .. 5) /\ Cardinality(0 .. 5) = 6
    /\ IsFiniteSet(9 .. 54) /\ Cardinality(9 .. 54) = 46
    /\ IsFiniteSet(0 .. 63)
<1>1. 0 \in Int /\ 5 \in Int /\ 9 \in Int /\ 54 \in Int /\ 63 \in Int  OBVIOUS
<1>2. IsFiniteSet(0 .. 5) /\ Cardinality(0 .. 5) = IF 0 > 5 THEN 0 ELSE 5 - 0 + 1
  BY <1>1, FS_Interval, Zenon
<1>3. IsFiniteSet(9 .. 54) /\ Cardinality(9 .. 54) = IF 9 > 54 THEN 0 ELSE 54 - 9 + 1
  BY <1>1, FS_Interval, Zenon
<1>4. IsFiniteSet(0 .. 63)  BY <1>1, FS_Interval, Zenon
<1>. QED  BY <1>2, <1>3, <1>4

LEMMA FiniteGrid == IsFiniteSet(PayloadModules) /\ Cardinality(PayloadModules) \in Nat
<1>1. IsFiniteSet((0 .. 63) \X (0 .. 63))  BY IntervalFacts, FS_Product, Zenon
<1>2. PayloadModules \subseteq (0 .. 63) \X (0 .. 63)  BY DEF PayloadModules, Modules, Edge, GRID_MODULES
<1>. QED  BY <1>1, <1>2, FS_Subset, FS_CardinalityType

\* The middle of the grid, between the rows and columns of the fixed structure.
LEMMA CapacityFacts == Capacity \in Nat /\ Capacity >= 2116
<1> DEFINE Middle == (9 .. 54) \X (9 .. 54)
<1>1. Cardinality(Middle) = 2116
  <2>1. Cardinality(Middle) = Cardinality(9 .. 54) * Cardinality(9 .. 54)
    BY IntervalFacts, FS_Product, Zenon
  <2> HIDE DEF Middle
  <2>. QED  BY <2>1, IntervalFacts
<1>2. Middle \subseteq PayloadModules
  BY DEF PayloadModules, Modules, Reserved, Edge, fs, GRID_MODULES, FINDER_SIZE, CAL_SIZE
<1> HIDE DEF Middle
<1>3. Cardinality(Middle) <= Cardinality(PayloadModules)  BY <1>2, FiniteGrid, FS_Subset
<1>. QED  BY <1>1, <1>3, FiniteGrid DEF Capacity

\* The first payload module that is drawn over, in the format information, comes
\* after the six topmost rows between the finder patterns.
LEMMA FirstDrawnOverFacts == FirstDrawnOver \in Nat /\ FirstDrawnOver >= 276
<1> DEFINE places == {Place(m) : m \in PayloadModules \cap Drawn}
           Top == (0 .. 5) \X (9 .. 54)
<1>1. Cardinality(Top) = 276
  <2>1. Cardinality(Top) = Cardinality(0 .. 5) * Cardinality(9 .. 54)
    BY IntervalFacts, FS_Product, Zenon
  <2> HIDE DEF Top
  <2>. QED  BY <2>1, IntervalFacts
<1>2. Top \subseteq PayloadModules /\ \A p \in Top : p[1] \in 0 .. 5
  BY DEF PayloadModules, Modules, Reserved, Edge, fs, GRID_MODULES, FINDER_SIZE, CAL_SIZE
<1> HIDE DEF Top
<1>3. ASSUME NEW m \in PayloadModules \cap Drawn PROVE Place(m) \in Nat /\ Place(m) >= 276
  <2> DEFINE before == {p \in PayloadModules : p[1] < m[1] \/ (p[1] = m[1] /\ p[2] < m[2])}
  <2>1. m[1] = 8
    <3>1. /\ m \in (0 .. 63) \X (0 .. 63) /\ m \notin Reserved
          /\ \/ m \in {6} \X (fs .. Edge - fs) \/ m \in (fs .. Edge - fs) \X {6}
             \/ m \in (GRID_MODULES - CAL_SIZE .. Edge) \X (GRID_MODULES - CAL_SIZE .. Edge)
             \/ m \in {8} \X (9 .. 9 + 23)
             \/ \E p \in Corners : m \in (p[1] .. p[1] + 6) \X (p[2] .. p[2] + 6)
      BY <1>3 DEF PayloadModules, Modules, Drawn, Edge, GRID_MODULES
    <3>2. ASSUME NEW p \in Corners, m \in (p[1] .. p[1] + 6) \X (p[2] .. p[2] + 6) PROVE FALSE
      <4>1. m \in Reserved
        BY <3>2 DEF Corners, Reserved, Edge, fs, GRID_MODULES, FINDER_SIZE, CAL_SIZE
      <4>. QED  BY <3>1, <4>1
    <3>3. m \in {8} \X (9 .. 9 + 23)
      BY <3>1, <3>2 DEF Reserved, Edge, fs, GRID_MODULES, FINDER_SIZE, CAL_SIZE
    <3>. QED  BY <3>3
  <2>2. Top \subseteq before
    <3>1. \A p \in Top : p[1] < 8  BY <1>2
    <3>. QED  BY <1>2, <2>1, <3>1
  <2>3. before \subseteq PayloadModules  OBVIOUS
  <2> HIDE DEF before
  <2>4. IsFiniteSet(before) /\ Cardinality(before) \in Nat
    BY <2>3, FiniteGrid, FS_Subset, FS_CardinalityType
  <2>5. Cardinality(Top) <= Cardinality(before)  BY <2>2, <2>4, FS_Subset
  <2>6. Place(m) = Cardinality(before)  BY DEF Place, before
  <2>. QED  BY <1>1, <2>4, <2>5, <2>6
<1>4. \A k \in places : k \in Nat /\ k >= 276  BY <1>3
<1>5. FirstDrawnOver = IF places = {} THEN Capacity ELSE CHOOSE k \in places : \A j \in places : k <= j
  BY DEF FirstDrawnOver
<1> HIDE DEF places
<1>6. CASE places = {}  BY <1>5, <1>6, CapacityFacts
<1>7. CASE places # {}
  <2>1. \E k \in places : \A j \in places : k <= j  BY <1>4, <1>7, LeastExists
  <2>. QED  BY <1>4, <1>5, <1>7, <2>1
<1>. QED  BY <1>6, <1>7

-----------------------------------------------------------------------------
(* Frames fit, and survive what is drawn over the payload *)

\* What send() cuts off is never more than it has, and never more than a frame holds.
LEMMA FragmentFacts ==
    ASSUME NEW n \in Nat, NEW b \in 1 .. 4
    PROVE  /\ Fragment(n, b) \in 0 .. n /\ Fragment(n, b) <= MAX_PAYLOAD
           /\ n > 0 => Fragment(n, b) > 0
           /\ Fragment(n, b) + FrameHeader <= MaxPayloadBytes(b)
<1>1. MaxPayloadBytes(b) \in Nat /\ MaxPayloadBytes(b) >= 264
  <2>1. Capacity * b \in Nat /\ Capacity * b >= 2116
    <3>1. CASE b = 1  BY <3>1, CapacityFacts
    <3>2. CASE b = 2  BY <3>2, CapacityFacts
    <3>3. CASE b = 3  BY <3>3, CapacityFacts
    <3>4. CASE b = 4  BY <3>4, CapacityFacts
    <3>. QED  BY <3>1, <3>2, <3>3, <3>4
  <2>. QED  BY <2>1 DEF MaxPayloadBytes
<1>2. Fragment(n, b) = Least(n, 112)  BY <1>1 DEF Fragment, Least, MAX_PAYLOAD
<1>. QED  BY <1>1, <1>2 DEF Least, MAX_PAYLOAD, FrameHeader, DATAFRAME_HEADER_SIZE

LEMMA CutInit == Init => CutInv
BY LengthAssumption DEF Init, CutInv, LengthAssumption

LEMMA CutNext == CutInv /\ [Next]_vars => CutInv'
<1> SUFFICES ASSUME CutInv, [Next]_vars PROVE CutInv'  OBVIOUS
<1>1. bpc \in 1 .. 4 /\ left \in Nat /\ MaxLength \in Nat
  BY DepthsAssumption, LengthAssumption DEF CutInv, DepthsAssumption, LengthAssumption
<1>2. CASE CutFrame
  <2>1. Fragment(left, bpc) \in 0 .. left  BY <1>1, FragmentFacts
  <2>. QED  BY <1>1, <1>2, <2>1 DEF CutFrame, CutInv
<1>3. CASE AddByte \/ UNCHANGED vars  BY <1>3 DEF AddByte, CutInv, vars
<1>. QED  BY <1>2, <1>3 DEF Next

\* Whatever is sent, at whatever depth, each frame of it carries something, and is
\* one that DataFrame and encode_grid accept: send() of a message of any length
\* raises neither error, and comes to an end.
THEOREM FragmentsFitCorrect == Spec => []FragmentsFit
<1>1. CutInv => FragmentsFit
  <2>1. CutInv => bpc \in 1 .. 4 /\ left \in Nat
    BY DepthsAssumption, LengthAssumption DEF CutInv, DepthsAssumption, LengthAssumption
  <2>2. \A n \in Nat, b \in 1 .. 4 : n > 0 => Fragment(n, b) \in 1 .. MAX_PAYLOAD
    <3>1. SUFFICES ASSUME NEW n \in Nat, NEW b \in 1 .. 4, n > 0
                   PROVE  Fragment(n, b) \in 1 .. MAX_PAYLOAD
      OBVIOUS
    <3>2. /\ Fragment(n, b) \in 0 .. n /\ Fragment(n, b) <= MAX_PAYLOAD
          /\ Fragment(n, b) > 0
      BY <3>1, FragmentFacts
    <3>. QED  BY <3>2 DEF MAX_PAYLOAD
  <2>. QED  BY <2>1, <2>2, FragmentFacts DEF FragmentsFit
<1>. QED  BY CutInit, CutNext, <1>1, PTL DEF Spec

\* In 16 colours no frame of a message and no handshake reaches as far as the
\* modules that _draw_format_info draws over, so what _build_payload_mask leaves
\* unreserved there does no harm.
THEOREM FrameSurvivesCorrect == Spec => []FrameSurvives
<1>1. CutInv => FrameSurvives
  <2>1. SUFFICES ASSUME CutInv, bpc = 4
                 PROVE  /\ Symbols(Fragment(left, bpc) + FrameHeader, bpc) <= FirstDrawnOver
                        /\ Symbols(HANDSHAKE_SIZE, bpc) <= FirstDrawnOver
    BY DEF FrameSurvives
  <2>2. left \in Nat  BY LengthAssumption, <2>1 DEF CutInv, LengthAssumption
  <2>3. Fragment(left, 4) \in Nat /\ Fragment(left, 4) <= 112
    BY <2>2, FragmentFacts DEF MAX_PAYLOAD
  <2>4. \A n \in 0 .. 130 : Symbols(n, 4) <= 276  BY DEF Symbols
  <2>5. Fragment(left, 4) + FrameHeader \in 0 .. 130 /\ HANDSHAKE_SIZE \in 0 .. 130
    BY <2>3 DEF FrameHeader, DATAFRAME_HEADER_SIZE, HANDSHAKE_SIZE
  <2>6. /\ Symbols(Fragment(left, 4) + FrameHeader, 4) <= 276 /\ Symbols(HANDSHAKE_SIZE, 4) <= 276
        /\ Symbols(Fragment(left, 4) + FrameHeader, 4) \in Int /\ Symbols(HANDSHAKE_SIZE, 4) \in Int
    BY <2>4, <2>5 DEF Symbols
  <2>. QED  BY <2>1, <2>6, FirstDrawnOverFacts
<1>. QED  BY CutInit, CutNext, <1>1, PTL DEF Spec

-----------------------------------------------------------------------------
(* Numbers that are read from a stream of bits *)

BitStream == [Nat -> {0, 1}]

\* What the first bits from a place on are as a number, by how many they are.
Number(s, at) ==
    CHOOSE f \in [Nat -> Nat] : f[0] = 0 /\ \A i \in Nat : f[i + 1] = 2 * f[i] + s[at + i]

\* The function that the choice in Number asks for exists.
LEMMA NumberFacts ==
    ASSUME NEW s \in BitStream, NEW at \in Nat
    PROVE  /\ Number(s, at) \in [Nat -> Nat] /\ Number(s, at)[0] = 0
           /\ \A i \in Nat : Number(s, at)[i + 1] = 2 * Number(s, at)[i] + s[at + i]
<1> DEFINE next == [x \in Nat \X Nat |-> 2 * x[1] + s[at + x[2]]]
<1>1. next \in [Nat \X Nat -> Nat]  BY DEF BitStream
<1>2. PICK f \in [Nat -> Nat] : Iterates(f, 0, next)
  <2>1. 0 \in Nat  OBVIOUS
  <2> HIDE DEF next
  <2>. QED  BY <1>1, <2>1, Recursion
<1>3. f[0] = 0 /\ \A i \in Nat : f[i + 1] = 2 * f[i] + s[at + i]  BY <1>2 DEF Iterates
<1>. QED  BY <1>3 DEF Number

Power == [n \in 0 .. 12 |-> 2^n]

\* The solvers compute with a power only when its exponent is written out.
LEMMA Powers ==
    /\ Power \in [0 .. 12 -> Nat \ {0}] /\ Power[0] = 1
    /\ \A n \in 0 .. 11 : Power[n + 1] = 2 * Power[n]
<1>1. ASSUME NEW n \in 0 .. 11 PROVE 2^n \in Nat \ {0} /\ 2^(n + 1) = 2 * 2^n
  <2>1. CASE n = 0  BY <2>1
  <2>2. CASE n = 1  BY <2>2
  <2>3. CASE n = 2  BY <2>3
  <2>4. CASE n = 3  BY <2>4
  <2>5. CASE n = 4  BY <2>5
  <2>6. CASE n = 5  BY <2>6
  <2>7. CASE n = 6  BY <2>7
  <2>8. CASE n = 7  BY <2>8
  <2>9. CASE n = 8  BY <2>9
  <2>10. CASE n = 9  BY <2>10
  <2>11. CASE n = 10  BY <2>11
  <2>12. CASE n = 11  BY <2>12
  <2>. QED  BY <2>1, <2>2, <2>3, <2>4, <2>5, <2>6, <2>7, <2>8, <2>9, <2>10, <2>11, <2>12
<1>2. ASSUME NEW n \in 0 .. 12 PROVE 2^n \in Nat \ {0}
  <2>1. CASE n = 12  BY <2>1
  <2>2. CASE n # 12
    <3>1. n \in 0 .. 11  BY <2>2
    <3>. QED  BY <1>1, <3>1
  <2>. QED  BY <2>1, <2>2
<1>. QED  BY <1>1, <1>2 DEF Power

\* What is put under a number of another unit comes off again.
LEMMA DivMod ==
    ASSUME NEW a \in Nat, NEW d \in Nat \ {0}, NEW c \in 0 .. d - 1
    PROVE  (a * d + c) \div d = a /\ (a * d + c) % d = c
OBVIOUS

\* Two pieces of the stream, one after the other.
Join(s, at, m, n) ==
    /\ Number(s, at)[m + n] = Number(s, at)[m] * Power[n] + Number(s, at + m)[n]
    /\ Number(s, at + m)[n] \in 0 .. Power[n] - 1

LEMMA Joined ==
    ASSUME NEW s \in BitStream, NEW at \in Nat, NEW m \in Nat, NEW n \in 0 .. 12
    PROVE  Join(s, at, m, n)
<1> DEFINE number == Number(s, at)
           rest   == Number(s, at + m)
           good   == {i \in Nat : i <= 12 => /\ number[m + i] = number[m] * Power[i] + rest[i]
                                             /\ rest[i] < Power[i]}
<1>0. /\ number \in [Nat -> Nat] /\ \A i \in Nat : number[i + 1] = 2 * number[i] + s[at + i]
      /\ rest \in [Nat -> Nat] /\ rest[0] = 0
      /\ \A i \in Nat : rest[i + 1] = 2 * rest[i] + s[at + m + i]
  BY NumberFacts
<1> HIDE DEF number, rest
<1>1. 0 \in good
  <2>1. /\ number[m] \in Nat
        /\ number[m] * 1 = number[m]
        /\ m + 0 = m
    <3>1. number[m] \in Nat  BY <1>0
    <3>. QED  BY <3>1
  <2>2. number[m + 0] = number[m] * Power[0] + rest[0] /\ rest[0] < Power[0]
    BY <1>0, <2>1, Powers
  <2>. QED  BY <2>2
<1>2. ASSUME NEW i \in Nat, i \in good PROVE i + 1 \in good
  <2>1. SUFFICES ASSUME i + 1 <= 12
                 PROVE  /\ number[m + (i + 1)] = number[m] * Power[i + 1] + rest[i + 1]
                        /\ rest[i + 1] < Power[i + 1]
    OBVIOUS
  <2>2. number[m + i] = number[m] * Power[i] + rest[i] /\ rest[i] < Power[i]  BY <1>2, <2>1
  <2>3. Power[i] \in Nat /\ Power[i + 1] = 2 * Power[i]  BY <2>1, Powers
  <2>4. number[(m + i) + 1] = 2 * number[m + i] + s[at + (m + i)]  BY <1>0
  <2>5. rest[i + 1] = 2 * rest[i] + s[at + m + i] /\ s[at + m + i] \in {0, 1}
    <3>1. at + m + i \in Nat  OBVIOUS
    <3>. QED  BY <1>0, <3>1 DEF BitStream
  <2>6. number[m] \in Nat /\ rest[i] \in Nat  BY <1>0
  <2>7. number[m] * Power[i + 1] = 2 * (number[m] * Power[i])
    <3>1. number[m] * (2 * Power[i]) = 2 * (number[m] * Power[i])  BY <2>3, <2>6
    <3>. QED  BY <2>3, <3>1
  <2>8. at + (m + i) = at + m + i /\ (m + i) + 1 = m + (i + 1)  OBVIOUS
  <2>9. number[m] * Power[i] \in Nat  BY <2>3, <2>6
  <2>10. rest[i + 1] < Power[i + 1]  BY <2>2, <2>3, <2>5, <2>6
  <2>11. number[m + (i + 1)] = 2 * (number[m] * Power[i]) + rest[i + 1]
    BY <2>2, <2>4, <2>5, <2>6, <2>8, <2>9
  <2>. QED  BY <2>7, <2>10, <2>11
<1>3. n \in good
  <2> HIDE DEF good
  <2>1. \A i \in Nat : i \in good  BY <1>1, <1>2, Induction
  <2>. QED  BY <2>1
<1>4. number[m + n] = number[m] * Power[n] + rest[n] /\ rest[n] < Power[n]  BY <1>3
<1>5. rest[n] \in Nat
  <2>1. rest \in [Nat -> Nat]  BY <1>0
  <2>2. n \in Nat  OBVIOUS
  <2>. QED  BY <2>1, <2>2
<1>6. Power[n] \in Nat  BY Powers
<1>. QED  BY <1>4, <1>5, <1>6 DEF number, rest, Join

Parts(s, at, m, n) ==
    /\ Number(s, at)[m + n] \div Power[n] = Number(s, at)[m]
    /\ Number(s, at)[m + n] % Power[n] = Number(s, at + m)[n]

\* A piece is cut in two by division with a power of two.
LEMMA Parted ==
    ASSUME NEW s \in BitStream, NEW at \in Nat, NEW m \in Nat, NEW n \in 0 .. 12
    PROVE  Parts(s, at, m, n)
<1> DEFINE p == Power[n]
           a == Number(s, at)[m]
           c == Number(s, at + m)[n]
<1>1. p \in Nat \ {0}  BY Powers
<1>2. a \in Nat  BY NumberFacts
<1>3. c \in 0 .. p - 1 /\ Number(s, at)[m + n] = a * p + c  BY Joined DEF Join
<1> HIDE DEF p, a, c
<1>4. (a * p + c) \div p = a /\ (a * p + c) % p = c  BY <1>1, <1>2, <1>3, DivMod
<1>. QED  BY <1>3, <1>4 DEF p, a, c, Parts

-----------------------------------------------------------------------------
(* The two loops *)

Widths == {1, 2, 3, 4, 8}

\* The first values of some width.
FirstRead(s, count, o) == [k \in 1 .. count |-> Number(s, (k - 1) * o)[o]]

\* The bit buffer when the first p bits of a stream have been taken in.
Held(s, p, o) ==
    [buf |-> Number(s, p - (p % o))[p % o], bits |-> p % o, out |-> FirstRead(s, p \div o, o)]

\* How often a width goes into a number of bits, and what is left.
LEMMA Whole ==
    ASSUME NEW p \in Nat, NEW o \in Widths
    PROVE  p % o \in 0 .. o - 1 /\ p \div o \in Nat /\ p = (p \div o) * o + (p % o)
<1>1. CASE o = 1  BY <1>1
<1>2. CASE o = 2  BY <1>2
<1>3. CASE o = 3  BY <1>3
<1>4. CASE o = 4  BY <1>4
<1>5. CASE o = 8  BY <1>5
<1>. QED  BY <1>1, <1>2, <1>3, <1>4, <1>5 DEF Widths

\* The same when bits are added.
LEMMA WholeSum ==
    ASSUME NEW p \in Nat, NEW w \in Nat, NEW o \in Widths
    PROVE  /\ (p + w) % o = ((p % o) + w) % o
           /\ (p + w) \div o = p \div o + ((p % o) + w) \div o
<1>1. CASE o = 1  BY <1>1
<1>2. CASE o = 2  BY <1>2
<1>3. CASE o = 3  BY <1>3
<1>4. CASE o = 4  BY <1>4
<1>5. CASE o = 8  BY <1>5
<1>. QED  BY <1>1, <1>2, <1>3, <1>4, <1>5 DEF Widths

\* A sequence is its first values followed by the others.
LEMMA Concatenated ==
    ASSUME NEW m \in Nat, NEW c \in Nat, NEW f, NEW h, \A k \in 1 .. c : h[k] = f[m + k]
    PROVE  [k \in 1 .. m |-> f[k]] \o [k \in 1 .. c |-> h[k]] = [k \in 1 .. m + c |-> f[k]]
OBVIOUS

\* Taking in the next w bits.
LEMMA ShiftHeld ==
    ASSUME NEW s \in BitStream, NEW p \in Nat, NEW w \in 1 .. 8, NEW o \in Widths, w + o <= 12
    PROVE  Shift(Held(s, p, o), Number(s, p)[w], w, o) = Held(s, p + w, o)
<1> DEFINE r     == p % o
           d     == p \div o
           count == (r + w) \div o
           over  == (r + w) % o
           at    == p - r
           buf   == Number(s, at)[r] * 2^w + Number(s, p)[w]
           more  == Values(buf, r + w, o)
           f     == FirstRead(s, d + count, o)
<1>1. o \in 1 .. 8  BY DEF Widths
<1>2. r \in 0 .. o - 1 /\ d \in Nat /\ p = d * o + r  BY Whole
<1>3. r + w \in 0 .. 12 /\ at \in Nat /\ at + r = p  BY <1>1, <1>2
<1>4. count \in Nat /\ over \in 0 .. o - 1 /\ r + w = count * o + over  BY <1>3, Whole
<1>5. (p + w) % o = over /\ (p + w) \div o = d + count  BY WholeSum
<1>6. Shift(Held(s, p, o), Number(s, p)[w], w, o) =
        [buf |-> buf % 2^over, bits |-> over, out |-> FirstRead(s, d, o) \o more]
  BY DEF Shift, Held
<1> DEFINE q == p + w
<1>7. Held(s, p + w, o) = [buf |-> Number(s, q - over)[over], bits |-> over, out |-> f]
  <2>1. q % o = over /\ q \div o = d + count  BY <1>5
  <2> HIDE DEF q, d, count, over
  <2>2. Held(s, q, o) = [buf |-> Number(s, q - over)[over], bits |-> over, out |-> f]
    BY <2>1 DEF Held
  <2>. QED  BY <2>2 DEF q
<1> HIDE DEF r, d, count, over, at
<1>8. w \in 0 .. 12 /\ o \in 0 .. 12 /\ over \in 0 .. 12 /\ r \in Nat  BY <1>1, <1>2, <1>4
<1>9. buf = Number(s, at)[r + w]
  <2>1. Join(s, at, r, w)  BY <1>3, <1>8, Joined
  <2>2. 2^w = Power[w]  BY <1>8 DEF Power
  <2>. QED  BY <1>3, <2>1, <2>2 DEF Join
<1> HIDE DEF buf
<1>10. buf % 2^over = Number(s, q - over)[over]
  <2> DEFINE m == count * o
  <2>1. m \in Nat  BY <1>1, <1>4
  <2>2. r + w = m + over  BY <1>4
  <2> HIDE DEF m
  <2>5. at + m = q - over /\ m + over = r + w  BY <1>3, <1>8, <2>1, <2>2
  <2>3. Parts(s, at, m, over)  BY <1>3, <1>8, <2>1, Parted
  <2>4. 2^over = Power[over]  BY <1>8 DEF Power
  <2>. QED  BY <1>9, <2>3, <2>4, <2>5 DEF Parts
<1>11. ASSUME NEW k \in 1 .. count PROVE more[k] = f[d + k]
  <2> DEFINE m  == (k - 1) * o
             mo == k * o
             n  == (r + w) - k * o
  <2>1. mo = m + o /\ m \in Nat /\ mo \in Nat  BY <1>1, <1>4
  <2>2. mo <= count * o  BY <1>1, <1>4
  <2>3. at + m = ((d + k) - 1) * o  BY <1>1, <1>2, <1>3, <1>4
  <2>4. more[k] = (buf \div 2^n) % 2^o
    <3> DEFINE bits == r + w
    <3>1. k \in 1 .. bits \div o  BY DEF count
    <3> HIDE DEF bits
    <3>2. Values(buf, bits, o)[k] = (buf \div 2^(bits - k * o)) % 2^o  BY <3>1 DEF Values
    <3>. QED  BY <3>2 DEF bits
  <2>5. f[d + k] = Number(s, ((d + k) - 1) * o)[o]
    <3>1. d + k \in 1 .. d + count  BY <1>2, <1>4
    <3>. QED  BY <3>1 DEF FirstRead
  <2>6. n = (r + w) - mo  OBVIOUS
  <2> HIDE DEF m, n, mo, more, f
  <2>7. n \in 0 .. 12 /\ mo + n = r + w
    <3> DEFINE co == count * o
    <3>1. co \in Nat /\ mo <= co /\ r + w = co + over  BY <1>1, <1>4, <2>2
    <3> HIDE DEF co
    <3>2. r + w \in 0 .. 12 /\ over \in Nat  BY <1>3, <1>8
    <3>. QED  BY <2>1, <2>6, <3>1, <3>2, <1>8
  <2>8. 2^n = Power[n] /\ 2^o = Power[o]  BY <1>8, <2>7 DEF Power
  <2>9. Parts(s, at, mo, n) /\ Parts(s, at, m, o)  BY <1>3, <1>8, <2>1, <2>7, Parted
  <2>. QED  BY <1>9, <2>1, <2>3, <2>4, <2>5, <2>7, <2>8, <2>9 DEF Parts
<1>12. FirstRead(s, d, o) \o more = f
  <2>1. FirstRead(s, d, o) = [k \in 1 .. d |-> f[k]]
    <3>1. \A k \in 1 .. d : k \in 1 .. d + count  BY <1>2, <1>4
    <3>. QED  BY <3>1 DEF FirstRead
  <2>2. more = [k \in 1 .. count |-> more[k]]  BY DEF Values, count
  <2>3. f = [k \in 1 .. d + count |-> f[k]]  BY DEF FirstRead
  <2> HIDE DEF f, more
  <2>4. [k \in 1 .. d |-> f[k]] \o [k \in 1 .. count |-> more[k]] = [k \in 1 .. d + count |-> f[k]]
    BY <1>2, <1>4, <1>11, Concatenated
  <2>. QED  BY <2>1, <2>2, <2>3, <2>4
<1>. QED  BY <1>6, <1>7, <1>10, <1>12

\* The loop over all the values of some width.
LEMMA ShiftsHeld ==
    ASSUME NEW s \in BitStream, NEW w \in 1 .. 8, NEW o \in Widths, w + o <= 12,
           NEW values, Len(values) \in Nat,
           \A i \in 1 .. Len(values) : values[i] = Number(s, (i - 1) * w)[w]
    PROVE  Shifts(values, w, o) = Held(s, Len(values) * w, o)
<1> DEFINE n == Len(values)
           IsAcc(f) == f = [i \in 0 .. n |-> IF i = 0 THEN Empty ELSE Shift(f[i - 1], values[i], w, o)]
           acc == CHOOSE f : IsAcc(f)
           g   == [i \in 0 .. n |-> Held(s, i * w, o)]
<1>1. Shifts(values, w, o) = acc[n]  BY DEF Shifts
<1>2. Held(s, 0 * w, o) = Empty
  <2>1. 0 * w = 0 /\ 0 % o = 0 /\ 0 \div o = 0 /\ 0 - 0 = 0  BY DEF Widths
  <2>2. Number(s, 0)[0] = 0  BY NumberFacts
  <2>3. FirstRead(s, 0, o) = <<>>  BY DEF FirstRead
  <2>. QED  BY <2>1, <2>2, <2>3 DEF Held, Empty
<1>3. ASSUME NEW i \in 1 .. n PROVE Shift(Held(s, (i - 1) * w, o), values[i], w, o) = Held(s, i * w, o)
  <2> DEFINE p == (i - 1) * w
  <2>1. p \in Nat /\ p + w = i * w  OBVIOUS
  <2> HIDE DEF p
  <2>2. Shift(Held(s, p, o), Number(s, p)[w], w, o) = Held(s, p + w, o)  BY <2>1, ShiftHeld
  <2>3. values[i] = Number(s, p)[w]  BY DEF p
  <2>. QED  BY <2>1, <2>2, <2>3 DEF p
<1>4. IsAcc(g)
  <2>1. ASSUME NEW i \in 0 .. n
        PROVE  g[i] = IF i = 0 THEN Empty ELSE Shift(g[i - 1], values[i], w, o)
    <3>1. CASE i = 0  BY <1>2, <3>1
    <3>2. CASE i # 0
      <4>1. i \in 1 .. n /\ i - 1 \in 0 .. n  BY <3>2
      <4>. QED  BY <1>3, <3>2, <4>1
    <3>. QED  BY <3>1, <3>2
  <2>2. g = [i \in 0 .. n |-> g[i]]  OBVIOUS
  <2> HIDE DEF g
  <2>. QED  BY <2>1, <2>2
<1>5. IsAcc(acc)
  <2> HIDE DEF IsAcc, g
  <2>. QED  BY <1>4
<1> HIDE DEF acc
<1>6. acc[0] = Empty /\ \A i \in 1 .. n : acc[i] = Shift(acc[i - 1], values[i], w, o)
  <2>1. \A i \in 1 .. n : i \in 0 .. n /\ i # 0  OBVIOUS
  <2>2. 0 \in 0 .. n  OBVIOUS
  <2>. QED  BY <1>5, <2>1, <2>2
<1> DEFINE good == {i \in Nat : i <= n => acc[i] = Held(s, i * w, o)}
<1>7. 0 \in good
  <2>1. acc[0] = Held(s, 0 * w, o)  BY <1>2, <1>6
  <2>. QED  BY <2>1
<1>8. ASSUME NEW i \in Nat, i \in good PROVE i + 1 \in good
  <2>1. SUFFICES ASSUME i + 1 <= n PROVE acc[i + 1] = Held(s, (i + 1) * w, o)  OBVIOUS
  <2>2. acc[i] = Held(s, i * w, o)  BY <1>8, <2>1
  <2>3. i + 1 \in 1 .. n /\ (i + 1) - 1 = i  BY <2>1
  <2>. QED  BY <1>3, <1>6, <2>2, <2>3
<1>9. acc[n] = Held(s, n * w, o)
  <2> HIDE DEF good
  <2>1. n \in good  BY <1>7, <1>8, Induction
  <2>. QED  BY <2>1 DEF good
<1>. QED  BY <1>1, <1>9

-----------------------------------------------------------------------------
(* A frame as a stream of bits *)

\* The bits of a frame, and then zeros.
Stream(bytes) == [i \in Nat |-> IF i < 8 * Len(bytes) THEN Bit(bytes, 8, i + 1) ELSE 0]

\* A digit.
LEMMA BitIsBit ==
    ASSUME NEW x \in Nat, NEW d \in Nat \ {0}
    PROVE  (x \div d) % 2 \in {0, 1}
OBVIOUS

\* The bit of a byte that a bit of the stream is.
LEMMA StreamBit ==
    ASSUME NEW bytes \in Seq(Byte), NEW q \in 1 .. Len(bytes), NEW k \in 0 .. 7
    PROVE  Stream(bytes)[(q - 1) * 8 + k] = (bytes[q] \div 2^(7 - k)) % 2
<1> DEFINE i == (q - 1) * 8 + k
<1>1. i \in Nat /\ i < 8 * Len(bytes) /\ (i + 1) - 1 = i  OBVIOUS
<1>2. (i \div 8) + 1 = q /\ i % 8 = k  OBVIOUS
<1> HIDE DEF i
<1>3. Stream(bytes)[i] = Bit(bytes, 8, i + 1)  BY <1>1 DEF Stream
<1>4. Bit(bytes, 8, i + 1) = (bytes[q] \div 2^((8 - 1) - k)) % 2  BY <1>1, <1>2 DEF Bit
<1>. QED  BY <1>3, <1>4 DEF i

\* Read eight by eight, the stream is the frame.
LEMMA StreamBytes ==
    ASSUME NEW bytes \in Seq(Byte)
    PROVE  /\ Stream(bytes) \in BitStream
           /\ \A q \in 1 .. Len(bytes) : Number(Stream(bytes), (q - 1) * 8)[8] = bytes[q]
<1> DEFINE s == Stream(bytes)
<1>1. s \in BitStream
  <2>1. ASSUME NEW i \in Nat, i < 8 * Len(bytes) PROVE Bit(bytes, 8, i + 1) \in {0, 1}
    <3> DEFINE q == (i \div 8) + 1
               k == i % 8
    <3>1. q \in 1 .. Len(bytes) /\ k \in 0 .. 7 /\ i = (q - 1) * 8 + k  BY <2>1
    <3> HIDE DEF q, k
    <3>2. s[i] = (bytes[q] \div 2^(7 - k)) % 2  BY <3>1, StreamBit
    <3>3. s[i] = Bit(bytes, 8, i + 1)  BY <2>1 DEF Stream
    <3>4. bytes[q] \in Byte  BY <3>1
    <3>5. 2^(7 - k) = Power[7 - k] /\ Power[7 - k] \in Nat \ {0}
      <4>1. 7 - k \in 0 .. 12  BY <3>1
      <4>. QED  BY <4>1, Powers DEF Power
    <3>6. (bytes[q] \div Power[7 - k]) % 2 \in {0, 1}
      <4>1. \A x \in Byte : x \in Nat  BY DEF Byte
      <4>. QED  BY <3>4, <3>5, <4>1, BitIsBit
    <3>. QED  BY <3>2, <3>3, <3>5, <3>6
  <2>. QED  BY <2>1 DEF Stream, BitStream
<1>2. ASSUME NEW q \in 1 .. Len(bytes) PROVE Number(s, (q - 1) * 8)[8] = bytes[q]
  <2> DEFINE at == (q - 1) * 8
             number == Number(s, at)
             x == bytes[q]
  <2>1. at \in Nat /\ x \in Byte  OBVIOUS
  <2> HIDE DEF s
  <2>2. /\ number \in [Nat -> Nat] /\ number[0] = 0
        /\ \A i \in Nat : number[i + 1] = 2 * number[i] + s[at + i]
    BY <1>1, <2>1, NumberFacts
  <2>3. /\ s[at + 0] = (x \div 2^7) % 2 /\ s[at + 1] = (x \div 2^6) % 2
        /\ s[at + 2] = (x \div 2^5) % 2 /\ s[at + 3] = (x \div 2^4) % 2
        /\ s[at + 4] = (x \div 2^3) % 2 /\ s[at + 5] = (x \div 2^2) % 2
        /\ s[at + 6] = (x \div 2^1) % 2 /\ s[at + 7] = (x \div 2^0) % 2
    <3>1. \A k \in 0 .. 7 : s[at + k] = (x \div 2^(7 - k)) % 2  BY StreamBit DEF s
    <3>. QED  BY <3>1
  <2> HIDE DEF number, at, x
  <2>4. /\ number[1] = 2 * number[0] + s[at + 0] /\ number[2] = 2 * number[1] + s[at + 1]
        /\ number[3] = 2 * number[2] + s[at + 2] /\ number[4] = 2 * number[3] + s[at + 3]
        /\ number[5] = 2 * number[4] + s[at + 4] /\ number[6] = 2 * number[5] + s[at + 5]
        /\ number[7] = 2 * number[6] + s[at + 6] /\ number[8] = 2 * number[7] + s[at + 7]
    <3>1. /\ 0 + 1 = 1 /\ 1 + 1 = 2 /\ 2 + 1 = 3 /\ 3 + 1 = 4 /\ 4 + 1 = 5 /\ 5 + 1 = 6
          /\ 6 + 1 = 7 /\ 7 + 1 = 8
      OBVIOUS
    <3>2. 0 \in Nat /\ 1 \in Nat /\ 2 \in Nat /\ 3 \in Nat /\ 4 \in Nat /\ 5 \in Nat /\ 6 \in Nat /\ 7 \in Nat
      OBVIOUS
    <3>. QED  BY <2>2, <3>1, <3>2
  <2>5. /\ number[1] = 2 * 0 + ((x \div 2^7) % 2) /\ number[2] = 2 * number[1] + ((x \div 2^6) % 2)
        /\ number[3] = 2 * number[2] + ((x \div 2^5) % 2)
        /\ number[4] = 2 * number[3] + ((x \div 2^4) % 2)
        /\ number[5] = 2 * number[4] + ((x \div 2^3) % 2)
        /\ number[6] = 2 * number[5] + ((x \div 2^2) % 2)
        /\ number[7] = 2 * number[6] + ((x \div 2^1) % 2)
        /\ number[8] = 2 * number[7] + ((x \div 2^0) % 2)
    BY <2>2, <2>3, <2>4
  <2>6. 2 * 0 + ((x \div 2^7) % 2) = (x \div 2^7) % 2  BY <2>1 DEF Byte
  <2>7. number[8] = x
    <3>1. x \in 0 .. 255  BY <2>1 DEF Byte
    <3>2. number[1] = x \div 2^7
      <4>1. (x \div 2^7) % 2 = x \div 2^7  BY <3>1
      <4>2. number[1] = 2 * 0 + ((x \div 2^7) % 2)  BY <2>5
      <4>. QED  BY <2>6, <4>1, <4>2
    <3>3. number[2] = x \div 2^6
      <4>1. 2 * (x \div 2^7) + ((x \div 2^6) % 2) = x \div 2^6  BY <3>1
      <4>. QED  BY <2>5, <3>2, <4>1
    <3>4. number[3] = x \div 2^5
      <4>1. 2 * (x \div 2^6) + ((x \div 2^5) % 2) = x \div 2^5  BY <3>1
      <4>. QED  BY <2>5, <3>3, <4>1
    <3>5. number[4] = x \div 2^4
      <4>1. 2 * (x \div 2^5) + ((x \div 2^4) % 2) = x \div 2^4  BY <3>1
      <4>. QED  BY <2>5, <3>4, <4>1
    <3>6. number[5] = x \div 2^3
      <4>1. 2 * (x \div 2^4) + ((x \div 2^3) % 2) = x \div 2^3  BY <3>1
      <4>. QED  BY <2>5, <3>5, <4>1
    <3>7. number[6] = x \div 2^2
      <4>1. 2 * (x \div 2^3) + ((x \div 2^2) % 2) = x \div 2^2  BY <3>1
      <4>. QED  BY <2>5, <3>6, <4>1
    <3>8. number[7] = x \div 2^1
      <4>1. 2 * (x \div 2^2) + ((x \div 2^1) % 2) = x \div 2^1  BY <3>1
      <4>. QED  BY <2>5, <3>7, <4>1
    <3>9. number[8] = x \div 2^0
      <4>1. 2 * (x \div 2^1) + ((x \div 2^0) % 2) = x \div 2^0  BY <3>1
      <4>. QED  BY <2>5, <3>8, <4>1
    <3>. QED  BY <3>1, <3>9
  <2>. QED  BY <2>7 DEF number, at, x
<1>. QED  BY <1>1, <1>2

\* After the frame the stream holds zeros only.
LEMMA NothingFollows ==
    ASSUME NEW bytes \in Seq(Byte), NEW p \in Nat, p >= 8 * Len(bytes), NEW n \in Nat
    PROVE  Number(Stream(bytes), p)[n] = 0
<1> DEFINE s == Stream(bytes)
           number == Number(s, p)
           good == {i \in Nat : number[i] = 0}
<1>1. ASSUME NEW i \in Nat PROVE s[p + i] = 0
  <2>1. p + i \in Nat /\ ~ (p + i < 8 * Len(bytes))  OBVIOUS
  <2>. QED  BY <2>1 DEF Stream
<1>2. number[0] = 0 /\ \A i \in Nat : number[i + 1] = 2 * number[i] + s[p + i]
  <2>1. s \in BitStream  BY StreamBytes
  <2> HIDE DEF s
  <2>. QED  BY <2>1, NumberFacts
<1> HIDE DEF number, s
<1>3. \A i \in Nat : i \in good => i + 1 \in good
  <2>1. SUFFICES ASSUME NEW i \in Nat, number[i] = 0 PROVE number[i + 1] = 0  OBVIOUS
  <2>2. number[i + 1] = 2 * 0 + 0  BY <1>1, <1>2, <2>1
  <2>. QED  BY <2>2
<1>4. 0 \in good  BY <1>2
<1>5. n \in good
  <2> HIDE DEF good
  <2>. QED  BY <1>3, <1>4, Induction
<1>. QED  BY <1>5 DEF number, s

\* n_symbols of decode_grid: the modules that the bytes take, and no less will do.
LEMMA SymbolCount ==
    ASSUME NEW n \in Nat, NEW b \in 1 .. 4
    PROVE  /\ Symbols(n, b) \in Nat
           /\ Symbols(n, b) = IF (n * 8) % b = 0 THEN (n * 8) \div b ELSE (n * 8) \div b + 1
           /\ (Symbols(n, b) * b) \div 8 = n
           /\ \A i \in 1 .. Symbols(n, b) : (i - 1) * b < 8 * n /\ ((i - 1) * b) \div 8 < n
<1>1. CASE b = 1  BY <1>1 DEF Symbols
<1>2. CASE b = 2  BY <1>2 DEF Symbols
<1>3. CASE b = 3  BY <1>3 DEF Symbols
<1>4. CASE b = 4  BY <1>4 DEF Symbols
<1>. QED  BY <1>1, <1>2, <1>3, <1>4

\* _bytes_to_symbols cuts the bits of the frame into symbols, the last one filled up
\* with zeros.
LEMMA SymbolsAre ==
    ASSUME NEW bytes \in Seq(Byte), NEW b \in 1 .. 4
    PROVE  BytesToSymbols(bytes, b) = FirstRead(Stream(bytes), Symbols(Len(bytes), b), b)
<1> DEFINE s   == Stream(bytes)
           n   == Len(bytes)
           p   == n * 8
           r   == p % b
           d   == p \div b
           acc == Shifts(bytes, 8, b)
           at  == p - r
<1>1. n \in Nat /\ p \in Nat /\ b \in Widths /\ b \in 0 .. 12  BY DEF Widths
<1>2. s \in BitStream /\ \A i \in 1 .. n : bytes[i] = Number(s, (i - 1) * 8)[8]  BY StreamBytes
<1>3. r \in 0 .. b - 1 /\ d \in Nat /\ p = d * b + r  BY <1>1, Whole
<1>4. Symbols(n, b) = IF r = 0 THEN d ELSE d + 1  BY <1>1, SymbolCount
<1> HIDE DEF s
<1>5. acc = [buf |-> Number(s, at)[r], bits |-> r, out |-> FirstRead(s, d, b)]
  <2>1. acc = Held(s, p, b)
    <3>1. 8 \in 1 .. 8 /\ 8 + b <= 12  OBVIOUS
    <3> HIDE DEF r, d, p
    <3>2. acc = Held(s, Len(bytes) * 8, b)  BY <1>1, <1>2, <3>1, ShiftsHeld
    <3>. QED  BY <3>2 DEF p
  <2>. QED  BY <2>1 DEF Held
<1> HIDE DEF acc, r, d, at
<1>6. CASE r = 0
  <2>1. BytesToSymbols(bytes, b) = acc.out  BY <1>5, <1>6 DEF BytesToSymbols, acc
  <2>. QED  BY <1>4, <1>5, <1>6, <2>1 DEF s
<1>7. CASE r # 0
  <2> DEFINE last == Number(s, at)[b]
  <2>1. at \in Nat /\ at + r = p /\ at = d * b /\ b - r \in 0 .. 12 /\ r + (b - r) = b /\ r > 0
    <3>1. d * b \in Nat  BY <1>3
    <3>2. at = d * b
      <4> DEFINE db == d * b
      <4>1. db \in Nat /\ p = db + r /\ at = p - r  BY <1>3, <3>1 DEF at
      <4> HIDE DEF db
      <4>2. at = db  BY <1>3, <4>1
      <4>. QED  BY <4>2 DEF db
    <3>. QED  BY <1>1, <1>3, <1>7, <3>1, <3>2
  <2>2. last = Number(s, at)[r] * Power[b - r]
    <3> DEFINE fill == b - r
    <3>1. fill \in 0 .. 12 /\ fill \in Nat /\ r \in Nat  BY <1>3, <2>1
    <3>2. Number(s, p)[fill] = 0  BY <1>1, <3>1, NothingFollows DEF s
    <3> HIDE DEF fill
    <3>3. Join(s, at, r, fill)  BY <1>2, <2>1, <3>1, Joined
    <3>4. Number(s, at)[r] \in Nat /\ Power[fill] \in Nat
      <4>1. Number(s, at) \in [Nat -> Nat]  BY <1>2, <2>1, NumberFacts
      <4>. QED  BY <3>1, <4>1, Powers
    <3>5. Number(s, at)[r + fill] = Number(s, at)[r] * Power[fill] + 0  BY <2>1, <3>2, <3>3 DEF Join
    <3>6. Number(s, at)[r] * Power[fill] + 0 = Number(s, at)[r] * Power[fill]  BY <3>4
    <3>. QED  BY <2>1, <3>5, <3>6 DEF fill
  <2>3. last \in 0 .. Power[b] - 1 /\ Power[b] \in Nat \ {0}
    <3>1. Join(s, at, 0, b)  BY <1>1, <1>2, <2>1, Joined
    <3>2. at + 0 = at  BY <2>1
    <3>. QED  BY <1>1, <3>1, <3>2, Powers DEF Join
  <2>4. last % Power[b] = last
    <3> HIDE DEF last
    <3>1. (0 * Power[b] + last) % Power[b] = last  BY <2>3, DivMod
    <3>2. 0 * Power[b] + last = last  BY <2>3
    <3>. QED  BY <3>1, <3>2
  <2>5. 2^(b - r) = Power[b - r] /\ 2^b = Power[b]  BY <1>1, <2>1 DEF Power
  <2>6. BytesToSymbols(bytes, b) = Append(FirstRead(s, d, b), last)
    <3>1. acc.bits > 0 /\ acc.bits = r /\ acc.buf = Number(s, at)[r] /\ acc.out = FirstRead(s, d, b)
      BY <1>5, <2>1
    <3>2. BytesToSymbols(bytes, b) = Append(acc.out, (acc.buf * 2^(b - acc.bits)) % 2^b)
      BY <3>1 DEF BytesToSymbols, acc
    <3>. QED  BY <2>2, <2>4, <2>5, <3>1, <3>2
  <2>7. Append(FirstRead(s, d, b), last) = FirstRead(s, d + 1, b)
    <3>1. last = Number(s, ((d + 1) - 1) * b)[b]
      <4>1. (d + 1) - 1 = d  BY <1>3
      <4>. QED  BY <2>1, <4>1
    <3> DEFINE f == [k \in 1 .. d + 1 |-> Number(s, (k - 1) * b)[b]]
    <3>2. last = f[d + 1] /\ FirstRead(s, d, b) = [k \in 1 .. d |-> f[k]]
      <4>1. d + 1 \in 1 .. d + 1 /\ \A k \in 1 .. d : k \in 1 .. d + 1  BY <1>3
      <4>. QED  BY <3>1, <4>1 DEF FirstRead
    <3>3. FirstRead(s, d + 1, b) = f  BY DEF FirstRead
    <3>4. f = [k \in 1 .. d + 1 |-> f[k]]  OBVIOUS
    <3> HIDE DEF f, last
    <3>5. Append([k \in 1 .. d |-> f[k]], f[d + 1]) = [k \in 1 .. d + 1 |-> f[k]]  BY <1>3
    <3>. QED  BY <3>2, <3>3, <3>4, <3>5
  <2>. QED  BY <1>4, <1>7, <2>6, <2>7 DEF s
<1>. QED  BY <1>6, <1>7

\* _symbols_to_bytes gives the frame again.
LEMMA BytesAgain ==
    ASSUME NEW bytes \in Seq(Byte), NEW b \in 1 .. 4
    PROVE  SymbolsToBytes(BytesToSymbols(bytes, b), b, Len(bytes)) = bytes
<1> DEFINE s == Stream(bytes)
           n == Len(bytes)
           m == Symbols(n, b)
           symbols == BytesToSymbols(bytes, b)
           IsAcc(f) == f = [i \in 0 .. Len(symbols) |->
                              IF i = 0 THEN Empty
                              ELSE IF Len(f[i - 1].out) >= n THEN f[i - 1]
                                   ELSE Shift(f[i - 1], symbols[i], b, 8)]
           acc == CHOOSE f : IsAcc(f)
           g   == [i \in 0 .. m |-> Held(s, i * b, 8)]
<1>1. n \in Nat /\ m \in Nat /\ (m * b) \div 8 = n /\ 8 \in Widths /\ b \in 1 .. 8 /\ b + 8 <= 12
  <2>1. n \in Nat  OBVIOUS
  <2> HIDE DEF n
  <2>2. m \in Nat /\ (m * b) \div 8 = n  BY <2>1, SymbolCount
  <2>3. 8 \in Widths /\ b \in 1 .. 8 /\ b + 8 <= 12  BY DEF Widths
  <2>. QED  BY <2>1, <2>2, <2>3
<1>2. s \in BitStream /\ \A i \in 1 .. n : bytes[i] = Number(s, (i - 1) * 8)[8]  BY StreamBytes
<1>3. Len(symbols) = m /\ \A i \in 1 .. m : symbols[i] = Number(s, (i - 1) * b)[b]
  <2>1. symbols = FirstRead(s, m, b)  BY SymbolsAre
  <2> HIDE DEF symbols, s, m
  <2>. QED  BY <1>1, <2>1 DEF FirstRead
<1>4. SymbolsToBytes(symbols, b, n) =
        SubSeq(acc[m].out, 1, IF Len(acc[m].out) < n THEN Len(acc[m].out) ELSE n)
  <2>1. SymbolsToBytes(symbols, b, n) =
          SubSeq(acc[Len(symbols)].out, 1,
                 IF Len(acc[Len(symbols)].out) < n THEN Len(acc[Len(symbols)].out) ELSE n)
    BY DEF SymbolsToBytes
  <2> HIDE DEF acc, symbols, m
  <2>. QED  BY <1>3, <2>1
<1> HIDE DEF s, symbols
<1>5. Held(s, 0 * b, 8) = Empty
  <2>1. 0 * b = 0 /\ 0 % 8 = 0 /\ 0 \div 8 = 0 /\ 0 - 0 = 0  OBVIOUS
  <2>2. Number(s, 0)[0] = 0  BY <1>2, NumberFacts
  <2>3. FirstRead(s, 0, 8) = <<>>  BY DEF FirstRead
  <2>. QED  BY <2>1, <2>2, <2>3 DEF Held, Empty
<1>6. ASSUME NEW i \in 1 .. m
      PROVE  /\ Shift(Held(s, (i - 1) * b, 8), symbols[i], b, 8) = Held(s, i * b, 8)
             /\ ~ (Len(Held(s, (i - 1) * b, 8).out) >= n)
  <2> DEFINE p == (i - 1) * b
  <2>1. p \in Nat /\ p + b = i * b  BY <1>1
  <2>2. p \div 8 < n /\ p \div 8 \in Nat
    <3>1. ((i - 1) * b) \div 8 < n  BY <1>1, SymbolCount
    <3>. QED  BY <2>1, <3>1
  <2>3. symbols[i] = Number(s, p)[b]  BY <1>3
  <2> HIDE DEF p, m, n
  <2>4. Shift(Held(s, p, 8), Number(s, p)[b], b, 8) = Held(s, p + b, 8)  BY <1>1, <1>2, <2>1, ShiftHeld
  <2>5. Held(s, p, 8).out = FirstRead(s, p \div 8, 8)  BY DEF Held
  <2>6. Len(FirstRead(s, p \div 8, 8)) = p \div 8  BY <2>2 DEF FirstRead
  <2>7. ~ (Len(Held(s, p, 8).out) >= n)  BY <1>1, <2>2, <2>5, <2>6
  <2>. QED  BY <2>1, <2>3, <2>4, <2>7 DEF p
<1> HIDE DEF m
<1>7. IsAcc(g)
  <2>1. ASSUME NEW i \in 0 .. m
        PROVE  g[i] = IF i = 0 THEN Empty
                      ELSE IF Len(g[i - 1].out) >= n THEN g[i - 1]
                           ELSE Shift(g[i - 1], symbols[i], b, 8)
    <3>1. CASE i = 0  BY <1>5, <3>1
    <3>2. CASE i # 0
      <4>1. i \in 1 .. m /\ i - 1 \in 0 .. m  BY <3>2, <1>1
      <4>2. g[i] = Held(s, i * b, 8) /\ g[i - 1] = Held(s, (i - 1) * b, 8)  BY <4>1
      <4> HIDE DEF g, n
      <4>. QED  BY <1>6, <3>2, <4>1, <4>2
    <3>. QED  BY <3>1, <3>2
  <2>2. g = [i \in 0 .. m |-> g[i]]  OBVIOUS
  <2> HIDE DEF g, n
  <2>. QED  BY <1>3, <2>1, <2>2
<1>8. IsAcc(acc)
  <2> HIDE DEF IsAcc, g
  <2>. QED  BY <1>7
<1> HIDE DEF acc
<1>9. /\ acc[0] = Empty
      /\ \A i \in 1 .. m : acc[i] = IF Len(acc[i - 1].out) >= n THEN acc[i - 1]
                                     ELSE Shift(acc[i - 1], symbols[i], b, 8)
  <2>1. \A i \in 1 .. m : i \in 0 .. m /\ i # 0  BY <1>1
  <2>2. 0 \in 0 .. m  BY <1>1
  <2> HIDE DEF n
  <2>. QED  BY <1>3, <1>8, <2>1, <2>2
<1> DEFINE good == {i \in Nat : i <= m => acc[i] = Held(s, i * b, 8)}
<1>10. 0 \in good
  <2>1. acc[0] = Held(s, 0 * b, 8)  BY <1>5, <1>9
  <2>. QED  BY <2>1
<1>11. ASSUME NEW i \in Nat, i \in good PROVE i + 1 \in good
  <2>1. SUFFICES ASSUME i + 1 <= m PROVE acc[i + 1] = Held(s, (i + 1) * b, 8)  OBVIOUS
  <2>2. acc[i] = Held(s, i * b, 8)  BY <1>1, <1>11, <2>1
  <2>3. i + 1 \in 1 .. m /\ (i + 1) - 1 = i  BY <1>1, <2>1
  <2> HIDE DEF n
  <2>. QED  BY <1>6, <1>9, <2>2, <2>3
<1>12. acc[m] = Held(s, m * b, 8)
  <2> HIDE DEF good
  <2>1. m \in good  BY <1>1, <1>10, <1>11, Induction
  <2>. QED  BY <1>1, <2>1 DEF good
<1>13. acc[m].out = bytes
  <2>1. acc[m].out = FirstRead(s, n, 8)  BY <1>1, <1>12 DEF Held
  <2>2. FirstRead(s, n, 8) = [i \in 1 .. n |-> bytes[i]]  BY <1>2 DEF FirstRead
  <2>. QED  BY <2>1, <2>2
<1>. QED  BY <1>1, <1>4, <1>13 DEF symbols

FrameInv == bpc \in 1 .. 4 /\ frame \in Seq(Byte)

\* Every frame holds bytes.
LEMMA FrameInit == Init => FrameInv
BY DepthsAssumption DEF Init, FrameInv, DepthsAssumption

LEMMA FrameNext == FrameInv /\ [Next]_vars => FrameInv'
<1> SUFFICES ASSUME FrameInv, [Next]_vars PROVE FrameInv'  OBVIOUS
<1>1. CASE AddByte
  <2>1. PICK byte \in Bytes : frame' = Append(frame, byte)  BY <1>1 DEF AddByte
  <2>2. byte \in Byte  BY BytesAssumption DEF Byte, BytesAssumption
  <2>. QED  BY <1>1, <2>1, <2>2 DEF AddByte, FrameInv
<1>2. CASE CutFrame \/ UNCHANGED vars  BY <1>2 DEF CutFrame, FrameInv, vars
<1>. QED  BY <1>1, <1>2 DEF Next

\* Whatever a frame holds, however long it is and at whatever depth, decode_grid
\* reads back the bytes that encode_grid was given.
THEOREM RoundTripCorrect == Spec => []RoundTrip
<1>1. FrameInv => RoundTrip
  <2> SUFFICES ASSUME FrameInv PROVE RoundTrip  OBVIOUS
  <2> DEFINE symbols == BytesToSymbols(frame, bpc)
             m == Symbols(Len(frame), bpc)
             padded == symbols \o <<0, 0, 0>>
  <2>1. bpc \in 1 .. 4 /\ frame \in Seq(Byte)  BY DEF FrameInv
  <2>2. symbols = FirstRead(Stream(frame), m, bpc) /\ m \in Nat
    <3>1. Len(frame) \in Nat  BY <2>1
    <3>. QED  BY <2>1, <3>1, SymbolsAre, SymbolCount
  <2>3. SymbolsToBytes(symbols, bpc, Len(frame)) = frame  BY <2>1, BytesAgain
  <2>4. SubSeq(padded, 1, m) = symbols
    <3> HIDE DEF m, symbols
    <3>1. symbols = [k \in 1 .. m |-> symbols[k]]  BY <2>2 DEF FirstRead
    <3>2. SubSeq([k \in 1 .. m |-> symbols[k]] \o <<0, 0, 0>>, 1, m) = [k \in 1 .. m |-> symbols[k]]
      BY <2>2
    <3>. QED  BY <3>1, <3>2
  <2>. QED  BY <2>3, <2>4 DEF RoundTrip
<1>. QED  BY FrameInit, FrameNext, <1>1, PTL DEF Spec

\* What a symbol of a frame can be: one of the colours of the depth.
LEMMA SymbolRange ==
    ASSUME NEW bytes \in Seq(Byte), NEW b \in 1 .. 4
    PROVE  /\ BytesToSymbols(bytes, b) \in Seq(0 .. 2^b - 1)
           /\ Len(BytesToSymbols(bytes, b)) = Symbols(Len(bytes), b)
<1> DEFINE s == Stream(bytes)
           m == Symbols(Len(bytes), b)
<1>1. BytesToSymbols(bytes, b) = FirstRead(s, m, b)  BY SymbolsAre
<1>2. m \in Nat
  <2>1. Len(bytes) \in Nat  OBVIOUS
  <2>. QED  BY <2>1, SymbolCount
<1>3. s \in BitStream  BY StreamBytes
<1> HIDE DEF s, m
<1>4. ASSUME NEW k \in 1 .. m PROVE Number(s, (k - 1) * b)[b] \in 0 .. 2^b - 1
  <2> DEFINE at == (k - 1) * b
  <2>1. at \in Nat /\ at + 0 = at /\ b \in 0 .. 12  BY <1>2
  <2> HIDE DEF at
  <2>2. Join(s, at, 0, b)  BY <1>3, <2>1, Joined
  <2>3. 2^b = Power[b]  BY <2>1 DEF Power
  <2>4. Number(s, at)[b] \in 0 .. 2^b - 1  BY <2>1, <2>2, <2>3 DEF Join
  <2>. QED  BY <2>4 DEF at
<1> DEFINE colours == 0 .. 2^b - 1
<1>5. ASSUME NEW k \in 1 .. m PROVE Number(s, (k - 1) * b)[b] \in colours  BY <1>4
<1> HIDE DEF colours
<1>6. FirstRead(s, m, b) \in Seq(colours) /\ Len(FirstRead(s, m, b)) = m
  BY <1>2, <1>5 DEF FirstRead
<1>. QED  BY <1>1, <1>6 DEF colours, m

\* The k-th bit of the symbols.
LEMMA SymbolBit ==
    ASSUME NEW bytes \in Seq(Byte), NEW b \in 1 .. 4, NEW k \in 1 .. Symbols(Len(bytes), b) * b
    PROVE  Bit(BytesToSymbols(bytes, b), b, k) = Stream(bytes)[k - 1]
<1> DEFINE s == Stream(bytes)
           m == Symbols(Len(bytes), b)
           symbols == BytesToSymbols(bytes, b)
           i == k - 1
           q == i \div b
           e == i % b
           f == (b - 1) - e
           at == q * b
<1>1. symbols = FirstRead(s, m, b) /\ m \in Nat
  <2>1. Len(bytes) \in Nat  OBVIOUS
  <2>. QED  BY <2>1, SymbolsAre, SymbolCount
<1>2. s \in BitStream  BY StreamBytes
<1>3. k \in 1 .. m * b  OBVIOUS
<1> HIDE DEF s, m
<1>4. b \in Widths /\ i \in Nat  BY <1>1, <1>3 DEF Widths
<1>5. q + 1 \in 1 .. m /\ e \in 0 .. b - 1 /\ q \in Nat
  <2>1. CASE b = 1  BY <1>1, <1>3, <2>1
  <2>2. CASE b = 2  BY <1>1, <1>3, <2>2
  <2>3. CASE b = 3  BY <1>1, <1>3, <2>3
  <2>4. CASE b = 4  BY <1>1, <1>3, <2>4
  <2>. QED  BY <2>1, <2>2, <2>3, <2>4
<1>6. i = at + e
  <2> HIDE DEF i
  <2>. QED  BY <1>4, Whole
<1>7. Bit(symbols, b, k) = (symbols[q + 1] \div 2^f) % 2  BY DEF Bit
<1> HIDE DEF i, q, e, symbols
<1>8. symbols[q + 1] = Number(s, ((q + 1) - 1) * b)[b]  BY <1>1, <1>5 DEF FirstRead
<1>9. (q + 1) - 1 = q /\ at \in Nat /\ f \in 0 .. 12 /\ (e + 1) + f = b /\ e + 1 \in Nat /\ e \in Nat
  BY <1>5
<1>10. 2^f = Power[f]  BY <1>9 DEF Power
<1> HIDE DEF at, f
<1>11. Number(s, at)[b] \div Power[f] = Number(s, at)[e + 1]
  <2> DEFINE e1 == e + 1
  <2>1. e1 \in Nat /\ e1 + f = b  BY <1>9
  <2> HIDE DEF e1
  <2>2. Parts(s, at, e1, f)  BY <1>2, <1>9, <2>1, Parted
  <2>. QED  BY <2>1, <2>2 DEF Parts, e1
<1>12. Number(s, at)[e + 1] % 2 = s[at + e]
  <2>1. /\ Number(s, at)[e + 1] = 2 * Number(s, at)[e] + s[at + e] /\ Number(s, at)[e] \in Nat
    <3>1. /\ Number(s, at) \in [Nat -> Nat]
          /\ \A j \in Nat : Number(s, at)[j + 1] = 2 * Number(s, at)[j] + s[at + j]
      BY <1>2, <1>9, NumberFacts
    <3>. QED  BY <1>9, <3>1
  <2>2. s[at + e] \in {0, 1}
    <3>1. at + e \in Nat  BY <1>9
    <3>. QED  BY <1>2, <3>1 DEF BitStream
  <2>. QED  BY <2>1, <2>2
<1>. QED  BY <1>6, <1>7, <1>8, <1>9, <1>10, <1>11, <1>12 DEF at, s, symbols, i

\* Whatever a frame holds, its symbols are its bits in their order, and then zeros; and
\* each symbol has a colour.
THEOREM SameBitsCorrect == Spec => []SameBits
<1>1. FrameInv => SameBits
  <2> SUFFICES ASSUME FrameInv PROVE SameBits  OBVIOUS
  <2> DEFINE symbols == BytesToSymbols(frame, bpc)
             colours == 0 .. 2^bpc - 1
  <2>1. bpc \in 1 .. 4 /\ frame \in Seq(Byte) /\ Len(frame) \in Nat  BY DEF FrameInv
  <2>2. symbols \in Seq(colours) /\ Len(symbols) = Symbols(Len(frame), bpc)  BY <2>1, SymbolRange
  <2>3. \A k \in DOMAIN symbols : symbols[k] \in colours
    <3> HIDE DEF symbols, colours
    <3>. QED  BY <2>2
  <2>4. ASSUME NEW k \in 1 .. Len(symbols) * bpc
        PROVE  Bit(symbols, bpc, k) = IF k <= 8 * Len(frame) THEN Bit(frame, 8, k) ELSE 0
    <3>1. k \in 1 .. Symbols(Len(frame), bpc) * bpc  BY <2>2, <2>4
    <3>2. Bit(symbols, bpc, k) = Stream(frame)[k - 1]  BY <2>1, <3>1, SymbolBit
    <3>3. k \in Nat /\ k - 1 \in Nat /\ (k - 1) + 1 = k
      <4>1. Symbols(Len(frame), bpc) \in Nat  BY <2>1, SymbolCount
      <4> HIDE DEF symbols
      <4>. QED  BY <2>1, <3>1, <4>1
    <3>4. k <= 8 * Len(frame) <=> k - 1 < 8 * Len(frame)  BY <2>1, <3>3
    <3>. QED  BY <3>2, <3>3, <3>4 DEF Stream
  <2>. QED  BY <2>3, <2>4 DEF SameBits
<1>. QED  BY FrameInit, FrameNext, <1>1, PTL DEF Spec
=============================================================================
