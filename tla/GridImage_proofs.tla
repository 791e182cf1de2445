-------------------------- MODULE GridImage_proofs --------------------------
(***************************************************************************)
(* Theorems about GridImage: what is stored of any frame that is read as   *)
(* it was drawn, and what calibration in another thread does to an image,  *)
(* for every frame, every surrounding and every number of captures.        *)
(***************************************************************************)
EXTENDS GridImage, GridCodec_proofs

-----------------------------------------------------------------------------
(* The bytes of a frame *)

\* A piece of a sequence is the sequence that it was made of.
LEMMA Piece ==
    ASSUME NEW S, NEW s \in Seq(S), NEW T, NEW b \in Seq(T), NEW m \in Nat,
           m + Len(b) <= Len(s), \A k \in 1 .. Len(b) : s[m + k] = b[k]
    PROVE  SubSeq(s, m + 1, m + Len(b)) = b
<1>1. Len(b) \in Nat /\ Len(s) \in Nat  OBVIOUS
<1>2. /\ SubSeq(s, m + 1, m + Len(b)) \in Seq(S)
      /\ Len(SubSeq(s, m + 1, m + Len(b))) = Len(b)
      /\ \A k \in 1 .. Len(b) : SubSeq(s, m + 1, m + Len(b))[k] = s[m + k]
  <2>1. /\ m + 1 \in 1 .. Len(s) + 1 /\ m + Len(b) \in m .. Len(s)
    BY <1>1
  <2>. QED  BY <1>1, <2>1
<1> DEFINE p == SubSeq(s, m + 1, m + Len(b))
<1>3. p \in Seq(S) /\ Len(p) = Len(b) /\ \A k \in 1 .. Len(b) : p[k] = s[m + k]  BY <1>2
<1> HIDE DEF p
<1>4. p = [k \in 1 .. Len(p) |-> p[k]] /\ b = [k \in 1 .. Len(b) |-> b[k]]  BY <1>3
<1>. QED  BY <1>3, <1>4 DEF p

\* One sequence after another one.
LEMMA Chained ==
    ASSUME NEW S, NEW a \in Seq(S), NEW b \in Seq(S)
    PROVE  /\ a \o b \in Seq(S) /\ Len(a \o b) = Len(a) + Len(b)
           /\ \A k \in 1 .. Len(a) : (a \o b)[k] = a[k]
           /\ \A k \in 1 .. Len(b) : (a \o b)[Len(a) + k] = b[k]
           /\ SubSeq(a \o b, 1, Len(a)) = a
           /\ SubSeq(a \o b, Len(a) + 1, Len(a) + Len(b)) = b
<1> DEFINE s == a \o b
<1>1. Len(a) \in Nat /\ Len(b) \in Nat  OBVIOUS
<1>2. s \in Seq(S) /\ Len(s) = Len(a) + Len(b)  OBVIOUS
<1>3. \A k \in 1 .. Len(a) : s[k] = a[k]  OBVIOUS
<1>4. \A k \in 1 .. Len(b) : s[Len(a) + k] = b[k]  OBVIOUS
<1> HIDE DEF s
<1>5. SubSeq(s, 0 + 1, 0 + Len(a)) = a
  <2>1. 0 + Len(a) <= Len(s) /\ \A k \in 1 .. Len(a) : s[0 + k] = a[k]  BY <1>1, <1>2, <1>3
  <2>. QED  BY <1>2, <2>1, Piece
<1>6. SubSeq(s, Len(a) + 1, Len(a) + Len(b)) = b
  <2>1. Len(a) + Len(b) <= Len(s)  BY <1>1, <1>2
  <2>. QED  BY <1>1, <1>2, <1>4, <2>1, Piece
<1>. QED  BY <1>1, <1>2, <1>3, <1>4, <1>5, <1>6 DEF s

\* Two elements after a sequence.
LEMMA TwoMore ==
    ASSUME NEW S, NEW body \in Seq(S), NEW high \in S, NEW low \in S
    PROVE  LET n    == Len(body)
               data == body \o <<high, low>>
           IN  /\ data \in Seq(S)
               /\ Len(data) = n + 2
               /\ \A k \in 1 .. n : data[k] = body[k]
               /\ SubSeq(data, 1, n) = body
               /\ SubSeq(data, n + 1, n + 2) = <<high, low>>
<1>1. <<high, low>> \in Seq(S) /\ Len(<<high, low>>) = 2  OBVIOUS
<1>2. \A word \in Seq(S) :
          /\ body \o word \in Seq(S) /\ Len(body \o word) = Len(body) + Len(word)
          /\ \A k \in 1 .. Len(body) : (body \o word)[k] = body[k]
          /\ SubSeq(body \o word, 1, Len(body)) = body
          /\ SubSeq(body \o word, Len(body) + 1, Len(body) + Len(word)) = word
  BY Chained
<1>. QED  BY <1>1, <1>2

\* What seals a frame does not touch it.
LEMMA SealedFacts ==
    ASSUME NEW body \in Seq(Byte)
    PROVE  LET n    == Len(body)
               data == Sealed(body)
           IN  /\ \E S : data \in Seq(S)
               /\ Len(data) = n + 2
               /\ \A k \in 1 .. n : data[k] = body[k]
               /\ SubSeq(data, 1, n) = body
               /\ SubSeq(data, n + 1, n + 2) = Word(Crc16(body))
<1> DEFINE S == Byte \cup {Crc16(body) \div 256, Crc16(body) % 256}
<1>1. body \in Seq(S) /\ Crc16(body) \div 256 \in S /\ Crc16(body) % 256 \in S  OBVIOUS
<1> HIDE DEF S
<1>. QED  BY <1>1, TwoMore DEF Sealed, Word

\* What the bytes of a handshake frame are, but for its checksum.
HandshakeBody(h) ==
    LET c == h.caps IN
    <<16 + h.type, 0>> \o MAGIC \o h.src \o h.dst
        \o <<c.color_depth * 64 + c.grid_size>> \o Word(c.interval_ms)
        \o <<c.compression * 16, c.ecc_level * 64 + c.sync_method * 16>>
        \o Zeros(29)

\* So many bytes.  The provers do better without the facts about Seq in sight.
Holds(s, n) == s \in Seq(Byte) /\ Len(s) = n

\* One field after another.
Follows(s, a, m, b, n) ==
    /\ Holds(s, m + n)
    /\ \A k \in 1 .. m : s[k] = a[k]
    /\ \A k \in 1 .. n : s[m + k] = b[k]

LEMMA Field ==
    ASSUME NEW m \in Nat, NEW n \in Nat, NEW a, NEW b, Holds(a, m), Holds(b, n)
    PROVE  Follows(a \o b, a, m, b, n)
<1>1. a \in Seq(Byte) /\ b \in Seq(Byte) /\ Len(a) = m /\ Len(b) = n  BY DEF Holds
<1>2. a \o b \in Seq(Byte) /\ Len(a \o b) = m + n  BY <1>1
<1>3. \A k \in 1 .. m : (a \o b)[k] = a[k]  BY <1>1
<1>4. \A k \in 1 .. n : (a \o b)[m + k] = b[k]  BY <1>1
<1>. QED  BY <1>2, <1>3, <1>4 DEF Holds, Follows

LEMMA Fields ==
    ASSUME NEW x \in Byte, NEW y \in Byte
    PROVE  /\ Holds(<<x>>, 1) /\ <<x>>[1] = x
           /\ Holds(<<x, y>>, 2) /\ <<x, y>>[1] = x /\ <<x, y>>[2] = y
BY DEF Holds

LEMMA MagicHolds == Holds(MAGIC, 2) /\ MAGIC[1] = 78 /\ MAGIC[2] = 81
<1>1. 78 \in Byte /\ 81 \in Byte  BY DEF Byte
<1>2. MAGIC = <<78, 81>>  BY DEF MAGIC
<1>3. Holds(<<78, 81>>, 2) /\ <<78, 81>>[1] = 78 /\ <<78, 81>>[2] = 81  BY <1>1, Fields, Zenon
<1>. QED  BY <1>2, <1>3, Zenon

LEMMA AddressHolds == ASSUME NEW a \in Address PROVE Holds(a, 6)
<1> DEFINE n == 6
<1>1. n \in Nat /\ a \in [1 .. n -> Byte]  BY DEF Address
<1> HIDE DEF n
<1>2. a \in Seq(Byte) /\ Len(a) = n  BY <1>1
<1>. QED  BY <1>2 DEF Holds, n

LEMMA ZerosHold == ASSUME NEW n \in Nat PROVE Holds(Zeros(n), n)
<1>1. 0 \in Byte  BY DEF Byte
<1>. QED  BY <1>1 DEF Zeros, Holds

\* A number of two bytes is below 256 * 256.
LEMMA HalfWordBound == ASSUME NEW n \in HalfWord PROVE n \in Nat /\ n < 256 * 256
<1> DEFINE m == 256 * 256
<1>1. m \in Nat  OBVIOUS
<1>2. n \in 0 .. m - 1  BY Zenon DEF HalfWord
<1> HIDE DEF m
<1>3. n \in Nat /\ n < m  BY <1>1, <1>2
<1>. QED  BY <1>3 DEF m

\* Two bytes are a number, and the other way round.
LEMMA WordFacts ==
    ASSUME NEW n \in HalfWord
    PROVE  /\ n \in Nat /\ n \div 256 \in Byte /\ n % 256 \in Byte
           /\ (n \div 256) * 256 + (n % 256) = n
<1>1. n \in Nat /\ n < 256 * 256  BY HalfWordBound
<1> DEFINE q == n \div 256
           e == n % 256
<1>2. q \in Nat /\ e \in 0 .. 255 /\ n = q * 256 + e  BY <1>1
<1> HIDE DEF q, e
<1>3. q < 256  BY <1>1, <1>2
<1>. QED  BY <1>1, <1>2, <1>3 DEF Byte, q, e

\* The fields of the capabilities fill bytes.
LEMMA CapabilityBytes ==
    ASSUME NEW c \in Capabilities
    PROVE  /\ c.color_depth * 64 + c.grid_size \in Byte
           /\ c.interval_ms \div 256 \in Byte /\ c.interval_ms % 256 \in Byte
           /\ c.compression * 16 \in Byte
           /\ c.ecc_level * 64 + c.sync_method * 16 \in Byte
<1>1. c.interval_ms \in HalfWord  BY DEF Capabilities
<1>2. c.color_depth \in 0 .. 3 /\ c.grid_size \in 0 .. 63  BY DEF Capabilities
<1>3. c.compression \in 0 .. 3  BY DEF Capabilities, Compressions
<1>4. c.ecc_level \in 0 .. 3 /\ c.sync_method \in 0 .. 3  BY DEF Capabilities
<1>5. c.color_depth * 64 + c.grid_size \in Byte  BY <1>2 DEF Byte
<1>6. c.compression * 16 \in Byte  BY <1>3 DEF Byte
<1>7. c.ecc_level * 64 + c.sync_method * 16 \in Byte  BY <1>4 DEF Byte
<1>. QED  BY <1>1, <1>5, <1>6, <1>7, WordFacts

\* Where the fields of a handshake frame are.
LEMMA HandshakeLayout ==
    ASSUME NEW h \in HandshakeFrame
    PROVE  LET c    == h.caps
               body == HandshakeBody(h)
           IN  /\ Holds(body, 50)
               /\ body[1] = 16 + h.type /\ body[3] = 78 /\ body[4] = 81
               /\ \A k \in 1 .. 6 : body[4 + k] = h.src[k]
               /\ \A k \in 1 .. 6 : body[10 + k] = h.dst[k]
               /\ body[17] = c.color_depth * 64 + c.grid_size
               /\ body[18] = c.interval_ms \div 256 /\ body[19] = c.interval_ms % 256
               /\ body[20] = c.compression * 16
               /\ body[21] = c.ecc_level * 64 + c.sync_method * 16
<1> DEFINE c  == h.caps
           f1 == <<16 + h.type, 0>>
           f2 == f1 \o MAGIC
           f3 == f2 \o h.src
           f4 == f3 \o h.dst
           f5 == f4 \o <<c.color_depth * 64 + c.grid_size>>
           f6 == f5 \o Word(c.interval_ms)
           f7 == f6 \o <<c.compression * 16, c.ecc_level * 64 + c.sync_method * 16>>
           f8 == f7 \o Zeros(29)
<1>0. f8 = HandshakeBody(h)  BY DEF HandshakeBody
<1>1. h.type \in 0 .. 2  BY DEF HandshakeFrame, SYN, SYN_ACK, ACK
<1>1a. h.src \in Address /\ h.dst \in Address  BY DEF HandshakeFrame
<1>1b. c \in Capabilities  BY DEF HandshakeFrame
<1>2. Holds(f1, 2) /\ f1[1] = 16 + h.type
  <2>1. 16 + h.type \in Byte /\ 0 \in Byte  BY <1>1 DEF Byte
  <2>. QED  BY <2>1, Fields
<1>3. Holds(MAGIC, 2) /\ MAGIC[1] = 78 /\ MAGIC[2] = 81  BY MagicHolds
<1>4. Holds(h.src, 6) /\ Holds(h.dst, 6)  BY <1>1a, AddressHolds
<1> HIDE DEF f1
<1>5. Follows(f2, f1, 2, MAGIC, 2)  BY <1>2, <1>3, Field
<1> HIDE DEF f2
<1>6. Holds(f2, 4) /\ f2[1] = 16 + h.type /\ f2[3] = 78 /\ f2[4] = 81
  <2>1. f2[2 + 1] = 78 /\ f2[2 + 2] = 81  BY <1>3, <1>5 DEF Follows
  <2>. QED  BY <1>2, <1>5, <2>1 DEF Follows
<1>7. Follows(f3, f2, 4, h.src, 6)  BY <1>4, <1>6, Field
<1> HIDE DEF f3
<1>8. Holds(f3, 10)  BY <1>7 DEF Follows
<1>9. Follows(f4, f3, 10, h.dst, 6)  BY <1>4, <1>8, Field
<1> HIDE DEF f4
<1>10. Holds(f4, 16)  BY <1>9 DEF Follows
<1>11. /\ f4[1] = 16 + h.type /\ f4[3] = 78 /\ f4[4] = 81
       /\ \A k \in 1 .. 6 : f4[4 + k] = h.src[k]
  <2>1. \A k \in 1 .. 6 : 4 + k \in 1 .. 10  OBVIOUS
  <2>2. \A k \in 1 .. 4 : f4[k] = f2[k]  BY <1>7, <1>9 DEF Follows
  <2>. QED  BY <1>6, <1>7, <1>9, <2>1, <2>2 DEF Follows
<1> DEFINE x1 == c.color_depth * 64 + c.grid_size
           x2 == c.interval_ms \div 256
           x3 == c.interval_ms % 256
           x4 == c.compression * 16
           x5 == c.ecc_level * 64 + c.sync_method * 16
<1>12. x1 \in Byte /\ x2 \in Byte /\ x3 \in Byte /\ x4 \in Byte /\ x5 \in Byte
  BY <1>1b, CapabilityBytes
<1> DEFINE g5 == f4 \o <<x1>>
           g6 == g5 \o <<x2, x3>>
           g7 == g6 \o <<x4, x5>>
<1>13. f8 = g7 \o Zeros(29)  BY DEF Word
<1> HIDE DEF x1, x2, x3, x4, x5, f8
<1>14. /\ Holds(<<x1>>, 1) /\ <<x1>>[1] = x1
       /\ Holds(<<x2, x3>>, 2) /\ <<x2, x3>>[1] = x2 /\ <<x2, x3>>[2] = x3
       /\ Holds(<<x4, x5>>, 2) /\ <<x4, x5>>[1] = x4 /\ <<x4, x5>>[2] = x5
  BY <1>12, Fields
<1>15. Holds(Zeros(29), 29)  BY ZerosHold
<1>16. Follows(g5, f4, 16, <<x1>>, 1)  BY <1>10, <1>14, Field
<1> HIDE DEF g5
<1>17. Holds(g5, 17)  BY <1>16 DEF Follows
<1>18. Follows(g6, g5, 17, <<x2, x3>>, 2)  BY <1>14, <1>17, Field
<1> HIDE DEF g6
<1>19. Holds(g6, 19)  BY <1>18 DEF Follows
<1>20. Follows(g7, g6, 19, <<x4, x5>>, 2)  BY <1>14, <1>19, Field
<1> HIDE DEF g7
<1>21. Holds(g7, 21)  BY <1>20 DEF Follows
<1>22. Follows(f8, g7, 21, Zeros(29), 29)  BY <1>13, <1>15, <1>21, Field
<1>23. \A k \in 1 .. 16 : f8[k] = f4[k]  BY <1>16, <1>18, <1>20, <1>22 DEF Follows
<1>24. f8[17] = x1 /\ f8[18] = x2 /\ f8[19] = x3 /\ f8[20] = x4 /\ f8[21] = x5
  <2>1. g5[16 + 1] = x1  BY <1>14, <1>16 DEF Follows
  <2>2. g6[17 + 1] = x2 /\ g6[17 + 2] = x3  BY <1>14, <1>18 DEF Follows
  <2>3. g7[19 + 1] = x4 /\ g7[19 + 2] = x5  BY <1>14, <1>20 DEF Follows
  <2>. QED  BY <1>18, <1>20, <1>22, <2>1, <2>2, <2>3 DEF Follows
<1>25. /\ f8[1] = 16 + h.type /\ f8[3] = 78 /\ f8[4] = 81
       /\ \A k \in 1 .. 6 : f8[4 + k] = h.src[k]
       /\ \A k \in 1 .. 6 : f8[10 + k] = h.dst[k]
  <2>1. \A k \in 1 .. 6 : 4 + k \in 1 .. 16 /\ 10 + k \in 1 .. 16  OBVIOUS
  <2>. QED  BY <1>9, <1>11, <1>23, <2>1 DEF Follows
<1>26. Holds(f8, 50)  BY <1>22 DEF Follows
<1>. QED  BY <1>0, <1>24, <1>25, <1>26 DEF x1, x2, x3, x4, x5

\* What the bytes of a data frame are, but for its checksum.
DataBody(f) ==
    <<16 + f.type>> \o f.src \o f.dst \o Word(f.seq) \o <<Len(f.payload)>> \o f.payload

DataRecord ==
    [type : {DATA, NACK, FIN, FIN_ACK}, src : Address, dst : Address, seq : HalfWord, payload : Seq(Byte)]

LEMMA DataFacts ==
    ASSUME NEW f \in DataFrame
    PROVE  /\ f \in DataRecord
           /\ f.type \in {3, 4, 5, 6} /\ f.src \in Address /\ f.dst \in Address /\ f.seq \in HalfWord
           /\ Holds(f.payload, Len(f.payload)) /\ Len(f.payload) \in 0 .. 112
<1>1. f \in DataRecord /\ Len(f.payload) <= 112  BY DEF DataFrame, DataRecord, MAX_PAYLOAD
<1>2. f.payload \in Seq(Byte)  BY <1>1 DEF DataRecord
<1>3. Len(f.payload) \in Nat  BY <1>2
<1>4. f.type \in {3, 4, 5, 6} /\ f.src \in Address /\ f.dst \in Address /\ f.seq \in HalfWord
  BY <1>1 DEF DataRecord, DATA, NACK, FIN, FIN_ACK
<1>5. Len(f.payload) \in 0 .. 112
  <2>1. \A n \in Nat : n <= 112 => n \in 0 .. 112  OBVIOUS
  <2>. QED  BY <1>1, <1>3, <2>1, Zenon
<1>6. Holds(f.payload, Len(f.payload))  BY <1>2, Zenon DEF Holds
<1>. QED  BY <1>1, <1>4, <1>5, <1>6, Zenon

\* Where the fields of a data frame are.
LEMMA DataLayout ==
    ASSUME NEW f \in DataFrame
    PROVE  LET n    == Len(f.payload)
               body == DataBody(f)
           IN  /\ Holds(body, 16 + n)
               /\ body[1] = 16 + f.type
               /\ \A k \in 1 .. 6 : body[1 + k] = f.src[k]
               /\ \A k \in 1 .. 6 : body[7 + k] = f.dst[k]
               /\ body[14] = f.seq \div 256 /\ body[15] = f.seq % 256
               /\ body[16] = n
               /\ \A k \in 1 .. n : body[16 + k] = f.payload[k]
<1> DEFINE n  == Len(f.payload)
           x1 == 16 + f.type
           x2 == f.seq \div 256
           x3 == f.seq % 256
           f1 == <<x1>>
           f2 == f1 \o f.src
           f3 == f2 \o f.dst
           f4 == f3 \o <<x2, x3>>
           f5 == f4 \o <<n>>
           f6 == f5 \o f.payload
<1>0. f6 = DataBody(f)  BY DEF DataBody, Word
<1>1. Holds(f.payload, n) /\ n \in 0 .. 112  BY DataFacts
<1>2. x1 \in Byte /\ x2 \in Byte /\ x3 \in Byte /\ n \in Byte
  <2>1. x1 \in Byte
    <3>1. f.type \in {3, 4, 5, 6}  BY DataFacts
    <3>. QED  BY <3>1 DEF Byte
  <2>2. n \in Byte  BY <1>1 DEF Byte
  <2>3. f.seq \in HalfWord  BY DataFacts
  <2>. QED  BY <2>1, <2>2, <2>3, WordFacts
<1>3. Holds(f.src, 6) /\ Holds(f.dst, 6)
  <2>1. f.src \in Address /\ f.dst \in Address  BY DataFacts
  <2>. QED  BY <2>1, AddressHolds
<1> HIDE DEF x1, x2, x3, n, f6
<1>4. Holds(f1, 1) /\ f1[1] = x1  BY <1>2, Fields
<1>5. Holds(<<x2, x3>>, 2) /\ <<x2, x3>>[1] = x2 /\ <<x2, x3>>[2] = x3  BY <1>2, Fields
<1>6. Holds(<<n>>, 1) /\ <<n>>[1] = n  BY <1>2, Fields
<1> HIDE DEF f1
<1>7. Follows(f2, f1, 1, f.src, 6)  BY <1>3, <1>4, Field
<1> HIDE DEF f2
<1>8. Holds(f2, 7)  BY <1>7 DEF Follows
<1>9. Follows(f3, f2, 7, f.dst, 6)  BY <1>3, <1>8, Field
<1> HIDE DEF f3
<1>10. Holds(f3, 13)  BY <1>9 DEF Follows
<1>11. Follows(f4, f3, 13, <<x2, x3>>, 2)  BY <1>5, <1>10, Field
<1> HIDE DEF f4
<1>12. Holds(f4, 15)  BY <1>11 DEF Follows
<1>13. Follows(f5, f4, 15, <<n>>, 1)  BY <1>6, <1>12, Field
<1>14. Holds(f5, 16) /\ n \in Nat  BY <1>1, <1>13 DEF Follows
<1>15. Follows(f6, f5, 16, f.payload, n)
  <2>1. Follows(f5 \o f.payload, f5, 16, f.payload, n)
    <3> HIDE DEF f5
    <3>. QED  BY <1>1, <1>14, Field
  <2>. QED  BY <2>1 DEF f6
<1> HIDE DEF f5
<1>16. \A k \in 1 .. 16 : f6[k] = f5[k]  BY <1>15 DEF Follows
<1>17. \A k \in 1 .. 13 : f6[k] = f3[k]  BY <1>11, <1>13, <1>16 DEF Follows
<1>18. f6[1] = x1 /\ \A k \in 1 .. 6 : f6[1 + k] = f.src[k]
  <2>1. \A k \in 1 .. 6 : 1 + k \in 1 .. 7  OBVIOUS
  <2>2. \A k \in 1 .. 7 : f6[k] = f2[k]  BY <1>9, <1>17 DEF Follows
  <2>3. f2[1] = x1  BY <1>4, <1>7 DEF Follows
  <2>. QED  BY <1>7, <2>1, <2>2, <2>3 DEF Follows
<1>19. \A k \in 1 .. 6 : f6[7 + k] = f.dst[k]
  <2>1. \A k \in 1 .. 6 : 7 + k \in 1 .. 13  OBVIOUS
  <2>. QED  BY <1>9, <1>17, <2>1 DEF Follows
<1>20. f6[14] = x2 /\ f6[15] = x3 /\ f6[16] = n
  <2>1. f4[13 + 1] = x2 /\ f4[13 + 2] = x3  BY <1>5, <1>11 DEF Follows
  <2>2. f5[15 + 1] = n  BY <1>6, <1>13 DEF Follows
  <2>. QED  BY <1>13, <1>16, <2>1, <2>2 DEF Follows
<1>21. Holds(f6, 16 + n) /\ \A k \in 1 .. n : f6[16 + k] = f.payload[k]  BY <1>15 DEF Follows
<1>. QED  BY <1>0, <1>18, <1>19, <1>20, <1>21 DEF x1, x2, x3, n

\* A piece of a frame.
HasLength(s, n) == (\E S : s \in Seq(S)) /\ Len(s) = n

Matches(s, m, b, n) == \A k \in 1 .. n : s[m + k] = b[k]

Sliced(s, m, b, n) == SubSeq(s, m + 1, m + n) = b

LEMMA Slice ==
    ASSUME NEW size \in Nat, NEW s, HasLength(s, size), NEW m \in Nat, NEW n \in Nat, NEW b,
           Holds(b, n), Matches(s, m, b, n), m + n <= size
    PROVE  Sliced(s, m, b, n)
<1>1. b \in Seq(Byte) /\ Len(b) = n  BY DEF Holds
<1>2. PICK S : s \in Seq(S)  BY DEF HasLength
<1>3. Len(s) = size  BY DEF HasLength
<1>. QED  BY <1>1, <1>2, <1>3, Piece DEF Sliced, Matches

\* A frame as decode_grid returns it: the body, and the checksum of the body.
Sealing(data, body, n) ==
    /\ HasLength(data, n + 2)
    /\ \A k \in 1 .. n : data[k] = body[k]
    /\ SubSeq(data, 1, n) = body
    /\ SubSeq(data, n + 1, n + 2) = Word(Crc16(body))

LEMMA SealedHolds ==
    ASSUME NEW n \in Nat, NEW body, Holds(body, n)
    PROVE  Sealing(Sealed(body), body, n)
<1>1. body \in Seq(Byte) /\ Len(body) = n  BY DEF Holds
<1>. QED  BY <1>1, SealedFacts DEF Sealing, HasLength

\* One sequence begins as another one does.
Begins(data, body, n) == \A k \in 1 .. n : data[k] = body[k]

\* The fields of a handshake frame are read from the first 21 of its bytes.
LEMMA HandshakeRead ==
    ASSUME NEW h \in HandshakeFrame, NEW m \in Nat, m >= 21, NEW data, HasLength(data, m),
           Begins(data, HandshakeBody(h), 21)
    PROVE  data[1] % 16 = h.type /\ ToHandshake(data) = h
<1> DEFINE body == HandshakeBody(h)
           c    == h.caps
<1>1. /\ body[1] = 16 + h.type
      /\ \A k \in 1 .. 6 : body[4 + k] = h.src[k]
      /\ \A k \in 1 .. 6 : body[10 + k] = h.dst[k]
      /\ body[17] = c.color_depth * 64 + c.grid_size
      /\ body[18] = c.interval_ms \div 256 /\ body[19] = c.interval_ms % 256
      /\ body[20] = c.compression * 16
      /\ body[21] = c.ecc_level * 64 + c.sync_method * 16
  BY HandshakeLayout
<1> HIDE DEF body
<1>1a. \A k \in 1 .. 21 : data[k] = body[k]  BY DEF Begins, body
<1>2. /\ data[1] = 16 + h.type
      /\ data[17] = c.color_depth * 64 + c.grid_size
      /\ data[18] = c.interval_ms \div 256 /\ data[19] = c.interval_ms % 256
      /\ data[20] = c.compression * 16
      /\ data[21] = c.ecc_level * 64 + c.sync_method * 16
  BY <1>1, <1>1a
<1>3. /\ \A k \in 1 .. 6 : data[4 + k] = h.src[k]
      /\ \A k \in 1 .. 6 : data[10 + k] = h.dst[k]
  <2>1. \A k \in 1 .. 6 : 4 + k \in 1 .. 21 /\ 10 + k \in 1 .. 21  OBVIOUS
  <2>. QED  BY <1>1, <1>1a, <2>1
<1>4. data[1] % 16 = h.type
  <2>1. h.type \in {0, 1, 2}  BY DEF HandshakeFrame, SYN, SYN_ACK, ACK
  <2>. QED  BY <1>2, <2>1
<1>5. ToHandshake(data) = h
  <2>1. Holds(h.src, 6) /\ Holds(h.dst, 6)
    <3>1. h.src \in Address /\ h.dst \in Address  BY DEF HandshakeFrame
    <3>. QED  BY <3>1, AddressHolds
  <2>2. Sliced(data, 4, h.src, 6) /\ Sliced(data, 10, h.dst, 6)
    <3>1. Matches(data, 4, h.src, 6) /\ Matches(data, 10, h.dst, 6)  BY <1>3 DEF Matches
    <3>2. 4 + 6 <= m /\ 10 + 6 <= m  OBVIOUS
    <3>. QED  BY <2>1, <3>1, <3>2, Slice
  <2>4. c \in Capabilities  BY DEF HandshakeFrame
  <2>5. data[17] \div 64 = c.color_depth /\ data[17] % 64 = c.grid_size
    <3>1. c.color_depth \in 0 .. 3 /\ c.grid_size \in 0 .. 63  BY <2>4 DEF Capabilities
    <3>. QED  BY <1>2, <3>1
  <2>6. data[18] * 256 + data[19] = c.interval_ms
    <3>1. c.interval_ms \in HalfWord  BY <2>4 DEF Capabilities
    <3>. QED  BY <1>2, <3>1, WordFacts
  <2>7. data[20] \div 16 = c.compression
    <3>1. c.compression \in 0 .. 3  BY <2>4 DEF Capabilities, Compressions
    <3>. QED  BY <1>2, <3>1
  <2>8. data[21] \div 64 = c.ecc_level /\ (data[21] \div 16) % 4 = c.sync_method
    <3>1. c.ecc_level \in 0 .. 3 /\ c.sync_method \in 0 .. 3  BY <2>4 DEF Capabilities
    <3>. QED  BY <1>2, <3>1
  <2>9. c = [color_depth |-> c.color_depth, grid_size |-> c.grid_size,
             interval_ms |-> c.interval_ms, compression |-> c.compression,
             ecc_level |-> c.ecc_level, sync_method |-> c.sync_method]
    BY <2>4 DEF Capabilities
  <2>10. h = [type |-> h.type, src |-> h.src, dst |-> h.dst, caps |-> h.caps]
    BY DEF HandshakeFrame
  <2> DEFINE caps == [color_depth |-> data[17] \div 64, grid_size |-> data[17] % 64,
                      interval_ms |-> data[18] * 256 + data[19],
                      compression |-> data[20] \div 16,
                      ecc_level |-> data[21] \div 64, sync_method |-> (data[21] \div 16) % 4]
  <2>11. caps = c  BY <2>5, <2>6, <2>7, <2>8, <2>9
  <2>12. ToHandshake(data) =
            [type |-> data[1] % 16, src |-> SubSeq(data, 5, 10), dst |-> SubSeq(data, 11, 16),
             caps |-> caps]
    BY DEF ToHandshake
  <2> HIDE DEF caps
  <2>13. SubSeq(data, 5, 10) = h.src /\ SubSeq(data, 11, 16) = h.dst
    BY <2>2 DEF Sliced
  <2>. QED  BY <1>4, <2>10, <2>11, <2>12, <2>13
<1>. QED  BY <1>4, <1>5

\* A handshake frame is read as what it is.
LEMMA HandshakeStored ==
    ASSUME NEW h \in HandshakeFrame
    PROVE  Stored(FrameBytes(h)) = Entry(h)
<1> DEFINE body == HandshakeBody(h)
           data == Sealed(body)
           c    == h.caps
<1>1. h.type \in {0, 1, 2}  BY DEF HandshakeFrame, SYN, SYN_ACK, ACK
<1>2. FrameBytes(h) = data
  <2>1. IsHandshakeType(h.type)  BY <1>1 DEF IsHandshakeType, SYN, SYN_ACK, ACK
  <2>. QED  BY <2>1 DEF FrameBytes, HandshakeBytes, HandshakeBody
<1>3. /\ Holds(body, 50)
      /\ body[1] = 16 + h.type /\ body[3] = 78 /\ body[4] = 81
      /\ \A k \in 1 .. 6 : body[4 + k] = h.src[k]
      /\ \A k \in 1 .. 6 : body[10 + k] = h.dst[k]
      /\ body[17] = c.color_depth * 64 + c.grid_size
      /\ body[18] = c.interval_ms \div 256 /\ body[19] = c.interval_ms % 256
      /\ body[20] = c.compression * 16
      /\ body[21] = c.ecc_level * 64 + c.sync_method * 16
  BY HandshakeLayout
<1> HIDE DEF body
<1>4. Sealing(data, body, 50)  BY <1>3, SealedHolds
<1> HIDE DEF data
<1>5. HasLength(data, 52)
  <2>1. 50 + 2 = 52  OBVIOUS
  <2>. QED  BY <1>4, <2>1 DEF Sealing
<1>5a. SubSeq(data, 1, 50) = body /\ SubSeq(data, 51, 52) = Word(Crc16(body))
  <2>1. 50 + 1 = 51 /\ 50 + 2 = 52  OBVIOUS
  <2>. QED  BY <1>4, <2>1 DEF Sealing
<1>6. \A k \in 1 .. 50 : data[k] = body[k]  BY <1>4 DEF Sealing
<1>7. data[1] = 16 + h.type /\ data[2 + 1] = 78 /\ data[2 + 2] = 81 /\ data[20] = c.compression * 16
  BY <1>3, <1>6
<1>8. \A k \in 1 .. 21 : data[k] = body[k]
  <2>1. \A k \in 1 .. 21 : k \in 1 .. 50  OBVIOUS
  <2>. QED  BY <1>6, <2>1
<1>9. data[1] % 16 = h.type  BY <1>1, <1>7
<1>10. ToHandshake(data) = h
  <2>1. Begins(data, HandshakeBody(h), 21)  BY <1>8 DEF Begins, body
  <2>. QED  BY <1>5, <2>1, HandshakeRead
<1>11. IsHandshake(data)
  <2>1. SubSeq(data, 3, 4) = MAGIC
    <3>1. Holds(MAGIC, 2) /\ MAGIC[1] = 78 /\ MAGIC[2] = 81  BY MagicHolds
    <3>2. Matches(data, 2, MAGIC, 2)  BY <1>7, <3>1 DEF Matches
    <3>3. Sliced(data, 2, MAGIC, 2)  BY <1>5, <3>1, <3>2, Slice
    <3>. QED  BY <3>3 DEF Sliced
  <2>2. data[1] % 16 \in FrameTypes  BY <1>1, <1>9 DEF FrameTypes
  <2>3. data[20] \div 16 \in Compressions
    <3>1. c.compression \in 0 .. 3  BY DEF HandshakeFrame, Capabilities, Compressions
    <3>. QED  BY <1>7, <3>1 DEF Compressions
  <2>4. /\ Len(data) >= HANDSHAKE_SIZE
        /\ Word(Crc16(SubSeq(data, 1, Len(data) - 2)))
               = SubSeq(data, Len(data) - 1, Len(data))
    <3>1. Len(data) = 52  BY <1>5 DEF HasLength
    <3>2. Len(data) - 2 = 50 /\ Len(data) - 1 = 51  BY <3>1
    <3>3. Len(data) >= HANDSHAKE_SIZE  BY <3>1 DEF HANDSHAKE_SIZE
    <3>. QED  BY <1>5a, <3>1, <3>2, <3>3, Zenon
  <2>. QED  BY <2>1, <2>2, <2>3, <2>4 DEF IsHandshake
<1>12. IsHandshakeType(data[1] % 16)
  BY <1>1, <1>9 DEF IsHandshakeType, SYN, SYN_ACK, ACK
<1>. QED  BY <1>2, <1>10, <1>11, <1>12 DEF Stored

\* The fields of a data frame are read from the bytes before its checksum.
LEMMA DataRead ==
    ASSUME NEW f \in DataFrame, NEW m \in Nat, m >= 16 + Len(f.payload), NEW data, HasLength(data, m),
           Begins(data, DataBody(f), 16 + Len(f.payload))
    PROVE  data[1] % 16 = f.type /\ data[16] = Len(f.payload) /\ ToData(data) = f
<1> DEFINE body == DataBody(f)
           n    == Len(f.payload)
<1>1. Holds(f.payload, n) /\ n \in Nat /\ m >= 16 + n
  <2>1. Holds(f.payload, n) /\ n \in 0 .. 112  BY DataFacts
  <2>. QED  BY <2>1
<1>2. /\ body[1] = 16 + f.type
      /\ \A k \in 1 .. 6 : body[1 + k] = f.src[k]
      /\ \A k \in 1 .. 6 : body[7 + k] = f.dst[k]
      /\ body[14] = f.seq \div 256 /\ body[15] = f.seq % 256
      /\ body[16] = n
      /\ \A k \in 1 .. n : body[16 + k] = f.payload[k]
  BY DataLayout
<1>2a. \A k \in 1 .. 16 + n : data[k] = body[k]  BY DEF Begins
<1> HIDE DEF body, n
<1>3. /\ data[1] = 16 + f.type
      /\ data[14] = f.seq \div 256 /\ data[15] = f.seq % 256
      /\ data[16] = n
  BY <1>1, <1>2, <1>2a
<1>4. /\ \A k \in 1 .. 6 : data[1 + k] = f.src[k]
      /\ \A k \in 1 .. 6 : data[7 + k] = f.dst[k]
  <2>1. \A k \in 1 .. 6 : 1 + k \in 1 .. 16 + n /\ 7 + k \in 1 .. 16 + n  BY <1>1
  <2>. QED  BY <1>2, <1>2a, <2>1
<1>5. \A k \in 1 .. n : data[16 + k] = f.payload[k]
  <2>1. \A k \in 1 .. n : 16 + k \in 1 .. 16 + n  BY <1>1
  <2>. QED  BY <1>2, <1>2a, <2>1
<1>6. data[1] % 16 = f.type
  <2>1. f.type \in {3, 4, 5, 6}  BY DataFacts
  <2>. QED  BY <1>3, <2>1
<1>7. Holds(f.src, 6) /\ Holds(f.dst, 6)
  <2>1. f.src \in Address /\ f.dst \in Address  BY DataFacts
  <2>. QED  BY <2>1, AddressHolds
<1>8. ToData(data) = f
  <2>1. Sliced(data, 1, f.src, 6) /\ Sliced(data, 7, f.dst, 6)
    <3>1. Matches(data, 1, f.src, 6) /\ Matches(data, 7, f.dst, 6)  BY <1>4 DEF Matches
    <3>2. 1 + 6 <= m /\ 7 + 6 <= m  BY <1>1
    <3>. QED  BY <1>7, <3>1, <3>2, Slice
  <2>2. Sliced(data, 16, f.payload, n)
    <3>1. Matches(data, 16, f.payload, n)  BY <1>5 DEF Matches
    <3>2. 16 + n <= m  BY <1>1
    <3>. QED  BY <1>1, <3>1, <3>2, Slice
  <2>3. SubSeq(data, 2, 7) = f.src /\ SubSeq(data, 8, 13) = f.dst  BY <2>1 DEF Sliced
  <2>4. SubSeq(data, 17, 16 + data[16]) = f.payload
    <3>1. SubSeq(data, 16 + 1, 16 + n) = f.payload  BY <2>2 DEF Sliced
    <3>2. 16 + 1 = 17  OBVIOUS
    <3>. QED  BY <1>3, <3>1, <3>2, Zenon
  <2>5. data[14] * 256 + data[15] = f.seq
    <3>1. f.seq \in HalfWord  BY DataFacts
    <3>. QED  BY <1>3, <3>1, WordFacts
  <2>6. f = [type |-> f.type, src |-> f.src, dst |-> f.dst, seq |-> f.seq,
             payload |-> f.payload]
    <3>1. f \in DataRecord  BY DataFacts
    <3>. QED  BY <3>1 DEF DataRecord
  <2>. QED  BY <1>6, <2>3, <2>4, <2>5, <2>6 DEF ToData
<1>. QED  BY <1>3, <1>6, <1>8 DEF n

\* A data frame is read as what it is, unless it passes for a handshake frame.
LEMMA DataStored ==
    ASSUME NEW f \in DataFrame
    PROVE  Stored(FrameBytes(f)) = IF LooksLikeHandshake(f) THEN Nothing ELSE Entry(f)
<1> DEFINE body == DataBody(f)
           data == Sealed(body)
           n    == Len(f.payload)
           size == 16 + n
<1>1. f.type \in {3, 4, 5, 6} /\ Holds(f.payload, n) /\ n \in 0 .. 112  BY DataFacts
<1>2. FrameBytes(f) = data
  <2>1. ~ IsHandshakeType(f.type)  BY <1>1 DEF IsHandshakeType, SYN, SYN_ACK, ACK
  <2>. QED  BY <2>1 DEF FrameBytes, DataBytes, DataBody
<1>3. /\ Holds(body, size)
      /\ body[1] = 16 + f.type
      /\ \A k \in 1 .. 6 : body[1 + k] = f.src[k]
      /\ \A k \in 1 .. 6 : body[7 + k] = f.dst[k]
      /\ body[14] = f.seq \div 256 /\ body[15] = f.seq % 256
      /\ body[16] = n
      /\ \A k \in 1 .. n : body[16 + k] = f.payload[k]
  BY DataLayout
<1> HIDE DEF body, n
<1>4. size \in Nat /\ size >= 16 /\ size = 16 + n /\ n \in Nat  BY <1>1
<1> HIDE DEF size
<1>5. Sealing(data, body, size)  BY <1>3, <1>4, SealedHolds
<1> HIDE DEF data
<1> DEFINE total == size + 2
<1>6. HasLength(data, total) /\ total \in Nat  BY <1>4, <1>5 DEF Sealing
<1>7. /\ SubSeq(data, 1, size) = body
      /\ SubSeq(data, size + 1, total) = Word(Crc16(body))
  BY <1>5 DEF Sealing
<1>8. \A k \in 1 .. size : data[k] = body[k]  BY <1>5 DEF Sealing
<1>9. /\ data[1] = 16 + f.type
      /\ data[14] = f.seq \div 256 /\ data[15] = f.seq % 256
      /\ data[16] = n
  BY <1>3, <1>4, <1>8
<1>10. /\ \A k \in 1 .. 6 : data[1 + k] = f.src[k]
       /\ \A k \in 1 .. 6 : data[7 + k] = f.dst[k]
  <2>1. \A k \in 1 .. 6 : 1 + k \in 1 .. size /\ 7 + k \in 1 .. size  BY <1>4
  <2>. QED  BY <1>3, <1>8, <2>1
<1>11. \A k \in 1 .. n : data[16 + k] = f.payload[k]
  <2>1. \A k \in 1 .. n : 16 + k \in 1 .. size  BY <1>4
  <2>. QED  BY <1>3, <1>8, <2>1
<1>12. data[1] % 16 = f.type  BY <1>1, <1>9
<1>13. Holds(f.src, 6) /\ Holds(f.dst, 6)
  <2>1. f.src \in Address /\ f.dst \in Address  BY DataFacts
  <2>. QED  BY <2>1, AddressHolds
<1> HIDE DEF total
<1>14. ToData(data) = f
  <2>1. Begins(data, DataBody(f), 16 + Len(f.payload))  BY <1>4, <1>8 DEF Begins, body, n
  <2>2. total >= 16 + Len(f.payload)  BY <1>4 DEF total, n
  <2>. QED  BY <1>6, <2>1, <2>2, DataRead
<1>15. IsData(data)
  <2>1. Len(data) = total /\ Len(data) >= DATAFRAME_HEADER_SIZE + 2
    BY <1>4, <1>6 DEF HasLength, total, DATAFRAME_HEADER_SIZE
  <2> DEFINE end == DATAFRAME_HEADER_SIZE + data[16]
  <2>2. end = size /\ end + 2 = total /\ data[16] <= MAX_PAYLOAD
    BY <1>1, <1>4, <1>9 DEF total, DATAFRAME_HEADER_SIZE, MAX_PAYLOAD
  <2>3. data[1] % 16 \in FrameTypes  BY <1>1, <1>12 DEF FrameTypes
  <2>4. Len(data) >= end + 2  BY <1>6, <2>1, <2>2
  <2>5. Word(Crc16(SubSeq(data, 1, end))) = SubSeq(data, end + 1, end + 2)
    <3> HIDE DEF end
    <3>. QED  BY <1>7, <2>2, Zenon
  <2>. QED  BY <2>1, <2>2, <2>3, <2>4, <2>5 DEF IsData
<1>16. IsHandshake(data) <=>
           n >= 34 /\ SubSeq(f.src, 2, 3) = MAGIC /\ f.payload[4] \div 16 \in Compressions
  <2>1. Len(data) = total /\ (Len(data) >= HANDSHAKE_SIZE <=> n >= 34)
    BY <1>4, <1>6 DEF HasLength, total, HANDSHAKE_SIZE
  <2>2. Word(Crc16(SubSeq(data, 1, Len(data) - 2))) = SubSeq(data, Len(data) - 1, Len(data))
    <3>1. total - 2 = size /\ total - 1 = size + 1  BY <1>4 DEF total
    <3>. QED  BY <1>7, <2>1, <3>1, Zenon
  <2>3. SubSeq(data, 3, 4) = SubSeq(f.src, 2, 3)
    <3> DEFINE x == f.src[2]
               y == f.src[3]
    <3>1. f.src \in Address  BY DataFacts
    <3>2. x \in Byte /\ y \in Byte  BY <3>1 DEF Address
    <3>3. data[2 + 1] = x /\ data[2 + 2] = y
      <4>1. data[1 + 2] = x /\ data[1 + 3] = y  BY <1>10
      <4>. QED  BY <4>1
    <3>4. f.src[1 + 1] = x /\ f.src[1 + 2] = y  OBVIOUS
    <3> HIDE DEF x, y
    <3>5. Holds(<<x, y>>, 2) /\ <<x, y>>[1] = x /\ <<x, y>>[2] = y  BY <3>2, Fields
    <3>6. Matches(data, 2, <<x, y>>, 2) /\ Matches(f.src, 1, <<x, y>>, 2)
      BY <3>3, <3>4, <3>5 DEF Matches
    <3>7. HasLength(f.src, 6)  BY <1>13 DEF Holds, HasLength
    <3>8. 2 + 2 <= total /\ 1 + 2 <= 6  BY <1>4 DEF total
    <3>9. Sliced(data, 2, <<x, y>>, 2)  BY <1>6, <3>5, <3>6, <3>8, Slice
    <3>10. Sliced(f.src, 1, <<x, y>>, 2)  BY <3>5, <3>6, <3>7, <3>8, Slice
    <3>11. SubSeq(data, 3, 4) = <<x, y>>
      <4>1. 2 + 1 = 3 /\ 2 + 2 = 4  OBVIOUS
      <4>. QED  BY <3>9, <4>1, Zenon DEF Sliced
    <3>12. SubSeq(f.src, 2, 3) = <<x, y>>
      <4>1. 1 + 1 = 2 /\ 1 + 2 = 3  OBVIOUS
      <4>. QED  BY <3>10, <4>1, Zenon DEF Sliced
    <3>. QED  BY <3>11, <3>12, Zenon
  <2>4. data[1] % 16 \in FrameTypes  BY <1>1, <1>12 DEF FrameTypes
  <2>5. n >= 34 => data[20] = f.payload[4]
    <3>1. n >= 34 => data[16 + 4] = f.payload[4]  BY <1>4, <1>11
    <3>. QED  BY <3>1
  <2> DEFINE long == Len(data) >= HANDSHAKE_SIZE
  <2>6. IsHandshake(data) <=>
            long /\ SubSeq(data, 3, 4) = MAGIC /\ data[20] \div 16 \in Compressions
    BY <2>2, <2>4, Zenon DEF IsHandshake
  <2>. QED  BY <2>1, <2>3, <2>5, <2>6
<1>17. LooksLikeHandshake(f) <=> f.type = DATA /\ IsHandshake(data)
  <2>1. n + FrameHeader >= HANDSHAKE_SIZE <=> n >= 34
    BY <1>4 DEF FrameHeader, HANDSHAKE_SIZE, DATAFRAME_HEADER_SIZE
  <2>. QED  BY <1>16, <2>1 DEF LooksLikeHandshake, n
<1>18. ~ IsHandshakeType(data[1] % 16)
  BY <1>1, <1>12 DEF IsHandshakeType, SYN, SYN_ACK, ACK
<1>19. f.type # DATA => Entry(f) = Nothing
  BY <1>1 DEF Entry, DATA, SYN, SYN_ACK, ACK
<1>20. Stored(data) = IF ~ IsHandshake(data) /\ f.type = DATA THEN Entry(f) ELSE Nothing
  BY <1>12, <1>14, <1>15, <1>18, Zenon DEF Stored
<1>. QED  BY <1>2, <1>17, <1>19, <1>20, Zenon

-----------------------------------------------------------------------------
(* Frames that are sent *)

\* A frame is read as it was drawn until something of it is misread.
WireInv ==
    /\ sent # NoLinkFrame => sent \in LinkFrameSet
    /\ sent # NoLinkFrame /\ intact => raw = FrameBytes(sent)

LEMMA WireInit == ImageInit => WireInv
BY DEF ImageInit, WireInv

LEMMA WireNext == WireInv /\ [ImageNext]_ivars => WireInv'
<1> SUFFICES ASSUME WireInv, [ImageNext]_ivars PROVE WireInv'  OBVIOUS
<1>1. ASSUME NEW f \in LinkFrameSet, Transmit(f) PROVE WireInv'  BY <1>1 DEF Transmit, WireInv
<1>2. ASSUME NEW k, NEW by, Misread(k, by) PROVE WireInv'  BY <1>2 DEF Misread, WireInv
<1>3. ASSUME NEW i, MisreadFormat(i) PROVE WireInv'  BY <1>3 DEF MisreadFormat, WireInv
<1>4. CASE Codec \/ (\E w \in Worlds : Look(w)) \/ DrawModule \/ DrawCells \/ Capture \/ Calibrate
  <2>1. UNCHANGED wire
    BY <1>4 DEF Codec, Look, DrawModule, DrawCells, Capture, Calibrate
  <2>. QED  BY <2>1 DEF wire, WireInv
<1>5. CASE UNCHANGED ivars  BY <1>5 DEF ivars, wire, WireInv
<1>. QED  BY <1>1, <1>2, <1>3, <1>4, <1>5 DEF ImageNext

\* Whatever frame of the link is sent, of any type, from any address, with any
\* capabilities or payload: if it is read as it was drawn, _decode_and_store makes
\* of its bytes what was sent, unless a data frame passes for a handshake frame.
THEOREM StoredAsSentCorrect == ImageSpec => []StoredAsSent
<1>1. WireInv => StoredAsSent
  <2> SUFFICES ASSUME WireInv, sent # NoLinkFrame, intact
               PROVE  Stored(raw) = IF LooksLikeHandshake(sent) THEN Nothing ELSE Entry(sent)
    BY DEF StoredAsSent
  <2>1. raw = FrameBytes(sent) /\ sent \in LinkFrameSet  BY DEF WireInv
  <2>2. CASE sent \in HandshakeFrame
    <3>1. sent.type # DATA
      BY <2>2 DEF HandshakeFrame, SYN, SYN_ACK, ACK, DATA
    <3>2. ~ LooksLikeHandshake(sent)  BY <3>1 DEF LooksLikeHandshake
    <3>. QED  BY <2>1, <2>2, <3>2, HandshakeStored
  <2>3. CASE sent \in DataFrame  BY <2>1, <2>3, DataStored
  <2>. QED  BY <2>1, <2>2, <2>3, LinkFrameAssumption DEF LinkFrameAssumption
<1>. QED  BY WireInit, WireNext, <1>1, PTL DEF ImageSpec

-----------------------------------------------------------------------------
(* What the checksum shows *)

Moduli == {8192, 16384, 32768, 65536}

\* A bit is toggled alone: the bits below another weight are toggled likewise
\* whatever is above them, and no two numbers become one.
LEMMA ToggledFacts ==
    ASSUME NEW w \in {32, 4096}, NEW x \in Nat, NEW m \in Moduli
    PROVE  /\ Toggled(x, w) \in Nat /\ Toggled(x, w) % 2 = x % 2
           /\ Toggled(x, w) % m = Toggled(x % m, w)
           /\ x < m => Toggled(x, w) < m
<1>1. CASE w = 32
  <2>1. Toggled(x, 32) \in Nat /\ Toggled(x, 32) % 2 = x % 2  BY DEF Toggled
  <2>2. CASE m = 8192  BY <1>1, <2>1, <2>2 DEF Toggled
  <2>3. CASE m = 16384  BY <1>1, <2>1, <2>3 DEF Toggled
  <2>4. CASE m = 32768  BY <1>1, <2>1, <2>4 DEF Toggled
  <2>5. CASE m = 65536  BY <1>1, <2>1, <2>5 DEF Toggled
  <2>. QED  BY <2>2, <2>3, <2>4, <2>5 DEF Moduli
<1>2. CASE w = 4096
  <2>1. Toggled(x, 4096) \in Nat /\ Toggled(x, 4096) % 2 = x % 2  BY DEF Toggled
  <2>2. CASE m = 8192  BY <1>2, <2>1, <2>2 DEF Toggled
  <2>3. CASE m = 16384  BY <1>2, <2>1, <2>3 DEF Toggled
  <2>4. CASE m = 32768  BY <1>2, <2>1, <2>4 DEF Toggled
  <2>5. CASE m = 65536
    <3> DEFINE q == x \div 65536
               r == x % 65536
    <3>1. q \in Nat /\ r \in Nat /\ r < 65536 /\ x = q * 65536 + r  OBVIOUS
    <3> HIDE DEF q, r
    <3>2. x \div 4096 = q * 16 + (r \div 4096)  BY <3>1
    <3>3. (x \div 4096) % 2 = (r \div 4096) % 2  BY <3>1, <3>2
    <3>4. (r \div 4096) % 2 = 0 => r + 4096 < 65536  BY <3>1
    <3>5. (r \div 4096) % 2 # 0 => r >= 4096  BY <3>1
    <3>6. Toggled(r, 4096) \in Nat /\ Toggled(r, 4096) < 65536  BY <3>1, <3>4, <3>5 DEF Toggled
    <3>7. Toggled(x, 4096) = q * 65536 + Toggled(r, 4096)  BY <3>1, <3>3 DEF Toggled
    <3>8. Toggled(x, 4096) % 65536 = Toggled(r, 4096)  BY <3>1, <3>6, <3>7
    <3>9. x < 65536 => x = r  BY <3>1
    <3>. QED  BY <1>2, <2>1, <2>5, <3>6, <3>8, <3>9 DEF r
  <2>. QED  BY <2>2, <2>3, <2>4, <2>5 DEF Moduli
<1>. QED  BY <1>1, <1>2

LEMMA ToggledInjective ==
    ASSUME NEW w \in {32, 4096}, NEW x \in Nat, NEW y \in Nat, Toggled(x, w) = Toggled(y, w)
    PROVE  x = y
<1>1. CASE w = 32  BY <1>1 DEF Toggled
<1>2. CASE w = 4096  BY <1>2 DEF Toggled
<1>. QED  BY <1>1, <1>2

LEMMA HalfWords ==
    /\ \A c \in HalfWord : c \in Nat /\ c < 65536
    /\ \A c \in Nat : c < 65536 => c \in HalfWord
<1>1. \A c \in HalfWord : c \in Nat /\ c < 256 * 256  BY HalfWordBound
<1>2. ASSUME NEW c \in Nat, c < 256 * 256 PROVE c \in HalfWord
  <2> DEFINE n == 256 * 256
  <2>1. n \in Nat /\ c < n /\ HalfWord = 0 .. n - 1  BY <1>2 DEF HalfWord
  <2> HIDE DEF n
  <2>. QED  BY <2>1
<1>3. 256 * 256 = 65536  OBVIOUS
<1>. QED  BY <1>1, <1>2, <1>3

LEMMA Remainders ==
    ASSUME NEW x \in Nat, NEW m \in Moduli
    PROVE  /\ x % m \in Nat /\ (x % m) % 2 = x % 2
           /\ x % 2 = 0 => (x + 1) % m = (x % m) + 1
<1>1. CASE m = 8192  BY <1>1
<1>2. CASE m = 16384  BY <1>2
<1>3. CASE m = 32768  BY <1>3
<1>4. CASE m = 65536  BY <1>4
<1>. QED  BY <1>1, <1>2, <1>3, <1>4 DEF Moduli

\* The bit that is shifted out is the one of the byte.
Agree(c, b) == c \div 32768 = b

Doubled(c) == (c * 2) % 65536

\* The polynomial is added.
Mixed(x) == Toggled(Toggled(x + 1, 32), 4096)

LEMMA Round ==
    ASSUME NEW c, NEW b
    PROVE  /\ Agree(c, b) => CrcBit(c, b) = Doubled(c)
           /\ ~ Agree(c, b) => CrcBit(c, b) = Mixed(Doubled(c))
BY DEF CrcBit, Agree, Doubled, Mixed

LEMMA MixedFacts ==
    ASSUME NEW x \in Nat, x % 2 = 0, NEW m \in Moduli
    PROVE  /\ Mixed(x) \in Nat /\ Mixed(x) % 2 = 1
           /\ Mixed(x) % m = Mixed(x % m)
           /\ x + 1 < m => Mixed(x) < m
<1> DEFINE y == x + 1
           t == Toggled(y, 32)
           u == Toggled(t, 4096)
           r == x % m
<1>1. y \in Nat /\ y % 2 = 1  OBVIOUS
<1>2. y % m = r + 1  BY Remainders
<1>3. t \in Nat /\ t % 2 = y % 2 /\ t % m = Toggled(y % m, 32) /\ (y < m => t < m)
  <2> HIDE DEF y
  <2>. QED  BY <1>1, ToggledFacts
<1>4. u \in Nat /\ u % 2 = t % 2 /\ u % m = Toggled(t % m, 4096) /\ (t < m => u < m)
  <2> HIDE DEF t
  <2>. QED  BY <1>3, ToggledFacts
<1>5. u = Mixed(x)  BY DEF Mixed
<1>6. Toggled(Toggled(r + 1, 32), 4096) = Mixed(r)  BY DEF Mixed
<1> HIDE DEF u, t, r
<1>7. u % m = Mixed(r)  BY <1>2, <1>3, <1>4, <1>6
<1>. QED  BY <1>1, <1>3, <1>4, <1>5, <1>7 DEF r

LEMMA MixedInjective ==
    ASSUME NEW x \in Nat, NEW y \in Nat, Mixed(x) = Mixed(y)
    PROVE  x = y
<1> DEFINE p == x + 1
           q == y + 1
           t == Toggled(p, 32)
           u == Toggled(q, 32)
<1>1. p \in Nat /\ q \in Nat /\ (p = q => x = y) /\ 65536 \in Moduli  BY DEF Moduli
<1>2. Toggled(t, 4096) = Toggled(u, 4096)  BY DEF Mixed
<1> HIDE DEF p, q
<1>3. t \in Nat /\ u \in Nat  BY <1>1, ToggledFacts
<1> HIDE DEF t, u
<1>4. t = u  BY <1>2, <1>3, ToggledInjective
<1>5. p = q  BY <1>1, <1>4, ToggledInjective DEF t, u
<1>. QED  BY <1>1, <1>5

Halves == {4096, 8192, 16384, 32768}

\* A shift moves the bits below a weight to below the next one.
LEMMA DoubledFacts ==
    ASSUME NEW h \in Halves, NEW c \in HalfWord
    PROVE  /\ 2 * h \in Moduli
           /\ c % h \in Nat /\ (2 * (c % h)) \in Nat
           /\ Doubled(c) \in Nat /\ Doubled(c) % 2 = 0 /\ Doubled(c) + 1 < 65536
           /\ Doubled(c) % (2 * h) = 2 * (c % h)
<1>1. c \in Nat /\ c < 65536  BY HalfWords
<1>2. CASE h = 4096  BY <1>1, <1>2 DEF Moduli, Doubled
<1>3. CASE h = 8192  BY <1>1, <1>3 DEF Moduli, Doubled
<1>4. CASE h = 16384  BY <1>1, <1>4 DEF Moduli, Doubled
<1>5. CASE h = 32768  BY <1>1, <1>5 DEF Moduli, Doubled
<1>. QED  BY <1>2, <1>3, <1>4, <1>5 DEF Halves

\* The lowest bit after a round tells whether the polynomial was added.
LEMMA CrcBitFacts ==
    ASSUME NEW c \in HalfWord, NEW b \in {0, 1}
    PROVE  /\ CrcBit(c, b) \in HalfWord
           /\ CrcBit(c, b) % 2 = IF Agree(c, b) THEN 0 ELSE 1
<1>1. 32768 \in Halves /\ 65536 \in Moduli  BY DEF Halves, Moduli
<1>2. Doubled(c) \in Nat /\ Doubled(c) % 2 = 0 /\ Doubled(c) + 1 < 65536  BY <1>1, DoubledFacts
<1>3. Doubled(c) \in HalfWord  BY <1>2, HalfWords
<1>4. Mixed(Doubled(c)) \in HalfWord /\ Mixed(Doubled(c)) % 2 = 1
  <2>1. /\ Mixed(Doubled(c)) \in Nat /\ Mixed(Doubled(c)) % 2 = 1
        /\ Doubled(c) + 1 < 65536 => Mixed(Doubled(c)) < 65536
    BY <1>1, <1>2, MixedFacts
  <2>. QED  BY <1>2, <2>1, HalfWords
<1>5. Doubled(c) % 2 = 0  BY <1>2
<1>. QED  BY <1>3, <1>4, <1>5, Round, Zenon

\* Rounds whose results agree in the lowest bits did the same to the bits they came
\* from.
LEMMA Peeled ==
    ASSUME NEW h \in Halves, NEW c \in HalfWord, NEW b \in {0, 1}, NEW d \in HalfWord, NEW e \in {0, 1},
           CrcBit(c, b) % (2 * h) = CrcBit(d, e) % (2 * h)
    PROVE  (Agree(c, b) <=> Agree(d, e)) /\ c % h = d % h
<1> DEFINE m == 2 * h
           x == CrcBit(c, b)
           y == CrcBit(d, e)
           u == 2 * (c % h)
           v == 2 * (d % h)
<1>1. m \in Moduli /\ u \in Nat /\ v \in Nat /\ (u = v => c % h = d % h)  BY DoubledFacts
<1>2. x \in HalfWord /\ y \in HalfWord /\ x % 2 = (IF Agree(c, b) THEN 0 ELSE 1)
      /\ y % 2 = (IF Agree(d, e) THEN 0 ELSE 1)
  BY CrcBitFacts
<1>3. x % m = y % m  OBVIOUS
<1>4. /\ Doubled(c) \in Nat /\ Doubled(c) % 2 = 0 /\ Doubled(c) % m = u
      /\ Doubled(d) \in Nat /\ Doubled(d) % 2 = 0 /\ Doubled(d) % m = v
  BY DoubledFacts
<1>5. Agree(c, b) => x = Doubled(c)  BY Round
<1>6. ~ Agree(c, b) => x = Mixed(Doubled(c))  BY Round
<1>7. Agree(d, e) => y = Doubled(d)  BY Round
<1>8. ~ Agree(d, e) => y = Mixed(Doubled(d))  BY Round
<1> HIDE DEF x, y, m, u, v
<1>9. x % 2 = y % 2
  <2>1. x \in Nat /\ y \in Nat  BY <1>2, HalfWords
  <2>2. (x % m) % 2 = x % 2 /\ (y % m) % 2 = y % 2  BY <1>1, <2>1, Remainders
  <2>. QED  BY <1>3, <2>2, Zenon
<1>10. Agree(c, b) <=> Agree(d, e)
  <2>1. 0 # 1  OBVIOUS
  <2>. QED  BY <1>2, <1>9, <2>1, Zenon
<1>11. Mixed(Doubled(c)) % m = Mixed(u) /\ Mixed(Doubled(d)) % m = Mixed(v)
  BY <1>1, <1>4, MixedFacts
<1>12. u = v
  <2>1. CASE Agree(c, b)  BY <1>3, <1>4, <1>5, <1>7, <1>10, <2>1, Zenon
  <2>2. CASE ~ Agree(c, b)
    <3>1. Mixed(u) = Mixed(v)  BY <1>3, <1>6, <1>8, <1>10, <1>11, <2>2, Zenon
    <3>. QED  BY <1>1, <3>1, MixedInjective
  <2>. QED  BY <2>1, <2>2
<1>. QED  BY <1>1, <1>10, <1>12, Zenon

\* A round loses nothing of what was before it.
LEMMA CrcBitInjective ==
    ASSUME NEW c \in HalfWord, NEW d \in HalfWord, NEW b \in {0, 1}, CrcBit(c, b) = CrcBit(d, b)
    PROVE  c = d
<1>1. (Agree(c, b) <=> Agree(d, b)) /\ c % 32768 = d % 32768
  <2>1. CrcBit(c, b) % (2 * 32768) = CrcBit(d, b) % (2 * 32768) /\ 32768 \in Halves
    BY DEF Halves
  <2>. QED  BY <2>1, Peeled
<1>2. c \in Nat /\ c < 65536 /\ d \in Nat /\ d < 65536  BY HalfWords
<1>. QED  BY <1>1, <1>2 DEF Agree

\* From one checksum on, only one bit has the same effect.
LEMMA SameBit ==
    ASSUME NEW c \in HalfWord, NEW b \in {0, 1}, NEW e \in {0, 1}, Agree(c, b) <=> Agree(c, e)
    PROVE  b = e
<1>1. c \in Nat /\ c < 65536  BY HalfWords
<1>2. c \div 32768 \in {0, 1}  BY <1>1
<1>. QED  BY <1>2 DEF Agree

\* Four rounds from one checksum lead to different ones, unless the bits are the same.
LEMMA FourRounds ==
    ASSUME NEW c \in HalfWord, NEW x \in [1 .. 4 -> {0, 1}], NEW y \in [1 .. 4 -> {0, 1}],
           CrcBit(CrcBit(CrcBit(CrcBit(c, x[1]), x[2]), x[3]), x[4])
               = CrcBit(CrcBit(CrcBit(CrcBit(c, y[1]), y[2]), y[3]), y[4])
    PROVE  \A k \in 1 .. 4 : x[k] = y[k]
<1> DEFINE x1 == CrcBit(c, x[1])
           x2 == CrcBit(x1, x[2])
           x3 == CrcBit(x2, x[3])
           x4 == CrcBit(x3, x[4])
           y1 == CrcBit(c, y[1])
           y2 == CrcBit(y1, y[2])
           y3 == CrcBit(y2, y[3])
           y4 == CrcBit(y3, y[4])
<1>1. /\ x[1] \in {0, 1} /\ x[2] \in {0, 1} /\ x[3] \in {0, 1} /\ x[4] \in {0, 1}
      /\ y[1] \in {0, 1} /\ y[2] \in {0, 1} /\ y[3] \in {0, 1} /\ y[4] \in {0, 1}
  OBVIOUS
<1>2. x4 = y4  OBVIOUS
<1>3. x1 \in HalfWord /\ y1 \in HalfWord  BY <1>1, CrcBitFacts
<1>4. x2 \in HalfWord /\ y2 \in HalfWord
  <2> HIDE DEF x1, y1
  <2>. QED  BY <1>1, <1>3, CrcBitFacts
<1>5. x3 \in HalfWord /\ y3 \in HalfWord
  <2> HIDE DEF x2, y2
  <2>. QED  BY <1>1, <1>4, CrcBitFacts
<1> HIDE DEF x1, y1, x2, y2, x3, y3, x4, y4
<1>6. (Agree(x3, x[4]) <=> Agree(y3, y[4])) /\ x3 % 32768 = y3 % 32768
  <2>1. CrcBit(x3, x[4]) % (2 * 32768) = CrcBit(y3, y[4]) % (2 * 32768)  BY <1>2 DEF x4, y4
  <2>2. 32768 \in Halves  BY DEF Halves
  <2>. QED  BY <1>1, <1>5, <2>1, <2>2, Peeled
<1>7. (Agree(x2, x[3]) <=> Agree(y2, y[3])) /\ x2 % 16384 = y2 % 16384
  <2>1. CrcBit(x2, x[3]) % (2 * 16384) = CrcBit(y2, y[3]) % (2 * 16384)
    <3>1. 2 * 16384 = 32768  OBVIOUS
    <3>. QED  BY <1>6, <3>1, SMT DEF x3, y3
  <2>2. 16384 \in Halves  BY DEF Halves
  <2>. QED  BY <1>1, <1>4, <2>1, <2>2, Peeled
<1>8. (Agree(x1, x[2]) <=> Agree(y1, y[2])) /\ x1 % 8192 = y1 % 8192
  <2>1. CrcBit(x1, x[2]) % (2 * 8192) = CrcBit(y1, y[2]) % (2 * 8192)
    <3>1. 2 * 8192 = 16384  OBVIOUS
    <3>. QED  BY <1>7, <3>1, SMT DEF x2, y2
  <2>2. 8192 \in Halves  BY DEF Halves
  <2>. QED  BY <1>1, <1>3, <2>1, <2>2, Peeled
<1>9. Agree(c, x[1]) <=> Agree(c, y[1])
  <2>1. CrcBit(c, x[1]) % (2 * 4096) = CrcBit(c, y[1]) % (2 * 4096)
    <3>1. 2 * 4096 = 8192  OBVIOUS
    <3>. QED  BY <1>8, <3>1, SMT DEF x1, y1
  <2>2. 4096 \in Halves  BY DEF Halves
  <2>. QED  BY <1>1, <2>1, <2>2, Peeled
<1>10. x[1] = y[1]  BY <1>1, <1>9, SameBit
<1>11. x1 = y1  BY <1>10 DEF x1, y1
<1>12. x[2] = y[2]
  <2>1. Agree(x1, x[2]) <=> Agree(x1, y[2])
    <3>1. Agree(x1, x[2]) <=> Agree(y1, y[2])  BY <1>8
    <3>. QED  BY <1>11, <3>1, Zenon
  <2>. QED  BY <1>1, <1>3, <2>1, SameBit
<1>13. x2 = y2  BY <1>11, <1>12 DEF x2, y2
<1>14. x[3] = y[3]
  <2>1. Agree(x2, x[3]) <=> Agree(x2, y[3])
    <3>1. Agree(x2, x[3]) <=> Agree(y2, y[3])  BY <1>7
    <3>. QED  BY <1>13, <3>1, Zenon
  <2>. QED  BY <1>1, <1>4, <2>1, SameBit
<1>15. x3 = y3  BY <1>13, <1>14 DEF x3, y3
<1>16. x[4] = y[4]
  <2>1. Agree(x3, x[4]) <=> Agree(x3, y[4])
    <3>1. Agree(x3, x[4]) <=> Agree(y3, y[4])  BY <1>6
    <3>. QED  BY <1>15, <3>1, Zenon
  <2>. QED  BY <1>1, <1>5, <2>1, SameBit
<1>. QED  BY <1>10, <1>12, <1>14, <1>16

-----------------------------------------------------------------------------
(* Byte by byte *)

\* The bits of a byte, the highest one first.
Digit(byte, i) == (byte \div 2^(7 - i)) % 2

LEMMA FourBits ==
    ASSUME NEW n \in 0 .. 15
    PROVE  n = 8 * ((n \div 8) % 2) + 4 * ((n \div 4) % 2) + 2 * ((n \div 2) % 2) + (n % 2)
OBVIOUS

LEMMA Digits ==
    ASSUME NEW x \in Byte
    PROVE  /\ \A i \in 0 .. 7 : Digit(x, i) \in {0, 1}
           /\ x \div 16 = 8 * Digit(x, 0) + 4 * Digit(x, 1) + 2 * Digit(x, 2) + Digit(x, 3)
           /\ x % 16 = 8 * Digit(x, 4) + 4 * Digit(x, 5) + 2 * Digit(x, 6) + Digit(x, 7)
           /\ Digit(x, 0) = ((x \div 16) \div 8) % 2 /\ Digit(x, 1) = ((x \div 16) \div 4) % 2
           /\ Digit(x, 2) = ((x \div 16) \div 2) % 2 /\ Digit(x, 3) = (x \div 16) % 2
           /\ Digit(x, 4) = ((x % 16) \div 8) % 2 /\ Digit(x, 5) = ((x % 16) \div 4) % 2
           /\ Digit(x, 6) = ((x % 16) \div 2) % 2 /\ Digit(x, 7) = (x % 16) % 2
<1>1. x \in Nat /\ x < 256  BY DEF Byte
<1>2. /\ Digit(x, 0) = (x \div 128) % 2 /\ Digit(x, 1) = (x \div 64) % 2
      /\ Digit(x, 2) = (x \div 32) % 2 /\ Digit(x, 3) = (x \div 16) % 2
      /\ Digit(x, 4) = (x \div 8) % 2 /\ Digit(x, 5) = (x \div 4) % 2
      /\ Digit(x, 6) = (x \div 2) % 2 /\ Digit(x, 7) = x % 2
  <2>1. 7 - 0 = 7 /\ 7 - 1 = 6 /\ 7 - 2 = 5 /\ 7 - 3 = 4 /\ 7 - 4 = 3 /\ 7 - 5 = 2 /\ 7 - 6 = 1 /\ 7 - 7 = 0
    OBVIOUS
  <2>2. 2^7 = 128 /\ 2^6 = 64 /\ 2^5 = 32 /\ 2^4 = 16 /\ 2^3 = 8 /\ 2^2 = 4 /\ 2^1 = 2 /\ 2^0 = 1
    OBVIOUS
  <2>3. x \div 1 = x  BY <1>1
  <2>. QED  BY <2>1, <2>2, <2>3 DEF Digit
<1>5. /\ Digit(x, 0) = ((x \div 16) \div 8) % 2 /\ Digit(x, 1) = ((x \div 16) \div 4) % 2
      /\ Digit(x, 2) = ((x \div 16) \div 2) % 2 /\ Digit(x, 3) = (x \div 16) % 2
  BY <1>1, <1>2
<1>6. /\ Digit(x, 4) = ((x % 16) \div 8) % 2 /\ Digit(x, 5) = ((x % 16) \div 4) % 2
      /\ Digit(x, 6) = ((x % 16) \div 2) % 2 /\ Digit(x, 7) = (x % 16) % 2
  BY <1>1, <1>2
<1>3. x \div 16 \in 0 .. 15 /\ x % 16 \in 0 .. 15  BY <1>1
<1>4. /\ x \div 16 = 8 * Digit(x, 0) + 4 * Digit(x, 1) + 2 * Digit(x, 2) + Digit(x, 3)
      /\ x % 16 = 8 * Digit(x, 4) + 4 * Digit(x, 5) + 2 * Digit(x, 6) + Digit(x, 7)
  <2> DEFINE h == x \div 16
             l == x % 16
  <2>1. h \in 0 .. 15 /\ l \in 0 .. 15  BY <1>3
  <2> HIDE DEF h, l
  <2>2. /\ h = 8 * ((h \div 8) % 2) + 4 * ((h \div 4) % 2) + 2 * ((h \div 2) % 2) + (h % 2)
        /\ l = 8 * ((l \div 8) % 2) + 4 * ((l \div 4) % 2) + 2 * ((l \div 2) % 2) + (l % 2)
    BY <2>1, FourBits
  <2>. QED  BY <1>5, <1>6, <2>2 DEF h, l
<1>7. ASSUME NEW i \in 0 .. 7 PROVE Digit(x, i) \in {0, 1}
  <2>1. 2^(7 - i) \in Nat \ {0}
    <3>1. 7 - i \in 0 .. 12  OBVIOUS
    <3>. QED  BY <3>1, Powers DEF Power
  <2>. QED  BY <1>1, <2>1, BitIsBit DEF Digit
<1>. QED  BY <1>4, <1>5, <1>6, <1>7

\* The checksum after each bit of a byte.
IsRounds(r, c, byte) ==
    /\ r \in [Nat -> HalfWord]
    /\ r[0] = c
    /\ \A i \in 0 .. 7 : r[i + 1] = CrcBit(r[i], Digit(byte, i))
    /\ r[8] = CrcByte(c, byte)

LEMMA RoundsExist ==
    ASSUME NEW c \in HalfWord, NEW byte \in Byte
    PROVE  \E r : IsRounds(r, c, byte)
<1> DEFINE bit  == [i \in Nat |-> IF i \in 0 .. 7 THEN Digit(byte, i) ELSE 0]
           next == [x \in HalfWord \X Nat |-> CrcBit(x[1], bit[x[2]])]
<1>1. next \in [HalfWord \X Nat -> HalfWord]
  <2>1. ASSUME NEW d \in HalfWord, NEW i \in Nat PROVE CrcBit(d, bit[i]) \in HalfWord
    <3>1. bit[i] \in {0, 1}
      <4>1. \A k \in 0 .. 7 : Digit(byte, k) \in {0, 1}  BY Digits
      <4>. QED  BY <4>1
    <3> HIDE DEF bit
    <3>. QED  BY <3>1, CrcBitFacts
  <2> HIDE DEF bit
  <2>. QED  BY <2>1
<1>2. PICK r \in [Nat -> HalfWord] : Iterates(r, c, next)
  <2> HIDE DEF next
  <2>. QED  BY <1>1, Recursion
<1>3. r[0] = c /\ \A i \in Nat : r[i + 1] = CrcBit(r[i], bit[i])  BY <1>2 DEF Iterates
<1>4. ASSUME NEW i \in 0 .. 7 PROVE r[i + 1] = CrcBit(r[i], Digit(byte, i))
  <2>1. i \in Nat /\ bit[i] = Digit(byte, i)  OBVIOUS
  <2> HIDE DEF bit
  <2>. QED  BY <1>3, <2>1
<1> HIDE DEF bit, next
<1> DEFINE IsAfter(f) == f = [i \in 0 .. 8 |-> IF i = 0 THEN c
                                             ELSE CrcBit(f[i - 1], (byte \div 2^(8 - i)) % 2)]
           after == CHOOSE f : IsAfter(f)
           g     == [i \in 0 .. 8 |-> r[i]]
<1>5. CrcByte(c, byte) = after[8]  BY DEF CrcByte
<1>6. ASSUME NEW i \in 1 .. 8 PROVE CrcBit(r[i - 1], (byte \div 2^(8 - i)) % 2) = r[i]
  <2>1. i - 1 \in 0 .. 7 /\ (i - 1) + 1 = i /\ 7 - (i - 1) = 8 - i  OBVIOUS
  <2>2. r[(i - 1) + 1] = CrcBit(r[i - 1], Digit(byte, i - 1))  BY <1>4, <2>1
  <2>. QED  BY <2>1, <2>2 DEF Digit
<1>7. IsAfter(g)
  <2>1. ASSUME NEW i \in 0 .. 8
        PROVE  g[i] = IF i = 0 THEN c ELSE CrcBit(g[i - 1], (byte \div 2^(8 - i)) % 2)
    <3>1. CASE i = 0  BY <1>3, <3>1
    <3>2. CASE i # 0
      <4>1. i \in 1 .. 8 /\ i - 1 \in 0 .. 8  BY <3>2
      <4>2. g[i] = r[i] /\ g[i - 1] = r[i - 1]  BY <4>1
      <4> HIDE DEF g
      <4>. QED  BY <1>6, <3>2, <4>1, <4>2
    <3>. QED  BY <3>1, <3>2
  <2>2. g = [i \in 0 .. 8 |-> g[i]]  OBVIOUS
  <2> HIDE DEF g
  <2>. QED  BY <2>1, <2>2
<1>8. IsAfter(after)
  <2> HIDE DEF IsAfter, g
  <2>. QED  BY <1>7
<1> HIDE DEF after
<1>9. after[0] = c /\ \A i \in 1 .. 8 : after[i] = CrcBit(after[i - 1], (byte \div 2^(8 - i)) % 2)
  <2>1. 0 \in 0 .. 8 /\ \A i \in 1 .. 8 : i \in 0 .. 8 /\ i # 0  OBVIOUS
  <2>. QED  BY <1>8, <2>1
<1> DEFINE good == {i \in Nat : i <= 8 => after[i] = r[i]}
<1>10. 0 \in good  BY <1>3, <1>9
<1>11. ASSUME NEW i \in Nat, i \in good PROVE i + 1 \in good
  <2>1. SUFFICES ASSUME i + 1 <= 8 PROVE after[i + 1] = r[i + 1]  OBVIOUS
  <2>2. after[i] = r[i]  BY <1>11, <2>1
  <2>3. i + 1 \in 1 .. 8 /\ (i + 1) - 1 = i  BY <2>1
  <2>4. after[i + 1] = CrcBit(after[i], (byte \div 2^(8 - (i + 1))) % 2)  BY <1>9, <2>3
  <2>5. CrcBit(r[i], (byte \div 2^(8 - (i + 1))) % 2) = r[i + 1]  BY <1>6, <2>3
  <2>. QED  BY <2>2, <2>4, <2>5
<1>12. after[8] = r[8]
  <2> HIDE DEF good
  <2>1. 8 \in good  BY <1>10, <1>11, Induction
  <2>. QED  BY <2>1 DEF good
<1>. QED  BY <1>3, <1>4, <1>5, <1>12 DEF IsRounds

\* The bits of one byte keep different checksums apart, from any of them on.
LEMMA KeptApart ==
    ASSUME NEW c \in HalfWord, NEW d \in HalfWord, NEW x \in Byte, NEW y \in Byte,
           NEW r, NEW q, IsRounds(r, c, x), IsRounds(q, d, y),
           NEW m \in 0 .. 8, r[m] # q[m], \A i \in 0 .. 7 : i >= m => Digit(x, i) = Digit(y, i)
    PROVE  CrcByte(c, x) # CrcByte(d, y)
<1> DEFINE good == {n \in Nat : m + n <= 8 => r[m + n] # q[m + n]}
<1>1. 0 \in good
  <2>1. m + 0 = m  OBVIOUS
  <2>. QED  BY <2>1
<1>2. ASSUME NEW n \in Nat, n \in good PROVE n + 1 \in good
  <2> DEFINE i == m + n
  <2>1. SUFFICES ASSUME m + (n + 1) <= 8 PROVE r[m + (n + 1)] # q[m + (n + 1)]  OBVIOUS
  <2>2. i \in 0 .. 7 /\ i >= m /\ m + (n + 1) = i + 1 /\ r[i] # q[i] /\ i \in Nat  BY <1>2, <2>1
  <2> HIDE DEF i
  <2>3. /\ r[i + 1] = CrcBit(r[i], Digit(x, i)) /\ r[i] \in HalfWord
        /\ q[i + 1] = CrcBit(q[i], Digit(y, i)) /\ q[i] \in HalfWord
    BY <2>2 DEF IsRounds
  <2>4. Digit(x, i) = Digit(y, i) /\ Digit(x, i) \in {0, 1}  BY <2>2, Digits
  <2>5. CrcBit(r[i], Digit(x, i)) # CrcBit(q[i], Digit(x, i))  BY <2>2, <2>3, <2>4, CrcBitInjective
  <2>6. r[i + 1] # q[i + 1]  BY <2>3, <2>4, <2>5, Zenon
  <2>. QED  BY <2>2, <2>6
<1>3. 8 - m \in good
  <2>1. 8 - m \in Nat  OBVIOUS
  <2> HIDE DEF good
  <2>. QED  BY <1>1, <1>2, <2>1, Induction
<1>4. m + (8 - m) = 8  OBVIOUS
<1>. QED  BY <1>3, <1>4 DEF IsRounds

LEMMA CrcByteInjective ==
    ASSUME NEW c \in HalfWord, NEW d \in HalfWord, NEW x \in Byte, c # d
    PROVE  CrcByte(c, x) # CrcByte(d, x)
<1>1. PICK r : IsRounds(r, c, x)  BY RoundsExist
<1>2. PICK q : IsRounds(q, d, x)  BY RoundsExist
<1>3. 0 \in 0 .. 8 /\ r[0] # q[0]  BY <1>1, <1>2 DEF IsRounds
<1>. QED  BY <1>1, <1>2, <1>3, KeptApart

\* Four rounds of two bytes from one checksum on.
LEMMA HalfByte ==
    ASSUME NEW c \in HalfWord, NEW x \in Byte, NEW y \in Byte,
           NEW r, NEW q, IsRounds(r, c, x), IsRounds(q, c, y), NEW m \in {0, 4}, r[m] = q[m],
           r[m + 4] = q[m + 4]
    PROVE  \A i \in 0 .. 3 : Digit(x, m + i) = Digit(y, m + i)
<1> DEFINE u == [k \in 1 .. 4 |-> Digit(x, m + (k - 1))]
           v == [k \in 1 .. 4 |-> Digit(y, m + (k - 1))]
<1>1. \A k \in 1 .. 4 : m + (k - 1) \in 0 .. 7  OBVIOUS
<1>2. u \in [1 .. 4 -> {0, 1}] /\ v \in [1 .. 4 -> {0, 1}]
  <2>1. \A i \in 0 .. 7 : Digit(x, i) \in {0, 1} /\ Digit(y, i) \in {0, 1}  BY Digits
  <2>. QED  BY <1>1, <2>1
<1>3. \A i \in 0 .. 7 : r[i + 1] = CrcBit(r[i], Digit(x, i)) /\ q[i + 1] = CrcBit(q[i], Digit(y, i))
  BY DEF IsRounds
<1>4. ASSUME NEW k \in 1 .. 4
      PROVE  r[m + k] = CrcBit(r[m + (k - 1)], u[k]) /\ q[m + k] = CrcBit(q[m + (k - 1)], v[k])
  <2> DEFINE i == m + (k - 1)
  <2>1. i \in 0 .. 7 /\ i + 1 = m + k /\ u[k] = Digit(x, i) /\ v[k] = Digit(y, i)  BY <1>1
  <2> HIDE DEF u, v
  <2>2. r[i + 1] = CrcBit(r[i], Digit(x, i)) /\ q[i + 1] = CrcBit(q[i], Digit(y, i))
    <3> HIDE DEF i
    <3>. QED  BY <1>3, <2>1
  <2>. QED  BY <2>1, <2>2
<1>5. \A k \in 1 .. 4 : u[k] = Digit(x, m + (k - 1)) /\ v[k] = Digit(y, m + (k - 1))  OBVIOUS
<1> HIDE DEF u, v
<1>6. r[m] \in HalfWord
  <2>1. m \in Nat  OBVIOUS
  <2>. QED  BY <2>1 DEF IsRounds
<1>7. /\ r[m + 1] = CrcBit(r[m], u[1]) /\ q[m + 1] = CrcBit(q[m], v[1])
      /\ r[m + 2] = CrcBit(r[m + 1], u[2]) /\ q[m + 2] = CrcBit(q[m + 1], v[2])
      /\ r[m + 3] = CrcBit(r[m + 2], u[3]) /\ q[m + 3] = CrcBit(q[m + 2], v[3])
      /\ r[m + 4] = CrcBit(r[m + 3], u[4]) /\ q[m + 4] = CrcBit(q[m + 3], v[4])
  <2>1. m + (1 - 1) = m /\ m + (2 - 1) = m + 1 /\ m + (3 - 1) = m + 2 /\ m + (4 - 1) = m + 3
    OBVIOUS
  <2>2. 1 \in 1 .. 4 /\ 2 \in 1 .. 4 /\ 3 \in 1 .. 4 /\ 4 \in 1 .. 4  OBVIOUS
  <2>. QED  BY <1>4, <2>1, <2>2
<1>8. \A k \in 1 .. 4 : u[k] = v[k]
  <2>1. CrcBit(CrcBit(CrcBit(CrcBit(r[m], u[1]), u[2]), u[3]), u[4])
            = CrcBit(CrcBit(CrcBit(CrcBit(r[m], v[1]), v[2]), v[3]), v[4])
    BY <1>7, Zenon
  <2>. QED  BY <1>2, <1>6, <2>1, FourRounds
<1>9. ASSUME NEW i \in 0 .. 3 PROVE Digit(x, m + i) = Digit(y, m + i)
  <2>1. i + 1 \in 1 .. 4 /\ (i + 1) - 1 = i  OBVIOUS
  <2>. QED  BY <1>5, <1>8, <2>1
<1>. QED  BY <1>9

\* One module of the two that a byte takes is another one.
OneModule(x, y) == x # y /\ (x \div 16 = y \div 16 \/ x % 16 = y % 16)

LEMMA ModuleShows ==
    ASSUME NEW c \in HalfWord, NEW x \in Byte, NEW y \in Byte, OneModule(x, y)
    PROVE  CrcByte(c, x) # CrcByte(c, y)
<1>1. PICK r : IsRounds(r, c, x)  BY RoundsExist
<1>2. PICK q : IsRounds(q, c, y)  BY RoundsExist
<1>3. x \in Nat /\ y \in Nat  BY DEF Byte
<1>4. x \div 16 = y \div 16 /\ x % 16 = y % 16 => x = y  BY <1>3
<1>5. r[0] = q[0]  BY <1>1, <1>2 DEF IsRounds
<1>6. CASE x \div 16 = y \div 16
  <2>1. \A i \in 0 .. 3 : Digit(x, i) = Digit(y, i)
    <3>1. /\ Digit(x, 0) = Digit(y, 0) /\ Digit(x, 1) = Digit(y, 1)
          /\ Digit(x, 2) = Digit(y, 2) /\ Digit(x, 3) = Digit(y, 3)
      BY <1>6, Digits
    <3>. QED  BY <3>1
  <2>2. r[1] = q[1] /\ r[2] = q[2] /\ r[3] = q[3] /\ r[4] = q[4]
    <3>1. \A i \in 0 .. 7 : r[i + 1] = CrcBit(r[i], Digit(x, i)) /\ q[i + 1] = CrcBit(q[i], Digit(y, i))
      BY <1>1, <1>2 DEF IsRounds
    <3>2. ASSUME NEW i \in 0 .. 3, r[i] = q[i] PROVE r[i + 1] = q[i + 1]  BY <2>1, <3>1, <3>2
    <3>3. r[0 + 1] = q[0 + 1]  BY <1>5, <3>2
    <3>4. r[1 + 1] = q[1 + 1]  BY <3>2, <3>3
    <3>5. r[2 + 1] = q[2 + 1]  BY <3>2, <3>4
    <3>6. r[3 + 1] = q[3 + 1]  BY <3>2, <3>5
    <3>. QED  BY <3>3, <3>4, <3>5, <3>6
  <2>3. SUFFICES ASSUME CrcByte(c, x) = CrcByte(c, y) PROVE FALSE  OBVIOUS
  <2>4. r[4 + 4] = q[4 + 4]  BY <1>1, <1>2, <2>3 DEF IsRounds
  <2>5. \A i \in 0 .. 3 : Digit(x, 4 + i) = Digit(y, 4 + i)  BY <1>1, <1>2, <2>2, <2>4, HalfByte
  <2>6. /\ Digit(x, 4) = Digit(y, 4) /\ Digit(x, 5) = Digit(y, 5)
        /\ Digit(x, 6) = Digit(y, 6) /\ Digit(x, 7) = Digit(y, 7)
    <3>1. 4 + 0 = 4 /\ 4 + 1 = 5 /\ 4 + 2 = 6 /\ 4 + 3 = 7  OBVIOUS
    <3>2. 0 \in 0 .. 3 /\ 1 \in 0 .. 3 /\ 2 \in 0 .. 3 /\ 3 \in 0 .. 3  OBVIOUS
    <3>. QED  BY <2>5, <3>1, <3>2
  <2>7. x % 16 = y % 16  BY <2>6, Digits
  <2>. QED  BY <1>4, <1>6, <2>7 DEF OneModule
<1>7. CASE x % 16 = y % 16
  <2>1. r[4] # q[4]
    <3>1. SUFFICES ASSUME r[4] = q[4] PROVE FALSE  OBVIOUS
    <3>2. r[0 + 4] = q[0 + 4]  BY <3>1
    <3>3. \A i \in 0 .. 3 : Digit(x, 0 + i) = Digit(y, 0 + i)  BY <1>1, <1>2, <1>5, <3>2, HalfByte
    <3>4. /\ Digit(x, 0) = Digit(y, 0) /\ Digit(x, 1) = Digit(y, 1)
          /\ Digit(x, 2) = Digit(y, 2) /\ Digit(x, 3) = Digit(y, 3)
      <4>1. 0 + 0 = 0 /\ 0 + 1 = 1 /\ 0 + 2 = 2 /\ 0 + 3 = 3  OBVIOUS
      <4>2. 0 \in 0 .. 3 /\ 1 \in 0 .. 3 /\ 2 \in 0 .. 3 /\ 3 \in 0 .. 3  OBVIOUS
      <4>. QED  BY <3>3, <4>1, <4>2
    <3>5. x \div 16 = y \div 16  BY <3>4, Digits
    <3>. QED  BY <1>4, <1>7, <3>5 DEF OneModule
  <2>2. \A i \in 0 .. 7 : i >= 4 => Digit(x, i) = Digit(y, i)
    <3>1. /\ Digit(x, 4) = Digit(y, 4) /\ Digit(x, 5) = Digit(y, 5)
          /\ Digit(x, 6) = Digit(y, 6) /\ Digit(x, 7) = Digit(y, 7)
      BY <1>7, Digits
    <3>. QED  BY <3>1
  <2>3. 4 \in 0 .. 8  OBVIOUS
  <2>. QED  BY <1>1, <1>2, <2>1, <2>2, <2>3, KeptApart
<1>. QED  BY <1>6, <1>7 DEF OneModule

\* Named, because the solvers are slow with large numbers.
StartCrc == 65535

LEMMA StartType == StartCrc \in HalfWord
<1>1. 65535 \in Nat /\ 65535 < 65536  OBVIOUS
<1>. QED  BY <1>1, HalfWords DEF StartCrc

\* The checksum after each byte.
IsSums(r, bytes) ==
    /\ r \in [Nat -> HalfWord]
    /\ r[0] = StartCrc
    /\ \A k \in 1 .. Len(bytes) : r[k] = CrcByte(r[k - 1], bytes[k])
    /\ r[Len(bytes)] = Crc16(bytes)

LEMMA CrcByteType == ASSUME NEW c \in HalfWord, NEW byte \in Byte PROVE CrcByte(c, byte) \in HalfWord
<1>1. PICK r : IsRounds(r, c, byte)  BY RoundsExist
<1>2. 8 \in Nat  OBVIOUS
<1>. QED  BY <1>1, <1>2 DEF IsRounds

LEMMA SumsExist ==
    ASSUME NEW bytes \in Seq(Byte)
    PROVE  \E r : IsSums(r, bytes)
<1> DEFINE n    == Len(bytes)
           byte == [i \in Nat |-> IF i < n THEN bytes[i + 1] ELSE 0]
           next == [x \in HalfWord \X Nat |-> CrcByte(x[1], byte[x[2]])]
<1>1. n \in Nat /\ StartCrc \in HalfWord  BY StartType
<1>2. ASSUME NEW i \in Nat PROVE byte[i] \in Byte
  <2>1. 0 \in Byte  BY DEF Byte
  <2>2. i < n => i + 1 \in 1 .. n  BY <1>1
  <2>. QED  BY <2>1, <2>2
<1>3. ASSUME NEW k \in 1 .. n PROVE bytes[k] \in Byte /\ byte[k - 1] = bytes[k] /\ k - 1 \in Nat
  <2>1. k - 1 \in Nat /\ k - 1 < n /\ (k - 1) + 1 = k  BY <1>1
  <2>. QED  BY <2>1
<1> HIDE DEF n, byte
<1>4. next \in [HalfWord \X Nat -> HalfWord]
  <2>1. ASSUME NEW d \in HalfWord, NEW i \in Nat PROVE CrcByte(d, byte[i]) \in HalfWord
    BY <1>2, CrcByteType
  <2>. QED  BY <2>1
<1>5. PICK r \in [Nat -> HalfWord] : Iterates(r, StartCrc, next)
  <2> HIDE DEF next
  <2>. QED  BY <1>1, <1>4, Recursion
<1>6. r[0] = StartCrc /\ \A i \in Nat : r[i + 1] = CrcByte(r[i], byte[i])  BY <1>5 DEF Iterates
<1>7. ASSUME NEW k \in 1 .. n PROVE r[k] = CrcByte(r[k - 1], bytes[k])
  <2>1. (k - 1) + 1 = k /\ k - 1 \in Nat  BY <1>1
  <2>2. r[(k - 1) + 1] = CrcByte(r[k - 1], byte[k - 1])  BY <1>6, <2>1
  <2>. QED  BY <1>3, <2>1, <2>2
<1> HIDE DEF next
<1> DEFINE Next16 == [p \in HalfWord \X Byte |-> CrcByte(p[1], p[2])]
           IsCrc(f) == f = [k \in 0 .. Len(bytes) |-> IF k = 0 THEN StartCrc ELSE Next16[f[k - 1], bytes[k]]]
           crc == CHOOSE f : IsCrc(f)
           g   == [k \in 0 .. Len(bytes) |-> r[k]]
<1>8. Crc16(bytes) = crc[Len(bytes)]  BY DEF Crc16, StartCrc
<1>9. ASSUME NEW c \in HalfWord, NEW k \in 1 .. n PROVE Next16[c, bytes[k]] = CrcByte(c, bytes[k])
  BY <1>3
<1> HIDE DEF Next16
<1>10. IsCrc(g)
  <2>1. ASSUME NEW k \in 0 .. Len(bytes)
        PROVE  g[k] = IF k = 0 THEN StartCrc ELSE Next16[g[k - 1], bytes[k]]
    <3>1. CASE k = 0  BY <1>6, <3>1
    <3>2. CASE k # 0
      <4>1. k \in 1 .. n /\ k - 1 \in 0 .. Len(bytes) /\ k - 1 \in Nat  BY <1>1, <3>2 DEF n
      <4>2. g[k] = r[k] /\ g[k - 1] = r[k - 1] /\ r[k - 1] \in HalfWord  BY <4>1
      <4> HIDE DEF g
      <4>3. Next16[g[k - 1], bytes[k]] = CrcByte(r[k - 1], bytes[k])  BY <1>9, <4>1, <4>2
      <4>. QED  BY <1>7, <3>2, <4>1, <4>2, <4>3
    <3>. QED  BY <3>1, <3>2
  <2>2. g = [k \in 0 .. Len(bytes) |-> g[k]]  OBVIOUS
  <2> HIDE DEF g
  <2>. QED  BY <2>1, <2>2
<1>11. IsCrc(crc)
  <2> HIDE DEF IsCrc, g
  <2>. QED  BY <1>10
<1> HIDE DEF crc
<1>12. crc[0] = StartCrc /\ \A k \in 1 .. n : crc[k] = Next16[crc[k - 1], bytes[k]]
  <2>1. 0 \in 0 .. Len(bytes) /\ \A k \in 1 .. n : k \in 0 .. Len(bytes) /\ k # 0  BY <1>1 DEF n
  <2>. QED  BY <1>11, <2>1
<1> DEFINE good == {k \in Nat : k <= n => crc[k] = r[k]}
<1>13. 0 \in good  BY <1>6, <1>12
<1>14. ASSUME NEW k \in Nat, k \in good PROVE k + 1 \in good
  <2>1. SUFFICES ASSUME k + 1 <= n PROVE crc[k + 1] = r[k + 1]  OBVIOUS
  <2>2. crc[k] = r[k] /\ r[k] \in HalfWord  BY <1>1, <1>14, <2>1
  <2>3. k + 1 \in 1 .. n /\ (k + 1) - 1 = k  BY <1>1, <2>1
  <2>4. crc[k + 1] = Next16[crc[k], bytes[k + 1]]  BY <1>12, <2>3
  <2>5. Next16[r[k], bytes[k + 1]] = CrcByte(r[k], bytes[k + 1])  BY <1>9, <2>2, <2>3
  <2>6. r[k + 1] = CrcByte(r[k], bytes[k + 1])  BY <1>7, <2>3
  <2>. QED  BY <2>2, <2>4, <2>5, <2>6
<1>15. crc[n] = r[n]
  <2> HIDE DEF good
  <2>1. n \in good  BY <1>1, <1>13, <1>14, Induction
  <2>. QED  BY <1>1, <2>1 DEF good
<1>. QED  BY <1>6, <1>7, <1>8, <1>15 DEF IsSums, n

LEMMA CrcType == ASSUME NEW bytes \in Seq(Byte) PROVE Crc16(bytes) \in HalfWord
<1>1. PICK r : IsSums(r, bytes)  BY SumsExist
<1>2. Len(bytes) \in Nat  OBVIOUS
<1>. QED  BY <1>1, <1>2 DEF IsSums

\* One misread module changes the checksum of any bytes.
THEOREM ChecksumShowsModule ==
    ASSUME NEW x \in Seq(Byte), NEW y \in Seq(Byte), Len(x) = Len(y), NEW p \in 1 .. Len(x),
           OneModule(x[p], y[p]), \A k \in 1 .. Len(x) : k # p => x[k] = y[k]
    PROVE  Crc16(x) # Crc16(y)
<1> DEFINE n == Len(x)
<1>1. PICK r : IsSums(r, x)  BY SumsExist
<1>2. PICK q : IsSums(q, y)  BY SumsExist
<1>3. n \in Nat /\ Len(y) = n /\ \A k \in 1 .. n : x[k] \in Byte /\ y[k] \in Byte
  <2>1. Len(y) = n /\ n \in Nat  OBVIOUS
  <2>2. \A k \in 1 .. n : x[k] \in Byte  OBVIOUS
  <2>3. \A k \in 1 .. n : y[k] \in Byte  OBVIOUS
  <2>. QED  BY <2>1, <2>2, <2>3
<1>4. p \in 1 .. n /\ \A k \in 1 .. n : k # p => x[k] = y[k]  OBVIOUS
<1>5. /\ r \in [Nat -> HalfWord] /\ r[0] = StartCrc /\ r[n] = Crc16(x)
      /\ \A k \in 1 .. n : r[k] = CrcByte(r[k - 1], x[k])
      /\ q \in [Nat -> HalfWord] /\ q[0] = StartCrc /\ q[n] = Crc16(y)
      /\ \A k \in 1 .. n : q[k] = CrcByte(q[k - 1], y[k])
  BY <1>1, <1>2, <1>3, Zenon DEF IsSums
<1> HIDE DEF n
<1> DEFINE good == {k \in Nat : k <= n => (r[k] = q[k] <=> k < p)}
<1>6. 0 \in good  BY <1>3, <1>4, <1>5
<1>7. ASSUME NEW k \in Nat, k \in good PROVE k + 1 \in good
  <2> DEFINE j == k + 1
  <2>1. SUFFICES ASSUME j <= n PROVE r[j] = q[j] <=> j < p  OBVIOUS
  <2>2. r[k] = q[k] <=> k < p  BY <1>3, <1>7, <2>1
  <2>3. j \in 1 .. n /\ j - 1 = k /\ r[k] \in HalfWord /\ q[k] \in HalfWord  BY <1>3, <1>5, <2>1
  <2> HIDE DEF j
  <2>4. r[j] = CrcByte(r[k], x[j]) /\ q[j] = CrcByte(q[k], y[j]) /\ x[j] \in Byte /\ y[j] \in Byte
    BY <1>3, <1>5, <2>3
  <2>5. CASE j < p
    <3>1. k < p /\ j # p  BY <1>4, <2>3, <2>5
    <3>2. x[j] = y[j]  BY <1>4, <2>3, <3>1
    <3>. QED  BY <2>2, <2>4, <2>5, <3>1, <3>2
  <2>6. CASE j = p
    <3>1. k < p /\ ~ (j < p)  BY <1>4, <2>3, <2>6
    <3>2. OneModule(x[j], y[j])  BY <2>6
    <3>3. CrcByte(r[k], x[j]) # CrcByte(r[k], y[j])  BY <2>3, <2>4, <3>2, ModuleShows
    <3>. QED  BY <2>2, <2>4, <3>1, <3>3
  <2>7. CASE j > p
    <3>1. ~ (k < p) /\ j # p /\ ~ (j < p)  BY <1>4, <2>3, <2>7
    <3>2. x[j] = y[j]  BY <1>4, <2>3, <3>1
    <3>3. CrcByte(r[k], x[j]) # CrcByte(q[k], x[j])  BY <2>2, <2>3, <2>4, <3>1, CrcByteInjective
    <3>. QED  BY <2>4, <3>1, <3>2, <3>3
  <2>8. j < p \/ j = p \/ j > p  BY <1>4, <2>3
  <2>. QED  BY <2>5, <2>6, <2>7, <2>8
<1>8. n \in good
  <2> HIDE DEF good
  <2>. QED  BY <1>3, <1>6, <1>7, Induction
<1>9. r[n] # q[n]  BY <1>3, <1>4, <1>8
<1>. QED  BY <1>5, <1>9

-----------------------------------------------------------------------------
(* Frames that are misread *)

\* A piece of the bytes.
LEMMA Bitten ==
    ASSUME NEW size \in Nat, NEW s, Holds(s, size), NEW m \in Nat, NEW n \in Nat, m + n <= size
    PROVE  /\ Holds(SubSeq(s, m + 1, m + n), n)
           /\ \A k \in 1 .. n : SubSeq(s, m + 1, m + n)[k] = s[m + k]
<1>1. s \in Seq(Byte) /\ Len(s) = size  BY DEF Holds
<1>2. m + 1 \in 1 .. size + 1 /\ m + n \in m .. size  OBVIOUS
<1>. QED  BY <1>1, <1>2 DEF Holds

\* Bytes are equal when each one is.
LEMMA Alike ==
    ASSUME NEW n \in Nat, NEW a, NEW b, Holds(a, n), Holds(b, n), \A k \in 1 .. n : a[k] = b[k]
    PROVE  a = b
<1>1. a \in Seq(Byte) /\ b \in Seq(Byte) /\ Len(a) = n /\ Len(b) = n  BY DEF Holds
<1>2. a = [k \in 1 .. n |-> a[k]] /\ b = [k \in 1 .. n |-> b[k]]  BY <1>1
<1>. QED  BY <1>2

LEMMA WordHolds ==
    ASSUME NEW x \in HalfWord, NEW y \in HalfWord
    PROVE  Holds(Word(x), 2) /\ (Word(x) = Word(y) => x = y)
<1>1. /\ x \div 256 \in Byte /\ x % 256 \in Byte /\ (x \div 256) * 256 + (x % 256) = x
      /\ y \div 256 \in Byte /\ y % 256 \in Byte /\ (y \div 256) * 256 + (y % 256) = y
  BY WordFacts
<1> DEFINE a == x \div 256
           b == x % 256
           c == y \div 256
           d == y % 256
<1>2. Word(x) = <<a, b>> /\ Word(y) = <<c, d>>  BY DEF Word
<1>3. a \in Byte /\ b \in Byte /\ a * 256 + b = x /\ c * 256 + d = y  BY <1>1
<1> HIDE DEF a, b, c, d
<1>4. Holds(<<a, b>>, 2)  BY <1>3, Fields
<1>5. <<a, b>> = <<c, d>> => a = c /\ b = d  OBVIOUS
<1>. QED  BY <1>2, <1>3, <1>4, <1>5

\* A frame with its checksum is bytes, too.
LEMMA SealedBytes ==
    ASSUME NEW n \in Nat, NEW body, Holds(body, n)
    PROVE  Crc16(body) \in HalfWord /\ Follows(Sealed(body), body, n, Word(Crc16(body)), 2)
<1>1. Crc16(body) \in HalfWord  BY CrcType DEF Holds
<1>2. Holds(Word(Crc16(body)), 2)  BY <1>1, WordHolds
<1>. QED  BY <1>1, <1>2, Field DEF Sealed

\* One module of a frame of so many bytes is misread.
OneMisread(data, r, n) ==
    /\ Holds(r, n)
    /\ \E p \in 1 .. n : OneModule(data[p], r[p]) /\ \A k \in 1 .. n : k # p => data[k] = r[k]

\* The checksum does not fit a frame that is misread, wherever the module is.
LEMMA DamagedSeal ==
    ASSUME NEW n \in Nat, NEW body, Holds(body, n), NEW r, OneMisread(Sealed(body), r, n + 2)
    PROVE  Word(Crc16(SubSeq(r, 1, n))) # SubSeq(r, n + 1, n + 2)
<1> DEFINE data == Sealed(body)
           word == Word(Crc16(body))
           rest == SubSeq(r, 1, n)
           seal == SubSeq(r, n + 1, n + 2)
<1>1. Crc16(body) \in HalfWord /\ Follows(data, body, n, word, 2)  BY SealedBytes
<1>2. /\ Holds(data, n + 2)
      /\ \A k \in 1 .. n : data[k] = body[k]
      /\ \A k \in 1 .. 2 : data[n + k] = word[k]
  BY <1>1 DEF Follows
<1>3. Holds(r, n + 2)  BY DEF OneMisread
<1>4. PICK p \in 1 .. n + 2 :
          OneModule(data[p], r[p]) /\ \A k \in 1 .. n + 2 : k # p => data[k] = r[k]
  BY DEF OneMisread
<1> HIDE DEF data
<1>5. Holds(rest, n) /\ \A k \in 1 .. n : rest[k] = r[k]
  <2>1. n + 2 \in Nat /\ 0 \in Nat /\ 0 + n <= n + 2  OBVIOUS
  <2>2. /\ Holds(SubSeq(r, 0 + 1, 0 + n), n)
        /\ \A k \in 1 .. n : SubSeq(r, 0 + 1, 0 + n)[k] = r[0 + k]
    BY <1>3, <2>1, Bitten
  <2>3. 0 + 1 = 1 /\ 0 + n = n /\ \A k \in 1 .. n : 0 + k = k  OBVIOUS
  <2>. QED  BY <2>2, <2>3
<1>6. Holds(seal, 2) /\ \A k \in 1 .. 2 : seal[k] = r[n + k]
  <2>1. n + 2 \in Nat /\ 2 \in Nat /\ n + 2 <= n + 2  OBVIOUS
  <2>. QED  BY <1>3, <2>1, Bitten
<1>7. Crc16(rest) \in HalfWord  BY <1>5, CrcType DEF Holds
<1>8. Holds(word, 2)  BY <1>1, WordHolds
<1> HIDE DEF word, rest, seal
<1>9. CASE p \in 1 .. n
  <2>1. OneModule(body[p], rest[p]) /\ \A k \in 1 .. n : k # p => body[k] = rest[k]
    <3>1. data[p] = body[p] /\ rest[p] = r[p]  BY <1>2, <1>5, <1>9
    <3>2. \A k \in 1 .. n : k \in 1 .. n + 2  OBVIOUS
    <3>3. \A k \in 1 .. n : k # p => body[k] = rest[k]  BY <1>2, <1>4, <1>5, <3>2
    <3>4. OneModule(data[p], r[p])  BY <1>4
    <3>. QED  BY <3>1, <3>3, <3>4, Zenon
  <2>2. Crc16(body) # Crc16(rest)
    <3>1. body \in Seq(Byte) /\ rest \in Seq(Byte) /\ Len(body) = n /\ Len(rest) = n
      BY <1>5 DEF Holds
    <3>. QED  BY <1>9, <2>1, <3>1, ChecksumShowsModule
  <2>3. word = seal
    <3>1. \A k \in 1 .. 2 : n + k \in 1 .. n + 2 /\ n + k # p  BY <1>9
    <3>2. \A k \in 1 .. 2 : word[k] = seal[k]  BY <1>2, <1>4, <1>6, <3>1
    <3>3. 2 \in Nat  OBVIOUS
    <3>. QED  BY <1>6, <1>8, <3>2, <3>3, Alike
  <2>4. Word(Crc16(rest)) # word
    <3>1. Word(Crc16(rest)) = Word(Crc16(body)) => Crc16(rest) = Crc16(body)
      BY <1>1, <1>7, WordHolds
    <3>. QED  BY <2>2, <3>1 DEF word
  <2>. QED  BY <2>3, <2>4 DEF rest, seal
<1>10. CASE p \notin 1 .. n
  <2>1. rest = body
    <3>1. \A k \in 1 .. n : k \in 1 .. n + 2 /\ k # p  BY <1>10
    <3>2. \A k \in 1 .. n : rest[k] = body[k]  BY <1>2, <1>4, <1>5, <3>1
    <3>. QED  BY <1>5, <3>2, Alike
  <2>2. PICK k \in 1 .. 2 : p = n + k
    <3>1. p = n + 1 \/ p = n + 2  BY <1>10
    <3>2. 1 \in 1 .. 2 /\ 2 \in 1 .. 2  OBVIOUS
    <3>. QED  BY <3>1, <3>2
  <2>3. word[k] # seal[k]
    <3>1. data[p] # r[p]  BY <1>4 DEF OneModule
    <3>. QED  BY <1>2, <1>6, <2>2, <3>1
  <2>4. word # seal  BY <2>3
  <2>. QED  BY <2>1, <2>4 DEF rest, seal, word
<1>. QED  BY <1>9, <1>10

\* What is sent of a frame.
LEMMA HandshakeSealed ==
    ASSUME NEW h \in HandshakeFrame
    PROVE  /\ FrameBytes(h) = Sealed(HandshakeBody(h)) /\ Holds(HandshakeBody(h), 50)
           /\ h.type \in {0, 1, 2} /\ IsHandshakeType(h.type)
<1>1. h.type \in {0, 1, 2}  BY DEF HandshakeFrame, SYN, SYN_ACK, ACK
<1>2. IsHandshakeType(h.type)  BY <1>1 DEF IsHandshakeType, SYN, SYN_ACK, ACK
<1>3. FrameBytes(h) = Sealed(HandshakeBody(h))
  BY <1>2 DEF FrameBytes, HandshakeBytes, HandshakeBody
<1>4. Holds(HandshakeBody(h), 50)  BY HandshakeLayout
<1>. QED  BY <1>1, <1>2, <1>3, <1>4

LEMMA DataSealed ==
    ASSUME NEW f \in DataFrame
    PROVE  LET n == Len(f.payload) IN
           /\ FrameBytes(f) = Sealed(DataBody(f)) /\ Holds(DataBody(f), 16 + n)
           /\ FrameBytes(f)[16] = n
           /\ f.type \in {3, 4, 5, 6} /\ ~ IsHandshakeType(f.type) /\ n \in 0 .. 112
<1> DEFINE n    == Len(f.payload)
           body == DataBody(f)
           data == FrameBytes(f)
<1>1. f.type \in {3, 4, 5, 6} /\ n \in 0 .. 112  BY DataFacts
<1>2. ~ IsHandshakeType(f.type)  BY <1>1 DEF IsHandshakeType, SYN, SYN_ACK, ACK
<1>3. data = Sealed(body)  BY <1>2 DEF FrameBytes, DataBytes, DataBody
<1>4. Holds(body, 16 + n) /\ body[16] = n  BY DataLayout
<1> HIDE DEF n, body, data
<1>5. data[16] = body[16]
  <2>1. 16 + n \in Nat /\ 16 \in 1 .. 16 + n  BY <1>1
  <2>2. Follows(Sealed(body), body, 16 + n, Word(Crc16(body)), 2)  BY <1>4, <2>1, SealedBytes
  <2>3. \A k \in 1 .. 16 + n : Sealed(body)[k] = body[k]  BY <2>2 DEF Follows
  <2>. QED  BY <1>3, <2>1, <2>3
<1>. QED  BY <1>1, <1>2, <1>3, <1>4, <1>5 DEF n, body, data

\* A handshake frame with a misread module is dropped.
LEMMA HandshakeMisread ==
    ASSUME NEW h \in HandshakeFrame, NEW r, OneMisread(FrameBytes(h), r, 52),
           ~ (r[1] % 16 = DATA /\ IsData(r))
    PROVE  Stored(r) = Nothing
<1>1. Word(Crc16(SubSeq(r, 1, 50))) # SubSeq(r, 51, 52)
  <2>1. 50 \in Nat /\ 50 + 1 = 51 /\ 50 + 2 = 52  OBVIOUS
  <2>2. OneMisread(Sealed(HandshakeBody(h)), r, 50 + 2) /\ Holds(HandshakeBody(h), 50)
    BY <2>1, HandshakeSealed
  <2>3. Word(Crc16(SubSeq(r, 1, 50))) # SubSeq(r, 50 + 1, 50 + 2)  BY <2>1, <2>2, DamagedSeal
  <2>. QED  BY <2>1, <2>3
<1>2. Len(r) = 52  BY DEF OneMisread, Holds
<1>3. Len(r) - 2 = 50 /\ Len(r) - 1 = 51  BY <1>2
<1>4. ~ IsHandshake(r)  BY <1>1, <1>2, <1>3, Zenon DEF IsHandshake
<1>. QED  BY <1>4, Zenon DEF Stored

\* So is a data frame, unless it says that it ends earlier and its checksum agrees.
LEMMA DataMisread ==
    ASSUME NEW f \in DataFrame, NEW r, OneMisread(FrameBytes(f), r, 18 + Len(f.payload)),
           ~ (r[16] < FrameBytes(f)[16] /\ IsData(r))
    PROVE  Stored(r) = Nothing
<1> DEFINE n    == Len(f.payload)
           body == DataBody(f)
<1>1. /\ FrameBytes(f) = Sealed(body) /\ Holds(body, 16 + n) /\ FrameBytes(f)[16] = n
      /\ n \in 0 .. 112
  BY DataSealed
<1>2. OneMisread(Sealed(body), r, 18 + n)  BY <1>1
<1>2a. ~ (r[16] < n /\ IsData(r))  BY <1>1
<1> HIDE DEF n, body
<1> DEFINE size == 16 + n
<1>3. size \in Nat /\ size + 2 = 18 + n /\ size >= 16  BY <1>1
<1>4. Word(Crc16(SubSeq(r, 1, size))) # SubSeq(r, size + 1, size + 2)
  <2> HIDE DEF size
  <2>1. Holds(body, size) /\ OneMisread(Sealed(body), r, size + 2)  BY <1>1, <1>2, <1>3 DEF size
  <2>. QED  BY <1>3, <2>1, DamagedSeal
<1>5. r \in Seq(Byte) /\ Len(r) = size + 2  BY <1>2, <1>3 DEF OneMisread, Holds
<1>6. ~ IsHandshake(r)
  <2>1. Len(r) - 2 = size /\ Len(r) - 1 = size + 1  BY <1>3, <1>5
  <2> HIDE DEF size
  <2>. QED  BY <1>4, <1>5, <2>1, Zenon DEF IsHandshake
<1>7. ~ IsData(r)
  <2> SUFFICES ASSUME IsData(r) PROVE FALSE  OBVIOUS
  <2> DEFINE said == r[16]
             end  == DATAFRAME_HEADER_SIZE + said
             all  == Len(r)
  <2>1. said \in 0 .. 255
    <3>1. 16 \in 1 .. Len(r)  BY <1>3, <1>5
    <3>2. \A k \in 1 .. Len(r) : r[k] \in Byte  BY <1>5
    <3>. QED  BY <3>1, <3>2 DEF Byte
  <2>2. all >= end + 2 /\ Word(Crc16(SubSeq(r, 1, end))) = SubSeq(r, end + 1, end + 2)
    BY DEF IsData
  <2>3. end = 16 + said  BY DEF DATAFRAME_HEADER_SIZE
  <2>4. ~ (said < n)  BY <1>2a
  <2>5. all = size + 2  BY <1>5
  <2> HIDE DEF said, end, all
  <2>6. end = size  BY <1>1, <2>1, <2>2, <2>3, <2>4, <2>5
  <2> HIDE DEF end, size
  <2>. QED  BY <1>4, <2>2, <2>6, Zenon
<1>. QED  BY <1>6, <1>7, Zenon DEF Stored

\* Of a frame so many bytes are read, be it fewer or more than were drawn.
CutOrPadded(data, r, m) == Holds(r, m) /\ \A k \in 1 .. m : k <= Len(data) => r[k] = data[k]

\* Then a handshake frame is read as it was sent or dropped.
LEMMA HandshakeCut ==
    ASSUME NEW h \in HandshakeFrame, NEW m \in Nat, NEW r, CutOrPadded(FrameBytes(h), r, m)
    PROVE  Stored(r) \in {Entry(h), Nothing}
<1> DEFINE body == HandshakeBody(h)
           data == FrameBytes(h)
<1>1. Holds(data, 52) /\ \A k \in 1 .. 50 : data[k] = body[k]
  <2>1. 50 \in Nat /\ 50 + 2 = 52  OBVIOUS
  <2>2. data = Sealed(body) /\ Holds(body, 50)  BY HandshakeSealed
  <2> HIDE DEF data, body
  <2>3. Follows(Sealed(body), body, 50, Word(Crc16(body)), 2)  BY <2>1, <2>2, SealedBytes
  <2>. QED  BY <2>1, <2>2, <2>3 DEF Follows
<1>2. Holds(r, m) /\ \A k \in 1 .. m : k <= 52 => r[k] = data[k]
  BY <1>1 DEF CutOrPadded, Holds
<1> HIDE DEF data
<1>3. ASSUME m >= 21 PROVE r[1] % 16 = h.type /\ ToHandshake(r) = h
  <2>1. \A k \in 1 .. 21 : k \in 1 .. m /\ k <= 52 /\ k \in 1 .. 50  BY <1>3
  <2>2. Begins(r, body, 21)  BY <1>1, <1>2, <2>1 DEF Begins
  <2>3. HasLength(r, m)  BY <1>2 DEF Holds, HasLength
  <2>. QED  BY <1>3, <2>2, <2>3, HandshakeRead
<1>4. Len(r) = m  BY <1>2 DEF Holds
<1>5. IsHandshake(r) => m >= 21
  <2>1. IsHandshake(r) => Len(r) >= 52  BY DEF IsHandshake, HANDSHAKE_SIZE
  <2>. QED  BY <1>4, <2>1
<1>6. IsHandshake(r) => Stored(r) = Entry(h)
  <2>1. IsHandshakeType(h.type)  BY HandshakeSealed
  <2>. QED  BY <1>3, <1>5, <2>1, Zenon DEF Stored
<1>7. ~ (IsData(r) /\ r[1] % 16 = DATA)
  <2> SUFFICES ASSUME IsData(r) PROVE r[1] % 16 # DATA  OBVIOUS
  <2>1. m >= 18  BY <1>4 DEF IsData, DATAFRAME_HEADER_SIZE
  <2>2. r[1] = 16 + h.type
    <3>1. body[1] = 16 + h.type  BY HandshakeLayout
    <3>2. 1 \in 1 .. m /\ 1 <= 52 /\ 1 \in 1 .. 50  BY <2>1
    <3>. QED  BY <1>1, <1>2, <3>1, <3>2
  <2>3. h.type \in {0, 1, 2}  BY HandshakeSealed
  <2>. QED  BY <2>2, <2>3 DEF DATA
<1>8. ~ IsHandshake(r) => Stored(r) = Nothing  BY <1>7, Zenon DEF Stored
<1>. QED  BY <1>6, <1>8

\* So is a data frame.
LEMMA DataCut ==
    ASSUME NEW f \in DataFrame, NEW m \in Nat, NEW r, CutOrPadded(FrameBytes(f), r, m)
    PROVE  Stored(r) \in {Entry(f), Nothing}
<1> DEFINE n    == Len(f.payload)
           size == 16 + n
           body == DataBody(f)
           data == FrameBytes(f)
<1>1. n \in Nat /\ size \in Nat /\ size = 16 + n
  <2>1. n \in 0 .. 112  BY DataSealed
  <2>. QED  BY <2>1
<1>1a. data = Sealed(body) /\ Holds(body, size) /\ body[1] = 16 + f.type /\ body[16] = n
  BY DataSealed, DataLayout
<1> HIDE DEF data, body, n, size
<1>2. Holds(data, size + 2) /\ \A k \in 1 .. size : data[k] = body[k]
  <2>1. Follows(Sealed(body), body, size, Word(Crc16(body)), 2)  BY <1>1, <1>1a, SealedBytes
  <2>. QED  BY <1>1a, <2>1 DEF Follows
<1>3. Holds(r, m) /\ \A k \in 1 .. m : k <= size + 2 => r[k] = data[k]
  BY <1>2 DEF CutOrPadded, Holds, data
<1>4. Len(r) = m  BY <1>3 DEF Holds
<1>5. \A k \in 1 .. m : k <= size => r[k] = body[k]
  <2> SUFFICES ASSUME NEW k \in 1 .. m, k <= size PROVE r[k] = body[k]  OBVIOUS
  <2>1. k \in 1 .. size /\ k <= size + 2  BY <1>1
  <2>. QED  BY <1>2, <1>3, <2>1
<1>6. f.type \in {3, 4, 5, 6} /\ ~ IsHandshakeType(f.type)  BY DataSealed
<1>7. ASSUME m >= 18 PROVE r[1] % 16 = f.type /\ r[16] = n
  <2>1. 1 \in 1 .. m /\ 16 \in 1 .. m /\ 1 <= size /\ 16 <= size  BY <1>1, <1>7
  <2>2. r[1] = 16 + f.type /\ r[16] = n  BY <1>1a, <1>5, <2>1
  <2>. QED  BY <1>6, <2>2
<1>8. IsHandshake(r) => Stored(r) = Nothing
  <2>1. IsHandshake(r) => Len(r) >= 52  BY DEF IsHandshake, HANDSHAKE_SIZE
  <2>2. IsHandshake(r) => m >= 18  BY <1>4, <2>1
  <2>. QED  BY <1>6, <1>7, <2>2, Zenon DEF Stored
<1>9. ASSUME IsData(r) PROVE r[1] % 16 = f.type /\ ToData(r) = f
  <2>1. Len(r) >= 18 /\ Len(r) >= 16 + r[16] + 2  BY <1>9 DEF IsData, DATAFRAME_HEADER_SIZE
  <2>2. m >= 18  BY <1>4, <2>1
  <2>3. r[16] = n  BY <1>7, <2>2
  <2>4. m >= size  BY <1>1, <1>4, <2>1, <2>3
  <2>5. Begins(r, body, size)
    <3>1. \A k \in 1 .. size : k \in 1 .. m /\ k <= size  BY <1>1, <2>4
    <3>. QED  BY <1>5, <3>1 DEF Begins
  <2>6. HasLength(r, m)  BY <1>3 DEF Holds, HasLength
  <2>7. ToData(r) = f
    <3>1. m >= 16 + Len(f.payload) /\ Begins(r, DataBody(f), 16 + Len(f.payload))
      BY <2>4, <2>5 DEF size, n, body
    <3>. QED  BY <2>6, <3>1, DataRead
  <2>. QED  BY <1>7, <2>2, <2>7
<1>10. ~ IsHandshake(r) => Stored(r) \in {Entry(f), Nothing}
  <2>1. CASE IsData(r) /\ r[1] % 16 = DATA
    <3>1. ToData(r) = f  BY <1>9, <2>1
    <3>2. ~ IsHandshake(r) => Stored(r) = Entry(f)  BY <2>1, <3>1, Zenon DEF Stored
    <3>. QED  BY <3>2
  <2>2. CASE ~ (IsData(r) /\ r[1] % 16 = DATA)
    <3>1. ~ IsHandshake(r) => Stored(r) = Nothing  BY <2>2, Zenon DEF Stored
    <3>. QED  BY <3>1
  <2>. QED  BY <2>1, <2>2
<1>. QED  BY <1>8, <1>10

\* Whatever bit of a number is toggled, it stays one.
LEMMA ToggledBit == ASSUME NEW x \in Nat, NEW i \in 0 .. 23 PROVE Toggled(x, 2^i) \in Nat
<1> DEFINE w == 2^i
<1>1. w \in Nat \ {0}
  <2>1. /\ 2^0 \in Nat \ {0} /\ 2^1 \in Nat \ {0} /\ 2^2 \in Nat \ {0} /\ 2^3 \in Nat \ {0}
        /\ 2^4 \in Nat \ {0} /\ 2^5 \in Nat \ {0} /\ 2^6 \in Nat \ {0} /\ 2^7 \in Nat \ {0}
        /\ 2^8 \in Nat \ {0} /\ 2^9 \in Nat \ {0} /\ 2^10 \in Nat \ {0} /\ 2^11 \in Nat \ {0}
    OBVIOUS
  <2>2. /\ 2^12 \in Nat \ {0} /\ 2^13 \in Nat \ {0} /\ 2^14 \in Nat \ {0} /\ 2^15 \in Nat \ {0}
        /\ 2^16 \in Nat \ {0} /\ 2^17 \in Nat \ {0} /\ 2^18 \in Nat \ {0} /\ 2^19 \in Nat \ {0}
        /\ 2^20 \in Nat \ {0} /\ 2^21 \in Nat \ {0} /\ 2^22 \in Nat \ {0} /\ 2^23 \in Nat \ {0}
    OBVIOUS
  <2>3. \/ i = 0 \/ i = 1 \/ i = 2 \/ i = 3 \/ i = 4 \/ i = 5 \/ i = 6 \/ i = 7
        \/ i = 8 \/ i = 9 \/ i = 10 \/ i = 11 \/ i = 12 \/ i = 13 \/ i = 14 \/ i = 15
        \/ i = 16 \/ i = 17 \/ i = 18 \/ i = 19 \/ i = 20 \/ i = 21 \/ i = 22 \/ i = 23
    OBVIOUS
  <2>. QED  BY <2>1, <2>2, <2>3, Zenon
<1> HIDE DEF w
<1>2. x < w => (x \div w) % 2 = 0
  <2>1. ASSUME x < w PROVE x \div w = 0
    <3>1. 0 \in Nat /\ x \in 0 .. w - 1 /\ 0 * w + x = x  BY <1>1, <2>1
    <3>. QED  BY <1>1, <3>1, DivMod
  <2>. QED  BY <2>1
<1>3. Toggled(x, w) = IF (x \div w) % 2 = 0 THEN x + w ELSE x - w  BY DEF Toggled
<1>4. (x \div w) % 2 = 0 => Toggled(x, w) \in Nat  BY <1>1, <1>3
<1>5. ASSUME (x \div w) % 2 # 0 PROVE Toggled(x, w) \in Nat
  <2>1. x >= w  BY <1>1, <1>2, <1>5
  <2>. QED  BY <1>1, <1>3, <1>5, <2>1
<1>. QED  BY <1>4, <1>5 DEF w

\* What a frame that is sent is as bytes.
LEMMA FrameBytesHold ==
    ASSUME NEW f \in LinkFrameSet
    PROVE  LET n == Len(FrameBytes(f)) IN
           /\ n \in Nat /\ Holds(FrameBytes(f), n)
           /\ f \in HandshakeFrame => n = 52
           /\ f \in DataFrame => n = 18 + Len(f.payload)
<1>1. CASE f \in HandshakeFrame
  <2>1. 50 \in Nat /\ 50 + 2 = 52  OBVIOUS
  <2>2. FrameBytes(f) = Sealed(HandshakeBody(f)) /\ Holds(HandshakeBody(f), 50)
    BY <1>1, HandshakeSealed
  <2>3. Holds(FrameBytes(f), 52)  BY <2>1, <2>2, SealedBytes DEF Follows
  <2>4. f \notin DataFrame
    <3>1. f.type \in {0, 1, 2}  BY <1>1, HandshakeSealed
    <3>2. f \in DataFrame => f.type \in {3, 4, 5, 6}  BY DataSealed
    <3>. QED  BY <3>1, <3>2
  <2>. QED  BY <2>3, <2>4 DEF Holds
<1>2. CASE f \in DataFrame
  <2> DEFINE n == Len(f.payload)
  <2>1. /\ FrameBytes(f) = Sealed(DataBody(f)) /\ Holds(DataBody(f), 16 + n) /\ n \in 0 .. 112
        /\ f.type \in {3, 4, 5, 6}
    BY <1>2, DataSealed
  <2>2. f \notin HandshakeFrame
    <3>1. f \in HandshakeFrame => f.type \in {0, 1, 2}  BY HandshakeSealed
    <3>. QED  BY <2>1, <3>1
  <2> HIDE DEF n
  <2>3. 16 + n \in Nat /\ (16 + n) + 2 = 18 + n  BY <2>1
  <2>4. Holds(FrameBytes(f), 18 + n)  BY <2>1, <2>3, SealedBytes DEF Follows
  <2>. QED  BY <2>2, <2>3, <2>4 DEF Holds, n
<1>. QED  BY <1>1, <1>2, LinkFrameAssumption DEF LinkFrameAssumption

\* What has become of the bytes of a frame.
DamageInv ==
    /\ sent = NoLinkFrame => intact
    /\ sent # NoLinkFrame => sent \in LinkFrameSet /\ bpc = 4
    /\ sent # NoLinkFrame /\ intact => raw = FrameBytes(sent)
    /\ sent # NoLinkFrame /\ ~ intact =>
           LET data == FrameBytes(sent) IN
           OneMisread(data, raw, Len(data)) \/ \E m \in Nat : CutOrPadded(data, raw, m)

LEMMA DamageInit == ImageInit => DamageInv
BY DEF ImageInit, DamageInv

\* Half of a byte takes another value.
LEMMA HalfMisread ==
    ASSUME NEW b \in Byte, NEW by \in {1, 15}
    PROVE  LET high == (((b \div 16) + by) % 16) * 16 + (b % 16)
               low  == (b \div 16) * 16 + (((b % 16) + by) % 16)
           IN  high \in Byte /\ low \in Byte /\ OneModule(b, high) /\ OneModule(b, low)
<1> DEFINE x == b \div 16
           y == b % 16
           u == (x + by) % 16
           v == (y + by) % 16
<1>1. x \in 0 .. 15 /\ y \in 0 .. 15 /\ b = x * 16 + y  BY DEF Byte
<1>2. u \in 0 .. 15 /\ v \in 0 .. 15 /\ u # x /\ v # y
  <2> HIDE DEF x, y
  <2>1. CASE by = 1  BY <1>1, <2>1
  <2>2. CASE by = 15  BY <1>1, <2>2
  <2>. QED  BY <2>1, <2>2
<1> HIDE DEF x, y, u, v
<1>3. u * 16 + y \in Byte /\ x * 16 + v \in Byte  BY <1>1, <1>2 DEF Byte
<1>4. (u * 16 + y) % 16 = y /\ (x * 16 + v) \div 16 = x  BY <1>1, <1>2
<1>5. u * 16 + y # b /\ x * 16 + v # b  BY <1>1, <1>2
<1>6. OneModule(b, u * 16 + y) /\ OneModule(b, x * 16 + v)
  BY <1>4, <1>5 DEF OneModule, x, y
<1>. QED  BY <1>3, <1>6 DEF u, v, x, y

LEMMA MisreadDamage ==
    ASSUME DamageInv, NEW k, NEW by \in {1, 15}, Misread(k, by)
    PROVE  DamageInv'
<1> DEFINE data == FrameBytes(sent)
           n    == Len(data)
           p    == (k + 1) \div 2
           b    == raw[p]
           high == (((b \div 16) + by) % 16) * 16 + (b % 16)
           low  == (b \div 16) * 16 + (((b % 16) + by) % 16)
           new  == IF k % 2 = 1 THEN high ELSE low
<1>1. sent # NoLinkFrame /\ raw = data /\ sent \in LinkFrameSet /\ bpc = 4
  BY DEF DamageInv, Misread
<1>2. n \in Nat /\ Holds(raw, n)  BY <1>1, FrameBytesHold
<1>3. k \in 1 .. Symbols(Len(raw), bpc) /\ raw' = [raw EXCEPT ![p] = new]
  BY DEF Misread
<1>4. UNCHANGED <<sent, bpc>> /\ intact' = FALSE  BY DEF Misread, vars
<1> HIDE DEF data
<1>5. raw \in Seq(Byte) /\ Len(raw) = n  BY <1>2 DEF Holds
<1>6. p \in 1 .. n
  <2>1. Symbols(n, 4) = (n * 8 + 4 - 1) \div 4  BY DEF Symbols
  <2>2. k \in 1 .. 2 * n
    <3>1. (n * 8 + 4 - 1) \div 4 = 2 * n  BY <1>2
    <3>. QED  BY <1>1, <1>3, <1>5, <2>1, <3>1
  <2>. QED  BY <1>2, <2>2
<1> HIDE DEF p, n
<1>7. b \in Byte  BY <1>5, <1>6
<1> HIDE DEF b
<1>8. high \in Byte /\ low \in Byte /\ OneModule(b, high) /\ OneModule(b, low)
  BY <1>7, HalfMisread
<1>9. new \in Byte /\ OneModule(b, new)  BY <1>8
<1> HIDE DEF new
<1>10. Holds(raw', n) /\ raw'[p] = new /\ \A j \in 1 .. n : j # p => raw[j] = raw'[j]
  <2>1. raw \in [1 .. n -> Byte] /\ n \in Nat  BY <1>2, <1>5
  <2>2. raw' \in [1 .. n -> Byte] /\ raw'[p] = new /\ \A j \in 1 .. n : j # p => raw[j] = raw'[j]
    BY <1>3, <1>6, <1>9, <2>1
  <2>3. raw' \in Seq(Byte) /\ Len(raw') = n  BY <2>1, <2>2
  <2>. QED  BY <2>2, <2>3 DEF Holds
<1>11. OneMisread(data, raw', n)
  <2>1. OneModule(data[p], raw'[p])  BY <1>1, <1>9, <1>10 DEF b
  <2>. QED  BY <1>1, <1>6, <1>10, <2>1 DEF OneMisread
<1>12. FrameBytes(sent') = data  BY <1>4 DEF data
<1>. QED  BY <1>1, <1>4, <1>11, <1>12 DEF DamageInv, n

LEMMA FormatDamage ==
    ASSUME DamageInv, NEW i \in 0 .. 23, MisreadFormat(i)
    PROVE  DamageInv'
<1> DEFINE data   == FrameBytes(sent)
           n      == Len(data)
           seen   == ReadFormat(Toggled(FormatInfo(Len(raw), bpc), 2^i))
           padded == raw \o Zeros(MAX_PAYLOAD)
           m      == seen.length
<1>1. sent # NoLinkFrame /\ raw = data /\ sent \in LinkFrameSet /\ bpc = 4
  BY DEF DamageInv, MisreadFormat
<1>2. n \in Nat /\ Holds(raw, n)  BY <1>1, FrameBytesHold
<1>3. /\ m <= Len(padded)
      /\ raw' = IF seen.depth = bpc THEN SubSeq(padded, 1, m) ELSE <<>>
  BY DEF MisreadFormat
<1>4. UNCHANGED <<sent, bpc>> /\ intact' = FALSE  BY DEF MisreadFormat, vars
<1>5. FrameBytes(sent') = data  BY <1>4
<1>6. m \in Nat
  <2> DEFINE info == FormatInfo(Len(raw), bpc)
             x    == Toggled(info, 2^i)
  <2>1. info \in Nat
    <3>1. Len(raw) = n  BY <1>2 DEF Holds
    <3>2. n % 2^20 \in Nat
      <4>1. 2^20 = 1048576  OBVIOUS
      <4>. QED  BY <1>2, <4>1
    <3>. QED  BY <1>1, <3>1, <3>2 DEF FormatInfo
  <2>2. m = x \div 16  BY DEF ReadFormat
  <2> HIDE DEF info
  <2>3. x \in Nat  BY <2>1, ToggledBit
  <2> HIDE DEF x, m
  <2>. QED  BY <2>2, <2>3
<1>7. Follows(padded, raw, n, Zeros(112), 112)
  <2>1. 112 \in Nat  OBVIOUS
  <2>. QED  BY <1>2, <2>1, ZerosHold, Field DEF MAX_PAYLOAD
<1> HIDE DEF data, padded, m
<1>8. Holds(padded, n + 112) /\ \A k \in 1 .. n : padded[k] = raw[k]  BY <1>7 DEF Follows
<1>9. CASE seen.depth # bpc
  <2>1. raw' = <<>>  BY <1>3, <1>9
  <2>2. CutOrPadded(data, raw', 0)
    <3>1. <<>> \in Seq(Byte) /\ Len(<<>>) = 0 /\ 1 .. 0 = {}  OBVIOUS
    <3>. QED  BY <2>1, <3>1 DEF CutOrPadded, Holds
  <2>. QED  BY <1>1, <1>4, <1>5, <2>2 DEF DamageInv
<1>10. CASE seen.depth = bpc
  <2>1. raw' = SubSeq(padded, 1, m)  BY <1>3, <1>10
  <2>2. m <= n + 112 /\ n + 112 \in Nat  BY <1>2, <1>3, <1>8 DEF Holds
  <2>3. Holds(raw', m) /\ \A k \in 1 .. m : raw'[k] = padded[k]
    <3>1. 0 \in Nat /\ 0 + m <= n + 112 /\ 0 + 1 = 1 /\ 0 + m = m /\ \A k \in 1 .. m : 0 + k = k
      BY <1>6, <2>2
    <3>2. /\ Holds(SubSeq(padded, 0 + 1, 0 + m), m)
          /\ \A k \in 1 .. m : SubSeq(padded, 0 + 1, 0 + m)[k] = padded[0 + k]
      BY <1>6, <1>8, <2>2, <3>1, Bitten
    <3>. QED  BY <2>1, <3>1, <3>2
  <2>4. CutOrPadded(data, raw', m)
    <3> SUFFICES ASSUME NEW k \in 1 .. m, k <= n PROVE raw'[k] = data[k]
      BY <2>3 DEF CutOrPadded
    <3>1. k \in 1 .. n  BY <1>2, <1>6
    <3>. QED  BY <1>1, <1>8, <2>3, <3>1
  <2>. QED  BY <1>1, <1>4, <1>5, <1>6, <2>4 DEF DamageInv
<1>. QED  BY <1>9, <1>10

LEMMA DamageNext == DamageInv /\ [ImageNext]_ivars => DamageInv'
<1> SUFFICES ASSUME DamageInv, [ImageNext]_ivars PROVE DamageInv'  OBVIOUS
<1>1. ASSUME NEW f \in LinkFrameSet, Transmit(f) PROVE DamageInv'
  <2>1. sent' = f /\ f # NoLinkFrame  BY <1>1, NoneAssumption DEF Transmit, NoneAssumption
  <2>2. raw' = FrameBytes(sent') /\ intact' = intact /\ bpc = 4 /\ bpc' = bpc
    BY <1>1 DEF Transmit, vars
  <2>3. intact  BY <1>1 DEF Transmit, DamageInv
  <2>. QED  BY <2>1, <2>2, <2>3 DEF DamageInv
<1>2. ASSUME NEW k \in 1 .. 2 * (FrameHeader + MAX_PAYLOAD), NEW by \in {1, 15}, Misread(k, by)
      PROVE  DamageInv'
  BY <1>2, MisreadDamage
<1>3. ASSUME NEW i \in 0 .. 23, MisreadFormat(i) PROVE DamageInv'  BY <1>3, FormatDamage
<1>4. CASE Codec
  <2>1. sent = NoLinkFrame /\ UNCHANGED wire  BY <1>4 DEF Codec
  <2>. QED  BY <2>1 DEF wire, DamageInv
<1>5. CASE (\E w \in Worlds : Look(w)) \/ DrawModule \/ DrawCells \/ Capture \/ Calibrate
  <2>1. UNCHANGED <<wire, vars>>
    BY <1>5 DEF Look, DrawModule, DrawCells, Capture, Calibrate
  <2>. QED  BY <2>1 DEF wire, vars, DamageInv
<1>6. CASE UNCHANGED ivars  BY <1>6 DEF ivars, vars, wire, DamageInv
<1>. QED  BY <1>1, <1>2, <1>3, <1>4, <1>5, <1>6 DEF ImageNext

\* Whatever frame is sent: one misread module, be it in the frame or in its
\* checksum, or one misread bit of its length or depth never puts anything else
\* into the buffer, unless the frame passes for another one.
THEOREM DamageNeverStoredCorrect == ImageSpec => []DamageNeverStored
<1>1. DamageInv => DamageNeverStored
  <2> SUFFICES ASSUME DamageInv, sent # NoLinkFrame, ~ PassesForAnother
               PROVE  /\ Stored(raw) \in {Entry(sent), Nothing}
                      /\ Len(raw) = Len(FrameBytes(sent)) /\ raw # FrameBytes(sent)
                             => Stored(raw) = Nothing
    BY DEF DamageNeverStored
  <2> DEFINE data == FrameBytes(sent)
             n    == Len(data)
  <2>1. sent \in LinkFrameSet  BY DEF DamageInv
  <2>2. sent \in HandshakeFrame \/ sent \in DataFrame
    BY <2>1, LinkFrameAssumption DEF LinkFrameAssumption
  <2>3. n \in Nat /\ Holds(data, n)  BY <2>1, FrameBytesHold
  <2> HIDE DEF n
  <2>4. CASE intact
    <3>1. raw = data  BY <2>4 DEF DamageInv
    <3>2. Stored(raw) \in {Entry(sent), Nothing}
      <4>1. sent \in HandshakeFrame => Stored(data) = Entry(sent)  BY HandshakeStored
      <4>2. sent \in DataFrame => Stored(data) \in {Entry(sent), Nothing}  BY DataStored
      <4>. QED  BY <2>2, <3>1, <4>1, <4>2
    <3>. QED  BY <3>1, <3>2
  <2>5. CASE OneMisread(data, raw, n)
    <3>1. Len(raw) = n  BY <2>5 DEF OneMisread, Holds
    <3>2. ASSUME sent \in HandshakeFrame PROVE Stored(raw) = Nothing
      <4>1. OneMisread(FrameBytes(sent), raw, 52)
        BY <2>1, <2>5, <3>2, FrameBytesHold DEF n
      <4>2. ~ (raw[1] % 16 = DATA /\ IsData(raw))
        <5>1. IsHandshakeType(sent.type)  BY <3>2, HandshakeSealed
        <5>. QED  BY <3>1, <5>1, Zenon DEF PassesForAnother, n
      <4>. QED  BY <3>2, <4>1, <4>2, HandshakeMisread
    <3>3. ASSUME sent \in DataFrame PROVE Stored(raw) = Nothing
      <4>1. OneMisread(FrameBytes(sent), raw, 18 + Len(sent.payload))
        BY <2>1, <2>5, <3>3, FrameBytesHold DEF n
      <4>2. ~ (raw[16] < FrameBytes(sent)[16] /\ IsData(raw))
        <5>1. ~ IsHandshakeType(sent.type)  BY <3>3, DataSealed
        <5>. QED  BY <3>1, <5>1, Zenon DEF PassesForAnother, n
      <4>. QED  BY <3>3, <4>1, <4>2, DataMisread
    <3>. QED  BY <2>2, <3>2, <3>3
  <2>6. ASSUME NEW m \in Nat, CutOrPadded(data, raw, m)
        PROVE  Stored(raw) \in {Entry(sent), Nothing} /\ (Len(raw) = n => raw = data)
    <3>1. Stored(raw) \in {Entry(sent), Nothing}
      <4>1. sent \in HandshakeFrame => Stored(raw) \in {Entry(sent), Nothing}
        BY <2>6, HandshakeCut
      <4>2. sent \in DataFrame => Stored(raw) \in {Entry(sent), Nothing}  BY <2>6, DataCut
      <4>. QED  BY <2>2, <4>1, <4>2
    <3>2. ASSUME Len(raw) = n PROVE raw = data
      <4>1. Holds(raw, m) /\ \A k \in 1 .. m : k <= n => raw[k] = data[k]
        BY <2>6 DEF CutOrPadded, n
      <4>2. m = n  BY <3>2, <4>1 DEF Holds
      <4>3. \A k \in 1 .. n : k <= n  BY <2>3
      <4> HIDE DEF data
      <4>4. Holds(raw, n) /\ \A k \in 1 .. n : raw[k] = data[k]  BY <4>1, <4>2, <4>3
      <4>. QED  BY <2>3, <4>4, Alike
    <3>. QED  BY <3>1, <3>2
  <2>7. CASE ~ intact
    <3>1. OneMisread(data, raw, n) \/ \E m \in Nat : CutOrPadded(data, raw, m)
      BY <2>7 DEF DamageInv, n
    <3>. QED  BY <2>5, <2>6, <3>1 DEF n
  <2>. QED  BY <2>4, <2>7
<1>. QED  BY DamageInit, DamageNext, <1>1, PTL DEF ImageSpec

-----------------------------------------------------------------------------
(* Colours *)

Color == [1 .. 3 -> Int]

\* Lists of colours.
Lists(n) == [1 .. n -> Color]

Sizes == {2, 4, 8, 16}

LEMMA ColorsFacts == ASSUME NEW b \in 1 .. 4 PROVE 2^b \in Sizes
<1>1. 2^1 = 2 /\ 2^2 = 4 /\ 2^3 = 8 /\ 2^4 = 16  OBVIOUS
<1>2. b = 1 \/ b = 2 \/ b = 3 \/ b = 4  OBVIOUS
<1>. QED  BY <1>1, <1>2, Zenon DEF Sizes

LEMMA LevelFacts == ASSUME NEW n \in Sizes, NEW k \in Int PROVE Level(k, n) \in Int
<1>1. 1000 * n \in Nat /\ 1000 * n > 0  BY DEF Sizes
<1>2. (255 * 9 * (100 * n - 85 * k)) \in Int
  <2>1. n \in Int  BY DEF Sizes
  <2>. QED  BY <2>1
<1> DEFINE x == 255 * 9 * (100 * n - 85 * k)
           y == 1000 * n
<1> HIDE DEF x, y
<1>3. x \in Int /\ y \in Nat /\ y > 0  BY <1>1, <1>2 DEF x, y
<1>4. x \div y \in Int  BY <1>3
<1>. QED  BY <1>4 DEF x, y, Level

LEMMA PaletteType == ASSUME NEW n \in Sizes PROVE Palette(n) \in Lists(n)
<1>1. ASSUME NEW j \in 1 .. n
      PROVE  LET k == (6 * (j - 1)) % n
                 v == Level(0, n)
                 p == Level(n, n)
                 q == Level(k, n)
                 t == Level(n - k, n)
             IN  <<<<v, t, p>>, <<q, v, p>>, <<p, v, t>>,
                   <<p, q, v>>, <<t, p, v>>, <<v, p, q>>>>[((6 * (j - 1)) \div n) + 1] \in Color
  <2> DEFINE k == (6 * (j - 1)) % n
             i == ((6 * (j - 1)) \div n) + 1
             v == Level(0, n)
             p == Level(n, n)
             q == Level(k, n)
             t == Level(n - k, n)
  <2>1. i \in 1 .. 6 /\ k \in Int
    <3>1. CASE n = 2  BY <1>1, <3>1
    <3>2. CASE n = 4  BY <1>1, <3>2
    <3>3. CASE n = 8  BY <1>1, <3>3
    <3>4. CASE n = 16  BY <1>1, <3>4
    <3>. QED  BY <3>1, <3>2, <3>3, <3>4 DEF Sizes
  <2>2. v \in Int /\ p \in Int /\ q \in Int /\ t \in Int
    <3>1. n \in Int /\ 0 \in Int  BY DEF Sizes
    <3>2. n - k \in Int  BY <2>1, <3>1
    <3> HIDE DEF k
    <3>. QED  BY <2>1, <3>1, <3>2, LevelFacts
  <2> HIDE DEF k, i, v, p, q, t
  <2>3. \A x, y, z \in Int : <<x, y, z>> \in Color  BY DEF Color
  <2>4. <<<<v, t, p>>, <<q, v, p>>, <<p, v, t>>,
          <<p, q, v>>, <<t, p, v>>, <<v, p, q>>>>[i] \in Color
    <3>1. /\ <<v, t, p>> \in Color /\ <<q, v, p>> \in Color /\ <<p, v, t>> \in Color
          /\ <<p, q, v>> \in Color /\ <<t, p, v>> \in Color /\ <<v, p, q>> \in Color
      BY <2>2, <2>3
    <3>2. i = 1 \/ i = 2 \/ i = 3 \/ i = 4 \/ i = 5 \/ i = 6  BY <2>1
    <3>. QED  BY <3>1, <3>2
  <2>. QED  BY <2>4 DEF k, i, v, p, q, t
<1>. QED  BY <1>1 DEF Palette, Lists

\* What the camera makes of a colour is a colour.
LEMMA SeesType ==
    ASSUME world \in World, NEW c \in Color
    PROVE  Sees(c) \in Color /\ (world.exposure = 4 => Sees(c) = c)
<1> DEFINE e == world.exposure
<1>1. e \in 1 .. 4  BY DEF World
<1> HIDE DEF e
<1>2. \A k \in 1 .. 3 : c[k] \in Int  BY DEF Color
<1>3. \A x \in Int : (x * e) \div 4 \in Int /\ (x * 4) \div 4 = x
  <2> SUFFICES ASSUME NEW x \in Int PROVE (x * e) \div 4 \in Int /\ (x * 4) \div 4 = x  OBVIOUS
  <2>1. (x * 4) \div 4 = x  OBVIOUS
  <2>2. e = 1 \/ e = 2 \/ e = 3 \/ e = 4  BY <1>1
  <2>3. (x * 1) \div 4 \in Int /\ (x * 2) \div 4 \in Int /\ (x * 3) \div 4 \in Int  OBVIOUS
  <2>. QED  BY <2>1, <2>2, <2>3
<1>4. Sees(c) = [k \in 1 .. 3 |-> (c[k] * e) \div 4]  BY DEF Sees, e
<1>5. Sees(c) \in Color
  <2>1. \A k \in 1 .. 3 : (c[k] * e) \div 4 \in Int  BY <1>2, <1>3
  <2>. QED  BY <1>4, <2>1 DEF Color
<1>6. e = 4 => Sees(c) = c
  <2>1. c = [k \in 1 .. 3 |-> c[k]]  BY DEF Color
  <2>2. e = 4 => \A k \in 1 .. 3 : (c[k] * e) \div 4 = c[k]  BY <1>2, <1>3
  <2>. QED  BY <1>4, <2>1, <2>2
<1>. QED  BY <1>5, <1>6 DEF e

LEMMA SeesAllType ==
    ASSUME world \in World, NEW n \in Nat, NEW list \in Lists(n)
    PROVE  SeesAll(list) \in Lists(n) /\ (world.exposure = 4 => SeesAll(list) = list)
<1>1. DOMAIN list = 1 .. n /\ \A k \in 1 .. n : list[k] \in Color  BY DEF Lists
<1>2. list = [k \in 1 .. n |-> list[k]]  BY DEF Lists
<1>3. SeesAll(list) = [k \in 1 .. n |-> Sees(list[k])]  BY <1>1 DEF SeesAll
<1>4. \A k \in 1 .. n : Sees(list[k]) \in Color /\ (world.exposure = 4 => Sees(list[k]) = list[k])
  BY <1>1, SeesType
<1>. QED  BY <1>2, <1>3, <1>4 DEF Lists

\* The cells of the patch are colours of the list, in turn.
LEMMA CellFacts ==
    ASSUME NEW n \in Sizes, NEW list \in Lists(n)
    PROVE  /\ n \in Nat /\ Len(list) = n
           /\ \A k \in Nat : Cell(list, k) = list[(k % n) + 1] /\ Cell(list, k) \in Color
           /\ \A k \in 1 .. n : Cell(list, k - 1) = list[k]
           /\ CalPatch(list) \in Lists(16)
<1>1. n \in Nat /\ n > 0 /\ n <= 16  BY DEF Sizes
<1>2. list \in Seq(Color) /\ Len(list) = n
  <2>1. list \in [1 .. n -> Color]  BY DEF Lists
  <2>. QED  BY <1>1, <2>1
<1>3. \A k \in 1 .. n : list[k] \in Color  BY DEF Lists
<1>4. \A k \in Nat : k % n \in 0 .. n - 1  BY <1>1
<1>5. ASSUME NEW k \in Nat PROVE Cell(list, k) = list[(k % n) + 1] /\ Cell(list, k) \in Color
  <2>1. Cell(list, k) = list[(k % n) + 1]  BY <1>2 DEF Cell, Encode
  <2>2. (k % n) + 1 \in 1 .. n  BY <1>1, <1>4
  <2>. QED  BY <1>3, <2>1, <2>2
<1>6. ASSUME NEW k \in 1 .. n PROVE Cell(list, k - 1) = list[k]
  <2>1. k - 1 \in Nat /\ (k - 1) % n = k - 1  BY <1>1
  <2>2. Cell(list, k - 1) = list[((k - 1) % n) + 1]  BY <1>5, <2>1
  <2>. QED  BY <2>1, <2>2
<1>7. CalPatch(list) \in Lists(16)
  <2>1. \A k \in 1 .. 16 : k - 1 \in Nat  OBVIOUS
  <2>2. \A k \in 1 .. 16 : Cell(list, k - 1) \in Color  BY <1>5, <2>1
  <2>. QED  BY <2>2 DEF CalPatch, Lists
<1>. QED  BY <1>1, <1>2, <1>5, <1>6, <1>7

-----------------------------------------------------------------------------
(* What is drawn while colours change *)

\* Everything drawn so far is drawn in some colours.
DrawnIn(p) ==
    /\ \A k \in 1 .. Len(modules) : modules[k] = Encode(p, Payload[k])
    /\ \A k \in 1 .. Len(cells) : cells[k] = Cell(p, k - 1)

\* The codec's colours, and the patch that they are being replaced from.
ColorsInv ==
    /\ palette \in Lists(Colors)
    /\ entry \in 0 .. Colors
    /\ entry > 0 => patch \in Lists(16)

\* How far the drawing is: row by row of the patch, after the payload.
PlaceInv ==
    /\ modules \in Seq(Color) /\ Len(modules) <= Len(Payload)
    /\ cells \in Seq(Color) /\ Len(cells) \in {0, 4, 8, 12, 16}
    /\ Len(cells) > 0 => Len(modules) = Len(Payload)

\* Nothing is drawn or captured without a camera.
WorldInv ==
    /\ world = NoWorld =>
           palette = Palette(Colors) /\ modules = <<>> /\ cells = <<>> /\ entry = 0
    /\ world # NoWorld => world \in World /\ world.own = bpc

DrawInv == FrameInv /\ ColorsInv /\ PlaceInv /\ WorldInv

\* An untouched image is drawn in the colours of one moment; until it is complete,
\* those are the colours of this moment.
UntouchedInv ==
    untouched => \E p \in Lists(Colors) : DrawnIn(p) /\ (Complete \/ p = palette)

\* The other end has the depth of this one, and the camera shows colours as they are.
Settled == world # NoWorld /\ world.exposure = 4 /\ world.others = {bpc}

\* Then all colours are the theoretical ones.
SettledInv ==
    Settled =>
        /\ palette = Palette(Colors)
        /\ DrawnIn(palette)
        /\ entry > 0 => patch = CalPatch(palette)

LEMMA PayloadFacts ==
    ASSUME FrameInv
    PROVE  /\ Colors \in Sizes /\ Colors \in Nat
           /\ Payload \in Seq(0 .. Colors - 1) /\ Len(Payload) \in Nat
           /\ \A k \in 1 .. Len(Payload) :
                 /\ Payload[k] \in 0 .. Colors - 1
                 /\ \A p \in Lists(Colors) : Encode(p, Payload[k]) \in Color
<1>1. Colors \in Sizes  BY ColorsFacts DEF FrameInv, Colors
<1>2. Colors \in Nat  BY <1>1 DEF Sizes
<1>3. Payload \in Seq(0 .. Colors - 1)  BY SymbolRange DEF FrameInv, Payload, Colors
<1>. HIDE DEF Colors, Payload
<1>4. Len(Payload) \in Nat /\ \A k \in 1 .. Len(Payload) : Payload[k] \in 0 .. Colors - 1
  BY <1>2, <1>3
<1>5. ASSUME NEW p \in Lists(Colors), NEW i \in 0 .. Colors - 1 PROVE Encode(p, i) \in Color
  BY <1>2, <1>5 DEF Encode, Lists
<1>. QED  BY <1>1, <1>2, <1>3, <1>4, <1>5

LEMMA DrawInit == ImageInit => DrawInv /\ UntouchedInv /\ SettledInv
<1> SUFFICES ASSUME ImageInit PROVE DrawInv /\ UntouchedInv /\ SettledInv  OBVIOUS
<1>1. FrameInv  BY FrameInit DEF ImageInit
<1>2. /\ world = NoWorld /\ palette = Palette(Colors) /\ modules = <<>> /\ cells = <<>>
      /\ entry = 0
  BY DEF ImageInit
<1>3. palette \in Lists(Colors) /\ Colors \in Nat  BY <1>1, <1>2, PayloadFacts, PaletteType
<1>4. ColorsInv  BY <1>2, <1>3 DEF ColorsInv
<1>5. PlaceInv  BY <1>1, <1>2, PayloadFacts DEF PlaceInv
<1>6. WorldInv  BY <1>2 DEF WorldInv
<1>7. DrawnIn(palette)  BY <1>2 DEF DrawnIn
<1>8. UntouchedInv  BY <1>3, <1>7 DEF UntouchedInv
<1>9. SettledInv  BY <1>2 DEF SettledInv, Settled
<1>. QED  BY <1>1, <1>4, <1>5, <1>6, <1>8, <1>9 DEF DrawInv

AllInv == DrawInv /\ UntouchedInv /\ SettledInv

\* Nothing that is drawn or captured changes with the frame that is sent.
LEMMA ElsewhereKeeps ==
    ASSUME AllInv, UNCHANGED <<vars, world, palette, drawing, reading, untouched>>
    PROVE  AllInv'
<1>1. /\ UNCHANGED <<bpc, frame, world, palette, modules, cells, patch, entry, untouched>>
  BY DEF vars, drawing, reading
<1>2. UNCHANGED <<Payload, Colors, Complete>>  BY <1>1 DEF Payload, Colors, Complete
<1>3. \A p : DrawnIn(p)' <=> DrawnIn(p)
  <2> SUFFICES ASSUME NEW p PROVE DrawnIn(p)' <=> DrawnIn(p)  OBVIOUS
  <2>. QED  BY <1>1, <1>2 DEF DrawnIn
<1>4. FrameInv' /\ ColorsInv' /\ PlaceInv' /\ WorldInv'
  BY <1>1, <1>2 DEF AllInv, DrawInv, FrameInv, ColorsInv, PlaceInv, WorldInv
<1>5. UntouchedInv'  BY <1>1, <1>2, <1>3 DEF AllInv, UntouchedInv
<1>6. SettledInv'
  <2>1. DrawnIn(palette)' <=> DrawnIn(palette)  BY <1>1, <1>2 DEF DrawnIn
  <2>. QED  BY <1>1, <1>2, <2>1 DEF AllInv, SettledInv, Settled
<1>. QED  BY <1>4, <1>5, <1>6 DEF AllInv, DrawInv

\* Before there is a camera, nothing is drawn.
LEMMA CodecKeeps == ASSUME AllInv, Codec PROVE AllInv'
<1>1. /\ UNCHANGED <<bpc, world, palette, modules, cells, patch, entry>>
      /\ world = NoWorld /\ Next
  BY DEF Codec, drawing, reading, CutFrame, AddByte, Next
<1>2. FrameInv'  BY <1>1, FrameNext DEF AllInv, DrawInv
<1>3. /\ palette = Palette(Colors) /\ modules' = <<>> /\ cells' = <<>> /\ entry = 0
      /\ Colors' = Colors
  BY <1>1 DEF AllInv, DrawInv, WorldInv, Colors
<1>4. Len(Payload)' \in Nat
  <2>1. bpc' \in 1 .. 4 /\ frame' \in Seq(Byte)  BY <1>2 DEF FrameInv
  <2>2. BytesToSymbols(frame', bpc') \in Seq(0 .. 2^(bpc') - 1)  BY <2>1, SymbolRange
  <2> HIDE DEF Byte
  <2>. QED  BY <2>2 DEF Payload
<1>5. ColorsInv' /\ WorldInv'
  BY <1>1, <1>3 DEF AllInv, DrawInv, ColorsInv, WorldInv
<1>6. PlaceInv'  BY <1>3, <1>4 DEF PlaceInv
<1>7. UntouchedInv'
  <2>1. ASSUME NEW p PROVE DrawnIn(p)'  BY <1>3 DEF DrawnIn
  <2>2. palette' \in Lists(Colors)'  BY <1>5 DEF ColorsInv
  <2>. QED  BY <2>1, <2>2 DEF UntouchedInv
<1>8. SettledInv'  BY <1>1 DEF SettledInv, Settled
<1>. QED  BY <1>2, <1>5, <1>6, <1>7, <1>8 DEF AllInv, DrawInv

\* Where the camera is put, all colours are the theoretical ones.
LEMMA LookKeeps == ASSUME AllInv, NEW w \in Worlds, Look(w) PROVE AllInv'
<1>1. /\ UNCHANGED <<bpc, frame, palette, modules, cells, patch, entry, untouched>>
      /\ world = NoWorld /\ world' = w /\ w.own = bpc
  BY DEF Look, vars, drawing, reading
<1>2. UNCHANGED <<Payload, Colors, Complete>>  BY <1>1 DEF Payload, Colors, Complete
<1>3. palette = Palette(Colors) /\ modules = <<>> /\ cells = <<>> /\ entry = 0
  BY <1>1 DEF AllInv, DrawInv, WorldInv
<1>4. FrameInv' /\ ColorsInv' /\ PlaceInv'
  BY <1>1, <1>2 DEF AllInv, DrawInv, FrameInv, ColorsInv, PlaceInv
<1>5. WorldInv'
  BY <1>1, <1>2, <1>3, WorldsAssumption DEF WorldInv, WorldsAssumption
<1>6. ASSUME NEW p PROVE DrawnIn(p)' <=> DrawnIn(p)  BY <1>1, <1>2 DEF DrawnIn
<1>7. UntouchedInv'  BY <1>1, <1>2, <1>6 DEF AllInv, UntouchedInv
<1>8. SettledInv'
  <2>1. DrawnIn(palette)'  BY <1>1, <1>3 DEF DrawnIn
  <2>. QED  BY <1>1, <1>2, <1>3, <2>1 DEF SettledInv
<1>. QED  BY <1>4, <1>5, <1>7, <1>8 DEF AllInv, DrawInv

\* The next module is drawn in the colour that the codec has for its symbol now.
LEMMA DrawModuleKeeps == ASSUME AllInv, DrawModule PROVE AllInv'
<1> DEFINE color == Encode(palette, Payload[Len(modules) + 1])
<1>1. /\ UNCHANGED <<bpc, frame, world, palette, cells, patch, entry>>
      /\ world # NoWorld /\ Len(modules) < Len(Payload)
      /\ modules' = Append(modules, color)
      /\ untouched' = (modules = <<>> \/ untouched)
  BY DEF DrawModule, vars, reading
<1>2. UNCHANGED <<Payload, Colors, Complete>>  BY <1>1 DEF Payload, Colors, Complete
<1>3. modules \in Seq(Color) /\ Len(modules) \in Nat /\ palette \in Lists(Colors) /\ FrameInv
  BY DEF AllInv, DrawInv, PlaceInv, ColorsInv
<1>4. Len(Payload) \in Nat  BY <1>3, PayloadFacts
<1>5. color \in Color
  <2>1. Len(modules) + 1 \in 1 .. Len(Payload)  BY <1>1, <1>3, <1>4
  <2>. QED  BY <1>3, <2>1, PayloadFacts
<1>6. Len(cells) = 0 /\ cells \in Seq(Color)
  <2>1. Len(cells) \in Nat  BY DEF AllInv, DrawInv, PlaceInv
  <2>. QED  BY <1>1, <1>3, <1>4, <2>1 DEF AllInv, DrawInv, PlaceInv
<1>. HIDE DEF color
<1>7. /\ modules' \in Seq(Color) /\ Len(modules') = Len(modules) + 1
      /\ \A k \in 1 .. Len(modules) : modules'[k] = modules[k]
      /\ modules'[Len(modules) + 1] = color
  BY <1>1, <1>3, <1>5
<1>8. FrameInv' /\ ColorsInv' /\ WorldInv'
  BY <1>1, <1>2 DEF AllInv, DrawInv, FrameInv, ColorsInv, WorldInv
<1>9. PlaceInv'
  <2>1. Len(modules') <= Len(Payload)'  BY <1>1, <1>2, <1>3, <1>4, <1>7
  <2>2. cells' = cells  BY <1>1
  <2>. QED  BY <1>6, <1>7, <2>1, <2>2 DEF PlaceInv
<1>10. DrawnIn(palette) => DrawnIn(palette)'
  <2> SUFFICES ASSUME DrawnIn(palette) PROVE DrawnIn(palette)'  OBVIOUS
  <2>1. ASSUME NEW k \in 1 .. Len(modules') PROVE modules'[k] = Encode(palette, Payload[k])
    <3>1. k \in 1 .. Len(modules) \/ k = Len(modules) + 1  BY <1>3, <1>7
    <3>. QED  BY <1>7, <3>1 DEF DrawnIn, color
  <2>. QED  BY <1>1, <1>2, <1>6, <2>1 DEF DrawnIn
<1>11. ASSUME NEW p, p = palette, DrawnIn(palette) PROVE DrawnIn(p)'
  BY <1>1, <1>10, <1>11 DEF DrawnIn
<1>12. UntouchedInv'
  <2>1. DrawnIn(palette) => UntouchedInv'  BY <1>2, <1>3, <1>11, <1>1 DEF UntouchedInv
  <2>2. untouched => DrawnIn(palette)
    <3>1. ~ Complete  BY <1>6 DEF Complete, CAL_SIZE
    <3>. QED  BY <3>1 DEF AllInv, UntouchedInv
  <2>3. modules = <<>> => DrawnIn(palette)  BY <1>6 DEF DrawnIn
  <2>4. ~ untouched' => UntouchedInv'  BY DEF UntouchedInv
  <2>. QED  BY <1>1, <2>1, <2>2, <2>3, <2>4
<1>13. SettledInv'
  BY <1>1, <1>2, <1>10 DEF AllInv, SettledInv, Settled
<1>. QED  BY <1>8, <1>9, <1>12, <1>13 DEF AllInv, DrawInv

LEMMA Longer ==
    ASSUME NEW S, NEW a \in Seq(S), NEW b \in Seq(S)
    PROVE  /\ a \o b \in Seq(S) /\ Len(a \o b) = Len(a) + Len(b)
           /\ \A k \in 1 .. Len(a) : (a \o b)[k] = a[k]
           /\ \A k \in 1 .. Len(b) : (a \o b)[Len(a) + k] = b[k]
OBVIOUS

\* So is the next row of the patch.
LEMMA DrawCellsKeeps == ASSUME AllInv, DrawCells PROVE AllInv'
<1> DEFINE row == [k \in 1 .. 4 |-> Cell(palette, Len(cells) + k - 1)]
<1>1. /\ UNCHANGED <<bpc, frame, world, palette, modules, patch, entry, untouched>>
      /\ Len(modules) = Len(Payload) /\ Len(cells) < 16
      /\ cells' = cells \o row
  BY DEF DrawCells, vars, reading, CAL_SIZE
<1>2. UNCHANGED <<Payload, Colors>>  BY <1>1 DEF Payload, Colors
<1>3. /\ cells \in Seq(Color) /\ Len(cells) \in {0, 4, 8, 12} /\ palette \in Lists(Colors)
      /\ FrameInv
  <2>1. Len(cells) \in {0, 4, 8, 12, 16} /\ cells \in Seq(Color) /\ palette \in Lists(Colors)
        /\ FrameInv
    BY Zenon DEF AllInv, DrawInv, PlaceInv, ColorsInv
  <2>2. Len(cells) < 16  BY <1>1
  <2>3. \A n \in {0, 4, 8, 12, 16} : n < 16 => n \in {0, 4, 8, 12}  OBVIOUS
  <2>. QED  BY <2>1, <2>2, <2>3, Zenon
<1>4. Len(cells) \in Nat  BY <1>3
<1>5. \A k \in Nat : Cell(palette, k) \in Color  BY <1>3, PayloadFacts, CellFacts
<1>6. row \in Seq(Color) /\ Len(row) = 4
  <2>1. \A k \in 1 .. 4 : Len(cells) + k - 1 \in Nat  BY <1>4
  <2>2. \A k \in 1 .. 4 : Cell(palette, Len(cells) + k - 1) \in Color  BY <1>5, <2>1
  <2>. QED  BY <2>2
<1>7. \A k \in 1 .. 4 : row[k] = Cell(palette, Len(cells) + k - 1)  OBVIOUS
<1>. HIDE DEF row
<1>8. /\ cells' \in Seq(Color) /\ Len(cells') = Len(cells) + 4
      /\ \A k \in 1 .. Len(cells) : cells'[k] = cells[k]
      /\ \A k \in 1 .. 4 : cells'[Len(cells) + k] = row[k]
  <2>1. cells' = cells \o row  BY <1>1
  <2>2. cells \in Seq(Color)  BY <1>3
  <2>3. /\ cells \o row \in Seq(Color) /\ Len(cells \o row) = Len(cells) + Len(row)
        /\ \A k \in 1 .. Len(cells) : (cells \o row)[k] = cells[k]
        /\ \A k \in 1 .. Len(row) : (cells \o row)[Len(cells) + k] = row[k]
    <3>1. row \in Seq(Color)  BY <1>6
    <3>. QED  BY <2>2, <3>1, Longer
  <2>. QED  BY <1>6, <2>1, <2>3, Zenon
<1>9. FrameInv' /\ ColorsInv' /\ WorldInv'
  <2>1. UNCHANGED <<bpc, frame, world, palette, patch, entry>>  BY <1>1
  <2>2. world # NoWorld  BY DEF DrawCells
  <2>3. FrameInv /\ ColorsInv /\ WorldInv  BY DEF AllInv, DrawInv
  <2>. QED  BY <1>2, <2>1, <2>2, <2>3 DEF FrameInv, ColorsInv, WorldInv
<1>10. PlaceInv'
  <2>1. Len(cells') \in {0, 4, 8, 12, 16}
    <3>1. \A n \in {0, 4, 8, 12} : n + 4 \in {0, 4, 8, 12, 16}  OBVIOUS
    <3>. QED  BY <1>3, <1>8, <3>1, Zenon
  <2>2. modules \in Seq(Color) /\ Len(modules) <= Len(Payload)  BY DEF AllInv, DrawInv, PlaceInv
  <2>. QED  BY <1>1, <1>2, <1>8, <2>1, <2>2 DEF PlaceInv
<1>11. ~ Complete /\ (DrawnIn(palette) => DrawnIn(palette)')
  <2>1. ~ Complete
    <3>1. \A n \in {0, 4, 8, 12} : n # CAL_SIZE * CAL_SIZE  BY DEF CAL_SIZE
    <3>. QED  BY <1>3, <3>1, Zenon DEF Complete
  <2> SUFFICES ASSUME DrawnIn(palette) PROVE DrawnIn(palette)'  BY <2>1
  <2>2. ASSUME NEW k \in 1 .. Len(cells') PROVE cells'[k] = Cell(palette, k - 1)
    <3>1. CASE k \in 1 .. Len(cells)  BY <1>8, <3>1 DEF DrawnIn
    <3>2. CASE k - Len(cells) \in 1 .. 4
      <4>1. cells'[Len(cells) + (k - Len(cells))] = Cell(palette, Len(cells) + (k - Len(cells)) - 1)
        BY <1>7, <1>8, <3>2
      <4>. QED  BY <1>4, <3>2, <4>1
    <3>. QED  BY <1>4, <1>8, <3>1, <3>2
  <2>. QED  BY <1>1, <1>2, <2>2 DEF DrawnIn
<1>12. ASSUME NEW p, p = palette, DrawnIn(palette) PROVE DrawnIn(p)'
  BY <1>1, <1>11, <1>12 DEF DrawnIn
<1>13. UntouchedInv'
  <2>1. DrawnIn(palette) => UntouchedInv'  BY <1>1, <1>2, <1>3, <1>12 DEF UntouchedInv
  <2>2. untouched => DrawnIn(palette)  BY <1>11 DEF AllInv, UntouchedInv
  <2>3. ~ untouched' => UntouchedInv'  BY DEF UntouchedInv
  <2>. QED  BY <1>1, <2>1, <2>2, <2>3
<1>14. SettledInv'
  BY <1>1, <1>2, <1>11 DEF AllInv, SettledInv, Settled
<1>. QED  BY <1>9, <1>10, <1>13, <1>14 DEF AllInv, DrawInv

\* The consumer thread takes a patch: 16 colours, whatever the image was.
LEMMA CaptureKeeps == ASSUME AllInv, Capture PROVE AllInv'
<1>1. /\ UNCHANGED <<bpc, frame, world, palette, modules, cells, untouched>>
      /\ world # NoWorld /\ entry = 0 /\ entry' = 1
  BY DEF Capture, vars, drawing
<1>2. UNCHANGED <<Payload, Colors, Complete>>  BY <1>1 DEF Payload, Colors, Complete
<1>3. PICK cal \in CalPatches : patch' = SeesAll(cal)  BY DEF Capture
<1>4. world \in World /\ world.own = bpc /\ FrameInv
  BY <1>1 DEF AllInv, DrawInv, WorldInv
<1>5. Colors \in Sizes /\ Colors \in Nat  BY <1>4, PayloadFacts
<1>6. \A b \in world.others : Palette(2^b) \in Lists(2^b) /\ CalPatch(Palette(2^b)) \in Lists(16)
  <2>1. world.others \subseteq 1 .. 4  BY <1>4 DEF World
  <2>2. \A b \in world.others : 2^b \in Sizes  BY <2>1, ColorsFacts
  <2>. QED  BY <2>2, PaletteType, CellFacts
<1>7. Complete => cells \in Lists(16)
  <2>1. cells \in Seq(Color)  BY DEF AllInv, DrawInv, PlaceInv
  <2>2. cells \in [1 .. Len(cells) -> Color]  BY <2>1
  <2>3. Complete => Len(cells) = 16  BY DEF Complete, CAL_SIZE
  <2>. QED  BY <2>2, <2>3, Zenon DEF Lists
<1>8. cal \in Lists(16)
  <2>1. CASE \E b \in world.others : cal = CalPatch(Palette(2^b))  BY <1>6, <2>1
  <2>2. CASE Complete /\ cal = SeesAll(cells)  BY <1>4, <1>7, <2>2, SeesAllType
  <2>. QED  BY <1>3, <2>1, <2>2 DEF CalPatches
<1>9. patch' \in Lists(16) /\ (world.exposure = 4 => patch' = cal)
  <2>1. SeesAll(cal) \in Lists(16) /\ (world.exposure = 4 => SeesAll(cal) = cal)
    BY <1>4, <1>8, SeesAllType
  <2>. QED  BY <1>3, <2>1
<1>10. FrameInv' /\ PlaceInv'
  BY <1>1, <1>2 DEF AllInv, DrawInv, FrameInv, PlaceInv
<1>11. ColorsInv'
  <2>1. 1 \in 0 .. Colors  BY <1>5 DEF Sizes
  <2>. QED  BY <1>1, <1>2, <1>9, <2>1 DEF AllInv, DrawInv, ColorsInv
<1>12. WorldInv'
  BY <1>1, <1>2 DEF AllInv, DrawInv, WorldInv
<1>13. ASSUME NEW p PROVE DrawnIn(p)' <=> DrawnIn(p)  BY <1>1, <1>2 DEF DrawnIn
<1>14. UntouchedInv'  BY <1>1, <1>2, <1>13 DEF AllInv, UntouchedInv
<1>15. SettledInv'
  <2> SUFFICES ASSUME Settled' PROVE /\ palette' = Palette(Colors) /\ DrawnIn(palette)'
                                     /\ patch' = CalPatch(palette')
    BY <1>2 DEF SettledInv
  <2>1. Settled  BY <1>1 DEF Settled
  <2>2. palette = Palette(Colors) /\ DrawnIn(palette)  BY <2>1 DEF AllInv, SettledInv
  <2>3. DrawnIn(palette)'  BY <1>1, <1>2, <2>2 DEF DrawnIn
  <2>4. cal = CalPatch(palette)
    <3>1. CASE \E b \in world.others : cal = CalPatch(Palette(2^b))
      <4>1. world.others = {bpc}  BY <2>1 DEF Settled
      <4>. QED  BY <2>2, <3>1, <4>1 DEF Colors
    <3>2. CASE Complete /\ cal = SeesAll(cells)
      <4>1. world.exposure = 4  BY <2>1 DEF Settled
      <4>2. cal = cells  BY <1>4, <1>7, <3>2, <4>1, SeesAllType
      <4>3. Len(cells) = 16  BY <3>2 DEF Complete, CAL_SIZE
      <4>4. \A k \in 1 .. 16 : cells[k] = Cell(palette, k - 1)  BY <2>2, <4>3 DEF DrawnIn
      <4>5. cells = [k \in 1 .. 16 |-> cells[k]]  BY <1>7, <3>2 DEF Lists
      <4>6. cells = [k \in 1 .. 16 |-> Cell(palette, k - 1)]  BY <4>4, <4>5
      <4>. QED  BY <4>2, <4>6 DEF CalPatch
    <3>. QED  BY <1>3, <3>1, <3>2 DEF CalPatches
  <2>5. patch' = cal  BY <1>9, <2>1 DEF Settled
  <2>. QED  BY <1>1, <2>2, <2>3, <2>4, <2>5
<1>. QED  BY <1>10, <1>11, <1>12, <1>14, <1>15 DEF AllInv, DrawInv

\* One colour is replaced: whoever looks at the list between two of these steps
\* finds colours of two images in it.
LEMMA CalibrateKeeps == ASSUME AllInv, Calibrate PROVE AllInv'
<1>1. /\ UNCHANGED <<bpc, frame, world, modules, cells, patch>>
      /\ entry > 0
      /\ palette' = [palette EXCEPT ![entry] = patch[entry]]
      /\ entry' = IF entry < Colors THEN entry + 1 ELSE 0
      /\ untouched' = (untouched /\ (Complete \/ palette' = palette))
  BY DEF Calibrate, vars, drawing
<1>2. UNCHANGED <<Payload, Colors, Complete>>  BY <1>1 DEF Payload, Colors, Complete
<1>3. FrameInv /\ ColorsInv  BY DEF AllInv, DrawInv
<1>4. Colors \in Sizes /\ Colors \in Nat  BY <1>3, PayloadFacts
<1>. HIDE DEF Colors, Payload, Complete
<1>5. /\ entry \in 1 .. Colors /\ entry \in 1 .. 16 /\ patch \in Lists(16)
      /\ palette \in Lists(Colors)
  BY <1>1, <1>3, <1>4 DEF ColorsInv, Sizes
<1>6. patch[entry] \in Color /\ palette' \in Lists(Colors)
  <2>1. patch[entry] \in Color  BY <1>5 DEF Lists
  <2>. QED  BY <1>1, <1>5, <2>1 DEF Lists
<1>7. entry' \in 0 .. Colors  BY <1>1, <1>4, <1>5
<1>8. ColorsInv'  BY <1>1, <1>2, <1>5, <1>6, <1>7 DEF ColorsInv
<1>9. FrameInv' /\ PlaceInv'
  BY <1>1, <1>2 DEF AllInv, DrawInv, FrameInv, PlaceInv
<1>10. world # NoWorld /\ WorldInv'
  <2>1. world # NoWorld  BY <1>1 DEF AllInv, DrawInv, WorldInv
  <2>. QED  BY <1>1, <1>2, <2>1 DEF AllInv, DrawInv, WorldInv
<1>11. ASSUME NEW p PROVE DrawnIn(p)' <=> DrawnIn(p)  BY <1>1, <1>2 DEF DrawnIn
<1>12. UntouchedInv'
  <2> SUFFICES ASSUME untouched' PROVE UntouchedInv'  BY DEF UntouchedInv
  <2>1. untouched /\ (Complete \/ palette' = palette)  BY <1>1
  <2>2. PICK p \in Lists(Colors) : DrawnIn(p) /\ (Complete \/ p = palette)
    BY <2>1 DEF AllInv, UntouchedInv
  <2>3. DrawnIn(p)' /\ (Complete \/ p = palette')  BY <1>11, <2>1, <2>2
  <2>. QED  BY <1>2, <2>2, <2>3 DEF UntouchedInv
<1>13. SettledInv'
  <2> SUFFICES ASSUME Settled' PROVE /\ palette' = Palette(Colors) /\ DrawnIn(palette)'
                                     /\ patch' = CalPatch(palette')
    BY <1>2 DEF SettledInv
  <2>1. Settled  BY <1>1 DEF Settled
  <2>2. palette = Palette(Colors) /\ DrawnIn(palette) /\ patch = CalPatch(palette)
    BY <1>1, <2>1 DEF AllInv, SettledInv
  <2>3. patch[entry] = palette[entry]
    <3>1. patch[entry] = Cell(palette, entry - 1)  BY <1>5, <2>2 DEF CalPatch
    <3>. QED  BY <1>4, <1>5, <3>1, CellFacts
  <2>4. palette' = palette
    <3>1. palette = [k \in 1 .. Colors |-> palette[k]]  BY <1>5 DEF Lists
    <3>2. palette' = [k \in 1 .. Colors |-> palette[k]]  BY <1>1, <2>3, <3>1
    <3>. QED  BY <3>1, <3>2
  <2>5. DrawnIn(palette)'  BY <1>1, <1>2, <2>2, <2>4 DEF DrawnIn
  <2>. QED  BY <1>1, <2>2, <2>4, <2>5
<1>. QED  BY <1>8, <1>9, <1>10, <1>12, <1>13 DEF AllInv, DrawInv

LEMMA DrawNext == AllInv /\ [ImageNext]_ivars => AllInv'
<1> SUFFICES ASSUME AllInv, [ImageNext]_ivars PROVE AllInv'  OBVIOUS
<1>1. ASSUME \/ \E f \in LinkFrameSet : Transmit(f)
             \/ \E k, by : Misread(k, by)
             \/ \E i : MisreadFormat(i)
             \/ UNCHANGED ivars
      PROVE  AllInv'
  <2>1. UNCHANGED <<vars, world, palette, drawing, reading, untouched>>
    BY <1>1 DEF Transmit, Misread, MisreadFormat, ivars
  <2>. QED  BY <2>1, ElsewhereKeeps
<1>. QED
  BY <1>1, CodecKeeps, LookKeeps, DrawModuleKeeps, DrawCellsKeeps, CaptureKeeps,
     CalibrateKeeps DEF ImageNext

-----------------------------------------------------------------------------
(* What is read back *)

\* The theoretical colours of 16; those of fewer colours are among them.
Hues ==
    <<<<229, 34, 34>>, <<229, 107, 34>>, <<229, 180, 34>>, <<205, 229, 34>>,
      <<131, 229, 34>>, <<58, 229, 34>>, <<34, 229, 83>>, <<34, 229, 156>>,
      <<34, 229, 229>>, <<34, 156, 229>>, <<34, 83, 229>>, <<58, 34, 229>>,
      <<131, 34, 229>>, <<205, 34, 229>>, <<229, 34, 180>>, <<229, 34, 107>>>>

LEMMA LevelOfHue ==
    /\ \A n \in Sizes : Level(0, n) = 229 /\ Level(n, n) = 34
    /\ Level(2, 16) = 205 /\ Level(4, 16) = 180 /\ Level(6, 16) = 156 /\ Level(8, 16) = 131
    /\ Level(10, 16) = 107 /\ Level(12, 16) = 83 /\ Level(14, 16) = 58
    /\ Level(2, 8) = 180 /\ Level(4, 8) = 131 /\ Level(6, 8) = 83 /\ Level(2, 4) = 131
BY DEF Level, Sizes

\* The hues of n colours are every (16 / n)-th of these.
LEMMA PaletteHues ==
    ASSUME NEW n \in Sizes, NEW j \in 1 .. n
    PROVE  Palette(n)[j] = Hues[(16 \div n) * (j - 1) + 1]
<1> DEFINE k == (6 * (j - 1)) % n
           v == Level(0, n)
           p == Level(n, n)
           q == Level(k, n)
           t == Level(n - k, n)
           i == ((6 * (j - 1)) \div n) + 1
<1>1. Palette(n)[j] = <<<<v, t, p>>, <<q, v, p>>, <<p, v, t>>,
                        <<p, q, v>>, <<t, p, v>>, <<v, p, q>>>>[i]
  BY DEF Palette
<1>2. v = 229 /\ p = 34  BY LevelOfHue
<1>3. CASE n = 2
  <2>1. CASE j = 1  BY <1>1, <1>2, <1>3, <2>1, LevelOfHue DEF Hues
  <2>2. CASE j = 2  BY <1>1, <1>2, <1>3, <2>2, LevelOfHue DEF Hues
  <2>. QED  BY <1>3, <2>1, <2>2
<1>4. CASE n = 4
  <2>1. CASE j = 1  BY <1>1, <1>2, <1>4, <2>1, LevelOfHue DEF Hues
  <2>2. CASE j = 2  BY <1>1, <1>2, <1>4, <2>2, LevelOfHue DEF Hues
  <2>3. CASE j = 3  BY <1>1, <1>2, <1>4, <2>3, LevelOfHue DEF Hues
  <2>4. CASE j = 4  BY <1>1, <1>2, <1>4, <2>4, LevelOfHue DEF Hues
  <2>. QED  BY <1>4, <2>1, <2>2, <2>3, <2>4
<1>5. CASE n = 8
  <2>1. CASE j = 1  BY <1>1, <1>2, <1>5, <2>1, LevelOfHue DEF Hues
  <2>2. CASE j = 2  BY <1>1, <1>2, <1>5, <2>2, LevelOfHue DEF Hues
  <2>3. CASE j = 3  BY <1>1, <1>2, <1>5, <2>3, LevelOfHue DEF Hues
  <2>4. CASE j = 4  BY <1>1, <1>2, <1>5, <2>4, LevelOfHue DEF Hues
  <2>5. CASE j = 5  BY <1>1, <1>2, <1>5, <2>5, LevelOfHue DEF Hues
  <2>6. CASE j = 6  BY <1>1, <1>2, <1>5, <2>6, LevelOfHue DEF Hues
  <2>7. CASE j = 7  BY <1>1, <1>2, <1>5, <2>7, LevelOfHue DEF Hues
  <2>8. CASE j = 8  BY <1>1, <1>2, <1>5, <2>8, LevelOfHue DEF Hues
  <2>. QED  BY <1>5, <2>1, <2>2, <2>3, <2>4, <2>5, <2>6, <2>7, <2>8
<1>6. CASE n = 16
  <2>1. CASE j = 1  BY <1>1, <1>2, <1>6, <2>1, LevelOfHue DEF Hues
  <2>2. CASE j = 2  BY <1>1, <1>2, <1>6, <2>2, LevelOfHue DEF Hues
  <2>3. CASE j = 3  BY <1>1, <1>2, <1>6, <2>3, LevelOfHue DEF Hues
  <2>4. CASE j = 4  BY <1>1, <1>2, <1>6, <2>4, LevelOfHue DEF Hues
  <2>5. CASE j = 5  BY <1>1, <1>2, <1>6, <2>5, LevelOfHue DEF Hues
  <2>6. CASE j = 6  BY <1>1, <1>2, <1>6, <2>6, LevelOfHue DEF Hues
  <2>7. CASE j = 7  BY <1>1, <1>2, <1>6, <2>7, LevelOfHue DEF Hues
  <2>8. CASE j = 8  BY <1>1, <1>2, <1>6, <2>8, LevelOfHue DEF Hues
  <2>9. CASE j = 9  BY <1>1, <1>2, <1>6, <2>9, LevelOfHue DEF Hues
  <2>10. CASE j = 10  BY <1>1, <1>2, <1>6, <2>10, LevelOfHue DEF Hues
  <2>11. CASE j = 11  BY <1>1, <1>2, <1>6, <2>11, LevelOfHue DEF Hues
  <2>12. CASE j = 12  BY <1>1, <1>2, <1>6, <2>12, LevelOfHue DEF Hues
  <2>13. CASE j = 13  BY <1>1, <1>2, <1>6, <2>13, LevelOfHue DEF Hues
  <2>14. CASE j = 14  BY <1>1, <1>2, <1>6, <2>14, LevelOfHue DEF Hues
  <2>15. CASE j = 15  BY <1>1, <1>2, <1>6, <2>15, LevelOfHue DEF Hues
  <2>16. CASE j = 16  BY <1>1, <1>2, <1>6, <2>16, LevelOfHue DEF Hues
  <2>. QED  BY <1>6, <2>1, <2>2, <2>3, <2>4, <2>5, <2>6, <2>7, <2>8, <2>9, <2>10,
                 <2>11, <2>12, <2>13, <2>14, <2>15, <2>16
<1>. QED  BY <1>3, <1>4, <1>5, <1>6 DEF Sizes

LEMMA UpTo16 ==
    \A i \in 1 .. 16 : \/ i = 1 \/ i = 2 \/ i = 3 \/ i = 4 \/ i = 5 \/ i = 6 \/ i = 7 \/ i = 8
                       \/ i = 9 \/ i = 10 \/ i = 11 \/ i = 12 \/ i = 13 \/ i = 14
                       \/ i = 15 \/ i = 16
OBVIOUS

LEMMA PaletteApart == ASSUME NEW n \in Sizes PROVE Apart(Palette(n))
<1>1. \A i, j \in 1 .. 16 : Hues[i] = Hues[j] => i = j
  <2> DEFINE Before(i) == \A j \in 1 .. 16 : Hues[i] = Hues[j] => i = j
  <2>1. Before(1) /\ Before(2) /\ Before(3) /\ Before(4)  BY DEF Hues
  <2>2. Before(5) /\ Before(6) /\ Before(7) /\ Before(8)  BY DEF Hues
  <2>3. Before(9) /\ Before(10) /\ Before(11) /\ Before(12)  BY DEF Hues
  <2>4. Before(13) /\ Before(14) /\ Before(15) /\ Before(16)  BY DEF Hues
  <2> HIDE DEF Before
  <2>5. \A i \in 1 .. 16 : Before(i)  BY <2>1, <2>2, <2>3, <2>4, UpTo16, Zenon
  <2>. QED  BY <2>5 DEF Before
<1>2. \A j \in 1 .. n : (16 \div n) * (j - 1) + 1 \in 1 .. 16
  BY DEF Sizes
<1>3. \A i, j \in 1 .. n : (16 \div n) * (i - 1) + 1 = (16 \div n) * (j - 1) + 1 => i = j
  BY DEF Sizes
<1>4. DOMAIN Palette(n) = 1 .. n  BY DEF Palette
<1>5. ASSUME NEW i \in 1 .. n, NEW j \in 1 .. n, Palette(n)[i] = Palette(n)[j] PROVE i = j
  <2>1. Hues[(16 \div n) * (i - 1) + 1] = Hues[(16 \div n) * (j - 1) + 1]
    BY <1>5, PaletteHues
  <2>2. (16 \div n) * (i - 1) + 1 \in 1 .. 16 /\ (16 \div n) * (j - 1) + 1 \in 1 .. 16  BY <1>2
  <2>3. (16 \div n) * (i - 1) + 1 = (16 \div n) * (j - 1) + 1  BY <1>1, <2>1, <2>2, Zenon
  <2>. QED  BY <1>3, <2>3
<1>. QED  BY <1>4, <1>5 DEF Apart

\* A colour that is in the list once is decoded to its place.
LEMMA DecodeExact ==
    ASSUME NEW n \in Nat, NEW list \in Lists(n), Apart(list), NEW x \in 0 .. n - 1
    PROVE  Decode(list, list[x + 1]) = {x}
<1>1. Len(list) = n /\ DOMAIN list = 1 .. n
  <2>1. list \in [1 .. n -> Color]  BY DEF Lists
  <2>. QED  BY <2>1
<1>2. {i \in 0 .. n - 1 : list[i + 1] = list[x + 1]} = {x}
  <2>1. \A i \in 0 .. n - 1 : list[i + 1] = list[x + 1] => i = x
    <3>1. \A i \in 0 .. n - 1 : i + 1 \in 1 .. n  OBVIOUS
    <3>2. \A i \in 0 .. n - 1 : i + 1 = x + 1 => i = x  OBVIOUS
    <3>. QED  BY <1>1, <3>1, <3>2 DEF Apart
  <2>. QED  BY <2>1
<1>3. {i \in {x} : \A j \in {x} : i <= j} = {x}  OBVIOUS
<1>. QED  BY <1>1, <1>2, <1>3 DEF Decode, Encode

\* A complete image that is drawn in the colours of one moment is read back, if
\* they can still be told apart.
LEMMA ReadsBackWhen ==
    ASSUME DrawInv, Complete, NEW p \in Lists(Colors), DrawnIn(p),
           Apart(SubSeq(SeesAll(cells), 1, Colors))
    PROVE  ReadsBack
<1> DEFINE calibrated == SubSeq(SeesAll(cells), 1, Colors)
<1>1. FrameInv /\ Colors \in Sizes /\ Colors \in Nat
  BY PayloadFacts DEF DrawInv
<1>2. Len(cells) = 16  BY DEF Complete, CAL_SIZE
<1>3. /\ cells \in Seq(Color) /\ modules \in Seq(Color)
      /\ Len(modules) = Len(Payload)
  BY <1>2 DEF DrawInv, PlaceInv
<1>4. world \in World
  <2>1. cells # <<>>
    <3>1. Len(cells) # 0  BY <1>2
    <3>. QED  BY <3>1
  <2>2. WorldInv  BY DEF DrawInv
  <2>. QED  BY <2>1, <2>2, Zenon DEF WorldInv
<1>5. cells \in Lists(16)
  <2>1. cells \in [1 .. Len(cells) -> Color]  BY <1>3
  <2>. QED  BY <1>2, <2>1 DEF Lists
<1>6. SeesAll(cells) \in Lists(16)  BY <1>4, <1>5, SeesAllType
<1>7. \A k \in 1 .. 16 : SeesAll(cells)[k] = Sees(cells[k])  BY <1>5 DEF SeesAll, Lists
<1>8. calibrated \in Lists(Colors) /\ \A k \in 1 .. Colors : calibrated[k] = SeesAll(cells)[k]
  <2> DEFINE seen == SeesAll(cells)
  <2>1. seen \in [1 .. 16 -> Color]  BY <1>6 DEF Lists
  <2>2. Colors <= 16  BY <1>1 DEF Sizes
  <2> HIDE DEF seen, Colors
  <2>3. SubSeq(seen, 1, Colors) = [k \in 1 .. Colors |-> seen[k]]  BY <1>1, <2>1, <2>2
  <2>4. \A k \in 1 .. Colors : seen[k] \in Color  BY <1>1, <2>1, <2>2
  <2>5. [k \in 1 .. Colors |-> seen[k]] \in Lists(Colors)  BY <2>4 DEF Lists
  <2>6. \A k \in 1 .. Colors : [j \in 1 .. Colors |-> seen[j]][k] = seen[k]  OBVIOUS
  <2>. QED  BY <2>3, <2>5, <2>6 DEF seen
<1>9. \A k \in 1 .. Colors : calibrated[k] = Sees(p[k])
  <2>1. \A k \in 1 .. Colors : k \in 1 .. 16 /\ cells[k] = Cell(p, k - 1)
    <3>1. \A k \in 1 .. Colors : k \in 1 .. 16
      <4>1. Colors \in Nat /\ Colors <= 16  BY <1>1 DEF Sizes
      <4> HIDE DEF Colors
      <4>. QED  BY <4>1
    <3>2. \A k \in 1 .. 16 : cells[k] = Cell(p, k - 1)  BY <1>2 DEF DrawnIn
    <3>. QED  BY <3>1, <3>2
  <2>2. \A k \in 1 .. Colors : Cell(p, k - 1) = p[k]  BY <1>1, CellFacts
  <2>. QED  BY <1>7, <1>8, <2>1, <2>2
<1>. HIDE DEF calibrated
<1>10. ASSUME NEW k \in 1 .. Len(Payload)
       PROVE  Decode(calibrated, Sees(modules[k])) = {Payload[k]}
  <2>1. Payload[k] \in 0 .. Colors - 1  BY <1>1, PayloadFacts
  <2>2. modules[k] = p[Payload[k] + 1]  BY <1>3 DEF DrawnIn, Encode
  <2>3. Payload[k] + 1 \in 1 .. Colors  BY <1>1, <2>1
  <2>4. calibrated[Payload[k] + 1] = Sees(modules[k])  BY <1>9, <2>2, <2>3
  <2>5. Apart(calibrated)  BY DEF calibrated
  <2>6. Decode(calibrated, calibrated[Payload[k] + 1]) = {Payload[k]}
    <3>1. Colors \in Nat /\ calibrated \in Lists(Colors)  BY <1>1, <1>8, Zenon
    <3>. QED  BY <2>1, <2>5, <3>1, DecodeExact, Zenon
  <2>. QED  BY <2>4, <2>6, Zenon
<1>11. DOMAIN Payload = 1 .. Len(Payload)  BY <1>1, PayloadFacts
<1>. QED  BY <1>10, <1>11 DEF ReadsBack, calibrated

\* Whatever the frame and the surroundings are, however many images are captured
\* and wherever their calibration falls: if no colour changed while the image was
\* drawn and the camera does not make two of its colours one, it is read back.
THEOREM UntouchedImageReadsCorrect == ImageSpec => []UntouchedImageReads
<1>1. AllInv => UntouchedImageReads
  <2> SUFFICES ASSUME AllInv, Complete, untouched, Apart(SubSeq(SeesAll(cells), 1, Colors))
               PROVE  ReadsBack
    BY DEF UntouchedImageReads
  <2>1. PICK p \in Lists(Colors) : DrawnIn(p)  BY DEF AllInv, UntouchedInv
  <2>. QED  BY <2>1, ReadsBackWhen DEF AllInv
<1>2. ImageInit => AllInv  BY DrawInit DEF AllInv
<1>. QED  BY <1>1, <1>2, DrawNext, PTL DEF ImageSpec

\* Two ends of one depth whose cameras show colours as they are cannot disturb each
\* other's images, however often they calibrate.
THEOREM SettledEndsReadCorrect == ImageSpec => []SettledEndsRead
<1>1. AllInv => SettledEndsRead
  <2> SUFFICES ASSUME AllInv, Complete, world.exposure = 4, world.others = {bpc}
               PROVE  ReadsBack
    BY DEF SettledEndsRead
  <2>1. Len(cells) = 16  BY DEF Complete, CAL_SIZE
  <2>2. cells \in Seq(Color) /\ FrameInv  BY DEF AllInv, DrawInv, PlaceInv
  <2>3. world # NoWorld /\ world \in World
    <3>1. cells # <<>>  BY <2>1
    <3>. QED  BY <3>1 DEF AllInv, DrawInv, WorldInv
  <2>4. palette = Palette(Colors) /\ DrawnIn(palette) /\ palette \in Lists(Colors)
    BY <2>3 DEF AllInv, SettledInv, Settled, DrawInv, ColorsInv
  <2>5. Colors \in Sizes /\ Colors \in Nat  BY <2>2, PayloadFacts
  <2>6. SeesAll(cells) = cells
    <3>1. cells \in [1 .. Len(cells) -> Color]  BY <2>2
    <3>2. cells \in Lists(16)  BY <2>1, <3>1 DEF Lists
    <3>. QED  BY <2>3, <3>2, SeesAllType
  <2>7. SubSeq(cells, 1, Colors) = palette
    <3>1. Colors <= 16  BY <2>5 DEF Sizes
    <3>2. \A k \in 1 .. Colors : cells[k] = palette[k]
      <4>1. \A k \in 1 .. Colors : Cell(palette, k - 1) = palette[k]  BY <2>4, <2>5, CellFacts
      <4>2. \A k \in 1 .. Colors : cells[k] = Cell(palette, k - 1)
        BY <2>1, <2>4, <2>5, <3>1 DEF DrawnIn
      <4>. QED  BY <4>1, <4>2
    <3> HIDE DEF Colors
    <3>3. SubSeq(cells, 1, Colors) = [k \in 1 .. Colors |-> cells[k]]
      BY <2>1, <2>2, <2>5, <3>1
    <3>4. palette = [k \in 1 .. Colors |-> palette[k]]  BY <2>4 DEF Lists
    <3>. QED  BY <3>2, <3>3, <3>4
  <2>8. Apart(SubSeq(SeesAll(cells), 1, Colors))
    BY <2>4, <2>5, <2>6, <2>7, PaletteApart
  <2>. QED  BY <2>4, <2>8, ReadsBackWhen DEF AllInv
<1>2. ImageInit => AllInv  BY DrawInit DEF AllInv
<1>. QED  BY <1>1, <1>2, DrawNext, PTL DEF ImageSpec

-----------------------------------------------------------------------------
(* What a camera notices *)

\* In 16 colours no two modules differ by more than 137 levels of grey.
LEMMA GreyGapFacts == GreyGap(4) = 137
<1> DEFINE palette16 == Palette(2^4)
           greys == {Grey(palette16[k]) : k \in 1 .. 2^4}
           gaps == {x - y : x, y \in greys}
<1>1. 2^4 = 16 /\ 16 \in Sizes  BY DEF Sizes
<1>2. \A k \in 1 .. 16 : palette16[k] = Hues[k]
  <2>1. \A k \in 1 .. 16 : (16 \div 16) * (k - 1) + 1 = k  OBVIOUS
  <2>. QED  BY <1>1, <2>1, PaletteHues
<1>3. \A k \in 1 .. 16 : Grey(Hues[k]) \in 63 .. 200
  <2> DEFINE Between(k) == Grey(Hues[k]) \in 63 .. 200
  <2>1. Between(1) /\ Between(2) /\ Between(3) /\ Between(4)  BY DEF Hues, Grey
  <2>2. Between(5) /\ Between(6) /\ Between(7) /\ Between(8)  BY DEF Hues, Grey
  <2>3. Between(9) /\ Between(10) /\ Between(11) /\ Between(12)  BY DEF Hues, Grey
  <2>4. Between(13) /\ Between(14) /\ Between(15) /\ Between(16)  BY DEF Hues, Grey
  <2> HIDE DEF Between
  <2>5. \A k \in 1 .. 16 : Between(k)  BY <2>1, <2>2, <2>3, <2>4, UpTo16, Zenon
  <2>. QED  BY <2>5 DEF Between
<1>4. Grey(Hues[4]) = 200 /\ Grey(Hues[12]) = 63  BY DEF Hues, Grey
<1>5. greys \subseteq 63 .. 200 /\ 200 \in greys /\ 63 \in greys
  <2>1. \A k \in 1 .. 16 : Grey(palette16[k]) \in 63 .. 200  BY <1>2, <1>3
  <2>2. Grey(palette16[4]) = 200 /\ Grey(palette16[12]) = 63 /\ 4 \in 1 .. 16 /\ 12 \in 1 .. 16
    BY <1>2, <1>4
  <2> HIDE DEF palette16
  <2>. QED  BY <1>1, <2>1, <2>2
<1>. HIDE DEF greys
<1>6. 137 \in gaps /\ \A gap \in gaps : gap \in Int /\ gap <= 137
  <2>1. 200 - 63 = 137 /\ \A x, y \in 63 .. 200 : x - y \in Int /\ x - y <= 137  OBVIOUS
  <2>2. 200 - 63 \in gaps  BY <1>5
  <2>. QED  BY <1>5, <2>1, <2>2
<1>. HIDE DEF gaps
<1>7. GreyGap(4) = CHOOSE gap \in gaps : \A other \in gaps : gap >= other
  BY DEF GreyGap, gaps, greys
<1>8. GreyGap(4) \in gaps /\ \A other \in gaps : GreyGap(4) >= other
  <2>1. \E gap \in gaps : \A other \in gaps : gap >= other  BY <1>6
  <2>. QED  BY <1>7, <2>1
<1>. QED  BY <1>6, <1>8

\* The bits of the format information of a short frame, and of a handshake frame.
LEMMA FormatBits ==
    ASSUME NEW n \in 0 .. 130
    PROVE  /\ FormatInfo(n, 4) = 16 * n + 3
           /\ 0 \in BitsOf(FormatInfo(n, 4)) /\ 1 \in BitsOf(FormatInfo(n, 4))
           /\ 2 \notin BitsOf(FormatInfo(n, 4)) /\ 3 \notin BitsOf(FormatInfo(n, 4))
           /\ BitsOf(FormatInfo(n, 4)) \subseteq 0 .. 11
<1>1. FormatInfo(n, 4) = 16 * n + 3
  <2>1. n % 1048576 = n /\ 2^20 = 1048576  OBVIOUS
  <2>. QED  BY <2>1 DEF FormatInfo
<1>2. 2^0 = 1 /\ 2^1 = 2 /\ 2^2 = 4 /\ 2^3 = 8  OBVIOUS
<1>3. /\ ((16 * n + 3) \div 1) % 2 = 1 /\ ((16 * n + 3) \div 2) % 2 = 1
      /\ ((16 * n + 3) \div 4) % 2 = 0 /\ ((16 * n + 3) \div 8) % 2 = 0
  OBVIOUS
<1>4. \A i \in 12 .. 23 : (16 * n + 3) \div 2^i = 0
  <2>1. /\ 2^12 = 4096 /\ 2^13 = 8192 /\ 2^14 = 16384 /\ 2^15 = 32768 /\ 2^16 = 65536
        /\ 2^17 = 131072 /\ 2^18 = 262144 /\ 2^19 = 524288 /\ 2^20 = 1048576
        /\ 2^21 = 2097152 /\ 2^22 = 4194304 /\ 2^23 = 8388608
    OBVIOUS
  <2>2. 16 * n + 3 < 4096 /\ 16 * n + 3 >= 0  OBVIOUS
  <2> DEFINE info == 16 * n + 3
  <2>3. info \in Nat /\ info < 4096  BY <2>2
  <2> HIDE DEF info
  <2>4. \A d \in Nat : d >= 4096 => info \div d = 0  BY <2>3
  <2>5. \A i \in 12 .. 23 : \/ i = 12 \/ i = 13 \/ i = 14 \/ i = 15 \/ i = 16 \/ i = 17
                            \/ i = 18 \/ i = 19 \/ i = 20 \/ i = 21 \/ i = 22 \/ i = 23
    OBVIOUS
  <2> DEFINE Above(i) == info \div 2^i = 0
  <2>6. Above(12) /\ Above(13) /\ Above(14) /\ Above(15)  BY <2>1, <2>4
  <2>7. Above(16) /\ Above(17) /\ Above(18) /\ Above(19)  BY <2>1, <2>4
  <2>8. Above(20) /\ Above(21) /\ Above(22) /\ Above(23)  BY <2>1, <2>4
  <2> HIDE DEF Above
  <2>9. \A i \in 12 .. 23 : Above(i)  BY <2>5, <2>6, <2>7, <2>8
  <2>. QED  BY <2>9 DEF info, Above
<1> DEFINE info == FormatInfo(n, 4)
<1>5. \A i \in 0 .. 23 : i \in BitsOf(info) <=> (info \div 2^i) % 2 = 1
  <2> HIDE DEF info
  <2>. QED  BY Zenon DEF BitsOf
<1>6. BitsOf(info) \subseteq 0 .. 23
  <2> HIDE DEF info
  <2>. QED  BY Zenon DEF BitsOf
<1>. HIDE DEF info
<1>7. info = 16 * n + 3  BY <1>1 DEF info
<1>8. 0 \in 0 .. 23 /\ 1 \in 0 .. 23 /\ 2 \in 0 .. 23 /\ 3 \in 0 .. 23 /\ 0 # 1 /\ 0 % 2 = 0
  OBVIOUS
<1>9. 0 \in BitsOf(info) /\ 1 \in BitsOf(info)
  BY <1>2, <1>3, <1>5, <1>7, <1>8, Zenon
<1>10. 2 \notin BitsOf(info) /\ 3 \notin BitsOf(info)
  BY <1>2, <1>3, <1>5, <1>7, <1>8, Zenon
<1>11. \A i \in 12 .. 23 : i \in 0 .. 23 /\ i \notin BitsOf(info)
  <2>1. \A i \in 12 .. 23 : i \in 0 .. 23  OBVIOUS
  <2>. QED  BY <1>4, <1>5, <1>7, <1>8, <2>1, Zenon
<1>12. BitsOf(info) \subseteq 0 .. 11
  <2> DEFINE bits == BitsOf(info)
  <2>1. bits \subseteq 0 .. 23 /\ \A i \in 12 .. 23 : i \notin bits  BY <1>6, <1>11
  <2> HIDE DEF bits
  <2>2. bits \subseteq 0 .. 11  BY <2>1
  <2>. QED  BY <2>2 DEF bits
<1>. QED  BY <1>7, <1>9, <1>10, <1>12 DEF info

LEMMA OneFewer ==
    ASSUME NEW S, IsFiniteSet(S), NEW x \in S
    PROVE  IsFiniteSet(S \ {x}) /\ Cardinality(S \ {x}) = Cardinality(S) - 1
BY FS_RemoveElement

\* In how many bits the format information of a frame differs from that of a
\* handshake frame.
LEMMA FewBits ==
    ASSUME NEW n \in 0 .. 130
    PROVE  LET bits    == BitsOf(FormatInfo(n, 4))
               others  == BitsOf(FormatInfo(52, 4))
               changed == (bits \ others) \cup (others \ bits)
           IN  /\ Cardinality(changed) \in Nat /\ Cardinality(changed) <= 8
               /\ n >= 128 => Cardinality(changed) <= 5
<1> DEFINE bits    == BitsOf(FormatInfo(n, 4))
           others  == BitsOf(FormatInfo(52, 4))
           changed == (bits \ others) \cup (others \ bits)
<1>1. 52 \in 0 .. 130  OBVIOUS
<1>2. /\ 0 \in bits /\ 1 \in bits /\ 2 \notin bits /\ 3 \notin bits /\ bits \subseteq 0 .. 11
      /\ 0 \in others /\ 1 \in others /\ 2 \notin others /\ 3 \notin others
      /\ others \subseteq 0 .. 11
  BY <1>1, FormatBits, Zenon
<1>3. n >= 128 =>
          /\ 7 \notin bits /\ 10 \notin bits /\ (4 \notin bits \/ 5 \notin bits)
          /\ 4 \notin others /\ 5 \notin others /\ 7 \notin others /\ 10 \notin others
  <2> SUFFICES ASSUME n >= 128
               PROVE  /\ 7 \notin bits /\ 10 \notin bits /\ (4 \notin bits \/ 5 \notin bits)
                      /\ 4 \notin others /\ 5 \notin others /\ 7 \notin others /\ 10 \notin others
    OBVIOUS
  <2>1. FormatInfo(n, 4) = 16 * n + 3 /\ FormatInfo(52, 4) = 16 * 52 + 3  BY <1>1, FormatBits
  <2>2. 2^4 = 16 /\ 2^5 = 32 /\ 2^7 = 128 /\ 2^10 = 1024  OBVIOUS
  <2>3. n = 128 \/ n = 129 \/ n = 130  OBVIOUS
  <2>4. /\ ((16 * n + 3) \div 128) % 2 # 1 /\ ((16 * n + 3) \div 1024) % 2 # 1
        /\ ((16 * n + 3) \div 16) % 2 # 1 \/ ((16 * n + 3) \div 32) % 2 # 1
    BY <2>3
  <2>5. /\ ((16 * 52 + 3) \div 16) % 2 # 1 /\ ((16 * 52 + 3) \div 32) % 2 # 1
        /\ ((16 * 52 + 3) \div 128) % 2 # 1 /\ ((16 * 52 + 3) \div 1024) % 2 # 1
    OBVIOUS
  <2>6. ASSUME NEW info, NEW i, i \in BitsOf(info) PROVE (info \div 2^i) % 2 = 1
    BY <2>6, Zenon DEF BitsOf
  <2>7. /\ 4 \in bits => ((16 * n + 3) \div 16) % 2 = 1
        /\ 5 \in bits => ((16 * n + 3) \div 32) % 2 = 1
        /\ 7 \in bits => ((16 * n + 3) \div 128) % 2 = 1
        /\ 10 \in bits => ((16 * n + 3) \div 1024) % 2 = 1
    <3> DEFINE One(d) == ((16 * n + 3) \div d) % 2 = 1
    <3>1. ASSUME NEW i, i \in bits PROVE One(2^i)  BY <2>1, <2>6, <3>1, Zenon
    <3> HIDE DEF bits, One
    <3>2. /\ (4 \in bits => One(2^4)) /\ (5 \in bits => One(2^5))
          /\ (7 \in bits => One(2^7)) /\ (10 \in bits => One(2^10))
      BY <3>1, Zenon
    <3>3. /\ 4 \in bits => One(16)
          /\ 5 \in bits => One(32)
          /\ 7 \in bits => One(128)
          /\ 10 \in bits => One(1024)
      BY <2>2, <3>2
    <3>. QED  BY <3>3 DEF One
  <2>8. /\ 4 \in others => ((16 * 52 + 3) \div 16) % 2 = 1
        /\ 5 \in others => ((16 * 52 + 3) \div 32) % 2 = 1
        /\ 7 \in others => ((16 * 52 + 3) \div 128) % 2 = 1
        /\ 10 \in others => ((16 * 52 + 3) \div 1024) % 2 = 1
    <3> DEFINE One(d) == ((16 * 52 + 3) \div d) % 2 = 1
    <3>1. ASSUME NEW i, i \in others PROVE One(2^i)  BY <2>1, <2>6, <3>1, Zenon
    <3> HIDE DEF others, One
    <3>2. /\ (4 \in others => One(2^4)) /\ (5 \in others => One(2^5))
          /\ (7 \in others => One(2^7)) /\ (10 \in others => One(2^10))
      BY <3>1, Zenon
    <3>3. /\ 4 \in others => One(16)
          /\ 5 \in others => One(32)
          /\ 7 \in others => One(128)
          /\ 10 \in others => One(1024)
      BY <2>2, <3>2
    <3>. QED  BY <3>3 DEF One
  <2> HIDE DEF bits, others
  <2>9. 7 \notin bits /\ 10 \notin bits  BY <2>4, <2>7, Zenon
  <2>10. 4 \notin bits \/ 5 \notin bits  BY <2>4, <2>7, Zenon
  <2>11. 4 \notin others /\ 5 \notin others  BY <2>5, <2>8, Zenon
  <2>12. 7 \notin others /\ 10 \notin others  BY <2>5, <2>8, Zenon
  <2>. QED  BY <2>9, <2>10, <2>11, <2>12, Zenon
<1>. HIDE DEF bits, others
<1> DEFINE few == ((4 .. 11) \ {7}) \ {10}
<1>4. changed \subseteq 4 .. 11
  <2>1. \A i \in 0 .. 11 : i = 0 \/ i = 1 \/ i = 2 \/ i = 3 \/ i \in 4 .. 11  OBVIOUS
  <2>. QED  BY <1>2, <2>1
<1>5. IsFiniteSet(4 .. 11) /\ Cardinality(4 .. 11) = 8
  <2>1. 4 \in Int /\ 11 \in Int /\ ~ 4 > 11 /\ 11 - 4 + 1 = 8  OBVIOUS
  <2>2. IsFiniteSet(4 .. 11) /\ Cardinality(4 .. 11) = IF 4 > 11 THEN 0 ELSE 11 - 4 + 1
    BY <2>1, FS_Interval, Zenon
  <2>. QED  BY <2>1, <2>2, Zenon
<1>6. IsFiniteSet(few) /\ Cardinality(few) = 6 /\ 4 \in few /\ 5 \in few
  <2> DEFINE seven == (4 .. 11) \ {7}
  <2>1. 7 \in 4 .. 11 /\ 10 \in seven /\ 4 \in few /\ 5 \in few  OBVIOUS
  <2>2. few = seven \ {10}  OBVIOUS
  <2>3. IsFiniteSet(seven) /\ Cardinality(seven) = 7  BY <1>5, <2>1, OneFewer
  <2> HIDE DEF seven, few
  <2>. QED  BY <2>1, <2>2, <2>3, OneFewer
<1>7. Cardinality(changed) \in Nat /\ Cardinality(changed) <= 8
  <2>1. IsFiniteSet(changed) /\ Cardinality(changed) <= Cardinality(4 .. 11)
    BY <1>4, <1>5, FS_Subset, Zenon
  <2>. QED  BY <1>5, <2>1, FS_CardinalityType
<1>8. ASSUME NEW x \in {4, 5}, changed \subseteq few \ {x} PROVE Cardinality(changed) <= 5
  <2>1. x \in few  BY <1>6
  <2> HIDE DEF few, changed
  <2>2. IsFiniteSet(few \ {x}) /\ Cardinality(few \ {x}) = 5
    BY <1>6, <2>1, OneFewer
  <2>3. Cardinality(changed) <= Cardinality(few \ {x})  BY <1>8, <2>2, FS_Subset, Zenon
  <2>. QED  BY <2>2, <2>3, Zenon
<1>9. n >= 128 => changed \subseteq few \ {4} \/ changed \subseteq few \ {5}
  BY <1>3, <1>4
<1>. QED  BY <1>7, <1>8, <1>9 DEF changed, bits, others

\* What the composition with the camera adds leaves the codec's own steps as they
\* are: everything that is proved of GridCodec holds of it.
THEOREM ImageIsCodec == ImageSpec => Spec
<1>1. ImageInit => Init  BY DEF ImageInit
<1>2. [ImageNext]_ivars => [Next]_vars
  BY DEF ImageNext, ivars, Codec, Transmit, Misread, MisreadFormat, Look, DrawModule,
         DrawCells, Capture, Calibrate, Next
<1>. QED  BY <1>1, <1>2, PTL DEF ImageSpec, Spec

\* How much two images can differ in what the payload modules and the bits of the
\* format information make of them.
LEMMA ChangeFacts ==
    ASSUME NEW n \in 18 .. 130
    PROVE  /\ GreatestChange(n, n, 4) <= DiffThreshold * ImageModules
           /\ GreatestChange(HANDSHAKE_SIZE, n, 4) <= DiffThreshold * ImageModules
<1>1. DiffThreshold * ImageModules = 36992
  <2>1. 68^2 = 68 * 68  OBVIOUS
  <2>. QED  BY <2>1 DEF DiffThreshold, ImageModules, GRID_MODULES, SILENCE_MODULES
<1>2. Symbols(n, 4) = 2 * n /\ Symbols(52, 4) = 104 /\ HANDSHAKE_SIZE = 52
  BY DEF Symbols, HANDSHAKE_SIZE
<1>3. GreatestChange(n, n, 4) = 2 * n * 137
  <2> DEFINE bits == BitsOf(FormatInfo(n, 4))
  <2>1. (bits \ bits) \cup (bits \ bits) = {}  OBVIOUS
  <2>2. Cardinality({}) = 0  BY FS_EmptySet
  <2>3. GreatestChange(n, n, 4) =
            Greatest(Symbols(n, 4), Symbols(n, 4)) * GreyGap(4)
              + 255 * Cardinality((bits \ bits) \cup (bits \ bits))
    BY Zenon DEF GreatestChange
  <2>4. Greatest(2 * n, 2 * n) = 2 * n  BY DEF Greatest
  <2> HIDE DEF bits
  <2>. QED  BY <1>2, <2>1, <2>2, <2>3, <2>4, GreyGapFacts
<1> DEFINE bits    == BitsOf(FormatInfo(n, 4))
           others  == BitsOf(FormatInfo(52, 4))
           changed == (bits \ others) \cup (others \ bits)
<1>4. GreatestChange(52, n, 4) =
          Greatest(104, 2 * n) * 137 + 255 * Cardinality((others \ bits) \cup (bits \ others))
  BY <1>2, GreyGapFacts, Zenon DEF GreatestChange
<1>5. (others \ bits) \cup (bits \ others) = changed
  <2> HIDE DEF bits, others
  <2>. QED  OBVIOUS
<1>6. /\ Cardinality(changed) \in Nat /\ Cardinality(changed) <= 8
      /\ n >= 128 => Cardinality(changed) <= 5
  <2>1. n \in 0 .. 130  OBVIOUS
  <2>. QED  BY <2>1, FewBits, Zenon
<1> DEFINE number == Cardinality(changed)
<1>. HIDE DEF bits, others, changed, number
<1>7. GreatestChange(52, n, 4) = Greatest(104, 2 * n) * 137 + 255 * number
  BY <1>4, <1>5 DEF number
<1>8. number \in Nat /\ number <= 8 /\ (n >= 128 => number <= 5)  BY <1>6 DEF number
<1>9. Greatest(104, 2 * n) * 137 + 255 * number <= 36992
  <2>1. CASE n <= 52  BY <1>8, <2>1 DEF Greatest
  <2>2. CASE n > 52 /\ n < 128  BY <1>8, <2>2 DEF Greatest
  <2>3. CASE n >= 128  BY <1>8, <2>3 DEF Greatest
  <2>. QED  BY <2>1, <2>2, <2>3
<1>. QED  BY <1>1, <1>2, <1>3, <1>7, <1>9

\* Whatever a message is, detect_change cannot tell one of its full frames from the
\* next one, nor its first frame from the handshake before it.
THEOREM NextFrameUnnoticedCorrect == ImageSpec => []NextFrameUnnoticed
<1>1. CutInv => NextFrameUnnoticed
  <2> SUFFICES ASSUME CutInv, bpc = 4
               PROVE  LET n == Fragment(left, 4) + FrameHeader IN
                      /\ GreatestChange(n, n, 4) <= DiffThreshold * ImageModules
                      /\ GreatestChange(HANDSHAKE_SIZE, n, 4) <= DiffThreshold * ImageModules
    BY DEF NextFrameUnnoticed
  <2>1. left \in Nat  BY LengthAssumption DEF CutInv, LengthAssumption
  <2>2. Fragment(left, 4) \in Nat /\ Fragment(left, 4) <= 112
    BY <2>1, FragmentFacts DEF MAX_PAYLOAD
  <2>3. Fragment(left, 4) + FrameHeader \in 18 .. 130
    BY <2>2 DEF FrameHeader, DATAFRAME_HEADER_SIZE
  <2>. QED  BY <2>3, ChangeFacts
<1>2. CutInv /\ [ImageNext]_ivars => CutInv'
  <2>1. [ImageNext]_ivars => [Next]_vars
    BY DEF ImageNext, ivars, Codec, Transmit, Misread, MisreadFormat, Look, DrawModule,
           DrawCells, Capture, Calibrate, Next
  <2>. QED  BY <2>1, CutNext
<1>3. ImageInit => CutInv  BY CutInit DEF ImageInit
<1>. QED  BY <1>1, <1>2, <1>3, PTL DEF ImageSpec
=============================================================================
