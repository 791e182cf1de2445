----------------------------- MODULE LinkFrames -----------------------------
(***************************************************************************)
(* The bytes of the link's frames (transmision/frames.py) and what the     *)
(* consumer thread makes of the bytes it reads (transmision/adapter.py,    *)
(* _decode_and_store).                                                     *)
(*                                                                         *)
(* A handshake is [type, src, dst, caps], a data frame [type, src, dst,    *)
(* seq, payload].  The file's metadata in a handshake are zero, as they    *)
(* are in every handshake the adapter shows.                               *)
(***************************************************************************)
EXTENDS Integers, Sequences

SYN     == 0
SYN_ACK == 1
ACK     == 2
DATA    == 3
NACK    == 4
FIN     == 5
FIN_ACK == 6

FrameTypes   == 0 .. 6
Compressions == 0 .. 3
MAGIC        == <<78, 81>>   \* 0x4E51

HANDSHAKE_SIZE        == 52
DATAFRAME_HEADER_SIZE == 16
MAX_PAYLOAD           == 112

Least(x, y)    == IF x <= y THEN x ELSE y
Greatest(x, y) == IF x >= y THEN x ELSE y

Byte == 0 .. 255

\* Two bytes.
HalfWord == 0 .. 256 * 256 - 1

Address == [1 .. 6 -> Byte]

Capabilities ==
    [color_depth : 0 .. 3, grid_size : 0 .. 63, ecc_level : 0 .. 3, sync_method : 0 .. 3,
     interval_ms : HalfWord, compression : Compressions]

HandshakeFrame ==
    [type : {SYN, SYN_ACK, ACK}, src : Address, dst : Address, caps : Capabilities]

\* A longer payload raises in __post_init__.
DataFrame ==
    {f \in [type : {DATA, NACK, FIN, FIN_ACK}, src : Address, dst : Address, seq : HalfWord,
            payload : Seq(Byte)] : Len(f.payload) <= MAX_PAYLOAD}

Word(n)  == <<n \div 256, n % 256>>
Zeros(n) == [k \in 1 .. n |-> 0]

Toggled(crc, weight) == IF (crc \div weight) % 2 = 0 THEN crc + weight ELSE crc - weight

\* One round of the inner loop, with the bit of the byte that it shifts out:
\* 0x1021 is bits 12, 5 and 0, and bit 0 is clear after the shift.
CrcBit(crc, bit) ==
    LET shifted == (crc * 2) % 65536 IN
    IF crc \div 32768 = bit
    THEN shifted
    ELSE Toggled(Toggled(shifted + 1, 32), 4096)

\* The inner loop.
CrcByte(crc, byte) ==
    LET after[i \in 0 .. 8] == IF i = 0 THEN crc ELSE CrcBit(after[i - 1], (byte \div 2^(8 - i)) % 2)
    IN  after[8]

\* The outer loop; Next is a function for the crc to be evaluated byte by byte.
Crc16(bytes) ==
    LET Next == [p \in HalfWord \X Byte |-> CrcByte(p[1], p[2])]
        crc[k \in 0 .. Len(bytes)] == IF k = 0 THEN 65535 ELSE Next[crc[k - 1], bytes[k]]
    IN  crc[Len(bytes)]

Sealed(body) == body \o Word(Crc16(body))

IsHandshakeType(type) == type \in {SYN, SYN_ACK, ACK}

\* Slip: the checksum is taken with its own two zero bytes.
HandshakeBytesUncut(h) ==
    LET c    == h.caps
        body == <<16 + h.type, 0>> \o MAGIC \o h.src \o h.dst
                   \o <<c.color_depth * 64 + c.grid_size>> \o Word(c.interval_ms)
                   \o <<c.compression * 16, c.ecc_level * 64 + c.sync_method * 16>>
                   \o Zeros(29)
    IN  body \o Word(Crc16(body \o <<0, 0>>))

\* HandshakeFrame.to_bytes
HandshakeBytes(h) ==
    LET c == h.caps IN
    Sealed(<<16 + h.type, 0>> \o MAGIC \o h.src \o h.dst
              \o <<c.color_depth * 64 + c.grid_size>> \o Word(c.interval_ms)
              \o <<c.compression * 16, c.ecc_level * 64 + c.sync_method * 16>>
              \o Zeros(29))

\* DataFrame.to_bytes
DataBytes(f) ==
    Sealed(<<16 + f.type>> \o f.src \o f.dst \o Word(f.seq) \o <<Len(f.payload)>> \o f.payload)

FrameBytes(f) == IF IsHandshakeType(f.type) THEN HandshakeBytes(f) ELSE DataBytes(f)

\* HandshakeFrame.from_bytes raises nothing.
IsHandshake(data) ==
    LET n == Len(data) IN
    /\ n >= HANDSHAKE_SIZE
    /\ Word(Crc16(SubSeq(data, 1, n - 2))) = SubSeq(data, n - 1, n)
    /\ SubSeq(data, 3, 4) = MAGIC
    /\ data[1] % 16 \in FrameTypes
    /\ data[20] \div 16 \in Compressions

ToHandshake(data) ==
    [type |-> data[1] % 16,
     src  |-> SubSeq(data, 5, 10),
     dst  |-> SubSeq(data, 11, 16),
     caps |-> [color_depth |-> data[17] \div 64, grid_size |-> data[17] % 64,
               interval_ms |-> data[18] * 256 + data[19], compression |-> data[20] \div 16,
               ecc_level |-> data[21] \div 64, sync_method |-> (data[21] \div 16) % 4]]

\* Slip: the checksum is not compared.
IsDataUnchecked(data) ==
    /\ Len(data) >= DATAFRAME_HEADER_SIZE + 2
    /\ LET end == DATAFRAME_HEADER_SIZE + data[16] IN
       /\ Len(data) >= end + 2
       /\ data[16] <= MAX_PAYLOAD
    /\ data[1] % 16 \in FrameTypes

\* DataFrame.from_bytes raises nothing.
IsData(data) ==
    /\ Len(data) >= DATAFRAME_HEADER_SIZE + 2
    /\ LET end == DATAFRAME_HEADER_SIZE + data[16] IN
       /\ Len(data) >= end + 2
       /\ Word(Crc16(SubSeq(data, 1, end))) = SubSeq(data, end + 1, end + 2)
       /\ data[16] <= MAX_PAYLOAD
    /\ data[1] % 16 \in FrameTypes

ToData(data) ==
    [type    |-> data[1] % 16,
     src     |-> SubSeq(data, 2, 7),
     dst     |-> SubSeq(data, 8, 13),
     seq     |-> data[14] * 256 + data[15],
     payload |-> SubSeq(data, 17, 16 + data[16])]

\* What a frame adds to _rx_buffer, if anything: its key and what is put there.
Nothing == <<>>

Entry(f) ==
    CASE f.type = SYN              -> <<-1, f>>
      [] f.type \in {SYN_ACK, ACK} -> <<-2, f>>
      [] f.type = DATA             -> <<f.seq, f.payload>>
      [] OTHER                     -> Nothing

\* Handshake first; only a data frame that is none is looked at as data.
Stored(data) ==
    IF IsHandshake(data)
    THEN IF IsHandshakeType(data[1] % 16) THEN Entry(ToHandshake(data)) ELSE Nothing
    ELSE IF IsData(data) /\ data[1] % 16 = DATA THEN Entry(ToData(data)) ELSE Nothing

\* HandshakeFrame.negotiate_with
NegotiateWith(local, remote) ==
    LET l == local.caps
        r == remote.caps
    IN  [type |-> SYN_ACK, src |-> local.dst, dst |-> local.src,
         caps |-> [color_depth |-> Least(l.color_depth, r.color_depth),
                   grid_size   |-> Least(l.grid_size, r.grid_size),
                   ecc_level   |-> Least(l.ecc_level, r.ecc_level),
                   sync_method |-> r.sync_method,
                   interval_ms |-> Greatest(l.interval_ms, r.interval_ms),
                   compression |-> r.compression]]
=============================================================================
