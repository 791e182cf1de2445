----------------------------- MODULE MCGridImage -----------------------------
(* An instance of GridImage for TLC.                                         *)
EXTENDS GridImage

Mac      == <<2, 17, 34, 51, 68, 85>>
MagicMac == <<2>> \o MAGIC \o <<51, 68, 85>>
AnyMac   == [k \in 1 .. 6 |-> 255]
NoMac    == [k \in 1 .. 6 |-> 0]

Caps == [color_depth |-> 3, grid_size |-> 8, ecc_level |-> 2, sync_method |-> 3,
         interval_ms |-> 150, compression |-> 1]

Hello    == [type |-> SYN, src |-> Mac, dst |-> AnyMac, caps |-> [Caps EXCEPT !.interval_ms = 400]]
Listener == [type |-> SYN, src |-> NoMac, dst |-> AnyMac, caps |-> Caps]
Final    == [type |-> ACK, src |-> Mac, dst |-> AnyMac, caps |-> Caps]

\* n bytes that are not all alike; the fourth one decides what passes for a
\* compression algorithm.
Contents(n, fourth) == [k \in 1 .. n |-> IF k = 4 THEN fourth ELSE (37 * k) % 256]

Data(type, src, seq, payload) ==
    [type |-> type, src |-> src, dst |-> AnyMac, seq |-> seq, payload |-> payload]

\* One misread module makes a data frame with its own checksum of each of these: of
\* the ACK by its type, of the other one by its length, 16 read as 0.
LuckyAck  == [Final EXCEPT !.dst = <<2, 17, 34, 133, 83, 0>>]
LuckyData == Data(DATA, Mac, 0, <<99, 29>> \o Contents(14, 16))

LinkFramesSent ==
    {Hello, NegotiateWith(Listener, Hello), Final,
     Data(DATA, Mac, 0, <<1, 2, 3>>), Data(DATA, Mac, 300, Contents(34, 16)),
     Data(DATA, MagicMac, 1, Contents(34, 63)), Data(DATA, MagicMac, 1, Contents(34, 64)),
     Data(DATA, MagicMac, 1, Contents(33, 16)),
     Data(FIN, Mac, 1, <<>>), LuckyAck, LuckyData}

Lamp == <<90>>

\* Ends of one depth and a faithful camera; ends of several depths and a camera
\* that darkens everything.
Around ==
    {[own |-> b, exposure |-> 4, others |-> {b}, captures |-> 2] : b \in 1 .. 4}
      \cup {[own |-> b, exposure |-> 3, others |-> 1 .. 4, captures |-> 2] : b \in 1 .. 2}
      \cup {[own |-> 4, exposure |-> 3, others |-> {1, 4}, captures |-> 1]}

\* "123456789" has the checksum 0x29B1, as the repository's tests have it
\* (tests/transmision/test_transmision_layer.py, line 89).
ASSUME TestVector == Crc16(<<49, 50, 51, 52, 53, 54, 55, 56, 57>>) = 10673
=============================================================================
