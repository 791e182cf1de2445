---------------------------- MODULE GridSymbols ----------------------------
(***************************************************************************)
(* Bytes to module symbols and back (_bytes_to_symbols and                 *)
(* _symbols_to_bytes of transmision/implementation/grid.py).               *)
(*                                                                         *)
(* Both loops keep a bit buffer that they only look at through a mask, so  *)
(* the model keeps the bits that are still to come out: bits_in_buf of     *)
(* them.                                                                   *)
(***************************************************************************)
EXTENDS Integers, Sequences

Empty == [buf |-> 0, bits |-> 0, out |-> <<>>]

\* Every complete value in a buffer of some bits.
Values(buf, bits, width) ==
    [k \in 1 .. bits \div width |-> (buf \div 2^(bits - k * width)) % 2^width]

\* Take in a value of some width, give out every complete value of another.
Shift(acc, value, width, outWidth) ==
    LET buf  == acc.buf * 2^width + value
        bits == acc.bits + width
        rest == bits % outWidth
    IN  [buf |-> buf % 2^rest, bits |-> rest, out |-> acc.out \o Values(buf, bits, outWidth)]

\* The bit buffer when every value has been taken in.
Shifts(values, width, outWidth) ==
    LET acc[i \in 0 .. Len(values)] ==
            IF i = 0 THEN Empty ELSE Shift(acc[i - 1], values[i], width, outWidth)
    IN  acc[Len(values)]

\* Slip: the last symbol is not moved to the high end.
BytesToSymbolsUnpadded(bytes, b) ==
    LET acc == Shifts(bytes, 8, b) IN
    IF acc.bits > 0 THEN Append(acc.out, acc.buf) ELSE acc.out

\* The bits that are left make one more symbol, padded with zeros.
BytesToSymbols(bytes, b) ==
    LET acc == Shifts(bytes, 8, b) IN
    IF acc.bits > 0
    THEN Append(acc.out, (acc.buf * 2^(b - acc.bits)) % 2^b)
    ELSE acc.out

\* The loop ends when there are length bytes; the bits that are left over, and any
\* byte after length ones, are dropped.
SymbolsToBytes(symbols, b, length) ==
    LET acc[i \in 0 .. Len(symbols)] ==
            IF i = 0 THEN Empty
            ELSE LET before == acc[i - 1] IN
                 IF Len(before.out) >= length THEN before ELSE Shift(before, symbols[i], b, 8)
        out == acc[Len(symbols)].out
    IN  SubSeq(out, 1, IF Len(out) < length THEN Len(out) ELSE length)
=============================================================================
