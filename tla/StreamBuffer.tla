---------------------------- MODULE StreamBuffer ----------------------------
(***************************************************************************)
(* UintVar, and the reads of StreamBuffer: a number in 1, 2, 4 or 8 bytes, *)
(* of which the first says how many, and a string of bytes behind its      *)
(* length.  A byte is a number below 256, a buffer the bytes received and  *)
(* not yet read.  Numbers have 64 bits; Available, Front and Pop take them *)
(* as uint32_t.                                                            *)
(***************************************************************************)
EXTENDS Integers, Sequences

CONSTANT nullopt  \* bytes are missing

Byte == 0 .. 255

ASSUME BufferAssumption ==
    nullopt \notin [v : Nat, n : Nat, rest : Seq(Byte)] \cup [v : Seq(Byte), rest : Seq(Byte)]

\* Values of 2^62 and above, which the code refuses, are not encoded.
UintVar(v) ==
    IF v < 64 THEN <<v>>
    ELSE IF v < 16384 THEN <<64 + v \div 256, v % 256>>
    ELSE IF v < 1073741824
    THEN <<128 + v \div 16777216, (v \div 65536) % 256, (v \div 256) % 256, v % 256>>
    ELSE LET h == (v \div 65536) \div 65536
         IN  <<192 + h \div 16777216, (h \div 65536) % 256, (h \div 256) % 256, h % 256,
               (v \div 16777216) % 256, (v \div 65536) % 256, (v \div 256) % 256, v % 256>>

Size(msb) == IF msb >= 192 THEN 8 ELSE IF msb >= 128 THEN 4 ELSE IF msb >= 64 THEN 2 ELSE 1

\* The two bits that give the size are taken off the first byte.
Word(b, c, d, e) == 16777216 * b + 65536 * c + 256 * d + e
Get(b) ==
    LET first == b[1] % 64
    IN  IF Size(b[1]) = 1 THEN first
        ELSE IF Size(b[1]) = 2 THEN 256 * first + b[2]
        ELSE IF Size(b[1]) = 4 THEN Word(first, b[2], b[3], b[4])
        ELSE 65536 * (65536 * Word(first, b[2], b[3], b[4])) + Word(b[5], b[6], b[7], b[8])

\* The conversion of a length to uint32_t (the product is 2^32, beyond TLC's integers).
Uint32(n) == IF n < 1073741824 THEN n ELSE n % (65536 * 65536)

\* Mutant: as many bytes as are asked for are not enough.
AvailableMore(b, n) == Len(b) > Uint32(n)
Available(b, n) == Len(b) >= Uint32(n)

First(b, n) == SubSeq(b, 1, Uint32(n))
Drop(b, n) == SubSeq(b, Uint32(n) + 1, Len(b))

\* A read gives its value and what is left, or nullopt when bytes are missing.
ReadUint(b, n) ==
    IF Available(b, n) THEN [v |-> Get(First(b, n)), n |-> n, rest |-> Drop(b, n)] ELSE nullopt
ReadUintV(b) == IF b = <<>> THEN nullopt ELSE ReadUint(b, Size(Head(b)))

\* Bytes behind their length len, as it was read; here all 64 bits of it are compared.
ReadBytes(len) ==
    IF len = nullopt \/ Len(len.rest) < len.v THEN nullopt
    ELSE [v |-> First(len.rest, len.v), rest |-> Drop(len.rest, len.v)]

PushLengthBytes(s) == UintVar(Len(s)) \o s
=============================================================================
