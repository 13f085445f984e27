--------------------------- MODULE MCWorldRebuild ---------------------------
(***************************************************************************)
(* Bytes of six bits, a CRC of 24 bits and sizes of six bits.  The first   *)
(* file runs through the sequences of two values up to MaxLength, so that  *)
(* every way to cut them happens; the second is a level.  One world has    *)
(* three files, and one a file of 2^6 bytes.                               *)
(***************************************************************************)
EXTENDS WorldRebuild

CONSTANT MaxLength

MCByte == 0 .. 63

\* ^ on the three digits of two bits that a byte has.
XorDigit == << <<0, 1, 2, 3>>, <<1, 0, 3, 2>>, <<2, 3, 0, 1>>, <<3, 2, 1, 0>> >>

MCXorTable ==
    LET digit(x, y, n) == XorDigit[((x \div n) % 4) + 1][((y \div n) % 4) + 1]
    IN  [x \in MCByte |-> [y \in MCByte |->
            16 * digit(x, y, 16) + 4 * digit(x, y, 4) + digit(x, y, 1)]]

\* The table of the CRC of 24 bits with the reversed polynomial 14627937: the
\* entries of the bytes with one bit, and from them the others.
OneBit == << <<32, 60, 56, 37>>, <<3, 26, 23, 36>>, <<5, 23, 8, 39>>,
             <<9, 13, 54, 33>>, <<17, 57, 10, 44>>, <<33, 17, 51, 55>> >>

MCTable ==
    [n \in MCByte |->
        LET entry[k \in 0 .. 6] ==
                IF k = 0 THEN <<0, 0, 0, 0>>
                ELSE IF (n \div 2 ^ (k - 1)) % 2 = 0 THEN entry[k - 1]
                ELSE [i \in 1 .. 4 |-> MCXorTable[entry[k - 1][i]][OneBit[k][i]]]
        IN  entry[6]]

MCLevelFiles == {2}

\* As many files as do not fit into a u16.
Many == <<[name |-> 3, data |-> <<1>>], [name |-> 1, data |-> <<>>], [name |-> 3, data |-> <<>>]>>

MCWorlds ==
    {<<[name |-> 1, data |-> s]>> : s \in BoundedSeq({0, 1}, MaxLength)} \cup
    {<<[name |-> 1, data |-> s], [name |-> 2, data |-> t]>> :
        s \in BoundedSeq({0, 1}, 4), t \in {<<9>>, <<9, 1, 0>>, <<1, 1, 1, 1, 1, 1, 0>>}} \cup
    {Many, <<[name |-> 1, data |-> [i \in 1 .. U32 |-> i % 2]]>>}

\* Archives of 10, 12, 15 and 16 bytes; one whose doubled size is within a
\* block of the limit; and two whose doubled size wraps around, to 2 and to 32.
MCSize == {5, 10, 12, 15, 16, 31, 33, 48}

MCAux == {<<>>, <<7>>, <<5, 6, 7, 8>>, <<1, 2, 3, 4, 5>>}

MCCrc == {<<0, 0, 0, 0>>, <<1, 20, 63, 40>>}

=============================================================================
