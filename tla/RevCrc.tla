------------------------------- MODULE RevCrc -------------------------------
(***************************************************************************)
(* The CRC of a world and how it is forged (src/src/rev_crc.rs).  The CRC  *)
(* register is four bytes, the lowest first, and a step of the CRC works   *)
(* on whole bytes: a shift by eight bits moves them by one place.          *)
(***************************************************************************)
EXTENDS Integers, Sequences

CONSTANTS
    Byte,         \* u8
    XorTable,     \* ^ on bytes, as a table: the rows are functions
    Ones,         \* 0xFF
    Table         \* the table of the crc crate, as registers

Register == Byte \X Byte \X Byte \X Byte

\* The operator ^ (external).
Xor(x, y) == XorTable[x][y]

\* What is used of ^ and of the table: the highest bytes of its entries differ,
\* as they do for every CRC of this width.
ASSUME XorAssumption ==
    /\ \A x, y \in Byte : Xor(x, y) \in Byte /\ Xor(x, y) = Xor(y, x) /\ Xor(Xor(x, y), y) = x
    /\ \A x, y, z \in Byte : Xor(Xor(x, y), z) = Xor(x, Xor(y, z))

ASSUME TableAssumption ==
    /\ Ones \in Byte
    /\ Table \in [Byte -> Register]
    /\ \A top \in Byte : \E n \in Byte : Table[n][4] = top
    /\ \A m, n \in Byte : Table[m][4] = Table[n][4] => m = n

\* RevCRC::new: under the highest byte of an entry, the entry shifted up, with
\* its index as the lowest byte.
ReverseTable ==
    [top \in Byte |-> LET n == CHOOSE n \in Byte : Table[n][4] = top
                      IN  <<n, Table[n][1], Table[n][2], Table[n][3]>>]

\* The crc crate: initial value, xorout, and one step (external).
InitialCrc == <<Ones, Ones, Ones, Ones>>

XorOut(v) == <<Xor(v[1], Ones), Xor(v[2], Ones), Xor(v[3], Ones), Xor(v[4], Ones)>>

CrcStep(v, byte) ==
    LET t == Table[Xor(v[1], byte)]
    IN  <<Xor(v[2], t[1]), Xor(v[3], t[2]), Xor(v[4], t[3]), t[4]>>

CrcUpdate(v, data) ==
    LET step[p \in Register \X Byte] == CrcStep(p[1], p[2])
        crc[i \in 0 .. Len(data)] == IF i = 0 THEN v ELSE step[<<crc[i - 1], data[i]>>]
    IN  crc[Len(data)]

\* RevCRC::update on one byte.
RevStep(v, byte) ==
    LET r == ReverseTable[v[4]]
    IN  <<Xor(r[1], byte), Xor(v[1], r[2]), Xor(v[2], r[3]), Xor(v[3], r[4])>>

\* Mutant: the bytes are taken in order.
RevUpdate_Forwards(v, data) ==
    LET step[p \in Register \X Byte] == RevStep(p[1], p[2])
        crc[i \in 0 .. Len(data)] == IF i = 0 THEN v ELSE step[<<crc[i - 1], data[i]>>]
    IN  crc[Len(data)]

\* RevCRC::update, from the last byte to the first.
RevUpdate(v, data) ==
    LET step[p \in Register \X Byte] == RevStep(p[1], p[2])
        crc[i \in 1 .. Len(data) + 1] ==
            IF i = Len(data) + 1 THEN v ELSE step[<<crc[i + 1], data[i]>>]
    IN  crc[1]

\* forge_crc, once xorout is undone: the four bytes that lead from the register
\* `before' to the register `after'.
Forge(before, after) ==
    RevStep(RevStep(RevStep(RevStep(after, before[4]), before[3]), before[2]), before[1])

=============================================================================
