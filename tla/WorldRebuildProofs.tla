------------------------- MODULE WorldRebuildProofs -------------------------
(***************************************************************************)
(* What finalize_world_file promises of the rebuilt world and asserts      *)
(* about itself, for any files, sizes and aux data, any block size and any *)
(* CRC table that can be reversed; and that the chunks of a file depend on *)
(* its bytes alone, for any window, multiplier and mask.                   *)
(***************************************************************************)
EXTENDS WorldRebuild, SequenceTheorems, WellFoundedInduction, TLAPS

-----------------------------------------------------------------------------
(* Induction and recursion over numbers. *)

\* A set of numbers that is not empty has a least element.
LEMMA Least ==
    ASSUME NEW S \in SUBSET Nat, S # {}
    PROVE  \E x \in S : \A y \in S : ~(y < x)
<1>1. PICK x \in S : \A y \in S : <<y, x>> \notin OpToRel(<, Nat)
  BY WFMin, NatLessThanWellFounded
<1> QED
  BY <1>1 DEF OpToRel

\* A set that has 0 and with a number the next one, up to n, has all of them.
LEMMA UpTo ==
    ASSUME NEW n \in Nat, NEW T, 0 \in T, \A i \in 1 .. n : i - 1 \in T => i \in T
    PROVE  0 .. n \subseteq T
<1> SUFFICES ASSUME ~(0 .. n \subseteq T) PROVE FALSE
  OBVIOUS
<1> DEFINE U == {i \in 0 .. n : i \notin T}
<1>1. U \in SUBSET Nat /\ U # {}
  OBVIOUS
<1>2. PICK x \in U : \A y \in U : ~(y < x)
  BY <1>1, Least
<1>3. x # 0 /\ x \in 0 .. n /\ x \notin T
  BY <1>2
<1>4. x \in 1 .. n /\ x - 1 \in 0 .. n /\ x - 1 < x
  BY <1>3
<1>5. x - 1 \in T
  BY <1>2, <1>4
<1> QED
  BY <1>3, <1>4, <1>5

\* f is defined by recursion over 0 .. n, from v with g.
Recursive(f, n, S, v, g) ==
    /\ f \in [0 .. n -> S]
    /\ f[0] = v
    /\ \A i \in 1 .. n : f[i] = g[<<i, f[i - 1]>>]

\* Such a function exists.
LEMMA NumberRecursion ==
    ASSUME NEW n \in Nat, NEW S, NEW v \in S, NEW g \in [(1 .. n) \X S -> S]
    PROVE  \E f : Recursive(f, n, S, v, g)
<1> DEFINE Good(k) == {f \in [0 .. k -> S] : f[0] = v /\ \A i \in 1 .. k : f[i] = g[<<i, f[i - 1]>>]}
           T == {k \in 0 .. n : Good(k) # {}}
<1>1. 0 \in T
  <2>1. [i \in 0 .. 0 |-> v] \in Good(0)
    OBVIOUS
  <2> QED
    BY <2>1
<1>2. ASSUME NEW k \in 1 .. n, k - 1 \in T PROVE k \in T
  <2>1. PICK f : f \in Good(k - 1)
    BY <1>2
  <2> DEFINE h == [i \in 0 .. k |-> IF i = k THEN g[<<k, f[k - 1]>>] ELSE f[i]]
  <2>2. /\ f \in [0 .. k - 1 -> S] /\ f[0] = v
        /\ \A i \in 1 .. k - 1 : f[i] = g[<<i, f[i - 1]>>]
    BY <2>1
  <2>3. g[<<k, f[k - 1]>>] \in S
    BY <2>2
  <2>4. h[k] = g[<<k, f[k - 1]>>] /\ \A i \in 0 .. k - 1 : h[i] = f[i]
    OBVIOUS
  <2>5. h \in [0 .. k -> S] /\ h[0] = v
    BY <2>2, <2>3
  <2> HIDE DEF h
  <2>6. ASSUME NEW i \in 1 .. k PROVE h[i] = g[<<i, h[i - 1]>>]
    <3>1. h[i - 1] = f[i - 1]
      BY <2>4
    <3>2. CASE i = k
      BY <2>4, <3>1, <3>2
    <3>3. CASE i # k
      BY <2>2, <2>4, <3>1, <3>3
    <3> QED
      BY <3>2, <3>3
  <2>7. h \in Good(k)
    BY <2>5, <2>6
  <2> QED
    BY <2>7
<1> HIDE DEF T
<1>3. n \in T
  <2>1. 0 .. n \subseteq T
    BY <1>1, <1>2, UpTo
  <2> QED
    BY <2>1
<1>4. PICK f : f \in Good(n)
  BY <1>3 DEF T
<1> QED
  BY <1>4 DEF Recursive

-----------------------------------------------------------------------------
(* The CRC of four forged bytes. *)

\* The laws of ^, one by one.
LEMMA XorType == ASSUME NEW x \in Byte, NEW y \in Byte PROVE Xor(x, y) \in Byte
BY XorAssumption

LEMMA XorTwice == ASSUME NEW x \in Byte, NEW y \in Byte PROVE Xor(Xor(x, y), y) = x
BY XorAssumption

LEMMA XorCommutes == ASSUME NEW x \in Byte, NEW y \in Byte PROVE Xor(x, y) = Xor(y, x)
BY XorAssumption

LEMMA XorAssociates ==
    ASSUME NEW x \in Byte, NEW y \in Byte, NEW z \in Byte
    PROVE  Xor(Xor(x, y), z) = Xor(x, Xor(y, z))
BY XorAssumption

\* A register is its four bytes.
LEMMA RegisterParts ==
    ASSUME NEW v \in Register
    PROVE  /\ v[1] \in Byte /\ v[2] \in Byte /\ v[3] \in Byte /\ v[4] \in Byte
           /\ v = <<v[1], v[2], v[3], v[4]>>
BY DEF Register

\* Entries of the table are registers.
LEMMA EntryParts ==
    ASSUME NEW n \in Byte
    PROVE  /\ Table[n][1] \in Byte /\ Table[n][2] \in Byte
           /\ Table[n][3] \in Byte /\ Table[n][4] \in Byte
BY TableAssumption, RegisterParts

\* The reverse table finds the entry with a highest byte.
LEMMA ReverseEntry ==
    ASSUME NEW top \in Byte
    PROVE  \E n \in Byte : /\ Table[n][4] = top
                           /\ ReverseTable[top] = <<n, Table[n][1], Table[n][2], Table[n][3]>>
<1> DEFINE n == CHOOSE n \in Byte : Table[n][4] = top
<1>1. n \in Byte /\ Table[n][4] = top
  BY TableAssumption
<1>2. ReverseTable[top] = <<n, Table[n][1], Table[n][2], Table[n][3]>>
  BY DEF ReverseTable
<1> QED
  BY <1>1, <1>2

\* A step back leads to a register.
LEMMA RevStepType ==
    ASSUME NEW v \in Register, NEW byte \in Byte
    PROVE  RevStep(v, byte) \in Register
<1>1. v[1] \in Byte /\ v[2] \in Byte /\ v[3] \in Byte /\ v[4] \in Byte
  BY RegisterParts
<1>2. PICK n \in Byte : ReverseTable[v[4]] = <<n, Table[n][1], Table[n][2], Table[n][3]>>
  BY <1>1, ReverseEntry
<1>3. RevStep(v, byte) = <<Xor(n, byte), Xor(v[1], Table[n][1]), Xor(v[2], Table[n][2]),
                           Xor(v[3], Table[n][3])>>
  BY <1>2 DEF RevStep
<1> QED
  BY <1>1, <1>3, EntryParts, XorType DEF Register

\* A step of the CRC undoes a step back with the same byte.
LEMMA StepUndone ==
    ASSUME NEW v \in Register, NEW byte \in Byte
    PROVE  CrcStep(RevStep(v, byte), byte) = v
<1>1. v[1] \in Byte /\ v[2] \in Byte /\ v[3] \in Byte /\ v[4] \in Byte
  BY RegisterParts
<1>2. PICK n \in Byte : /\ Table[n][4] = v[4]
                        /\ ReverseTable[v[4]] = <<n, Table[n][1], Table[n][2], Table[n][3]>>
  BY <1>1, ReverseEntry
<1> DEFINE t == Table[n]
           w == RevStep(v, byte)
<1>3. w = <<Xor(n, byte), Xor(v[1], t[1]), Xor(v[2], t[2]), Xor(v[3], t[3])>>
  BY <1>2 DEF RevStep
<1>4. Xor(w[1], byte) = n
  BY <1>3, XorTwice
<1>5. CrcStep(w, byte) = <<Xor(w[2], t[1]), Xor(w[3], t[2]), Xor(w[4], t[3]), t[4]>>
  BY <1>4 DEF CrcStep
<1>6. Xor(w[2], t[1]) = v[1] /\ Xor(w[3], t[2]) = v[2] /\ Xor(w[4], t[3]) = v[3]
  BY <1>1, <1>3, EntryParts, XorTwice
<1> QED
  BY <1>2, <1>5, <1>6, RegisterParts

\* The ends of a sum can be swapped.
LEMMA Swapped ==
    ASSUME NEW x \in Byte, NEW y \in Byte, NEW z \in Byte
    PROVE  Xor(Xor(x, y), z) = Xor(Xor(z, y), x)
<1>1. Xor(Xor(x, y), z) = Xor(z, Xor(x, y))
  BY XorType, XorCommutes
<1>2. Xor(z, Xor(x, y)) = Xor(z, Xor(y, x))
  BY XorCommutes
<1>3. Xor(z, Xor(y, x)) = Xor(Xor(z, y), x)
  BY XorAssociates
<1> QED
  BY <1>1, <1>2, <1>3

\* The CRC of the bytes q from the register p is that of the bytes p from the
\* register q: after four steps only the table entries are left, and these
\* depend on the sums of the bytes.
LEMMA RegisterAndBytes ==
    ASSUME NEW p \in Register, NEW q \in Register
    PROVE  CrcStep(CrcStep(CrcStep(CrcStep(p, q[1]), q[2]), q[3]), q[4])
         = CrcStep(CrcStep(CrcStep(CrcStep(q, p[1]), p[2]), p[3]), p[4])
<1> DEFINE a == Table[Xor(p[1], q[1])]
           b == Table[Xor(Xor(p[2], a[1]), q[2])]
           c == Table[Xor(Xor(Xor(p[3], a[2]), b[1]), q[3])]
           d == Table[Xor(Xor(Xor(Xor(p[4], a[3]), b[2]), c[1]), q[4])]
<1>1. /\ p[1] \in Byte /\ p[2] \in Byte /\ p[3] \in Byte /\ p[4] \in Byte
      /\ q[1] \in Byte /\ q[2] \in Byte /\ q[3] \in Byte /\ q[4] \in Byte
  BY RegisterParts
<1>2. a[1] \in Byte /\ a[2] \in Byte /\ a[3] \in Byte /\ a[4] \in Byte
  BY <1>1, EntryParts, XorType
<1> HIDE DEF a
<1>3. b[1] \in Byte /\ b[2] \in Byte /\ b[3] \in Byte /\ b[4] \in Byte
  BY <1>1, <1>2, EntryParts, XorType
<1> HIDE DEF b
<1>4. c[1] \in Byte /\ c[2] \in Byte /\ c[3] \in Byte /\ c[4] \in Byte
  BY <1>1, <1>2, <1>3, EntryParts, XorType
<1> HIDE DEF c
<1>5. /\ a = Table[Xor(q[1], p[1])]
      /\ b = Table[Xor(Xor(q[2], a[1]), p[2])]
  BY <1>1, <1>2, Swapped, XorCommutes DEF a, b
<1>6. c = Table[Xor(Xor(Xor(q[3], a[2]), b[1]), p[3])]
  <2>1. Xor(Xor(p[3], a[2]), b[1]) = Xor(p[3], Xor(a[2], b[1]))
    BY <1>1, <1>2, <1>3, XorAssociates
  <2>2. Xor(Xor(q[3], a[2]), b[1]) = Xor(q[3], Xor(a[2], b[1]))
    BY <1>1, <1>2, <1>3, XorAssociates
  <2>3. Xor(a[2], b[1]) \in Byte
    BY <1>2, <1>3, XorType
  <2> QED
    BY <1>1, <2>1, <2>2, <2>3, Swapped DEF c
<1>7. d = Table[Xor(Xor(Xor(Xor(q[4], a[3]), b[2]), c[1]), p[4])]
  <2> DEFINE s == Xor(Xor(a[3], b[2]), c[1])
  <2>1. Xor(a[3], b[2]) \in Byte /\ s \in Byte
    BY <1>2, <1>3, <1>4, XorType
  <2>2. Xor(Xor(Xor(p[4], a[3]), b[2]), c[1]) = Xor(p[4], s)
    <3>1. Xor(Xor(p[4], a[3]), b[2]) = Xor(p[4], Xor(a[3], b[2]))
      BY <1>1, <1>2, <1>3, XorAssociates
    <3>2. Xor(Xor(p[4], Xor(a[3], b[2])), c[1]) = Xor(p[4], s)
      BY <1>1, <1>4, <2>1, XorAssociates
    <3> QED
      BY <3>1, <3>2
  <2>3. Xor(Xor(Xor(q[4], a[3]), b[2]), c[1]) = Xor(q[4], s)
    <3>1. Xor(Xor(q[4], a[3]), b[2]) = Xor(q[4], Xor(a[3], b[2]))
      BY <1>1, <1>2, <1>3, XorAssociates
    <3>2. Xor(Xor(q[4], Xor(a[3], b[2])), c[1]) = Xor(q[4], s)
      BY <1>1, <1>4, <2>1, XorAssociates
    <3> QED
      BY <3>1, <3>2
  <2> QED
    BY <1>1, <2>1, <2>2, <2>3, Swapped
<1> HIDE DEF d
<1> DEFINE end == <<Xor(Xor(Xor(a[4], b[3]), c[2]), d[1]), Xor(Xor(b[4], c[3]), d[2]),
                    Xor(c[4], d[3]), d[4]>>
<1>8. CrcStep(CrcStep(CrcStep(CrcStep(p, q[1]), q[2]), q[3]), q[4]) = end
  <2>1. CrcStep(p, q[1]) = <<Xor(p[2], a[1]), Xor(p[3], a[2]), Xor(p[4], a[3]), a[4]>>
    BY DEF CrcStep, a
  <2>2. CrcStep(CrcStep(p, q[1]), q[2])
        = <<Xor(Xor(p[3], a[2]), b[1]), Xor(Xor(p[4], a[3]), b[2]), Xor(a[4], b[3]), b[4]>>
    BY <2>1 DEF CrcStep, b
  <2>3. CrcStep(CrcStep(CrcStep(p, q[1]), q[2]), q[3])
        = <<Xor(Xor(Xor(p[4], a[3]), b[2]), c[1]), Xor(Xor(a[4], b[3]), c[2]),
            Xor(b[4], c[3]), c[4]>>
    BY <2>2 DEF CrcStep, c
  <2> QED
    BY <2>3 DEF CrcStep, d
<1>9. CrcStep(CrcStep(CrcStep(CrcStep(q, p[1]), p[2]), p[3]), p[4]) = end
  <2>1. CrcStep(q, p[1]) = <<Xor(q[2], a[1]), Xor(q[3], a[2]), Xor(q[4], a[3]), a[4]>>
    BY <1>5 DEF CrcStep
  <2>2. CrcStep(CrcStep(q, p[1]), p[2])
        = <<Xor(Xor(q[3], a[2]), b[1]), Xor(Xor(q[4], a[3]), b[2]), Xor(a[4], b[3]), b[4]>>
    BY <1>5, <2>1 DEF CrcStep
  <2>3. CrcStep(CrcStep(CrcStep(q, p[1]), p[2]), p[3])
        = <<Xor(Xor(Xor(q[4], a[3]), b[2]), c[1]), Xor(Xor(a[4], b[3]), c[2]),
            Xor(b[4], c[3]), c[4]>>
    BY <1>6, <2>2 DEF CrcStep
  <2> QED
    BY <1>7, <2>3 DEF CrcStep
<1> QED
  BY <1>8, <1>9

\* forge_crc is right: from any register `before', the four bytes it computes
\* lead the CRC to any register `after' that is wanted.
THEOREM ForgeCorrect ==
    ASSUME NEW before \in Register, NEW after \in Register
    PROVE  LET f == Forge(before, after)
           IN  CrcStep(CrcStep(CrcStep(CrcStep(before, f[1]), f[2]), f[3]), f[4]) = after
<1> DEFINE r1 == RevStep(after, before[4])
           r2 == RevStep(r1, before[3])
           r3 == RevStep(r2, before[2])
           f == RevStep(r3, before[1])
<1>1. before[1] \in Byte /\ before[2] \in Byte /\ before[3] \in Byte /\ before[4] \in Byte
  BY RegisterParts
<1>2. r1 \in Register
  BY <1>1, RevStepType
<1>3. r2 \in Register
  BY <1>1, <1>2, RevStepType
<1>4. r3 \in Register
  BY <1>1, <1>3, RevStepType
<1>5. f \in Register
  BY <1>1, <1>4, RevStepType
<1>6. CrcStep(f, before[1]) = r3
  BY <1>1, <1>4, StepUndone
<1>7. CrcStep(r3, before[2]) = r2
  BY <1>1, <1>3, StepUndone
<1>8. CrcStep(r2, before[3]) = r1
  BY <1>1, <1>2, StepUndone
<1>9. CrcStep(r1, before[4]) = after
  BY <1>1, StepUndone
<1>10. f = Forge(before, after)
  BY DEF Forge
<1>11. CrcStep(CrcStep(CrcStep(CrcStep(before, f[1]), f[2]), f[3]), f[4])
       = CrcStep(CrcStep(CrcStep(CrcStep(f, before[1]), before[2]), before[3]), before[4])
  BY <1>5, RegisterAndBytes
<1> QED
  BY <1>6, <1>7, <1>8, <1>9, <1>10, <1>11

-----------------------------------------------------------------------------
(* The CRC of a sequence of bytes. *)

\* A step of the CRC leads to a register.
LEMMA CrcStepType ==
    ASSUME NEW v \in Register, NEW byte \in Byte
    PROVE  CrcStep(v, byte) \in Register
<1>1. v[1] \in Byte /\ v[2] \in Byte /\ v[3] \in Byte /\ v[4] \in Byte
  BY RegisterParts
<1> DEFINE t == Table[Xor(v[1], byte)]
<1>2. t[1] \in Byte /\ t[2] \in Byte /\ t[3] \in Byte /\ t[4] \in Byte
  BY <1>1, EntryParts, XorType
<1>3. CrcStep(v, byte) = <<Xor(v[2], t[1]), Xor(v[3], t[2]), Xor(v[4], t[3]), t[4]>>
  BY DEF CrcStep
<1> HIDE DEF t
<1>4. Xor(v[2], t[1]) \in Byte /\ Xor(v[3], t[2]) \in Byte /\ Xor(v[4], t[3]) \in Byte
  BY <1>1, <1>2, XorType
<1> QED
  BY <1>2, <1>3, <1>4 DEF Register

\* The registers that the CRC goes through.
Runs(f, v, bytes) ==
    /\ f \in [0 .. Len(bytes) -> Register]
    /\ f[0] = v
    /\ \A i \in 1 .. Len(bytes) : f[i] = CrcStep(f[i - 1], bytes[i])

\* The registers of an update exist.
LEMMA RunExists ==
    ASSUME NEW v \in Register, NEW bytes \in Seq(Byte)
    PROVE  \E f : Runs(f, v, bytes)
<1> DEFINE n == Len(bytes)
           g == [p \in (1 .. n) \X Register |-> CrcStep(p[2], bytes[p[1]])]
<1>1. n \in Nat /\ \A i \in 1 .. n : bytes[i] \in Byte
  OBVIOUS
<1>2. g \in [(1 .. n) \X Register -> Register]
  BY <1>1, CrcStepType
<1>3. \A i \in 1 .. n, r \in Register : g[<<i, r>>] = CrcStep(r, bytes[i])
  OBVIOUS
<1> HIDE DEF n, g
<1>4. PICK f : Recursive(f, n, Register, v, g)
  BY <1>1, <1>2, NumberRecursion
<1>5. f \in [0 .. n -> Register] /\ f[0] = v /\ \A i \in 1 .. n : f[i] = g[<<i, f[i - 1]>>]
  BY <1>4 DEF Recursive
<1>6. \A i \in 1 .. n : f[i - 1] \in Register
  BY <1>1, <1>5
<1>7. \A i \in 1 .. n : f[i] = CrcStep(f[i - 1], bytes[i])
  BY <1>3, <1>5, <1>6
<1> QED
  BY <1>5, <1>7 DEF Runs, n

\* CrcUpdate is where they end.
LEMMA RunEnds ==
    ASSUME NEW v \in Register, NEW bytes \in Seq(Byte), NEW f, Runs(f, v, bytes)
    PROVE  CrcUpdate(v, bytes) = f[Len(bytes)] /\ CrcUpdate(v, bytes) \in Register
<1> DEFINE n == Len(bytes)
           step == [p \in Register \X Byte |-> CrcStep(p[1], p[2])]
           Rec(c) == [i \in 0 .. n |-> IF i = 0 THEN v ELSE step[<<c[i - 1], bytes[i]>>]]
           crc == CHOOSE c : c = Rec(c)
<1>1. n \in Nat /\ \A i \in 1 .. n : bytes[i] \in Byte
  OBVIOUS
<1>2. \A r \in Register, byte \in Byte : step[<<r, byte>>] = CrcStep(r, byte)
  OBVIOUS
<1>3. CrcUpdate(v, bytes) = crc[n]
  BY DEF CrcUpdate
<1> HIDE DEF n, step
<1>4. f \in [0 .. n -> Register] /\ f[0] = v /\ \A i \in 1 .. n : f[i] = CrcStep(f[i - 1], bytes[i])
  BY DEF Runs, n
<1>5. f = Rec(f)
  <2>1. ASSUME NEW i \in 1 .. n PROVE f[i] = step[<<f[i - 1], bytes[i]>>]
    <3>1. f[i - 1] \in Register
      BY <1>1, <1>4
    <3> QED
      BY <1>1, <1>2, <1>4, <3>1
  <2>2. \A i \in 0 .. n : i = 0 \/ i \in 1 .. n
    BY <1>1
  <2> QED
    BY <1>4, <2>1, <2>2
<1>6. crc = Rec(crc)
  <2> HIDE DEF Rec
  <2> QED
    BY <1>5
<1> HIDE DEF crc
<1> DEFINE T == {i \in 0 .. n : crc[i] = f[i]}
<1>7. 0 \in T
  BY <1>1, <1>4, <1>6
<1>8. ASSUME NEW i \in 1 .. n, i - 1 \in T PROVE i \in T
  <2>1. crc[i] = step[<<crc[i - 1], bytes[i]>>]
    BY <1>1, <1>6
  <2>2. crc[i - 1] = f[i - 1] /\ f[i - 1] \in Register
    BY <1>1, <1>4, <1>8
  <2>3. crc[i] = f[i]
    BY <1>1, <1>2, <1>4, <2>1, <2>2
  <2> QED
    BY <2>3
<1> HIDE DEF T
<1>9. n \in T
  <2>1. 0 .. n \subseteq T
    BY <1>1, <1>7, <1>8, UpTo
  <2> QED
    BY <1>1, <2>1
<1> QED
  BY <1>1, <1>3, <1>4, <1>9 DEF T, n

\* The register after bytes is a register.
LEMMA CrcUpdateType ==
    ASSUME NEW v \in Register, NEW bytes \in Seq(Byte)
    PROVE  CrcUpdate(v, bytes) \in Register
BY RunExists, RunEnds

\* Hasher::update may be called piece by piece.
LEMMA CrcConcat ==
    ASSUME NEW v \in Register, NEW s \in Seq(Byte), NEW t \in Seq(Byte)
    PROVE  CrcUpdate(v, s \o t) = CrcUpdate(CrcUpdate(v, s), t)
<1>1. PICK f : Runs(f, v, s)
  BY RunExists
<1> DEFINE w == CrcUpdate(v, s)
           m == Len(s)
           n == Len(t)
           both == s \o t
<1>2. w = f[m] /\ w \in Register
  BY <1>1, RunEnds
<1> HIDE DEF w
<1>3. PICK g : Runs(g, w, t)
  BY <1>2, RunExists
<1>4. CrcUpdate(w, t) = g[n]
  BY <1>2, <1>3, RunEnds
<1>5. /\ m \in Nat /\ n \in Nat /\ both \in Seq(Byte) /\ Len(both) = m + n
      /\ \A i \in 1 .. m : both[i] = s[i]
      /\ \A i \in 1 .. n : both[m + i] = t[i]
  OBVIOUS
<1> HIDE DEF m, n, both
<1>6. f \in [0 .. m -> Register] /\ f[0] = v /\ \A i \in 1 .. m : f[i] = CrcStep(f[i - 1], s[i])
  BY <1>1 DEF Runs, m
<1>7. g \in [0 .. n -> Register] /\ g[0] = w /\ \A i \in 1 .. n : g[i] = CrcStep(g[i - 1], t[i])
  BY <1>3 DEF Runs, n
<1> DEFINE h == [i \in 0 .. m + n |-> IF i <= m THEN f[i] ELSE g[i - m]]
<1>8. h \in [0 .. m + n -> Register]
  <2> SUFFICES ASSUME NEW i \in 0 .. m + n PROVE (IF i <= m THEN f[i] ELSE g[i - m]) \in Register
    OBVIOUS
  <2>1. i <= m => i \in 0 .. m
    BY <1>5
  <2>2. ~(i <= m) => i - m \in 0 .. n
    BY <1>5
  <2> QED
    BY <1>6, <1>7, <2>1, <2>2
<1>9. h[0] = v /\ (\A i \in 0 .. m : h[i] = f[i])
  BY <1>5, <1>6
<1>10. ASSUME NEW i \in 0 .. n PROVE h[m + i] = g[i]
  <2>1. m + i \in 0 .. m + n /\ (m + i) - m = i
    BY <1>5
  <2>2. CASE i = 0
    BY <1>2, <1>5, <1>7, <1>9, <2>2
  <2>3. CASE i # 0
    <3>1. ~(m + i <= m)
      BY <1>5, <2>3
    <3> QED
      BY <2>1, <3>1
  <2> QED
    BY <2>2, <2>3
<1> HIDE DEF h
<1>11. ASSUME NEW i \in 1 .. m + n PROVE h[i] = CrcStep(h[i - 1], both[i])
  <2>1. CASE i <= m
    <3>1. i \in 1 .. m /\ i \in 0 .. m /\ i - 1 \in 0 .. m
      BY <1>5, <2>1
    <3> QED
      BY <1>5, <1>6, <1>9, <3>1
  <2>2. CASE i > m
    <3> DEFINE j == i - m
    <3>1. j \in 1 .. n /\ j \in 0 .. n /\ j - 1 \in 0 .. n /\ i = m + j /\ i - 1 = m + (j - 1)
      BY <1>5, <2>2
    <3> HIDE DEF j
    <3>2. h[m + j] = g[j] /\ h[m + (j - 1)] = g[j - 1] /\ both[m + j] = t[j]
      BY <1>5, <1>10, <3>1
    <3> QED
      BY <1>7, <3>1, <3>2
  <2> QED
    BY <1>5, <2>1, <2>2
<1>12. Runs(h, v, both)
  BY <1>5, <1>8, <1>9, <1>11 DEF Runs
<1>13. CrcUpdate(v, both) = h[m + n]
  BY <1>5, <1>12, RunEnds
<1>14. h[m + n] = g[n]
  BY <1>5, <1>10
<1> QED
  BY <1>4, <1>13, <1>14 DEF both, w

\* RevCRC::update leads back over bytes to where the CRC comes from.
LEMMA RevUndone ==
    ASSUME NEW v \in Register, NEW bytes \in Seq(Byte)
    PROVE  /\ RevUpdate(v, bytes) \in Register
           /\ CrcUpdate(RevUpdate(v, bytes), bytes) = v
<1> DEFINE n == Len(bytes)
           step == [p \in Register \X Byte |-> RevStep(p[1], p[2])]
           Rec(c) == [i \in 1 .. n + 1 |-> IF i = n + 1 THEN v ELSE step[<<c[i + 1], bytes[i]>>]]
           crc == CHOOSE c : c = Rec(c)
           g == [p \in (1 .. n) \X Register |-> RevStep(p[2], bytes[n + 1 - p[1]])]
<1>1. n \in Nat /\ \A i \in 1 .. n : bytes[i] \in Byte
  OBVIOUS
<1>2. \A r \in Register, byte \in Byte : step[<<r, byte>>] = RevStep(r, byte)
  OBVIOUS
<1>3. RevUpdate(v, bytes) = crc[1]
  BY DEF RevUpdate
<1>4. g \in [(1 .. n) \X Register -> Register]
  <2> SUFFICES ASSUME NEW k \in 1 .. n, NEW r \in Register
               PROVE  RevStep(r, bytes[n + 1 - k]) \in Register
    OBVIOUS
  <2>1. n + 1 - k \in 1 .. n
    BY <1>1
  <2> QED
    BY <1>1, <2>1, RevStepType
<1>5. \A k \in 1 .. n, r \in Register : g[<<k, r>>] = RevStep(r, bytes[n + 1 - k])
  OBVIOUS
<1> HIDE DEF n, step, g
<1>6. PICK f : Recursive(f, n, Register, v, g)
  BY <1>1, <1>4, NumberRecursion
<1>7. /\ f \in [0 .. n -> Register] /\ f[0] = v
      /\ \A k \in 1 .. n : f[k] = RevStep(f[k - 1], bytes[n + 1 - k])
  <2>1. f \in [0 .. n -> Register] /\ f[0] = v /\ \A k \in 1 .. n : f[k] = g[<<k, f[k - 1]>>]
    BY <1>6 DEF Recursive
  <2>2. \A k \in 1 .. n : f[k - 1] \in Register
    BY <1>1, <2>1
  <2> QED
    BY <1>5, <2>1, <2>2
<1> DEFINE back == [i \in 1 .. n + 1 |-> f[n + 1 - i]]
<1>8. back = Rec(back)
  <2>1. back[n + 1] = v
    BY <1>1, <1>7
  <2>2. ASSUME NEW i \in 1 .. n PROVE back[i] = step[<<back[i + 1], bytes[i]>>]
    <3> DEFINE k == n + 1 - i
    <3>1. k \in 1 .. n /\ k - 1 \in 0 .. n /\ n + 1 - k = i /\ n + 1 - (i + 1) = k - 1
          /\ i \in 1 .. n + 1 /\ i + 1 \in 1 .. n + 1
      BY <1>1
    <3>2. back[i] = f[k] /\ back[i + 1] = f[k - 1]
      BY <3>1
    <3> HIDE DEF k, back
    <3>3. f[k] = RevStep(f[k - 1], bytes[i]) /\ f[k - 1] \in Register
      BY <1>7, <3>1
    <3> QED
      BY <1>1, <1>2, <3>2, <3>3
  <2>3. \A i \in 1 .. n + 1 : i = n + 1 \/ i \in 1 .. n
    BY <1>1
  <2>4. back = [i \in 1 .. n + 1 |-> back[i]]
    OBVIOUS
  <2> HIDE DEF back
  <2> QED
    BY <2>1, <2>2, <2>3, <2>4
<1> HIDE DEF back
<1>9. crc = Rec(crc)
  <2> HIDE DEF Rec
  <2> QED
    BY <1>8
<1> HIDE DEF crc
<1>10. crc[n + 1] = v /\ \A i \in 1 .. n : crc[i] = step[<<crc[i + 1], bytes[i]>>]
  <2>1. n + 1 \in 1 .. n + 1 /\ \A i \in 1 .. n : i \in 1 .. n + 1 /\ i # n + 1
    BY <1>1
  <2> QED
    BY <1>9, <2>1
<1> HIDE DEF Rec
<1> DEFINE T == {k \in 0 .. n : crc[n + 1 - k] \in Register}
<1>11. 0 \in T
  BY <1>1, <1>10
<1>12. ASSUME NEW k \in 1 .. n, k - 1 \in T PROVE k \in T
  <2> DEFINE i == n + 1 - k
  <2>1. i \in 1 .. n /\ i + 1 = n + 1 - (k - 1) /\ k \in 0 .. n
    BY <1>1
  <2>2. crc[i + 1] \in Register
    BY <1>12, <2>1
  <2> HIDE DEF i
  <2>3. crc[i] = RevStep(crc[i + 1], bytes[i])
    BY <1>1, <1>2, <1>10, <2>1, <2>2
  <2>4. crc[i] \in Register
    BY <1>1, <2>1, <2>2, <2>3, RevStepType
  <2> QED
    BY <2>1, <2>4 DEF i
<1> HIDE DEF T
<1>13. 0 .. n \subseteq T
  BY <1>1, <1>11, <1>12, UpTo
<1>14. \A i \in 1 .. n + 1 : crc[i] \in Register
  <2> SUFFICES ASSUME NEW i \in 1 .. n + 1 PROVE crc[i] \in Register
    OBVIOUS
  <2>1. n + 1 - i \in 0 .. n /\ n + 1 - (n + 1 - i) = i
    BY <1>1
  <2>2. n + 1 - i \in T
    BY <1>13, <2>1
  <2> QED
    BY <2>1, <2>2 DEF T
<1> DEFINE h == [i \in 0 .. n |-> crc[i + 1]]
<1>15. h \in [0 .. n -> Register] /\ h[0] = crc[1] /\ h[n] = v
  BY <1>1, <1>10, <1>14
<1>16. ASSUME NEW i \in 1 .. n PROVE h[i] = CrcStep(h[i - 1], bytes[i])
  <2>1. i \in 0 .. n /\ i - 1 \in 0 .. n /\ i + 1 \in 1 .. n + 1 /\ (i - 1) + 1 = i
    BY <1>1
  <2>2. h[i] = crc[i + 1] /\ h[i - 1] = crc[i]
    BY <2>1
  <2>3. crc[i] = RevStep(crc[i + 1], bytes[i])
    BY <1>1, <1>2, <1>10, <1>14, <2>1
  <2> HIDE DEF h
  <2> QED
    BY <1>1, <1>14, <2>1, <2>2, <2>3, StepUndone
<1> HIDE DEF h
<1>17. crc[1] \in Register
  BY <1>1, <1>14
<1>18. Runs(h, crc[1], bytes)
  BY <1>15, <1>16 DEF Runs, n
<1>19. CrcUpdate(crc[1], bytes) = h[n]
  BY <1>17, <1>18, RunEnds DEF n
<1> QED
  BY <1>3, <1>15, <1>17, <1>19

\* xorout undoes itself.
LEMMA XorOutTwice ==
    ASSUME NEW v \in Register
    PROVE  XorOut(v) \in Register /\ XorOut(XorOut(v)) = v
<1>1. /\ v[1] \in Byte /\ v[2] \in Byte /\ v[3] \in Byte /\ v[4] \in Byte
      /\ v = <<v[1], v[2], v[3], v[4]>>
  BY RegisterParts
<1>2. Ones \in Byte
  BY TableAssumption
<1> DEFINE w == XorOut(v)
<1>3. w = <<Xor(v[1], Ones), Xor(v[2], Ones), Xor(v[3], Ones), Xor(v[4], Ones)>>
  BY DEF XorOut
<1>4. /\ w[1] = Xor(v[1], Ones) /\ w[2] = Xor(v[2], Ones)
      /\ w[3] = Xor(v[3], Ones) /\ w[4] = Xor(v[4], Ones)
  BY <1>3
<1>5. w \in Register
  BY <1>1, <1>2, <1>3, XorType DEF Register
<1> HIDE DEF w
<1>6. XorOut(w) = <<Xor(w[1], Ones), Xor(w[2], Ones), Xor(w[3], Ones), Xor(w[4], Ones)>>
  BY DEF XorOut
<1>7. /\ Xor(w[1], Ones) = v[1] /\ Xor(w[2], Ones) = v[2]
      /\ Xor(w[3], Ones) = v[3] /\ Xor(w[4], Ones) = v[4]
  BY <1>1, <1>2, <1>4, XorTwice
<1> QED
  BY <1>1, <1>5, <1>6, <1>7 DEF w

\* The forged bytes, as bytes of the archive.
LEMMA ForgeRuns ==
    ASSUME NEW before \in Register, NEW after \in Register
    PROVE  /\ Forge(before, after) \in Seq(Byte) /\ Len(Forge(before, after)) = 4
           /\ CrcUpdate(before, Forge(before, after)) = after
<1> DEFINE f == Forge(before, after)
           r1 == CrcStep(before, f[1])
           r2 == CrcStep(r1, f[2])
           r3 == CrcStep(r2, f[3])
           r4 == CrcStep(r3, f[4])
<1>1. f \in Register
  BY RegisterParts, RevStepType DEF Forge
<1>2. r4 = after
  BY ForgeCorrect
<1> HIDE DEF f
<1>3. /\ f[1] \in Byte /\ f[2] \in Byte /\ f[3] \in Byte /\ f[4] \in Byte
      /\ f = <<f[1], f[2], f[3], f[4]>>
  BY <1>1, RegisterParts
<1>4. f \in Seq(Byte) /\ Len(f) = 4
  <2>1. ASSUME NEW a \in Byte, NEW b \in Byte, NEW c \in Byte, NEW d \in Byte
        PROVE  <<a, b, c, d>> \in Seq(Byte) /\ Len(<<a, b, c, d>>) = 4
    OBVIOUS
  <2>2. <<f[1], f[2], f[3], f[4]>> \in Seq(Byte) /\ Len(<<f[1], f[2], f[3], f[4]>>) = 4
    BY <1>3, <2>1
  <2> QED
    BY <1>3, <2>2, Zenon
<1>5. r1 \in Register
  BY <1>3, CrcStepType
<1>6. r2 \in Register
  BY <1>3, <1>5, CrcStepType
<1>7. r3 \in Register
  BY <1>3, <1>6, CrcStepType
<1> DEFINE h == [i \in 0 .. 4 |-> IF i = 0 THEN before ELSE IF i = 1 THEN r1
                                  ELSE IF i = 2 THEN r2 ELSE IF i = 3 THEN r3 ELSE after]
<1>8. h[0] = before /\ h[1] = r1 /\ h[2] = r2 /\ h[3] = r3 /\ h[4] = after
  OBVIOUS
<1>9. h \in [0 .. 4 -> Register]
  BY <1>5, <1>6, <1>7
<1> HIDE DEF h
<1>10. ASSUME NEW i \in 1 .. 4 PROVE h[i] = CrcStep(h[i - 1], f[i])
  <2>1. i = 1 \/ i = 2 \/ i = 3 \/ i = 4
    OBVIOUS
  <2>2. /\ h[1] = CrcStep(h[0], f[1]) /\ h[2] = CrcStep(h[1], f[2])
        /\ h[3] = CrcStep(h[2], f[3]) /\ h[4] = CrcStep(h[3], f[4])
    BY <1>2, <1>8
  <2> QED
    BY <2>1, <2>2
<1>11. Runs(h, before, f)
  BY <1>4, <1>8, <1>9, <1>10 DEF Runs
<1>12. CrcUpdate(before, f) = h[4]
  BY <1>4, <1>11, RunEnds
<1> QED
  BY <1>4, <1>8, <1>12 DEF f

\* What finalize_world_file asserts: padding, forged bytes, footer and aux data
\* lead from any CRC to the one that is wanted.
LEMMA CrcForged ==
    ASSUME NEW v \in Register, NEW crc \in Register,
           NEW padding \in Seq(Byte), NEW footer \in Seq(Byte), NEW aux \in Seq(Byte)
    PROVE  LET before == CrcUpdate(v, padding)
               after == RevUpdate(RevUpdate(XorOut(crc), aux), footer)
           IN  /\ before \in Register /\ after \in Register
               /\ XorOut(CrcUpdate(CrcUpdate(CrcUpdate(before, Forge(before, after)), footer), aux))
                  = crc
<1> DEFINE before == CrcUpdate(v, padding)
           mid == RevUpdate(XorOut(crc), aux)
           after == RevUpdate(mid, footer)
<1>1. before \in Register
  BY CrcUpdateType
<1>2. XorOut(crc) \in Register /\ XorOut(XorOut(crc)) = crc
  BY XorOutTwice
<1>3. mid \in Register /\ CrcUpdate(mid, aux) = XorOut(crc)
  BY <1>2, RevUndone
<1> HIDE DEF mid
<1>4. after \in Register /\ CrcUpdate(after, footer) = mid
  BY <1>3, RevUndone
<1> HIDE DEF before, after
<1>5. CrcUpdate(before, Forge(before, after)) = after
  BY <1>1, <1>4, ForgeRuns
<1> QED
  BY <1>1, <1>2, <1>3, <1>4, <1>5 DEF before, after, mid

-----------------------------------------------------------------------------
(* Sequences put together. *)

\* r has the elements of s, then those of t.
Joined(r, s, t) ==
    /\ Len(r) = Len(s) + Len(t)
    /\ \A k \in 1 .. Len(s) : r[k] = s[k]
    /\ \A k \in 1 .. Len(t) : r[Len(s) + k] = t[k]

\* That is what \o returns.
LEMMA ConcatAt ==
    ASSUME NEW S, NEW s \in Seq(S), NEW t \in Seq(S)
    PROVE  s \o t \in Seq(S) /\ Joined(s \o t, s, t)
<1>1. Len(s) \in Nat /\ Len(t) \in Nat
  OBVIOUS
<1>2. \A k \in 1 .. Len(s) : k \in 1 .. Len(s) + Len(t)
  BY <1>1
<1>3. \A k \in 1 .. Len(t) : Len(s) + k \in 1 .. Len(s) + Len(t) /\ Len(s) + k > Len(s)
                             /\ Len(s) + k - Len(s) = k
  BY <1>1
<1>4. ASSUME NEW k \in 1 .. Len(s) PROVE (s \o t)[k] = s[k]
  BY <1>1, <1>2
<1>5. ASSUME NEW k \in 1 .. Len(t) PROVE (s \o t)[Len(s) + k] = t[k]
  BY <1>1, <1>3
<1>6. s \o t \in Seq(S) /\ Len(s \o t) = Len(s) + Len(t)
  OBVIOUS
<1> QED
  BY <1>4, <1>5, <1>6 DEF Joined

\* How bytes are put together does not matter.
LEMMA Assoc ==
    \A s, t, u \in Seq(Byte) : (s \o t) \o u = s \o (t \o u)
BY ConcatAssociative

\* ... nor how chunks are.
LEMMA AssocChunks ==
    \A s, t, u \in Seq(Seq(Byte)) : s \o (t \o u) = (s \o t) \o u
<1> DEFINE C == Seq(Byte)
<1> HIDE DEF C
<1>1. \A s, t, u \in Seq(C) : (s \o t) \o u = s \o (t \o u)
  BY ConcatAssociative
<1>2. \A s, t, u \in Seq(C) : s \o (t \o u) = (s \o t) \o u
  BY <1>1, Zenon
<1> QED
  BY <1>2, Zenon DEF C

\* A set of numbers that is not empty has its minimum.
LEMMA MinIn ==
    ASSUME NEW S \in SUBSET Nat, S # {}
    PROVE  Min(S) \in S /\ Min(S) \in Nat
<1>1. PICK x \in S : \A y \in S : ~(y < x)
  BY Least
<1>2. ASSUME NEW y \in S PROVE x <= y
  <2>1. x \in Nat /\ y \in Nat /\ ~(y < x)
    BY <1>1
  <2> QED
    BY <2>1
<1>3. Min(S) \in S
  BY <1>2 DEF Min
<1> QED
  BY <1>3

\* What FlattenSeq has after each sequence.
Flattens(f, seqs, S) ==
    /\ f \in [0 .. Len(seqs) -> Seq(S)]
    /\ f[0] = <<>>
    /\ \A i \in 1 .. Len(seqs) : f[i] = f[i - 1] \o seqs[i]

\* Such a function exists.
LEMMA FlattenExists ==
    ASSUME NEW S, NEW seqs \in Seq(Seq(S))
    PROVE  \E f : Flattens(f, seqs, S)
<1> DEFINE n == Len(seqs)
           g == [p \in (1 .. n) \X Seq(S) |-> p[2] \o seqs[p[1]]]
<1>1. n \in Nat /\ \A i \in 1 .. n : seqs[i] \in Seq(S)
  OBVIOUS
<1>2. g \in [(1 .. n) \X Seq(S) -> Seq(S)]
  <2> SUFFICES ASSUME NEW i \in 1 .. n, NEW r \in Seq(S) PROVE r \o seqs[i] \in Seq(S)
    OBVIOUS
  <2> QED
    BY <1>1
<1>3. \A i \in 1 .. n, r \in Seq(S) : g[<<i, r>>] = r \o seqs[i]
  OBVIOUS
<1> HIDE DEF n, g
<1>4. <<>> \in Seq(S)
  OBVIOUS
<1>5. PICK f : Recursive(f, n, Seq(S), <<>>, g)
  BY <1>1, <1>2, <1>4, NumberRecursion
<1>6. f \in [0 .. n -> Seq(S)] /\ f[0] = <<>> /\ \A i \in 1 .. n : f[i] = g[<<i, f[i - 1]>>]
  BY <1>5 DEF Recursive
<1>7. \A i \in 1 .. n : f[i - 1] \in Seq(S)
  BY <1>1, <1>6
<1>8. \A i \in 1 .. n : f[i] = f[i - 1] \o seqs[i]
  BY <1>3, <1>6, <1>7
<1> QED
  BY <1>6, <1>8 DEF Flattens, n

\* Its last value is what FlattenSeq returns.
LEMMA FlattenEnds ==
    ASSUME NEW S, NEW seqs \in Seq(Seq(S)), NEW f, Flattens(f, seqs, S)
    PROVE  FlattenSeq(seqs) = f[Len(seqs)] /\ FlattenSeq(seqs) \in Seq(S)
<1> DEFINE n == Len(seqs)
           Rec(c) == [i \in 1 .. n |-> IF i = 1 THEN seqs[i] ELSE c[i - 1] \o seqs[i]]
           flatten == CHOOSE c : c = Rec(c)
<1>1. n \in Nat /\ \A i \in 1 .. n : seqs[i] \in Seq(S)
  OBVIOUS
<1>2. f \in [0 .. n -> Seq(S)] /\ f[0] = <<>> /\ \A i \in 1 .. n : f[i] = f[i - 1] \o seqs[i]
  BY DEF Flattens
<1>0. n # 0 => f[1] = <<>> \o seqs[1]
  <2> SUFFICES ASSUME n # 0 PROVE f[1] = <<>> \o seqs[1]
    OBVIOUS
  <2>1. 1 \in 1 .. n /\ 1 - 1 = 0
    BY <1>1
  <2>2. f[1] = f[1 - 1] \o seqs[1]
    BY <1>2, <2>1
  <2> QED
    BY <1>2, <2>1, <2>2
<1>3. CASE n = 0
  <2>1. FlattenSeq(seqs) = seqs
    BY <1>3 DEF FlattenSeq
  <2>2. seqs = <<>>
    BY <1>3
  <2> QED
    BY <1>2, <1>3, <2>1, <2>2
<1>4. CASE n # 0
  <2>1. FlattenSeq(seqs) = flatten[n]
    BY <1>4 DEF FlattenSeq
  <2> HIDE DEF n
  <2> DEFINE g == [i \in 1 .. n |-> f[i]]
  <2>2. g = Rec(g)
    <3>1. ASSUME NEW i \in 1 .. n
          PROVE  f[i] = IF i = 1 THEN seqs[i] ELSE g[i - 1] \o seqs[i]
      <4>1. CASE i = 1
        <5>1. f[1] = <<>> \o seqs[1]
          BY <1>0, <1>4
        <5>2. seqs[1] \in Seq(S)
          BY <1>1, <4>1
        <5> QED
          BY <4>1, <5>1, <5>2
      <4>2. CASE i # 1
        <5>1. i - 1 \in 1 .. n
          BY <1>1, <4>2
        <5>2. g[i - 1] = f[i - 1]
          BY <5>1
        <5> QED
          BY <1>2, <4>2, <5>2
      <4> QED
        BY <4>1, <4>2
    <3> QED
      BY <3>1
  <2> HIDE DEF g
  <2>3. flatten = Rec(flatten)
    <3> HIDE DEF Rec
    <3> QED
      BY <2>2
  <2> HIDE DEF flatten
  <2> DEFINE T == {i \in 0 .. n : i = 0 \/ flatten[i] = f[i]}
  <2>4. 0 \in T
    BY <1>1
  <2>5. ASSUME NEW i \in 1 .. n, i - 1 \in T PROVE i \in T
    <3>1. flatten[i] = IF i = 1 THEN seqs[i] ELSE flatten[i - 1] \o seqs[i]
      BY <2>3
    <3>2. CASE i = 1
      <4>1. f[1] = <<>> \o seqs[1] /\ seqs[1] \in Seq(S)
        BY <1>1, <1>0, <1>4, <3>2
      <4>2. flatten[i] = f[i]
        BY <3>1, <3>2, <4>1
      <4> QED
        BY <1>1, <4>2
    <3>3. CASE i # 1
      <4>1. flatten[i - 1] = f[i - 1]
        BY <2>5, <3>3
      <4>2. flatten[i] = f[i]
        BY <1>2, <3>1, <3>3, <4>1
      <4> QED
        BY <1>1, <4>2
    <3> QED
      BY <3>2, <3>3
  <2> HIDE DEF T
  <2>6. 0 .. n \subseteq T
    BY <1>1, <2>4, <2>5, UpTo
  <2>7. flatten[n] = f[n]
    BY <1>1, <1>4, <2>6 DEF T
  <2> QED
    BY <1>1, <1>2, <2>1, <2>7 DEF n
<1> QED
  BY <1>3, <1>4

\* A further sequence goes to the end.
LEMMA FlattenAppend ==
    ASSUME NEW S, NEW seqs \in Seq(Seq(S)), NEW c \in Seq(S)
    PROVE  /\ FlattenSeq(seqs) \in Seq(S)
           /\ FlattenSeq(Append(seqs, c)) = FlattenSeq(seqs) \o c
<1>1. PICK f : Flattens(f, seqs, S)
  BY FlattenExists
<1> DEFINE n == Len(seqs)
           more == Append(seqs, c)
           g == [i \in 0 .. n + 1 |-> IF i = n + 1 THEN f[n] \o c ELSE f[i]]
<1>2. /\ n \in Nat /\ more \in Seq(Seq(S)) /\ Len(more) = n + 1 /\ more[n + 1] = c
      /\ \A i \in 1 .. n : more[i] = seqs[i]
  OBVIOUS
<1> HIDE DEF more
<1>3. FlattenSeq(seqs) = f[n] /\ FlattenSeq(seqs) \in Seq(S)
  BY <1>1, FlattenEnds
<1>4. f \in [0 .. n -> Seq(S)] /\ f[0] = <<>> /\ \A i \in 1 .. n : f[i] = f[i - 1] \o seqs[i]
  BY <1>1 DEF Flattens
<1> HIDE DEF n
<1>5. f[n] \o c \in Seq(S)
  BY <1>3
<1>6. g[n + 1] = f[n] \o c /\ \A i \in 0 .. n : g[i] = f[i]
  BY <1>2
<1>7. g \in [0 .. n + 1 -> Seq(S)]
  <2>1. \A i \in 0 .. n + 1 : i = n + 1 \/ i \in 0 .. n
    BY <1>2
  <2> QED
    BY <1>4, <1>5, <2>1
<1> HIDE DEF g
<1>8. ASSUME NEW i \in 1 .. n + 1 PROVE g[i] = g[i - 1] \o more[i]
  <2>1. i = n + 1 \/ i \in 1 .. n
    BY <1>2
  <2>2. i - 1 \in 0 .. n
    BY <1>2
  <2>3. CASE i = n + 1
    <3>1. i - 1 = n
      BY <1>2, <2>3
    <3> QED
      BY <1>2, <1>6, <2>2, <2>3, <3>1
  <2>4. CASE i \in 1 .. n
    <3>1. i \in 0 .. n
      BY <1>2, <2>4
    <3>2. g[i] = f[i] /\ g[i - 1] = f[i - 1] /\ more[i] = seqs[i]
      BY <1>2, <1>6, <2>2, <2>4, <3>1
    <3> QED
      BY <1>4, <2>4, <3>2
  <2> QED
    BY <2>1, <2>3, <2>4
<1>9. g[0] = <<>>
  BY <1>2, <1>4, <1>6
<1>10. Flattens(g, more, S)
  BY <1>2, <1>7, <1>8, <1>9 DEF Flattens
<1>11. FlattenSeq(more) = g[n + 1]
  BY <1>2, <1>10, FlattenEnds
<1> QED
  BY <1>3, <1>6, <1>11 DEF more

\* Nothing put together.
LEMMA FlattenNothing == ASSUME NEW S PROVE FlattenSeq(<<>>) = <<>> /\ <<>> \in Seq(Seq(S))
BY DEF FlattenSeq

\* Triples put together: where each element is.
LEMMA FlattenTriples ==
    ASSUME NEW S, NEW seqs \in Seq(Seq(S)), \A i \in 1 .. Len(seqs) : Len(seqs[i]) = 3
    PROVE  /\ FlattenSeq(seqs) \in Seq(S)
           /\ Len(FlattenSeq(seqs)) = 3 * Len(seqs)
           /\ \A j \in 1 .. Len(seqs), m \in 1 .. 3 :
                FlattenSeq(seqs)[3 * (j - 1) + m] = seqs[j][m]
<1>1. PICK f : Flattens(f, seqs, S)
  BY FlattenExists
<1> DEFINE n == Len(seqs)
           At(i) == \A j \in 1 .. i, m \in 1 .. 3 : f[i][3 * (j - 1) + m] = seqs[j][m]
           T == {i \in 0 .. n : Len(f[i]) = 3 * i /\ At(i)}
<1>2. n \in Nat /\ \A i \in 1 .. n : seqs[i] \in Seq(S) /\ Len(seqs[i]) = 3
  OBVIOUS
<1>3. FlattenSeq(seqs) = f[n] /\ FlattenSeq(seqs) \in Seq(S)
  BY <1>1, FlattenEnds
<1>4. f \in [0 .. n -> Seq(S)] /\ f[0] = <<>> /\ \A i \in 1 .. n : f[i] = f[i - 1] \o seqs[i]
  BY <1>1 DEF Flattens
<1> HIDE DEF n
<1>5. 0 \in T
  BY <1>2, <1>4
<1>6. ASSUME NEW i \in 1 .. n, i - 1 \in T PROVE i \in T
  <2> DEFINE s == f[i - 1]
             t == seqs[i]
  <2>1. /\ i \in 0 .. n /\ i \in Nat /\ i - 1 \in 0 .. n
        /\ s \in Seq(S) /\ Len(s) = 3 * (i - 1)
        /\ t \in Seq(S) /\ Len(t) = 3
        /\ f[i] = s \o t
    <3>1. i \in 0 .. n /\ i \in Nat /\ i - 1 \in 0 .. n
      BY <1>2
    <3>2. Len(s) = 3 * (i - 1)
      BY <1>6
    <3> HIDE DEF T
    <3> QED
      BY <1>2, <1>4, <3>1, <3>2
  <2>2. At(i - 1)
    BY <1>6
  <2> HIDE DEF s, t
  <2>3. /\ Len(s \o t) = 3 * i
        /\ \A k \in 1 .. Len(s) : (s \o t)[k] = s[k]
        /\ \A m \in 1 .. 3 : (s \o t)[Len(s) + m] = t[m]
    <3>1. /\ Len(s \o t) = Len(s) + Len(t)
          /\ \A k \in 1 .. Len(s) : (s \o t)[k] = s[k]
          /\ \A k \in 1 .. Len(t) : (s \o t)[Len(s) + k] = t[k]
      <4>1. s \in Seq(S) /\ t \in Seq(S)
        BY <2>1
      <4>2. Joined(s \o t, s, t)
        BY <4>1, ConcatAt
      <4> QED
        BY <4>2 DEF Joined
    <3>2. Len(s) + Len(t) = 3 * i
      BY <2>1
    <3> QED
      BY <2>1, <3>1, <3>2
  <2>4. ASSUME NEW j \in 1 .. i, NEW m \in 1 .. 3 PROVE f[i][3 * (j - 1) + m] = seqs[j][m]
    <3>1. CASE j = i
      <4>1. 3 * (j - 1) + m = Len(s) + m
        BY <2>1, <3>1
      <4> QED
        BY <2>1, <2>3, <3>1, <4>1 DEF t
    <3>2. CASE j # i
      <4>1. j \in 1 .. i - 1 /\ 3 * (j - 1) + m \in 1 .. Len(s)
        BY <2>1, <3>2
      <4>2. s[3 * (j - 1) + m] = seqs[j][m]
        BY <2>2, <4>1 DEF s
      <4> QED
        BY <2>1, <2>3, <4>1, <4>2
    <3> QED
      BY <3>1, <3>2
  <2>5. At(i)
    BY <2>4
  <2> HIDE DEF At
  <2> QED
    BY <2>1, <2>3, <2>5
<1> HIDE DEF T
<1>7. n \in T
  <2>1. 0 .. n \subseteq T
    BY <1>2, <1>5, <1>6, UpTo
  <2> QED
    BY <1>2, <2>1
<1>8. Len(f[n]) = 3 * n /\ At(n)
  BY <1>7 DEF T
<1> QED
  BY <1>3, <1>8 DEF n

\* An entry of the directory whose fields are in F.
Entry(F) == [start_offset : F, file_name : F, data_size : F]

\* The fields of the directory that encode_central_directory writes.
LEMMA DirectoryFacts ==
    ASSUME NEW F, NEW z, z.entries \in Seq(Entry(F)), Len(z.entries) \in F, z.current_offset \in F
    PROVE  /\ CentralDirectory(z) \in Seq(F)
           /\ Len(CentralDirectory(z)) = CentralDirectorySize(z)
           /\ \A j \in 1 .. Len(z.entries) :
                /\ CentralDirectory(z)[3 * (j - 1) + 1] = z.entries[j].data_size
                /\ CentralDirectory(z)[3 * (j - 1) + 2] = z.entries[j].start_offset
                /\ CentralDirectory(z)[3 * (j - 1) + 3] = z.entries[j].file_name
           /\ CentralDirectory(z)[3 * Len(z.entries) + 1] = Len(z.entries)
           /\ CentralDirectory(z)[3 * Len(z.entries) + 2] = z.current_offset
<1> DEFINE es == z.entries
           n == Len(es)
           off == z.current_offset
           seqs == [i \in DOMAIN es |-> <<es[i].data_size, es[i].start_offset, es[i].file_name>>]
           flat == FlattenSeq(seqs)
           end == <<n, off>>
<1>1. CentralDirectory(z) = flat \o end
  BY DEF CentralDirectory
<1>2. n \in Nat /\ CentralDirectorySize(z) = 3 * n + 2 /\ n \in F /\ off \in F
  BY DEF CentralDirectorySize, CENTRAL_DIRECTORY_ENTRY_SIZE, END_OF_CENTRAL_DIRECTORY_SIZE
<1>3. ASSUME NEW i \in 1 .. n
      PROVE  /\ es[i].data_size \in F /\ es[i].start_offset \in F /\ es[i].file_name \in F
  <2>1. es[i] \in Entry(F)
    OBVIOUS
  <2> QED
    BY <2>1 DEF Entry
<1>4. ASSUME NEW a \in F, NEW b \in F, NEW c \in F
      PROVE  <<a, b, c>> \in Seq(F) /\ Len(<<a, b, c>>) = 3
  OBVIOUS
<1>5. DOMAIN es = 1 .. n
  OBVIOUS
<1> HIDE DEF es, n, off
<1>6. /\ seqs \in Seq(Seq(F)) /\ Len(seqs) = n
      /\ \A i \in 1 .. n : /\ Len(seqs[i]) = 3
                           /\ seqs[i][1] = es[i].data_size
                           /\ seqs[i][2] = es[i].start_offset
                           /\ seqs[i][3] = es[i].file_name
  <2>1. \A i \in 1 .. n : seqs[i] = <<es[i].data_size, es[i].start_offset, es[i].file_name>>
    BY <1>5
  <2>2. ASSUME NEW i \in 1 .. n PROVE seqs[i] \in Seq(F) /\ Len(seqs[i]) = 3
    <3> DEFINE e == <<es[i].data_size, es[i].start_offset, es[i].file_name>>
    <3>1. e \in Seq(F) /\ Len(e) = 3
      BY <1>3, <1>4
    <3>2. seqs[i] = e
      BY <2>1
    <3> HIDE DEF e, seqs
    <3> QED
      BY <3>1, <3>2, Zenon
  <2>3. seqs = [i \in 1 .. n |-> seqs[i]]
    BY <1>5
  <2> HIDE DEF seqs
  <2>4. seqs \in Seq(Seq(F)) /\ Len(seqs) = n
    BY <1>2, <2>2, <2>3
  <2> QED
    BY <2>1, <2>2, <2>4
<1> HIDE DEF seqs
<1>7. /\ flat \in Seq(F) /\ Len(flat) = 3 * n
      /\ \A j \in 1 .. n, m \in 1 .. 3 : flat[3 * (j - 1) + m] = seqs[j][m]
  BY <1>6, FlattenTriples
<1> HIDE DEF flat
<1>8. end \in Seq(F) /\ Len(end) = 2 /\ end[1] = n /\ end[2] = off
  BY <1>2
<1> HIDE DEF end
<1>9. /\ flat \o end \in Seq(F) /\ Len(flat \o end) = 3 * n + 2
      /\ \A k \in 1 .. 3 * n : (flat \o end)[k] = flat[k]
      /\ (flat \o end)[3 * n + 1] = n /\ (flat \o end)[3 * n + 2] = off
  <2>1. /\ flat \o end \in Seq(F) /\ Len(flat \o end) = Len(flat) + Len(end)
        /\ \A k \in 1 .. Len(flat) : (flat \o end)[k] = flat[k]
        /\ \A k \in 1 .. Len(end) : (flat \o end)[Len(flat) + k] = end[k]
    <3>1. flat \in Seq(F) /\ end \in Seq(F)
      BY <1>7, <1>8
    <3>2. flat \o end \in Seq(F) /\ Joined(flat \o end, flat, end)
      BY <3>1, ConcatAt
    <3> QED
      BY <3>2 DEF Joined
  <2>2. 1 \in 1 .. Len(end) /\ 2 \in 1 .. Len(end)
    BY <1>8
  <2> QED
    BY <1>7, <1>8, <2>1, <2>2
<1>10. ASSUME NEW j \in 1 .. n
       PROVE  /\ (flat \o end)[3 * (j - 1) + 1] = es[j].data_size
              /\ (flat \o end)[3 * (j - 1) + 2] = es[j].start_offset
              /\ (flat \o end)[3 * (j - 1) + 3] = es[j].file_name
  <2>1. 3 * (j - 1) + 1 \in 1 .. 3 * n /\ 3 * (j - 1) + 2 \in 1 .. 3 * n /\ 3 * (j - 1) + 3 \in 1 .. 3 * n
    BY <1>2
  <2>2. 1 \in 1 .. 3 /\ 2 \in 1 .. 3 /\ 3 \in 1 .. 3
    OBVIOUS
  <2>3. /\ flat[3 * (j - 1) + 1] = seqs[j][1] /\ flat[3 * (j - 1) + 2] = seqs[j][2]
        /\ flat[3 * (j - 1) + 3] = seqs[j][3]
    BY <1>7, <2>2
  <2> QED
    BY <1>6, <1>9, <2>1, <2>3
<1> QED
  BY <1>1, <1>2, <1>9, <1>10 DEF es, n, off

-----------------------------------------------------------------------------
(* The chunker. *)

\* A chunk is a first part of the data, and not empty.
LEMMA NextChunkFacts ==
    ASSUME NEW h, NEW bytes \in Seq(Byte), bytes # <<>>
    PROVE  NextChunk(h, bytes).size \in 1 .. Len(bytes)
<1> DEFINE size == NextChunk(h, bytes).size
           n == Len(bytes)
<1>1. n \in Nat \ {0}
  OBVIOUS
<1>2. \E E : size = Min(E \cup {n}) /\ E \subseteq 1 .. n
  <2> DEFINE start == Min({MinChunk, n})
             hashes == CHOOSE hashes : hashes = [k \in start .. n |->
                           IF k = start THEN h ELSE Update(hashes[k - 1], bytes[k])]
             ends == {k \in start + 1 .. n : Ends(hashes[k].hash, k)}
  <2>1. size = Min(ends \cup {n})
    BY DEF NextChunk
  <2>2. start \in Nat
    <3>1. {MinChunk, n} \in SUBSET Nat /\ {MinChunk, n} # {}
      BY <1>1, ChunkerAssumption
    <3> QED
      BY <3>1, MinIn
  <2> HIDE DEF start, hashes
  <2>3. ends \subseteq 1 .. n
    BY <1>1, <2>2
  <2> QED
    BY <2>1, <2>3
<1> HIDE DEF size, n
<1>3. PICK E : size = Min(E \cup {n}) /\ E \subseteq 1 .. n
  BY <1>2
<1>4. E \cup {n} \in SUBSET Nat /\ E \cup {n} # {}
  BY <1>1, <1>3
<1>5. size \in E \cup {n}
  BY <1>3, <1>4, MinIn
<1>6. n \in 1 .. n
  BY <1>1
<1> QED
  BY <1>3, <1>5, <1>6 DEF size, n

-----------------------------------------------------------------------------
(* Blocks. *)

\* Division rounds down.
LEMMA DivHigh == ASSUME NEW a \in Nat, NEW b \in Nat \ {0} PROVE a < b * (a \div b) + b
OBVIOUS

\* A quotient is a number.
LEMMA DivType == ASSUME NEW a \in Nat, NEW b \in Nat \ {0} PROVE a \div b \in Nat
OBVIOUS

\* Numbers below the limit are not changed by the arithmetic of a u32.
LEMMA ModSmall == ASSUME NEW a \in Nat, NEW b \in Nat \ {0}, a < b PROVE a % b = a
OBVIOUS

\* Once around.
LEMMA ModOnce ==
    ASSUME NEW a \in Nat, NEW b \in Nat \ {0}, b <= a, a < b + b PROVE a % b = a - b
OBVIOUS

\* A number below the divisor has none.
LEMMA DivSmall == ASSUME NEW a \in Nat, NEW b \in Nat \ {0}, a < b PROVE a \div b = 0
OBVIOUS

\* Blocks enough for n bytes, unless the arithmetic wraps around.
LEMMA BlocksEnough ==
    ASSUME NEW n \in Nat, n + TRANSFER_BLOCK_SIZE <= U32
    PROVE  /\ BlockCount(n) = BlocksFor(n) /\ BlockCount(n) \in Nat
           /\ Aligned(n) \in Nat /\ Aligned(n) >= n
<1> DEFINE b == TRANSFER_BLOCK_SIZE
           m == n + b - 1
           q == m \div b
<1>1. b \in Nat \ {0} /\ U32 \in Nat \ {0} /\ m \in Nat /\ m < U32
  BY WidthAssumption
<1>2. BlockCount(n) = q /\ BlocksFor(n) = q
  <2>1. m % U32 = m
    BY <1>1, ModSmall
  <2> QED
    BY <2>1 DEF BlockCount, BlocksFor
<1>3. q \in Nat /\ m < b * q + b
  BY <1>1, DivType, DivHigh
<1>4. Aligned(n) = q * b
  BY <1>2 DEF Aligned
<1>5. q * b = b * q /\ b * q \in Nat
  BY <1>1, <1>3
<1>6. b * q >= n
  BY <1>1, <1>3, <1>5
<1> QED
  BY <1>2, <1>3, <1>4, <1>5, <1>6

\* When it does, there are too few of them.
LEMMA BlocksTooFew ==
    ASSUME NEW n \in Nat, n < U32, Aligned(n) >= n
    PROVE  n + TRANSFER_BLOCK_SIZE <= U32
<1> DEFINE b == TRANSFER_BLOCK_SIZE
           m == n + b - 1
<1> SUFFICES ASSUME ~(n + b <= U32) PROVE FALSE
  OBVIOUS
<1>1. b \in Nat \ {0} /\ b <= U32 /\ U32 \in Nat \ {0} /\ m \in Nat /\ U32 <= m /\ m < U32 + U32
  BY WidthAssumption
<1>2. m % U32 = m - U32
  BY <1>1, ModOnce
<1>3. m - U32 \in Nat /\ m - U32 < b
  BY <1>1
<1>4. (m % U32) \div b = 0
  BY <1>1, <1>2, <1>3, DivSmall
<1>5. Aligned(n) = 0
  BY <1>1, <1>4 DEF Aligned, BlockCount
<1> QED
  BY <1>1, <1>5

-----------------------------------------------------------------------------
(* Rests and minima. *)

\* A number is its quotient and its rest.
LEMMA DivMod ==
    ASSUME NEW a \in Int, NEW b \in Nat \ {0}
    PROVE  a \div b \in Int /\ a % b \in 0 .. b - 1 /\ a = b * (a \div b) + (a % b)
OBVIOUS

\* A rest is below the divisor.
LEMMA ModType == ASSUME NEW a \in Nat, NEW b \in Nat \ {0} PROVE a % b \in 0 .. b - 1
OBVIOUS

\* There is only one quotient.
LEMMA OneQuotient ==
    ASSUME NEW b \in Nat \ {0}, NEW p \in Int, NEW q \in Int,
           NEW r \in 0 .. b - 1, NEW s \in 0 .. b - 1, b * p + r = b * q + s
    PROVE  r = s
<1>1. b * (p - q) = s - r
  OBVIOUS
<1>2. CASE p - q >= 1
  <2>1. b * (p - q) >= b
    BY <1>2
  <2> QED
    BY <1>1, <2>1
<1>3. CASE p - q <= -1
  <2>1. b * (p - q) <= -b
    BY <1>3
  <2> QED
    BY <1>1, <2>1
<1>4. CASE p = q
  BY <1>4
<1> QED
  BY <1>2, <1>3, <1>4

\* The rest of a number that is known to have it.
LEMMA ModIs ==
    ASSUME NEW b \in Nat \ {0}, NEW q \in Int, NEW r \in 0 .. b - 1
    PROVE  (b * q + r) % b = r
<1> DEFINE a == b * q + r
<1>1. a \in Int
  OBVIOUS
<1>2. a = b * q + r
  OBVIOUS
<1> HIDE DEF a
<1>3. a \div b \in Int /\ a % b \in 0 .. b - 1 /\ a = b * (a \div b) + (a % b)
  BY <1>1, DivMod
<1>4. b * (a \div b) + (a % b) = b * q + r
  BY <1>2, <1>3
<1>5. a % b = r
  BY <1>3, <1>4, OneQuotient
<1> QED
  BY <1>5 DEF a

\* Multiples do not count.
LEMMA ModPlus ==
    ASSUME NEW a \in Int, NEW b \in Nat \ {0}, NEW k \in Int
    PROVE  (a + b * k) % b = a % b
<1> DEFINE q == a \div b
           r == a % b
<1>1. q \in Int /\ r \in 0 .. b - 1 /\ a = b * q + r
  BY DivMod
<1> HIDE DEF q, r
<1>2. q + k \in Int /\ (b * (q + k) + r) % b = r
  BY <1>1, ModIs
<1>3. a + b * k = b * (q + k) + r
  BY <1>1
<1> QED
  BY <1>2, <1>3 DEF r

\* Numbers that are closer than b have different rests.
LEMMA ModApart ==
    ASSUME NEW b \in Nat \ {0}, NEW a \in Nat, NEW c \in Nat, c < a, a < c + b
    PROVE  a % b # c % b
<1> DEFINE p == a \div b
           q == c \div b
           r == a % b
           s == c % b
<1>1. p \in Int /\ r \in 0 .. b - 1 /\ a = b * p + r
  BY DivMod
<1>2. q \in Int /\ s \in 0 .. b - 1 /\ c = b * q + s
  BY DivMod
<1> HIDE DEF p, q, r, s
<1> SUFFICES ASSUME r = s PROVE FALSE
  BY DEF r, s
<1>3. b * (p - q) = a - c
  BY <1>1, <1>2
<1>4. CASE p - q >= 1
  <2>1. b * (p - q) >= b
    BY <1>1, <1>2, <1>4
  <2> QED
    BY <1>3, <2>1
<1>5. CASE p - q <= 0
  <2>1. b * (p - q) <= 0
    BY <1>1, <1>2, <1>5
  <2> QED
    BY <1>3, <2>1
<1> QED
  BY <1>1, <1>2, <1>4, <1>5

\* A step of the hash may start from the rest of the sum.
StepOfRest(b, x, a, m, r) == (((x % b) + a) * m - r) % b = ((x + a) * m - r) % b

\* It may, as what is left out is a multiple.
LEMMA ModStep ==
    ASSUME NEW b \in Nat \ {0}, NEW x \in Nat, NEW a \in Nat, NEW m \in Nat, NEW r \in Nat
    PROVE  StepOfRest(b, x, a, m, r)
<1> DEFINE q == x \div b
           h == x % b
           y == (h + a) * m - r
<1>1. q \in Int /\ h \in 0 .. b - 1 /\ x = b * q + h
  BY DivMod
<1> HIDE DEF q, h
<1>2. y \in Int /\ q * m \in Int
  BY <1>1
<1>3. (x + a) * m - r = y + b * (q * m)
  <2>1. (x + a) * m = (h + a) * m + (b * q) * m
    BY <1>1
  <2>2. (b * q) * m = b * (q * m)
    BY <1>1
  <2>3. (x + a) * m \in Int /\ (h + a) * m \in Int /\ b * (q * m) \in Int
    BY <1>1
  <2> QED
    BY <2>1, <2>2, <2>3
<1>4. (y + b * (q * m)) % b = y % b
  <2> HIDE DEF y
  <2> QED
    BY <1>2, ModPlus
<1> QED
  BY <1>3, <1>4 DEF h, StepOfRest

\* The minimum is the one element below the others.
LEMMA MinIs ==
    ASSUME NEW S \in SUBSET Nat, NEW x \in S, \A y \in S : x <= y
    PROVE  Min(S) = x
<1>1. ASSUME NEW z \in S, \A y \in S : z <= y PROVE z = x
  <2>1. z <= x /\ x <= z /\ z \in Nat /\ x \in Nat
    BY <1>1
  <2> QED
    BY <2>1
<1>2. Min(S) \in S /\ \A y \in S : Min(S) <= y
  BY DEF Min
<1> QED
  BY <1>1, <1>2

\* There is one.
LEMMA MinLeast ==
    ASSUME NEW S \in SUBSET Nat, S # {}
    PROVE  Min(S) \in S /\ \A y \in S : Min(S) <= y
<1>1. PICK x \in S : \A y \in S : ~(y < x)
  BY Least
<1>2. \A y \in S : x <= y
  <2>1. \A y \in S : y \in Nat
    OBVIOUS
  <2> QED
    BY <1>1, <2>1
<1>3. Min(S) = x
  BY <1>2, MinIs
<1> QED
  BY <1>2, <1>3

\* The minimum of two numbers is the smaller one.
LEMMA MinOfTwo ==
    ASSUME NEW x \in Nat, NEW y \in Nat
    PROVE  Min({x, y}) = IF x <= y THEN x ELSE y
<1>1. CASE x <= y
  <2>1. {x, y} \in SUBSET Nat /\ x \in {x, y} /\ \A z \in {x, y} : x <= z
    BY <1>1
  <2> QED
    BY <1>1, <2>1, MinIs
<1>2. CASE ~(x <= y)
  <2>1. {x, y} \in SUBSET Nat /\ y \in {x, y} /\ \A z \in {x, y} : y <= z
    BY <1>2
  <2> QED
    BY <1>2, <2>1, MinIs
<1> QED
  BY <1>1, <1>2

-----------------------------------------------------------------------------
(* The rolling hash. *)

\* The constants of the chunker are numbers.
LEMMA ChunkerNumbers ==
    /\ WindowSize \in Nat \ {0} /\ HashRange \in Nat \ {0}
    /\ MinChunk \in Nat \ {0} /\ MaskRange \in Nat \ {0}
    /\ Mult \in Nat /\ Offset \in Nat /\ MaxChunk \in Nat /\ MinChunk < MaxChunk
BY ChunkerAssumption

\* The powers of Mult.
LEMMA PowerFacts ==
    /\ Power \in [0 .. WindowSize + 1 -> Nat]
    /\ Power[0] = 1
    /\ \A i \in 1 .. WindowSize + 1 : Power[i] = Mult * Power[i - 1]
<1> DEFINE n == WindowSize + 1
           Rec(p) == [i \in 0 .. n |-> IF i = 0 THEN 1 ELSE Mult * p[i - 1]]
           g == [p \in (1 .. n) \X Nat |-> Mult * p[2]]
<1>1. n \in Nat /\ Mult \in Nat
  BY ChunkerNumbers
<1>2. g \in [(1 .. n) \X Nat -> Nat] /\ \A i \in 1 .. n, r \in Nat : g[<<i, r>>] = Mult * r
  <2>1. \A r \in Nat : Mult * r \in Nat
    BY <1>1
  <2> QED
    BY <2>1
<1>3. Power = CHOOSE p : p = Rec(p)
  BY DEF Power
<1> HIDE DEF n, g
<1>4. PICK f : Recursive(f, n, Nat, 1, g)
  BY <1>1, <1>2, NumberRecursion
<1>5. f \in [0 .. n -> Nat] /\ f[0] = 1 /\ \A i \in 1 .. n : f[i] = g[<<i, f[i - 1]>>]
  BY <1>4 DEF Recursive
<1>6. \A i \in 1 .. n : f[i] = Mult * f[i - 1]
  <2>1. \A i \in 1 .. n : f[i - 1] \in Nat
    BY <1>1, <1>5
  <2> QED
    BY <1>2, <1>5, <2>1
<1>7. f = Rec(f)
  BY <1>1, <1>5, <1>6
<1>8. Power = Rec(Power)
  <2> HIDE DEF Rec
  <2> QED
    BY <1>3, <1>7
<1>9. Power[0] = 1 /\ \A i \in 1 .. n : Power[i] = Mult * Power[i - 1]
  BY <1>1, <1>8
<1>10. Power \in [0 .. n -> Nat]
  <2> DEFINE T == {i \in 0 .. n : Power[i] \in Nat}
  <2>1. 0 \in T
    BY <1>1, <1>9
  <2>2. ASSUME NEW i \in 1 .. n, i - 1 \in T PROVE i \in T
    BY <1>1, <1>9, <2>2
  <2> HIDE DEF T
  <2>3. 0 .. n \subseteq T
    BY <1>1, <2>1, <2>2, UpTo
  <2>4. \A i \in 0 .. n : Power[i] \in Nat
    BY <2>3 DEF T
  <2>5. Power = [i \in 0 .. n |-> Power[i]]
    BY <1>8
  <2> QED
    BY <2>4, <2>5
<1> QED
  BY <1>9, <1>10 DEF n

\* f sums up the k bytes of d that end at n, the last one first.
Sums(f, d, n, k) ==
    /\ f \in [0 .. k -> Nat]
    /\ f[0] = 0
    /\ \A i \in 1 .. k : f[i] = f[i - 1] + (d[n + 1 - i] + Offset) * Power[i]

\* A byte is a number.
LEMMA ByteNumber == ASSUME NEW x \in Byte PROVE x \in Nat
BY WidthAssumption

\* What is added is a number.
LEMMA TermType ==
    ASSUME NEW d \in Seq(Byte), NEW n \in 0 .. Len(d), NEW i \in 1 .. n, i <= WindowSize + 1
    PROVE  /\ d[n + 1 - i] + Offset \in Nat /\ Power[i] \in Nat
           /\ (d[n + 1 - i] + Offset) * Power[i] \in Nat
<1>1. n + 1 - i \in 1 .. Len(d)
  OBVIOUS
<1>2. d[n + 1 - i] \in Nat
  <2>1. d[n + 1 - i] \in Byte
    BY <1>1
  <2> QED
    BY <2>1, ByteNumber
<1>3. Power[i] \in Nat
  <2>1. i \in 0 .. WindowSize + 1
    BY ChunkerNumbers
  <2> QED
    BY <2>1, PowerFacts
<1>4. d[n + 1 - i] + Offset \in Nat
  BY <1>2, ChunkerNumbers
<1> HIDE DEF Power
<1> QED
  BY <1>3, <1>4

\* Such a function exists.
LEMMA SumExists ==
    ASSUME NEW d \in Seq(Byte), NEW n \in 0 .. Len(d), NEW k \in 0 .. n, k <= WindowSize + 1
    PROVE  \E f : Sums(f, d, n, k)
<1> DEFINE term == [i \in 1 .. k |-> (d[n + 1 - i] + Offset) * Power[i]]
           g == [p \in (1 .. k) \X Nat |-> p[2] + term[p[1]]]
<1>1. k \in Nat
  OBVIOUS
<1>2. ASSUME NEW i \in 1 .. k
      PROVE  term[i] \in Nat /\ term[i] = (d[n + 1 - i] + Offset) * Power[i]
  <2>1. i \in 1 .. n /\ i <= WindowSize + 1
    BY <1>1, ChunkerNumbers
  <2> QED
    BY <2>1, TermType
<1> HIDE DEF term
<1>3. g \in [(1 .. k) \X Nat -> Nat] /\ \A i \in 1 .. k, r \in Nat : g[<<i, r>>] = r + term[i]
  <2>1. \A i \in 1 .. k, r \in Nat : r + term[i] \in Nat
    BY <1>2
  <2> QED
    BY <2>1
<1> HIDE DEF g
<1>4. PICK f : Recursive(f, k, Nat, 0, g)
  BY <1>1, <1>3, NumberRecursion
<1>5. f \in [0 .. k -> Nat] /\ f[0] = 0 /\ \A i \in 1 .. k : f[i] = g[<<i, f[i - 1]>>]
  BY <1>4 DEF Recursive
<1>6. \A i \in 1 .. k : f[i - 1] \in Nat
  BY <1>1, <1>5
<1>7. \A i \in 1 .. k : f[i] = f[i - 1] + term[i]
  BY <1>3, <1>5, <1>6
<1> QED
  BY <1>2, <1>5, <1>7 DEF Sums

\* f adds up the first k terms of t.
AddsUp(f, t, k) == f[0] = 0 /\ \A i \in 1 .. k : f[i] = f[i - 1] + t[i]

\* Two sums of the same terms are equal.
LEMMA SameSum ==
    ASSUME NEW k \in Nat, NEW t, NEW f, NEW g, AddsUp(f, t, k), AddsUp(g, t, k)
    PROVE  f[k] = g[k]
<1> DEFINE T == {i \in 0 .. k : f[i] = g[i]}
<1>1. 0 \in T
  BY DEF AddsUp
<1>2. ASSUME NEW i \in 1 .. k, i - 1 \in T PROVE i \in T
  <2>1. f[i] = f[i - 1] + t[i] /\ g[i] = g[i - 1] + t[i] /\ i \in 0 .. k
    BY DEF AddsUp
  <2> QED
    BY <1>2, <2>1
<1> HIDE DEF T
<1>3. 0 .. k \subseteq T
  BY <1>1, <1>2, UpTo
<1> QED
  BY <1>3 DEF T

\* There is only one, whatever the number of bytes.
LEMMA SumUnique ==
    ASSUME NEW d, NEW n, NEW k \in Nat, NEW m \in Nat, k <= m, NEW f, NEW g,
           Sums(f, d, n, k), Sums(g, d, n, m)
    PROVE  f[k] = g[k]
<1> DEFINE t == [i \in 1 .. m |-> (d[n + 1 - i] + Offset) * Power[i]]
<1>1. \A i \in 1 .. m : t[i] = (d[n + 1 - i] + Offset) * Power[i]
  OBVIOUS
<1>2. \A i \in 1 .. k : i \in 1 .. m
  OBVIOUS
<1> HIDE DEF t
<1>3. AddsUp(f, t, k)
  BY <1>1, <1>2 DEF Sums, AddsUp
<1>4. AddsUp(g, t, k)
  BY <1>1, <1>2 DEF Sums, AddsUp
<1> QED
  BY <1>3, <1>4, SameSum

\* WindowHash is such a sum over the bytes after m.
LEMMA HashIsSum ==
    ASSUME NEW d \in Seq(Byte), NEW m \in Nat, NEW n \in m .. Len(d), NEW k \in Nat,
           k = Min({WindowSize, n - m}), NEW f, Sums(f, d, n, k)
    PROVE  WindowHash(SubSeq(d, m + 1, n)) = f[k] % HashRange
<1> DEFINE b == SubSeq(d, m + 1, n)
           term(i) == (b[Len(b) + 1 - i] + Offset) * Power[i]
           Rec(s) == [i \in 0 .. k |-> IF i = 0 THEN 0 ELSE s[i - 1] + term(i)]
           sum == CHOOSE s : s = Rec(s)
<1>0. k <= n - m
  <2>1. WindowSize \in Nat /\ n - m \in Nat
    BY ChunkerNumbers
  <2> QED
    BY <2>1, MinOfTwo
<1>1. Len(b) = n - m /\ \A i \in 1 .. n - m : b[i] = d[m + i]
  <2>1. m + 1 \in Int /\ n \in Int /\ \A i \in m + 1 .. n : d[i] \in Byte
    OBVIOUS
  <2>2. /\ Len(b) = IF m + 1 <= n THEN n - (m + 1) + 1 ELSE 0
        /\ \A i \in 1 .. n - (m + 1) + 1 : b[i] = d[m + 1 + i - 1]
    BY <2>1, SubSeqProperties
  <2> QED
    BY <2>2
<1>2. WindowHash(b) = sum[k] % HashRange
  BY <1>1 DEF WindowHash
<1>3. ASSUME NEW i \in 1 .. k PROVE b[Len(b) + 1 - i] = d[n + 1 - i]
  <2>1. n - m + 1 - i \in 1 .. n - m /\ m + (n - m + 1 - i) = n + 1 - i
    BY <1>0
  <2> QED
    BY <1>1, <2>1
<1> HIDE DEF b
<1>4. f \in [0 .. k -> Nat] /\ f[0] = 0 /\ \A i \in 1 .. k : f[i] = f[i - 1] + term(i)
  BY <1>3 DEF Sums
<1> HIDE DEF term
<1>5. f = Rec(f)
  BY <1>4
<1>6. sum = Rec(sum)
  <2> HIDE DEF Rec
  <2> QED
    BY <1>5
<1> HIDE DEF sum
<1>7. sum[0] = 0 /\ \A i \in 1 .. k : sum[i] = sum[i - 1] + term(i)
  <2>1. k \in Nat /\ 0 \in 0 .. k /\ \A i \in 1 .. k : i \in 0 .. k /\ i # 0
    OBVIOUS
  <2>2. \A i \in 0 .. k : sum[i] = IF i = 0 THEN 0 ELSE sum[i - 1] + term(i)
    BY <1>6, Zenon
  <2> QED
    BY <2>1, <2>2
<1> HIDE DEF Rec
<1>10. f[k] = sum[k]
  <2> DEFINE t == [i \in 1 .. k |-> term(i)]
  <2>1. \A i \in 1 .. k : t[i] = term(i)
    OBVIOUS
  <2> HIDE DEF t
  <2>2. AddsUp(f, t, k) /\ AddsUp(sum, t, k)
    BY <1>4, <1>7, <2>1 DEF AddsUp
  <2> QED
    BY <2>2, SameSum
<1> QED
  BY <1>2, <1>10 DEF b

\* A further byte multiplies what was there once more.
LEMMA SumStep ==
    ASSUME NEW d \in Seq(Byte), NEW n \in Nat, n + 1 <= Len(d), NEW k \in 0 .. n, k <= WindowSize,
           NEW f, Sums(f, d, n, k), NEW g, Sums(g, d, n + 1, k + 1)
    PROVE  g[k + 1] = (f[k] + (d[n + 1] + Offset)) * Mult
<1> DEFINE a == d[n + 1] + Offset
           T == {i \in 0 .. k : g[i + 1] = (f[i] + a) * Mult}
<1>1. k \in Nat /\ a \in Nat /\ Mult \in Nat /\ WindowSize \in Nat
  <2>1. n + 1 \in 1 .. Len(d) /\ d[n + 1] \in Byte
    OBVIOUS
  <2>2. d[n + 1] \in Nat
    BY <2>1, ByteNumber
  <2> QED
    BY <2>2, ChunkerNumbers
<1>2. /\ f \in [0 .. k -> Nat] /\ f[0] = 0
      /\ \A i \in 1 .. k : f[i] = f[i - 1] + (d[n + 1 - i] + Offset) * Power[i]
  BY DEF Sums
<1>3. /\ g \in [0 .. k + 1 -> Nat] /\ g[0] = 0
      /\ \A i \in 1 .. k + 1 : g[i] = g[i - 1] + (d[(n + 1) + 1 - i] + Offset) * Power[i]
  BY DEF Sums
<1>4. 0 \in T
  <2>1. 1 \in 1 .. k + 1 /\ (n + 1) + 1 - 1 = n + 1 /\ 1 - 1 = 0 /\ 0 + 1 = 1
    BY <1>1
  <2>2. g[1] = g[0] + a * Power[1]
    BY <1>3, <2>1
  <2>3. Power[1] = Mult
    <3>1. 1 \in 1 .. WindowSize + 1
      BY <1>1
    <3>2. Power[1] = Mult * Power[0] /\ Power[0] = 1
      BY <2>1, <3>1, PowerFacts
    <3> QED
      BY <1>1, <3>2
  <2> HIDE DEF a
  <2>4. a * Mult \in Nat /\ 0 + a = a /\ 0 + a * Mult = a * Mult
    BY <1>1
  <2>5. g[0 + 1] = (f[0] + a) * Mult
    BY <1>2, <1>3, <2>1, <2>2, <2>3, <2>4
  <2> QED
    BY <1>1, <2>5
<1>5. ASSUME NEW i \in 1 .. k, i - 1 \in T PROVE i \in T
  <2> DEFINE c == d[n + 1 - i] + Offset
             q == Power[i]
             s == f[i - 1]
  <2>1. i \in 1 .. n /\ i <= WindowSize + 1 /\ n \in 0 .. Len(d)
    BY <1>1
  <2>2. c \in Nat /\ q \in Nat
    BY <2>1, TermType
  <2>3. i - 1 \in 0 .. k /\ s \in Nat
    BY <1>1, <1>2
  <2>4. f[i] = s + c * q
    BY <1>2
  <2>5. g[i] = (s + a) * Mult
    <3>1. g[(i - 1) + 1] = (s + a) * Mult /\ (i - 1) + 1 = i
      BY <1>5
    <3> QED
      BY <3>1
  <2>6. g[i + 1] = g[i] + c * (Mult * q)
    <3>1. i + 1 \in 1 .. k + 1 /\ (i + 1) - 1 = i /\ (n + 1) + 1 - (i + 1) = n + 1 - i
      BY <1>1
    <3>2. g[i + 1] = g[(i + 1) - 1] + (d[(n + 1) + 1 - (i + 1)] + Offset) * Power[i + 1]
      BY <1>3, <3>1
    <3>3. i + 1 \in 1 .. WindowSize + 1
      BY <1>1
    <3>4. Power[i + 1] = Mult * Power[i]
      BY <3>1, <3>3, PowerFacts
    <3> QED
      BY <3>1, <3>2, <3>4
  <2> HIDE DEF a, c, q, s
  <2>7. c * (Mult * q) = (c * q) * Mult
    BY <1>1, <2>2
  <2>8. (s + a) * Mult + (c * q) * Mult = (s + c * q + a) * Mult
    BY <1>1, <2>2, <2>3
  <2>9. g[i + 1] = (f[i] + a) * Mult
    BY <2>4, <2>5, <2>6, <2>7, <2>8
  <2> QED
    BY <1>1, <2>9
<1> HIDE DEF T
<1>6. 0 .. k \subseteq T
  BY <1>1, <1>4, <1>5, UpTo
<1> QED
  BY <1>1, <1>6 DEF T

\* The rolling hash h has seen the bytes of d after m, up to n.
Rolled(h, d, m, n) ==
    /\ h.hash = WindowHash(SubSeq(d, m + 1, n))
    /\ h.window \in [0 .. WindowSize - 1 -> Nat]
    /\ h.window_pos = (n - m) % WindowSize
    /\ \A j \in m + 1 .. n : j > n - WindowSize => h.window[(j - m - 1) % WindowSize] = d[j] + Offset
    /\ \A j \in n - m .. WindowSize - 1 : h.window[j] = 0

\* In a window that is not full yet, no byte has to be taken out.
LEMMA FreePlace ==
    ASSUME NEW d \in Seq(Byte), NEW m \in Nat, NEW n \in m .. Len(d), NEW h, Rolled(h, d, m, n),
           n - m < WindowSize
    PROVE  h.window[h.window_pos] = 0
<1>1. WindowSize \in Nat \ {0} /\ n - m \in Nat
  BY ChunkerNumbers
<1>2. (n - m) % WindowSize = n - m
  BY <1>1, ModSmall
<1>3. n - m \in n - m .. WindowSize - 1
  BY <1>1
<1> QED
  BY <1>2, <1>3 DEF Rolled

\* In a full one, the byte to take out is the oldest.
LEMMA OldestByte ==
    ASSUME NEW d \in Seq(Byte), NEW m \in Nat, NEW n \in m .. Len(d), NEW h, Rolled(h, d, m, n),
           n - m >= WindowSize
    PROVE  h.window[h.window_pos] = d[n + 1 - WindowSize] + Offset
<1> DEFINE j == n + 1 - WindowSize
           k == n - m - WindowSize
<1>1. WindowSize \in Nat \ {0} /\ n - m \in Nat /\ k \in Nat
  BY ChunkerNumbers
<1>2. j \in m + 1 .. n /\ j > n - WindowSize /\ j - m - 1 = k
  BY <1>1
<1>3. (n - m) % WindowSize = k % WindowSize
  <2>1. k \in Int /\ 1 \in Int /\ k + WindowSize * 1 = n - m
    BY <1>1
  <2> HIDE DEF k
  <2>2. (k + WindowSize * 1) % WindowSize = k % WindowSize
    BY <1>1, <2>1, ModPlus
  <2> QED
    BY <2>1, <2>2
<1>4. h.window_pos = k % WindowSize
  BY <1>3 DEF Rolled
<1>5. h.window[(j - m - 1) % WindowSize] = d[j] + Offset
  BY <1>2 DEF Rolled
<1> HIDE DEF k
<1> QED
  BY <1>2, <1>4, <1>5

\* The hash that is rolled on is the one of the window that has moved on.
LEMMA HashMoves ==
    ASSUME NEW d \in Seq(Byte), NEW m \in Nat, NEW n \in m .. Len(d), n + 1 <= Len(d),
           NEW h, Rolled(h, d, m, n)
    PROVE  Update(h, d[n + 1]).hash = WindowHash(SubSeq(d, m + 1, n + 1))
<1> DEFINE a == d[n + 1] + Offset
           w == h.window[h.window_pos]
           W == WindowSize
<1>1. /\ W \in Nat \ {0} /\ HashRange \in Nat \ {0} /\ Mult \in Nat /\ n \in Nat /\ n - m \in Nat
      /\ n \in 0 .. Len(d) /\ n + 1 \in 0 .. Len(d) /\ n + 1 \in m .. Len(d) /\ Len(d) \in Nat
  BY ChunkerNumbers
<1>2. a \in Nat
  <2>1. n + 1 \in 1 .. Len(d) /\ d[n + 1] \in Byte
    BY <1>1
  <2>2. d[n + 1] \in Nat
    BY <2>1, ByteNumber
  <2> QED
    BY <2>2, ChunkerNumbers
<1>3. Update(h, d[n + 1]).hash = ((h.hash + a) * Mult - w * WindowMult) % HashRange
  BY DEF Update
<1>4. h.hash = WindowHash(SubSeq(d, m + 1, n))
  BY DEF Rolled
<1>5. WindowMult = Power[W + 1] /\ Power[W + 1] \in Nat
  <2>1. W + 1 \in 0 .. W + 1
    BY <1>1
  <2> QED
    BY <2>1, PowerFacts DEF WindowMult
<1>6. CASE n - m < W
  <2> DEFINE k == n - m
  <2>1. k \in Nat /\ k + 1 \in Nat /\ k = Min({W, n - m}) /\ k + 1 = Min({W, (n + 1) - m})
    <3>1. Min({W, n - m}) = n - m
      BY <1>1, <1>6, MinOfTwo
    <3>2. (n + 1) - m \in Nat /\ (n + 1) - m = k + 1 /\ (W <= (n + 1) - m => W = (n + 1) - m)
      BY <1>1, <1>6
    <3>3. Min({W, (n + 1) - m}) = (n + 1) - m
      BY <1>1, <3>2, MinOfTwo
    <3> QED
      BY <1>1, <3>1, <3>2, <3>3
  <2>2. k \in 0 .. n /\ k <= W /\ k + 1 \in 0 .. n + 1 /\ k + 1 <= W + 1 /\ k <= W + 1
    BY <1>1, <1>6
  <2> HIDE DEF k, W
  <2>3. PICK f : Sums(f, d, n, k)
    BY <1>1, <2>2, SumExists DEF W
  <2>4. PICK g : Sums(g, d, n + 1, k + 1)
    BY <1>1, <2>2, SumExists DEF W
  <2>5. WindowHash(SubSeq(d, m + 1, n)) = f[k] % HashRange
    <3>1. k \in Nat /\ k = Min({WindowSize, n - m}) /\ n \in m .. Len(d)
      BY <1>1, <2>1 DEF W
    <3> QED
      BY <2>3, <3>1, HashIsSum
  <2>6. WindowHash(SubSeq(d, m + 1, n + 1)) = g[k + 1] % HashRange
    <3>1. k + 1 \in Nat /\ k + 1 = Min({WindowSize, (n + 1) - m}) /\ n + 1 \in m .. Len(d)
      BY <1>1, <2>1 DEF W
    <3> QED
      BY <2>4, <3>1, HashIsSum
  <2>7. g[k + 1] = (f[k] + a) * Mult
    BY <1>1, <2>2, <2>3, <2>4, SumStep DEF W
  <2>8. w * WindowMult = 0
    <3>1. w = 0
      BY <1>6, FreePlace DEF W
    <3> HIDE DEF w
    <3> QED
      BY <1>5, <3>1
  <2>9. f[k] \in Nat
    <3>1. k \in 0 .. k
      BY <2>1
    <3> QED
      BY <2>3, <3>1 DEF Sums
  <2> DEFINE x == f[k]
  <2> HIDE DEF a, x, w
  <2>10. (((x % HashRange) + a) * Mult - 0) % HashRange = ((x + a) * Mult - 0) % HashRange
    <3>1. x \in Nat /\ 0 \in Nat
      BY <2>9 DEF x
    <3>2. HashRange \in Nat \ {0} /\ Mult \in Nat /\ a \in Nat
      BY <1>1, <1>2
    <3>3. StepOfRest(HashRange, x, a, Mult, 0)
      BY <3>1, <3>2, ModStep
    <3> QED
      BY <3>3 DEF StepOfRest
  <2>11. (x + a) * Mult \in Nat /\ (x + a) * Mult - 0 = (x + a) * Mult
    BY <1>1, <1>2, <2>9 DEF x
  <2>12. Update(h, d[n + 1]).hash = ((x + a) * Mult) % HashRange
    BY <1>3, <1>4, <2>5, <2>8, <2>10, <2>11 DEF x
  <2> QED
    BY <2>6, <2>7, <2>12 DEF x
<1>7. CASE n - m >= W
  <2>1. W = Min({W, n - m}) /\ W = Min({W, (n + 1) - m})
    <3>1. (n + 1) - m \in Nat /\ W <= (n + 1) - m
      BY <1>1, <1>7
    <3> QED
      BY <1>1, <1>7, <3>1, MinOfTwo
  <2>2. W \in 0 .. n /\ W \in 0 .. n + 1 /\ W + 1 \in 0 .. n + 1 /\ W <= W + 1 /\ W + 1 <= W + 1 /\ W <= W
    BY <1>1, <1>7
  <2> HIDE DEF W
  <2>3. PICK f : Sums(f, d, n, W)
    BY <1>1, <2>2, SumExists DEF W
  <2>4. PICK g : Sums(g, d, n + 1, W)
    BY <1>1, <2>2, SumExists DEF W
  <2>5. PICK e : Sums(e, d, n + 1, W + 1)
    BY <1>1, <2>2, SumExists DEF W
  <2>6. WindowHash(SubSeq(d, m + 1, n)) = f[W] % HashRange
    <3>1. W \in Nat /\ W = Min({WindowSize, n - m}) /\ n \in m .. Len(d)
      BY <1>1, <2>1 DEF W
    <3> QED
      BY <2>3, <3>1, HashIsSum
  <2>7. WindowHash(SubSeq(d, m + 1, n + 1)) = g[W] % HashRange
    <3>1. W \in Nat /\ W = Min({WindowSize, (n + 1) - m}) /\ n + 1 \in m .. Len(d)
      BY <1>1, <2>1 DEF W
    <3> QED
      BY <2>4, <3>1, HashIsSum
  <2>8. e[W + 1] = (f[W] + a) * Mult
    BY <1>1, <2>2, <2>3, <2>5, SumStep DEF W
  <2>9. g[W] = e[W]
    BY <1>1, <2>2, <2>4, <2>5, SumUnique DEF W
  <2>10. e[W + 1] = e[W] + w * WindowMult
    <3>1. w = d[n + 1 - W] + Offset
      BY <1>7, OldestByte DEF W
    <3>2. W + 1 \in 1 .. W + 1 /\ (W + 1) - 1 = W /\ (n + 1) + 1 - (W + 1) = n + 1 - W
      BY <1>1
    <3>3. e[W + 1] = e[(W + 1) - 1] + (d[(n + 1) + 1 - (W + 1)] + Offset) * Power[W + 1]
      BY <2>5, <3>2 DEF Sums
    <3> HIDE DEF w
    <3> QED
      BY <1>5, <3>1, <3>2, <3>3
  <2>11. f[W] \in Nat /\ e[W] \in Nat
    <3>1. W \in 0 .. W /\ W \in 0 .. W + 1
      BY <1>1
    <3> QED
      BY <2>3, <2>5, <3>1 DEF Sums
  <2>12. w * WindowMult \in Nat
    <3>1. w = d[n + 1 - W] + Offset
      BY <1>7, OldestByte DEF W
    <3>2. n + 1 - W \in 1 .. Len(d)
      BY <1>1, <1>7
    <3>3. d[n + 1 - W] \in Byte
      BY <3>2
    <3>4. w \in Nat
      BY <3>1, <3>3, ByteNumber, ChunkerNumbers
    <3> HIDE DEF w
    <3> QED
      BY <1>5, <3>4
  <2> DEFINE x == f[W]
             r == w * WindowMult
  <2> HIDE DEF a, x, w, r
  <2>13. (((x % HashRange) + a) * Mult - r) % HashRange = ((x + a) * Mult - r) % HashRange
    <3>1. x \in Nat /\ r \in Nat
      BY <2>11, <2>12 DEF x, r
    <3>2. HashRange \in Nat \ {0} /\ Mult \in Nat /\ a \in Nat
      BY <1>1, <1>2
    <3>3. StepOfRest(HashRange, x, a, Mult, r)
      BY <3>1, <3>2, ModStep
    <3> QED
      BY <3>3 DEF StepOfRest
  <2>14. (x + a) * Mult - r = g[W]
    <3>1. (x + a) * Mult = e[W] + r
      BY <2>8, <2>10 DEF x, r
    <3>2. e[W] \in Nat /\ r \in Nat
      BY <2>11, <2>12 DEF r
    <3> QED
      BY <2>9, <3>1, <3>2
  <2>15. Update(h, d[n + 1]).hash = (((x % HashRange) + a) * Mult - r) % HashRange
    BY <1>3, <1>4, <2>6 DEF x, r
  <2> QED
    BY <2>7, <2>13, <2>14, <2>15
<1> QED
  BY <1>1, <1>6, <1>7

\* RabinKarpHash::update keeps the window and its hash.
LEMMA RollsOn ==
    ASSUME NEW d \in Seq(Byte), NEW m \in Nat, NEW n \in m .. Len(d), n + 1 <= Len(d),
           NEW h, Rolled(h, d, m, n)
    PROVE  Rolled(Update(h, d[n + 1]), d, m, n + 1)
<1> DEFINE u == Update(h, d[n + 1])
           a == d[n + 1] + Offset
           W == WindowSize
           k == n - m
           p == k % W
<1>1. W \in Nat \ {0} /\ k \in Nat /\ n \in Nat /\ a \in Nat
  <2>1. n + 1 \in 1 .. Len(d) /\ d[n + 1] \in Byte
    OBVIOUS
  <2>2. d[n + 1] \in Nat
    BY <2>1, ByteNumber
  <2> QED
    BY <2>2, ChunkerNumbers
<1>2. u.hash = WindowHash(SubSeq(d, m + 1, n + 1))
  BY HashMoves
<1>3. /\ h.window \in [0 .. W - 1 -> Nat] /\ h.window_pos = p
      /\ \A j \in m + 1 .. n : j > n - W => h.window[(j - m - 1) % W] = d[j] + Offset
      /\ \A j \in k .. W - 1 : h.window[j] = 0
  BY DEF Rolled
<1>4. u.window = [h.window EXCEPT ![p] = a] /\ u.window_pos = (p + 1) % W
  BY <1>3 DEF Update
<1>5. p \in 0 .. W - 1 /\ k \div W \in Int /\ k = W * (k \div W) + p
  <2> HIDE DEF k, W
  <2>1. k \in Int
    BY <1>1
  <2> QED
    BY <1>1, <2>1, DivMod DEF p
<1> DEFINE v == u.window
<1> HIDE DEF p, u, a, W
<1>6. v[p] = a /\ v \in [0 .. W - 1 -> Nat] /\ \A j \in (0 .. W - 1) \ {p} : v[j] = h.window[j]
  BY <1>1, <1>3, <1>4, <1>5
<1>7. u.window_pos = ((n + 1) - m) % W
  <2> DEFINE q == k \div W
  <2>1. q \in Int /\ p + 1 \in Int /\ (p + 1) + W * q = (n + 1) - m
    BY <1>1, <1>5
  <2> HIDE DEF q
  <2>2. ((p + 1) + W * q) % W = (p + 1) % W
    BY <1>1, <2>1, ModPlus
  <2> QED
    BY <1>4, <2>1, <2>2
<1> HIDE DEF v
<1>8. ASSUME NEW j \in m + 1 .. n + 1, j > (n + 1) - W PROVE v[(j - m - 1) % W] = d[j] + Offset
  <2>1. CASE j = n + 1
    <3>1. j - m - 1 = k
      BY <2>1, <1>1
    <3> QED
      BY <1>6, <2>1, <3>1 DEF p, a
  <2>2. CASE j # n + 1
    <3> DEFINE c == j - m - 1
    <3>1. j \in m + 1 .. n /\ j > n - W /\ c \in Nat /\ c < k /\ k < c + W
      BY <1>1, <1>8, <2>2
    <3>2. h.window[c % W] = d[j] + Offset
      BY <1>3, <3>1
    <3> HIDE DEF c
    <3>3. k % W # c % W
      BY <1>1, <3>1, ModApart
    <3>4. c % W \in 0 .. W - 1
      BY <1>1, <3>1, ModType
    <3> QED
      BY <1>6, <3>2, <3>3, <3>4 DEF p, c
  <2> QED
    BY <2>1, <2>2
<1>9. ASSUME NEW j \in (n + 1) - m .. W - 1 PROVE v[j] = 0
  <2>1. j \in k .. W - 1 /\ j \in 0 .. W - 1 /\ k < j /\ k < W
    BY <1>1
  <2>2. p = k
    BY <1>1, <2>1, ModSmall DEF p
  <2>3. j \in (0 .. W - 1) \ {p}
    BY <1>1, <2>1, <2>2
  <2> QED
    BY <1>3, <1>6, <2>1, <2>3
<1> QED
  BY <1>2, <1>6, <1>7, <1>8, <1>9 DEF Rolled, v, u, W

\* RabinKarpHash::new has seen nothing.
LEMMA RolledNew ==
    ASSUME NEW d \in Seq(Byte), NEW m \in 0 .. Len(d)
    PROVE  Rolled(NewHash, d, m, m)
<1> DEFINE W == WindowSize
<1>1. W \in Nat \ {0} /\ HashRange \in Nat \ {0} /\ m \in Nat /\ m - m = 0
  BY ChunkerNumbers
<1>2. NewHash.hash = 0 /\ NewHash.window = [i \in 0 .. W - 1 |-> 0] /\ NewHash.window_pos = 0
  BY DEF NewHash
<1>3. WindowHash(SubSeq(d, m + 1, m)) = 0
  <2>1. PICK f : Sums(f, d, m, 0)
    <3>1. m \in 0 .. Len(d) /\ 0 \in 0 .. m /\ 0 <= WindowSize + 1
      BY <1>1
    <3> QED
      BY <3>1, SumExists
  <2>2. 0 = Min({WindowSize, m - m})
    BY <1>1, MinOfTwo
  <2>3. m \in m .. Len(d) /\ 0 \in Nat
    BY <1>1
  <2>4. WindowHash(SubSeq(d, m + 1, m)) = f[0] % HashRange
    BY <1>1, <2>1, <2>2, <2>3, HashIsSum
  <2>5. f[0] = 0
    BY <2>1 DEF Sums
  <2>6. 0 % HashRange = 0
    BY <1>1, ModSmall
  <2> QED
    BY <2>4, <2>5, <2>6
<1>4. (m - m) % W = 0
  BY <1>1, ModSmall
<1>5. m + 1 .. m = {}
  BY <1>1
<1>6. m - m .. W - 1 = 0 .. W - 1
  BY <1>1
<1> HIDE DEF W
<1>7. NewHash.window \in [0 .. W - 1 -> Nat] /\ \A j \in 0 .. W - 1 : NewHash.window[j] = 0
  BY <1>2
<1> QED
  BY <1>2, <1>3, <1>4, <1>5, <1>6, <1>7 DEF Rolled, W

-----------------------------------------------------------------------------
(* Where a chunk ends. *)

\* What a rolling hash may be.
Hashes == [hash : 0 .. HashRange - 1, window : [0 .. WindowSize - 1 -> Nat],
           window_pos : 0 .. WindowSize - 1]

\* RabinKarpHash::update returns a hash.
LEMMA UpdateType == ASSUME NEW h \in Hashes, NEW byte \in Byte PROVE Update(h, byte) \in Hashes
<1> DEFINE added == byte + Offset
           removed == h.window[h.window_pos] * WindowMult
           x == (h.hash + added) * Mult - removed
<1>1. /\ WindowSize \in Nat \ {0} /\ HashRange \in Nat \ {0} /\ Mult \in Nat
      /\ added \in Nat
  BY ByteNumber, ChunkerNumbers
<1>2. h.hash \in Nat /\ h.window \in [0 .. WindowSize - 1 -> Nat] /\ h.window_pos \in 0 .. WindowSize - 1
  BY <1>1 DEF Hashes
<1>3. removed \in Nat
  <2>1. WindowSize + 1 \in 0 .. WindowSize + 1
    BY <1>1
  <2>2. WindowMult \in Nat
    BY <2>1, PowerFacts DEF WindowMult
  <2>3. h.window[h.window_pos] \in Nat
    BY <1>2
  <2> QED
    BY <2>2, <2>3
<1> HIDE DEF added, removed
<1>4. x \in Int
  BY <1>1, <1>2, <1>3
<1> HIDE DEF x
<1>5. x % HashRange \in 0 .. HashRange - 1
  BY <1>1, <1>4, DivMod
<1>6. (h.window_pos + 1) % WindowSize \in 0 .. WindowSize - 1
  <2>1. h.window_pos + 1 \in Nat
    BY <1>2
  <2> QED
    BY <1>1, <2>1, ModType
<1>7. [h.window EXCEPT ![h.window_pos] = added] \in [0 .. WindowSize - 1 -> Nat]
  BY <1>1, <1>2
<1>8. Update(h, byte) = [hash |-> x % HashRange, window |-> [h.window EXCEPT ![h.window_pos] = added],
                         window_pos |-> (h.window_pos + 1) % WindowSize]
  BY DEF Update, x, added, removed
<1> QED
  BY <1>5, <1>6, <1>7, <1>8 DEF Hashes

\* f has the hashes from `start' on.
HashRun(f, d, start) ==
    f = [n \in start .. Len(d) |-> IF n = start THEN NewHash ELSE Update(f[n - 1], d[n])]

\* Such a function exists.
LEMMA HashRunExists ==
    ASSUME NEW d \in Seq(Byte), NEW start \in 0 .. Len(d)
    PROVE  \E f : HashRun(f, d, start)
<1> DEFINE k == Len(d) - start
           g == [p \in (1 .. k) \X Hashes |-> Update(p[2], d[start + p[1]])]
<1>1. k \in Nat /\ start \in Nat /\ Len(d) \in Nat
  OBVIOUS
<1>2. ASSUME NEW i \in 1 .. k PROVE d[start + i] \in Byte
  <2>1. start + i \in 1 .. Len(d)
    BY <1>1
  <2> QED
    BY <2>1
<1>3. NewHash \in Hashes
  BY ChunkerNumbers DEF NewHash, Hashes
<1>4. g \in [(1 .. k) \X Hashes -> Hashes]
  <2> HIDE DEF k
  <2>1. ASSUME NEW i \in 1 .. k, NEW h \in Hashes PROVE Update(h, d[start + i]) \in Hashes
    BY <1>2, UpdateType
  <2> HIDE DEF Hashes
  <2> QED
    BY <2>1
<1>5. \A i \in 1 .. k, h \in Hashes : g[<<i, h>>] = Update(h, d[start + i])
  OBVIOUS
<1> HIDE DEF g, k
<1>6. PICK r : Recursive(r, k, Hashes, NewHash, g)
  BY <1>1, <1>3, <1>4, NumberRecursion
<1>7. r \in [0 .. k -> Hashes] /\ r[0] = NewHash /\ \A i \in 1 .. k : r[i] = g[<<i, r[i - 1]>>]
  BY <1>6 DEF Recursive
<1>8. \A i \in 1 .. k : r[i] = Update(r[i - 1], d[start + i])
  <2>1. \A i \in 1 .. k : r[i - 1] \in Hashes
    BY <1>1, <1>7
  <2> QED
    BY <1>5, <1>7, <2>1
<1> DEFINE f == [n \in start .. Len(d) |-> r[n - start]]
<1>9. ASSUME NEW n \in start .. Len(d)
      PROVE  f[n] = IF n = start THEN NewHash ELSE Update(f[n - 1], d[n])
  <2>1. CASE n = start
    <3>1. n - start = 0
      BY <1>1, <2>1
    <3> QED
      BY <1>7, <2>1, <3>1
  <2>2. CASE n # start
    <3> DEFINE i == n - start
    <3>1. i \in 1 .. k /\ n - 1 \in start .. Len(d) /\ (n - 1) - start = i - 1 /\ start + i = n
      BY <1>1, <2>2 DEF k
    <3>2. f[n] = r[i] /\ f[n - 1] = r[i - 1]
      BY <3>1
    <3> HIDE DEF i, f
    <3> QED
      BY <1>8, <2>2, <3>1, <3>2
  <2> QED
    BY <2>1, <2>2
<1>10. f = [n \in start .. Len(d) |-> f[n]]
  OBVIOUS
<1> HIDE DEF f
<1>11. f = [n \in start .. Len(d) |-> IF n = start THEN NewHash ELSE Update(f[n - 1], d[n])]
  BY <1>9, <1>10
<1> QED
  BY <1>11 DEF HashRun

\* Each of them is the hash of the window that ends there.
LEMMA HashRunRolls ==
    ASSUME NEW d \in Seq(Byte), NEW start \in 0 .. Len(d), NEW f, HashRun(f, d, start),
           NEW n \in start .. Len(d)
    PROVE  f[n].hash = WindowHash(SubSeq(d, start + 1, n))
<1> DEFINE k == Len(d) - start
           T == {i \in 0 .. k : Rolled(f[start + i], d, start, start + i)}
<1>1. k \in Nat /\ start \in Nat /\ Len(d) \in Nat /\ start + 0 = start
  OBVIOUS
<1>2. \A i \in start .. Len(d) : f[i] = IF i = start THEN NewHash ELSE Update(f[i - 1], d[i])
  BY Zenon DEF HashRun
<1>3. 0 \in T
  <2>1. f[start] = NewHash
    <3>1. start \in start .. Len(d)
      BY <1>1
    <3> QED
      BY <1>2, <3>1
  <2>2. Rolled(f[start], d, start, start)
    BY <2>1, RolledNew
  <2> QED
    BY <1>1, <2>2
<1>4. ASSUME NEW i \in 1 .. k, i - 1 \in T PROVE i \in T
  <2> DEFINE j == start + (i - 1)
  <2>1. j \in start .. Len(d) /\ j + 1 <= Len(d) /\ start + i = j + 1 /\ (j + 1) - 1 = j
        /\ j + 1 \in start .. Len(d) /\ j + 1 # start
    BY <1>1
  <2>2. Rolled(f[j], d, start, j)
    BY <1>4
  <2> HIDE DEF j
  <2>3. f[j + 1] = Update(f[j], d[j + 1])
    BY <1>2, <2>1
  <2>4. Rolled(Update(f[j], d[j + 1]), d, start, j + 1)
    BY <1>1, <2>1, <2>2, RollsOn
  <2>5. Rolled(f[start + i], d, start, start + i)
    BY <2>1, <2>3, <2>4
  <2> QED
    BY <1>1, <2>5
<1> HIDE DEF T
<1>5. 0 .. k \subseteq T
  BY <1>1, <1>3, <1>4, UpTo
<1>6. n - start \in 0 .. k /\ start + (n - start) = n
  BY <1>1
<1>7. Rolled(f[start + (n - start)], d, start, start + (n - start))
  <2>1. n - start \in T
    BY <1>5, <1>6
  <2> QED
    BY <2>1 DEF T
<1>8. Rolled(f[n], d, start, n)
  BY <1>6, <1>7
<1> QED
  BY <1>8 DEF Rolled

\* Chunker::next ends a chunk where the bytes of the chunk say so.
LEMMA NextIsFirst ==
    ASSUME NEW d \in Seq(Byte), d # <<>>
    PROVE  NextChunk(NewHash, d).size = FirstEnd(d)
<1> DEFINE L == Len(d)
           start == Min({MinChunk, L})
           f == CHOOSE f : f = [n \in start .. L |-> IF n = start THEN NewHash ELSE Update(f[n - 1], d[n])]
           E == {n \in start + 1 .. L : Ends(f[n].hash, n)} \cup {L}
           R == {m \in 1 .. L : \/ m = L
                                \/ /\ m > MinChunk
                                   /\ \/ m = MaxChunk
                                      \/ WindowHash(SubSeq(d, MinChunk + 1, m)) % MaskRange = 0}
           size == Min(E)
<1>1. L \in Nat \ {0} /\ MinChunk \in Nat \ {0} /\ MaxChunk \in Nat /\ MinChunk < MaxChunk
  BY ChunkerNumbers
<1>2. NextChunk(NewHash, d).size = size
  BY DEF NextChunk
<1>3. FirstEnd(d) = Min(R)
  BY DEF FirstEnd
<1>4. start = (IF MinChunk <= L THEN MinChunk ELSE L) /\ start \in 0 .. L
  <2>1. start = IF MinChunk <= L THEN MinChunk ELSE L
    BY <1>1, MinOfTwo
  <2> QED
    BY <1>1, <2>1
<1> HIDE DEF start
<1>5. HashRun(f, d, start)
  <2>1. \E g : HashRun(g, d, start)
    BY <1>4, HashRunExists
  <2>2. f = CHOOSE g : HashRun(g, d, start)
    BY DEF HashRun
  <2> HIDE DEF f
  <2> QED
    BY <2>1, <2>2
<1> HIDE DEF f
<1>6. \A n \in start .. L : f[n].hash = WindowHash(SubSeq(d, start + 1, n))
  BY <1>4, <1>5, HashRunRolls
<1> HIDE DEF L
<1>7. \A n \in E : n \in 1 .. L
  BY <1>1, <1>4
<1>8. E \in SUBSET Nat /\ E # {}
  BY <1>1, <1>7
<1>9. size \in E /\ \A y \in E : size <= y
  <2> HIDE DEF E
  <2> QED
    BY <1>8, MinLeast
<1> HIDE DEF size
<1>10. ASSUME NEW m \in R PROVE m \in E
  <2>1. CASE m = L
    BY <2>1
  <2>2. CASE m # L
    <3>1. m \in 1 .. L /\ m > MinChunk /\ start = MinChunk
      BY <1>1, <1>4, <2>2
    <3>2. m \in start + 1 .. L /\ m \in start .. L
      BY <1>1, <3>1
    <3>3. f[m].hash = WindowHash(SubSeq(d, MinChunk + 1, m))
      BY <1>6, <3>1, <3>2
    <3>4. m >= MaxChunk \/ f[m].hash % MaskRange = 0
      BY <1>1, <2>2, <3>3
    <3>5. Ends(f[m].hash, m)
      BY <3>4 DEF Ends
    <3> QED
      BY <3>2, <3>5
  <2> QED
    BY <2>1, <2>2
<1>11. size \in R
  <2>1. CASE size = L
    BY <1>1, <2>1
  <2>2. CASE size # L
    <3>1. size \in start + 1 .. L /\ Ends(f[size].hash, size) /\ size \in 1 .. L
      BY <1>7, <1>9, <2>2
    <3>2. start = MinChunk /\ size > MinChunk /\ size \in start .. L
      BY <1>1, <1>4, <3>1
    <3>3. f[size].hash = WindowHash(SubSeq(d, MinChunk + 1, size))
      BY <1>6, <3>2
    <3>4. size >= MaxChunk => size = MaxChunk
      <4> SUFFICES ASSUME size > MaxChunk PROVE FALSE
        BY <1>1, <3>1
      <4>1. MaxChunk \in start + 1 .. L /\ MaxChunk >= MaxChunk
        BY <1>1, <3>1, <3>2
      <4>2. MaxChunk \in E
        BY <4>1 DEF Ends
      <4> QED
        BY <1>1, <1>9, <3>1, <4>2
    <3> QED
      BY <3>1, <3>2, <3>3, <3>4 DEF Ends
  <2> QED
    BY <2>1, <2>2
<1>12. R \in SUBSET Nat /\ \A m \in R : size <= m
  <2>1. R \in SUBSET Nat
    BY <1>1
  <2>2. \A m \in R : size <= m
    <3> HIDE DEF R, E
    <3> QED
      BY <1>9, <1>10
  <2> QED
    BY <2>1, <2>2
<1>13. Min(R) = size
  <2> HIDE DEF R
  <2> QED
    BY <1>11, <1>12, MinIs
<1> QED
  BY <1>2, <1>3, <1>13

-----------------------------------------------------------------------------
(* The chunks of the data. *)

\* f is defined by recursion from n down to 0, from v with g; nx says where each
\* value takes the one it depends on.
Backward(f, n, S, v, nx, g) ==
    /\ f \in [0 .. n -> S]
    /\ f[n] = v
    /\ \A i \in 0 .. n - 1 : f[i] = g[<<i, f[nx[i]]>>]

\* Such a function exists.
LEMMA BackwardRecursion ==
    ASSUME NEW n \in Nat, NEW S, NEW v \in S, NEW nx, \A i \in 0 .. n - 1 : nx[i] \in i + 1 .. n,
           NEW g \in [(0 .. n - 1) \X S -> S]
    PROVE  \E f : Backward(f, n, S, v, nx, g)
<1> DEFINE Good(k) == {f \in [n - k .. n -> S] :
                           f[n] = v /\ \A i \in n - k .. n - 1 : f[i] = g[<<i, f[nx[i]]>>]}
           T == {k \in 0 .. n : Good(k) # {}}
<1>1. 0 \in T
  <2>1. [i \in n - 0 .. n |-> v] \in Good(0)
    OBVIOUS
  <2> HIDE DEF Good
  <2> QED
    BY <2>1
<1>2. ASSUME NEW k \in 1 .. n, k - 1 \in T PROVE k \in T
  <2>1. PICK f : f \in Good(k - 1)
    BY <1>2
  <2> DEFINE m == n - k
             h == [i \in m .. n |-> IF i = m THEN g[<<m, f[nx[m]]>>] ELSE f[i]]
  <2>0. m \in 0 .. n - 1 /\ n - (k - 1) = m + 1
    OBVIOUS
  <2>2. /\ f \in [m + 1 .. n -> S] /\ f[n] = v
        /\ \A i \in m + 1 .. n - 1 : f[i] = g[<<i, f[nx[i]]>>]
    BY <2>0, <2>1
  <2>3. nx[m] \in m + 1 .. n /\ f[nx[m]] \in S
    BY <2>0, <2>2
  <2>4. g[<<m, f[nx[m]]>>] \in S
    BY <2>0, <2>3
  <2> HIDE DEF m
  <2>5. h[m] = g[<<m, f[nx[m]]>>] /\ \A i \in m + 1 .. n : h[i] = f[i]
    BY <2>0
  <2>6. h \in [m .. n -> S]
    <3>1. ASSUME NEW i \in m .. n PROVE (IF i = m THEN g[<<m, f[nx[m]]>>] ELSE f[i]) \in S
      <4>1. CASE i = m
        BY <2>4, <4>1
      <4>2. CASE i # m
        <5>1. i \in m + 1 .. n
          BY <2>0, <4>2
        <5> QED
          BY <2>2, <4>2, <5>1
      <4> QED
        BY <4>1, <4>2
    <3> QED
      BY <3>1
  <2> HIDE DEF h
  <2>7. h[n] = v
    <3>1. n \in m + 1 .. n
      BY <2>0
    <3> QED
      BY <2>2, <2>5, <3>1
  <2>8. ASSUME NEW i \in m .. n - 1 PROVE h[i] = g[<<i, h[nx[i]]>>]
    <3>1. nx[i] \in m + 1 .. n
      <4>1. i \in 0 .. n - 1
        BY <2>0
      <4>2. nx[i] \in i + 1 .. n
        BY <4>1
      <4> QED
        BY <2>0, <4>2
    <3>2. h[nx[i]] = f[nx[i]]
      BY <2>5, <3>1
    <3>3. CASE i = m
      BY <2>5, <3>2, <3>3
    <3>4. CASE i # m
      <4>1. i \in m + 1 .. n - 1 /\ i \in m + 1 .. n
        BY <2>0, <3>4
      <4> QED
        BY <2>2, <2>5, <3>2, <4>1
    <3> QED
      BY <3>3, <3>4
  <2>9. h \in Good(k)
    BY <2>6, <2>7, <2>8 DEF m
  <2> QED
    BY <2>9
<1> HIDE DEF T
<1>3. n \in T
  <2>1. 0 .. n \subseteq T
    BY <1>1, <1>2, UpTo
  <2> QED
    BY <2>1
<1>4. PICK f : f \in Good(n)
  BY <1>3 DEF T
<1>5. n - n = 0
  OBVIOUS
<1> QED
  BY <1>4, <1>5 DEF Backward

\* What is left of d after i bytes.
After(d, i) == SubSeq(d, i + 1, Len(d))

\* It is made of bytes.
LEMMA AfterFacts ==
    ASSUME NEW d \in Seq(Byte), NEW i \in 0 .. Len(d)
    PROVE  /\ After(d, i) \in Seq(Byte) /\ Len(After(d, i)) = Len(d) - i
           /\ \A j \in 1 .. Len(d) - i : After(d, i)[j] = d[i + j]
<1>1. i + 1 \in Int /\ Len(d) \in Int /\ \A j \in i + 1 .. Len(d) : d[j] \in Byte
  OBVIOUS
<1>2. /\ After(d, i) \in Seq(Byte)
      /\ Len(After(d, i)) = IF i + 1 <= Len(d) THEN Len(d) - (i + 1) + 1 ELSE 0
      /\ \A j \in 1 .. Len(d) - (i + 1) + 1 : After(d, i)[j] = d[i + 1 + j - 1]
  BY <1>1, SubSeqProperties DEF After
<1> QED
  BY <1>2

\* What is left after n bytes and then i more.
LEMMA AfterAfter ==
    ASSUME NEW d \in Seq(Byte), NEW n \in 0 .. Len(d), NEW i \in 0 .. Len(d) - n
    PROVE  After(After(d, n), i) = After(d, n + i)
<1> DEFINE e == After(d, n)
           s == After(e, i)
           t == After(d, n + i)
<1>1. e \in Seq(Byte) /\ Len(e) = Len(d) - n /\ \A j \in 1 .. Len(d) - n : e[j] = d[n + j]
  BY AfterFacts
<1>2. i \in 0 .. Len(e) /\ n + i \in 0 .. Len(d) /\ Len(d) \in Nat
  BY <1>1
<1> HIDE DEF e
<1>3. s \in Seq(Byte) /\ Len(s) = Len(e) - i /\ \A j \in 1 .. Len(e) - i : s[j] = e[i + j]
  BY <1>1, <1>2, AfterFacts
<1>4. t \in Seq(Byte) /\ Len(t) = Len(d) - (n + i) /\ \A j \in 1 .. Len(d) - (n + i) : t[j] = d[(n + i) + j]
  BY <1>2, AfterFacts
<1> HIDE DEF s, t
<1>5. Len(s) = Len(t)
  BY <1>1, <1>2, <1>3, <1>4
<1>6. ASSUME NEW j \in 1 .. Len(s) PROVE s[j] = t[j]
  <2>1. j \in 1 .. Len(e) - i /\ i + j \in 1 .. Len(d) - n /\ j \in 1 .. Len(d) - (n + i)
        /\ n + (i + j) = (n + i) + j
    BY <1>1, <1>2, <1>3
  <2> QED
    BY <1>1, <1>3, <1>4, <2>1
<1>7. s = t
  BY <1>3, <1>4, <1>5, <1>6, SeqEqual
<1> QED
  BY <1>7 DEF s, t, e

\* f has the chunks of d from each place on.
Cuts(f, d) ==
    \A i \in 0 .. Len(d) :
        f[i] = IF i = Len(d) THEN <<>>
               ELSE <<SubSeq(After(d, i), 1, FirstEnd(After(d, i)))>> \o f[i + FirstEnd(After(d, i))]

\* A first chunk has a byte or more.
LEMMA FirstEndType ==
    ASSUME NEW d \in Seq(Byte), d # <<>>
    PROVE  FirstEnd(d) \in 1 .. Len(d) /\ SubSeq(d, 1, FirstEnd(d)) \in Seq(Byte)
<1> DEFINE n == FirstEnd(d)
<1>1. n \in 1 .. Len(d)
  BY NextIsFirst, NextChunkFacts
<1> HIDE DEF n
<1>2. 1 \in Int /\ n \in Int /\ \A i \in 1 .. n : d[i] \in Byte
  BY <1>1
<1>3. SubSeq(d, 1, n) \in Seq(Byte)
  BY <1>2, SubSeqProperties
<1> QED
  BY <1>1, <1>3 DEF n

\* ... and so has each of the next ones.
LEMMA NextCut ==
    ASSUME NEW d \in Seq(Byte), NEW i \in 0 .. Len(d) - 1
    PROVE  /\ i + FirstEnd(After(d, i)) \in i + 1 .. Len(d)
           /\ SubSeq(After(d, i), 1, FirstEnd(After(d, i))) \in Seq(Byte)
<1> DEFINE e == After(d, i)
           n == FirstEnd(e)
<1>1. i \in 0 .. Len(d) /\ Len(d) \in Nat
  OBVIOUS
<1>2. e \in Seq(Byte) /\ Len(e) = Len(d) - i
  BY <1>1, AfterFacts
<1> HIDE DEF e
<1>3. e # <<>>
  BY <1>1, <1>2
<1>4. n \in 1 .. Len(e) /\ SubSeq(e, 1, n) \in Seq(Byte)
  BY <1>2, <1>3, FirstEndType
<1> HIDE DEF n
<1>5. i + n \in i + 1 .. Len(d)
  BY <1>1, <1>2, <1>4
<1> QED
  BY <1>4, <1>5 DEF n, e

\* Such a function exists.
LEMMA CutsExist ==
    ASSUME NEW d \in Seq(Byte)
    PROVE  \E f \in [0 .. Len(d) -> Seq(Seq(Byte))] : Cuts(f, d)
<1> DEFINE L == Len(d)
           S == Seq(Seq(Byte))
           c == [i \in 0 .. L - 1 |-> SubSeq(After(d, i), 1, FirstEnd(After(d, i)))]
           nx == [i \in 0 .. L - 1 |-> i + FirstEnd(After(d, i))]
           g == [p \in (0 .. L - 1) \X S |-> <<c[p[1]]>> \o p[2]]
<1>1. L \in Nat
  OBVIOUS
<1>2. \A i \in 0 .. L - 1 : /\ nx[i] = i + FirstEnd(After(d, i))
                            /\ c[i] = SubSeq(After(d, i), 1, FirstEnd(After(d, i)))
  OBVIOUS
<1> HIDE DEF nx, c
<1>3. \A i \in 0 .. L - 1 : nx[i] \in i + 1 .. L /\ c[i] \in Seq(Byte)
  <2> SUFFICES ASSUME NEW i \in 0 .. L - 1 PROVE nx[i] \in i + 1 .. L /\ c[i] \in Seq(Byte)
    OBVIOUS
  <2> QED
    BY <1>2, NextCut
<1>4. g \in [(0 .. L - 1) \X S -> S]
  <2>1. ASSUME NEW i \in 0 .. L - 1, NEW r \in S PROVE <<c[i]>> \o r \in S
    <3>1. <<c[i]>> \in S
      BY <1>3
    <3> QED
      BY <3>1
  <2> HIDE DEF S
  <2> QED
    BY <2>1
<1>5. \A i \in 0 .. L - 1, r \in S : g[<<i, r>>] = <<c[i]>> \o r
  OBVIOUS
<1>6. <<>> \in S
  OBVIOUS
<1> HIDE DEF g, S, L
<1>7. PICK f : Backward(f, L, S, <<>>, nx, g)
  BY <1>1, <1>3, <1>4, <1>6, BackwardRecursion
<1>8. f \in [0 .. L -> S] /\ f[L] = <<>> /\ \A i \in 0 .. L - 1 : f[i] = g[<<i, f[nx[i]]>>]
  BY <1>7 DEF Backward
<1>9. ASSUME NEW i \in 0 .. L
      PROVE  f[i] = IF i = L THEN <<>>
                    ELSE <<SubSeq(After(d, i), 1, FirstEnd(After(d, i)))>> \o f[i + FirstEnd(After(d, i))]
  <2>1. CASE i = L
    BY <1>8, <2>1
  <2>2. CASE i # L
    <3>1. i \in 0 .. L - 1
      BY <1>1, <2>2
    <3>2. nx[i] \in i + 1 .. L
      BY <1>3, <3>1
    <3>3. nx[i] \in 0 .. L
      BY <1>1, <3>1, <3>2
    <3>4. f[nx[i]] \in S
      BY <1>8, <3>3
    <3>5. f[i] = <<c[i]>> \o f[nx[i]]
      BY <1>5, <1>8, <3>1, <3>4
    <3> QED
      BY <1>2, <2>2, <3>1, <3>5
  <2> QED
    BY <2>1, <2>2
<1>10. Cuts(f, d)
  BY <1>9 DEF Cuts, L
<1> QED
  BY <1>8, <1>10 DEF L, S

\* There is only one.
LEMMA CutsUnique ==
    ASSUME NEW d \in Seq(Byte), NEW f, NEW g, Cuts(f, d), Cuts(g, d)
    PROVE  f[0] = g[0]
<1> DEFINE L == Len(d)
           T == {k \in 0 .. L : \A i \in L - k .. L : f[i] = g[i]}
           c(i) == <<SubSeq(After(d, i), 1, FirstEnd(After(d, i)))>>
           nx(i) == i + FirstEnd(After(d, i))
<1>1. L \in Nat
  OBVIOUS
<1>2. \A i \in 0 .. L : f[i] = IF i = L THEN <<>> ELSE c(i) \o f[nx(i)]
  BY DEF Cuts
<1>3. \A i \in 0 .. L : g[i] = IF i = L THEN <<>> ELSE c(i) \o g[nx(i)]
  BY DEF Cuts
<1>4. ASSUME NEW i \in 0 .. L - 1 PROVE nx(i) \in i + 1 .. L
  BY NextCut
<1> HIDE DEF L, c, nx
<1>5. 0 \in T
  <2>1. f[L] = <<>> /\ g[L] = <<>>
    BY <1>1, <1>2, <1>3
  <2>2. \A i \in L - 0 .. L : i = L
    BY <1>1
  <2> QED
    BY <1>1, <2>1, <2>2
<1>6. ASSUME NEW k \in 1 .. L, k - 1 \in T PROVE k \in T
  <2> DEFINE m == L - k
  <2>1. m \in 0 .. L - 1 /\ m \in 0 .. L /\ m # L /\ L - (k - 1) = m + 1
    BY <1>1
  <2>2. \A i \in m + 1 .. L : f[i] = g[i]
    BY <1>6, <2>1
  <2> HIDE DEF m
  <2>3. f[nx(m)] = g[nx(m)]
    BY <1>4, <2>1, <2>2
  <2>4. f[m] = g[m]
    BY <1>2, <1>3, <2>1, <2>3
  <2>5. \A i \in m .. L : i = m \/ i \in m + 1 .. L
    BY <1>1, <2>1
  <2>6. \A i \in m .. L : f[i] = g[i]
    BY <2>2, <2>4, <2>5
  <2> QED
    BY <1>1, <2>6 DEF m
<1> HIDE DEF T
<1>7. 0 .. L \subseteq T
  BY <1>1, <1>5, <1>6, UpTo
<1>8. L \in T /\ L - L = 0 /\ 0 \in 0 .. L
  BY <1>1, <1>7
<1> QED
  BY <1>8 DEF T

\* It gives the chunks.
LEMMA ChunksAre ==
    ASSUME NEW d \in Seq(Byte), NEW f, Cuts(f, d)
    PROVE  ChunksOf(d) = f[0]
<1> DEFINE Rec(s) == [i \in 0 .. Len(d) |->
                         IF i = Len(d) THEN <<>>
                         ELSE <<SubSeq(After(d, i), 1, FirstEnd(After(d, i)))>>
                              \o s[i + FirstEnd(After(d, i))]]
           from == CHOOSE s : s = Rec(s)
           h == [i \in 0 .. Len(d) |-> f[i]]
<1>1. ChunksOf(d) = from[0]
  BY DEF ChunksOf, After
<1>2. h = Rec(h)
  <2>1. ASSUME NEW i \in 0 .. Len(d)
        PROVE  h[i] = IF i = Len(d) THEN <<>>
                      ELSE <<SubSeq(After(d, i), 1, FirstEnd(After(d, i)))>>
                           \o h[i + FirstEnd(After(d, i))]
    <3>1. CASE i = Len(d)
      BY <3>1 DEF Cuts
    <3>2. CASE i # Len(d)
      <4> DEFINE n == i + FirstEnd(After(d, i))
      <4>1. i \in 0 .. Len(d) - 1 /\ Len(d) \in Nat
        BY <3>2
      <4>2. n \in i + 1 .. Len(d)
        BY <4>1, NextCut
      <4> HIDE DEF n
      <4>3. n \in 0 .. Len(d)
        BY <4>1, <4>2
      <4>4. h[n] = f[n] /\ h[i] = f[i]
        BY <4>3
      <4>5. f[i] = <<SubSeq(After(d, i), 1, FirstEnd(After(d, i)))>> \o f[n]
        BY <3>2 DEF Cuts, n
      <4> HIDE DEF h
      <4> QED
        BY <3>2, <4>4, <4>5 DEF n
    <3> QED
      BY <3>1, <3>2
  <2>2. h = [i \in 0 .. Len(d) |-> h[i]]
    OBVIOUS
  <2> HIDE DEF h
  <2> QED
    BY <2>1, <2>2
<1>3. from = Rec(from)
  <2> HIDE DEF Rec, h
  <2> QED
    BY <1>2
<1> HIDE DEF from
<1>4. Cuts(from, d)
  <2>1. \A i \in 0 .. Len(d) : from[i] = Rec(from)[i]
    BY <1>3, Zenon
  <2> QED
    BY <2>1, Zenon DEF Cuts
<1>5. from[0] = f[0]
  <2> HIDE DEF Rec
  <2> QED
    BY <1>4, CutsUnique
<1> QED
  BY <1>1, <1>5

\* Data without bytes has no chunks.
LEMMA ChunksOfNothing == ChunksOf(<<>>) = <<>>
<1> DEFINE f == [i \in {0} |-> <<>>]
<1>1. <<>> \in Seq(Byte) /\ Len(<<>>) = 0 /\ f[0] = <<>>
  OBVIOUS
<1> HIDE DEF f
<1>2. Cuts(f, <<>>)
  BY <1>1 DEF Cuts
<1> QED
  BY <1>1, <1>2, ChunksAre

\* The first chunk, and then those of what is left as if it stood alone.
LEMMA ChunksStep ==
    ASSUME NEW d \in Seq(Byte), d # <<>>
    PROVE  /\ ChunksOf(After(d, FirstEnd(d))) \in Seq(Seq(Byte))
           /\ ChunksOf(d) = <<SubSeq(d, 1, FirstEnd(d))>> \o ChunksOf(After(d, FirstEnd(d)))
<1> DEFINE L == Len(d)
           n == FirstEnd(d)
           e == After(d, n)
<1>1. L \in Nat /\ n \in 1 .. L
  BY FirstEndType
<1>2. PICK f \in [0 .. L -> Seq(Seq(Byte))] : Cuts(f, d)
  BY CutsExist
<1>3. ChunksOf(d) = f[0]
  BY <1>2, ChunksAre
<1>4. After(d, 0) = d
  BY SubSeqFull DEF After
<1>5. f[0] = <<SubSeq(d, 1, n)>> \o f[n]
  <2>1. 0 \in 0 .. Len(d) /\ 0 # Len(d) /\ 0 + n = n
    BY <1>1
  <2>2. f[0] = <<SubSeq(After(d, 0), 1, FirstEnd(After(d, 0)))>> \o f[0 + FirstEnd(After(d, 0))]
    BY <1>2, <2>1 DEF Cuts
  <2> QED
    BY <1>4, <2>1, <2>2
<1> HIDE DEF n
<1>6. e \in Seq(Byte) /\ Len(e) = L - n
  <2>1. n \in 0 .. Len(d)
    BY <1>1
  <2> QED
    BY <2>1, AfterFacts
<1> DEFINE g == [i \in 0 .. L - n |-> f[n + i]]
<1>7. ASSUME NEW i \in 0 .. Len(e)
      PROVE  g[i] = IF i = Len(e) THEN <<>>
                    ELSE <<SubSeq(After(e, i), 1, FirstEnd(After(e, i)))>> \o g[i + FirstEnd(After(e, i))]
  <2>1. i \in 0 .. L - n /\ n + i \in 0 .. L /\ n \in 0 .. L
    BY <1>1, <1>6
  <2>2. g[i] = f[n + i]
    BY <2>1
  <2>3. After(e, i) = After(d, n + i)
    BY <2>1, AfterAfter
  <2>4. CASE i = Len(e)
    <3>1. n + i = L
      BY <1>1, <1>6, <2>4
    <3>2. f[n + i] = <<>>
      BY <1>2, <2>1, <3>1 DEF Cuts
    <3> QED
      BY <2>2, <2>4, <3>2
  <2>5. CASE i # Len(e)
    <3> DEFINE s == After(d, n + i)
               k == FirstEnd(s)
    <3>1. n + i # L /\ n + i \in 0 .. L - 1
      <4>1. i # L - n
        BY <1>6, <2>5, Zenon
      <4> HIDE DEF L
      <4> QED
        BY <1>1, <2>1, <4>1
    <3>2. f[n + i] = <<SubSeq(s, 1, k)>> \o f[(n + i) + k]
      BY <1>2, <2>1, <3>1 DEF Cuts
    <3>3. (n + i) + k \in (n + i) + 1 .. L
      BY <3>1, NextCut
    <3> HIDE DEF k
    <3>4. k \in Int
      <4>1. k \in 1 .. Len(s)
        <5>1. s \in Seq(Byte) /\ Len(s) = L - (n + i)
          BY <2>1, AfterFacts
        <5> HIDE DEF s
        <5>2. s # <<>>
          BY <1>1, <2>1, <3>1, <5>1
        <5> QED
          BY <5>1, <5>2, FirstEndType DEF k
      <4> QED
        BY <4>1
    <3>5. i + k \in 0 .. L - n /\ n + (i + k) = (n + i) + k
      BY <1>1, <2>1, <3>3, <3>4
    <3>6. g[i + k] = f[(n + i) + k]
      BY <3>5
    <3> HIDE DEF g, e
    <3> QED
      BY <2>2, <2>3, <2>5, <3>2, <3>6 DEF k
  <2> QED
    BY <2>4, <2>5
<1>8. g[0] = f[n] /\ f[n] \in Seq(Seq(Byte))
  BY <1>1, <1>2
<1> HIDE DEF g, e
<1>9. Cuts(g, e)
  BY <1>7 DEF Cuts
<1>10. ChunksOf(e) = f[n]
  BY <1>6, <1>8, <1>9, ChunksAre
<1> QED
  BY <1>3, <1>5, <1>8, <1>10 DEF n, e

\* The chunks are sequences of bytes.
LEMMA ChunksOfType == ASSUME NEW d \in Seq(Byte) PROVE ChunksOf(d) \in Seq(Seq(Byte))
<1>1. PICK f \in [0 .. Len(d) -> Seq(Seq(Byte))] : Cuts(f, d)
  BY CutsExist
<1>2. ChunksOf(d) = f[0]
  BY <1>1, ChunksAre
<1>3. 0 \in 0 .. Len(d)
  OBVIOUS
<1> QED
  BY <1>1, <1>2, <1>3

\* A chunk is not larger than MaxChunk, and only the last one may have MinChunk
\* bytes or less.
LEMMA FirstEndBounds ==
    ASSUME NEW d \in Seq(Byte), d # <<>>
    PROVE  FirstEnd(d) <= MaxChunk /\ (FirstEnd(d) > MinChunk \/ FirstEnd(d) = Len(d))
<1> DEFINE L == Len(d)
           R == {m \in 1 .. L : \/ m = L
                                \/ /\ m > MinChunk
                                   /\ \/ m = MaxChunk
                                      \/ WindowHash(SubSeq(d, MinChunk + 1, m)) % MaskRange = 0}
           n == FirstEnd(d)
<1>1. L \in Nat \ {0} /\ MaxChunk \in Nat /\ MinChunk \in Nat /\ MinChunk < MaxChunk
  BY ChunkerNumbers
<1>2. n = Min(R)
  BY DEF FirstEnd
<1>3. R \in SUBSET Nat /\ L \in R
  BY <1>1
<1>4. MaxChunk <= L => MaxChunk \in R
  BY <1>1
<1>5. n \in R /\ \A m \in R : n <= m
  <2> HIDE DEF R, n
  <2>1. R # {}
    BY <1>3
  <2> QED
    BY <1>2, <1>3, <2>1, MinLeast
<1>6. n > MinChunk \/ n = L
  BY <1>5
<1>7. n <= MaxChunk
  <2>1. CASE MaxChunk <= L
    BY <1>4, <1>5, <2>1
  <2>2. CASE ~(MaxChunk <= L)
    <3>1. n <= L /\ n \in Nat
      BY <1>3, <1>5
    <3> QED
      BY <1>1, <2>2, <3>1
  <2> QED
    BY <2>1, <2>2
<1> QED
  BY <1>6, <1>7

-----------------------------------------------------------------------------
(* The inductive invariant. *)

FileType(f) == IF IsZlib(f) THEN "Zlib" ELSE "Normal"

\* What a file of the original is in the rebuilt archive.
Rebuilt(f) == Encoded(FileType(f), Decoded(f))

Descriptions == [file_type : {"Zlib", "Normal"}, file_name : Byte, content_chunks : Seq(Seq(Byte))]

Entries == [start_offset : Nat, file_name : Byte, data_size : Nat]

\* How far the two halves are.
Progress ==
    /\ world \in Worlds
    /\ phase \in {"opening", "chunking", "rebuilding", "done", "no_zlib", "entry_too_large",
                  "too_large", "panicked"}
    /\ file \in 1 .. Len(world) + 1
    /\ phase = "chunking" => file <= Len(world)
    /\ phase \in {"opening", "chunking", "no_zlib"} =>
           Len(files) = file - 1 /\ output = <<>> /\ zip = NewZip /\ crc_hasher = InitialCrc
    /\ phase \notin {"opening", "chunking", "no_zlib"} => Len(files) = Len(world)

\* The chunks so far and what is left are the decoded file.
Cut ==
    /\ rolling_hash = NewHash
    /\ data \in Seq(Byte) /\ chunks \in Seq(Seq(Byte))
    /\ phase = "chunking" => FlattenSeq(chunks) \o data = Decoded(world[file])

\* The description is that of the original, chunk by chunk.
Described ==
    /\ files \in Seq(Descriptions)
    /\ Len(files) <= Len(world)
    /\ \A i \in 1 .. Len(files) :
           /\ files[i].file_type = FileType(world[i])
           /\ files[i].file_name = world[i].name
           /\ FlattenSeq(files[i].content_chunks) = Decoded(world[i])

\* Entry e says where file f is in `out'.
InPlace(e, f, out, end) ==
    /\ e.file_name = f.name
    /\ e.data_size = Len(Rebuilt(f)) /\ e.data_size < U32
    /\ e.start_offset + 2 + e.data_size <= end
    /\ out[e.start_offset + 1] = e.data_size
    /\ out[e.start_offset + 2] = f.name
    /\ \A n \in 1 .. e.data_size : out[e.start_offset + 2 + n] = Rebuilt(f)[n]

\* The writer knows how much it has written and where each file went.
Written ==
    /\ output \in Seq(Byte) /\ crc_hasher \in Register
    /\ zip \in [current_offset : Nat, entries : Seq(Entries)]
    /\ Len(zip.entries) <= Len(files)
    /\ phase = "rebuilding" =>
           /\ Len(zip.entries) = file - 1
           /\ Len(output) = zip.current_offset
           /\ crc_hasher = CrcUpdate(InitialCrc, output)
           /\ \A i \in 1 .. Len(zip.entries) :
                  InPlace(zip.entries[i], world[i], output, zip.current_offset)

IInv ==
    /\ Progress /\ Cut /\ Described /\ Written
    /\ ArchiveReadsBack /\ CrcAsAnnounced /\ BlocksAsAnnounced /\ FitsIsServed

-----------------------------------------------------------------------------
(* What is in a file. *)

\* The files of a world have their types.
LEMMA WorldFacts ==
    ASSUME NEW w \in Worlds
    PROVE  /\ w \in Seq([name : Byte, data : Seq(Byte)]) /\ Len(w) \in Nat /\ DOMAIN w = 1 .. Len(w)
           /\ \A i \in 1 .. Len(w) : /\ w[i] \in [name : Byte, data : Seq(Byte)]
                                     /\ IsZlib(w[i]) => w[i].data # <<>>
<1>1. w \in Seq([name : Byte, data : Seq(Byte)]) /\ \A i \in DOMAIN w : IsZlib(w[i]) => w[i].data # <<>>
  BY WorldsAssumption
<1>2. Len(w) \in Nat /\ DOMAIN w = 1 .. Len(w)
  BY <1>1
<1>3. \A i \in 1 .. Len(w) : w[i] \in [name : Byte, data : Seq(Byte)]
  <2> DEFINE R == [name : Byte, data : Seq(Byte)]
  <2>1. w \in Seq(R)
    BY <1>1
  <2> HIDE DEF R
  <2>2. \A i \in 1 .. Len(w) : w[i] \in R
    BY <2>1
  <2> QED
    BY <2>2 DEF R
<1> QED
  BY <1>1, <1>2, <1>3

\* A zlib stream holds what was deflated.
LEMMA TailOfDeflated ==
    ASSUME NEW S, NEW x \in S, NEW s \in Seq(S)
    PROVE  <<x>> \o s \in Seq(S) /\ Len(<<x>> \o s) = Len(s) + 1 /\ Tail(<<x>> \o s) = s
<1>1. <<x>> \in Seq(S) /\ Len(<<x>>) = 1
  OBVIOUS
<1> DEFINE r == <<x>> \o s
<1>2. r \in Seq(S) /\ Joined(r, <<x>>, s)
  BY <1>1, ConcatAt
<1> HIDE DEF r
<1>3. Len(r) = Len(s) + 1 /\ \A k \in 1 .. Len(s) : r[k + 1] = s[k]
  <2>1. Len(r) = 1 + Len(s) /\ \A k \in 1 .. Len(s) : r[1 + k] = s[k]
    BY <1>1, <1>2 DEF Joined
  <2> QED
    BY <2>1
<1>4. r # <<>>
  BY <1>2, <1>3
<1>5. Tail(r) \in Seq(S) /\ Len(Tail(r)) = Len(r) - 1 /\ \A i \in 1 .. Len(Tail(r)) : Tail(r)[i] = r[i + 1]
  BY <1>2, <1>4, HeadTailProperties
<1> DEFINE t == Tail(r)
<1> HIDE DEF t
<1>6. t \in Seq(S) /\ Len(t) = Len(s) /\ \A i \in 1 .. Len(s) : t[i] = s[i]
  BY <1>3, <1>5 DEF t
<1>7. t = s
  BY <1>6
<1> QED
  BY <1>2, <1>3, <1>7 DEF r, t

\* decode_factorio_file undoes encode_factorio_file, which returns bytes when
\* their number is a u32.
LEMMA FileFacts ==
    ASSUME NEW f \in [name : Byte, data : Seq(Byte)], IsZlib(f) => f.data # <<>>
    PROVE  /\ Decoded(f) \in Seq(Byte)
           /\ Len(Rebuilt(f)) \in Nat
           /\ Len(Rebuilt(f)) < U32 => Rebuilt(f) \in Seq(Byte) /\ Len(Rebuilt(f)) \in Byte
           /\ \A g : g.name = f.name /\ g.data = Rebuilt(f) => Decoded(g) = Decoded(f)
<1>1. f.name \in Byte /\ f.data \in Seq(Byte)
  OBVIOUS
<1>2. Len(Rebuilt(f)) \in Nat /\ Len(Rebuilt(f)) < U32 => Len(Rebuilt(f)) \in Byte
  BY WidthAssumption
<1>3. CASE ~IsZlib(f)
  <2>1. Rebuilt(f) = f.data /\ Decoded(f) = f.data
    BY <1>3 DEF Rebuilt, Encoded, FileType, Decoded
  <2>2. ASSUME NEW g, g.name = f.name, g.data = Rebuilt(f) PROVE Decoded(g) = Decoded(f)
    BY <1>3, <2>1, <2>2 DEF Decoded, IsZlib
  <2> QED
    BY <1>1, <1>2, <2>1, <2>2
<1>4. CASE IsZlib(f)
  <2> DEFINE s == Decoded(f)
             B == Byte \cup {1}
  <2>1. s = Tail(f.data) /\ s \in Seq(Byte) /\ s \in Seq(B)
    <3>1. s = Tail(f.data)
      BY <1>4 DEF Decoded, Inflated
    <3>2. s \in Seq(Byte)
      BY <1>1, <1>4, <3>1, HeadTailProperties
    <3> HIDE DEF s
    <3> QED
      BY <3>1, <3>2
  <2>2. Rebuilt(f) = <<1>> \o s
    BY <1>4 DEF Rebuilt, Encoded, FileType, Deflated, RECONSTRUCT_DEFLATE_LEVEL
  <2> HIDE DEF s
  <2>3. 1 \in B
    OBVIOUS
  <2> HIDE DEF B
  <2>4. Len(<<1>> \o s) = Len(s) + 1 /\ Tail(<<1>> \o s) = s
    BY <2>1, <2>3, TailOfDeflated
  <2>5. Len(s) \in Nat
    BY <2>1
  <2>6. ASSUME Len(Rebuilt(f)) < U32 PROVE Rebuilt(f) \in Seq(Byte)
    <3>1. 1 \in Byte
      BY <2>2, <2>4, <2>5, <2>6, WidthAssumption
    <3> QED
      BY <2>1, <2>2, <3>1, TailOfDeflated
  <2>7. ASSUME NEW g, g.name = f.name, g.data = Rebuilt(f) PROVE Decoded(g) = s
    BY <1>4, <2>2, <2>4, <2>7 DEF Decoded, IsZlib, Inflated
  <2> QED
    BY <1>2, <2>1, <2>2, <2>4, <2>5, <2>6, <2>7 DEF s
<1> QED
  BY <1>3, <1>4

-----------------------------------------------------------------------------
(* The invariant holds at first, and each action keeps it. *)

\* Nothing is decoded or written at first.
LEMMA InitIInv == Init => IInv
<1> SUFFICES ASSUME Init PROVE IInv
  OBVIOUS
<1> USE DEF Init
<1>1. world \in Worlds /\ Len(world) \in Nat
  BY WorldFacts
<1>2. Progress
  BY <1>1 DEF Progress
<1>3. Cut
  BY DEF Cut
<1>4. Described
  BY <1>1 DEF Described
<1>5. InitialCrc \in Register
  BY TableAssumption DEF InitialCrc, Register
<1>6. Written
  BY <1>5 DEF Written, NewZip
<1> QED
  BY <1>2, <1>3, <1>4, <1>6
     DEF IInv, ArchiveReadsBack, CrcAsAnnounced, BlocksAsAnnounced, FitsIsServed

\* What is promised of the end only.
LEMMA NotYetDone ==
    ASSUME phase' \notin {"done", "too_large", "panicked"}
    PROVE  ArchiveReadsBack' /\ CrcAsAnnounced' /\ BlocksAsAnnounced' /\ FitsIsServed'
BY DEF ArchiveReadsBack, CrcAsAnnounced, BlocksAsAnnounced, FitsIsServed

\* A decoded file has no chunks yet, and all of it is left.
LEMMA OpenKeeps == ASSUME IInv, OpenFile PROVE IInv'
<1> USE DEF IInv, OpenFile
<1>1. world \in Worlds /\ world' = world /\ file \in 1 .. Len(world)
  BY WorldFacts DEF Progress
<1>2. Len(world) \in Nat /\ Decoded(world[file]) \in Seq(Byte)
  BY <1>1, WorldFacts, FileFacts
<1>3. phase' \in {"chunking", "no_zlib"} /\ UNCHANGED <<world, file, files, zip, crc_hasher, output, announced>>
  OBVIOUS
<1>4. Progress'
  BY <1>1, <1>3 DEF Progress
<1>5. Cut'
  <2>1. CASE phase' = "no_zlib"
    <3>1. UNCHANGED <<data, rolling_hash, chunks>>
      BY <2>1
    <3> QED
      BY <2>1, <3>1 DEF Cut
  <2>2. CASE phase' = "chunking"
    <3>1. data' = Decoded(world[file]) /\ rolling_hash' = NewHash /\ chunks' = <<>>
      BY <2>2
    <3>2. FlattenSeq(<<>>) = <<>> /\ <<>> \in Seq(Seq(Byte))
      BY FlattenNothing
    <3>3. <<>> \o Decoded(world[file]) = Decoded(world[file])
      BY <1>2
    <3>4. Decoded(world[file])' = Decoded(world[file])
      BY <1>3 DEF Decoded, IsZlib, Inflated
    <3> QED
      BY <1>2, <3>1, <3>2, <3>3, <3>4 DEF Cut
  <2> QED
    BY <1>3, <2>1, <2>2
<1>6. Described'
  BY <1>3 DEF Described, FileType, Decoded, IsZlib, Inflated
<1>7. Written'
  BY <1>3 DEF Written
<1> QED
  BY <1>3, <1>4, <1>5, <1>6, <1>7, NotYetDone

\* A chunk goes from what is left to the chunks.
LEMMA TakeKeeps == ASSUME IInv, TakeChunk PROVE IInv'
<1> DEFINE n == NextChunk(rolling_hash, data).size
           c == SubSeq(data, 1, n)
           rest == SubSeq(data, n + 1, Len(data))
           d == Decoded(world[file])
<1>1. /\ phase = "chunking" /\ data # <<>>
      /\ chunks' = Append(chunks, c) /\ data' = rest
      /\ rolling_hash' = NewHash
      /\ UNCHANGED <<world, phase, file, files, zip, crc_hasher, output, announced>>
  BY DEF TakeChunk, Reset
<1>2. data \in Seq(Byte) /\ chunks \in Seq(Seq(Byte)) /\ FlattenSeq(chunks) \o data = d
  BY <1>1 DEF IInv, Cut
<1>3. n \in 1 .. Len(data)
  BY <1>1, <1>2, NextChunkFacts
<1> HIDE DEF n
<1>4. c \in Seq(Byte) /\ rest \in Seq(Byte) /\ c \o rest = data
  <2>1. Len(data) \in Nat /\ \A i \in 1 .. Len(data) : data[i] \in Byte
    BY <1>2
  <2>2. c \in Seq(Byte)
    <3>1. 1 \in Int /\ n \in Int /\ \A i \in 1 .. n : data[i] \in Byte
      BY <1>3, <2>1
    <3> QED
      BY <3>1, SubSeqProperties
  <2>3. rest \in Seq(Byte)
    <3>1. n + 1 \in Int /\ Len(data) \in Int /\ \A i \in n + 1 .. Len(data) : data[i] \in Byte
      BY <1>3, <2>1
    <3> QED
      BY <3>1, SubSeqProperties
  <2>4. c \o rest = SubSeq(data, 1, Len(data))
    <3>1. 1 \in 1 .. Len(data) + 1 /\ n \in 1 - 1 .. Len(data) /\ Len(data) \in n .. Len(data)
      BY <1>3, <2>1
    <3> QED
      BY <1>2, <3>1, ConcatAdjacentSubSeq
  <2>5. SubSeq(data, 1, Len(data)) = data
    BY <1>2, SubSeqFull
  <2> QED
    BY <2>2, <2>3, <2>4, <2>5
<1> HIDE DEF c, rest
<1>5. FlattenSeq(Append(chunks, c)) \o rest = d
  <2> DEFINE flat == FlattenSeq(chunks)
  <2>1. flat \in Seq(Byte) /\ FlattenSeq(Append(chunks, c)) = flat \o c
    BY <1>2, <1>4, FlattenAppend
  <2> HIDE DEF flat
  <2>2. (flat \o c) \o rest = flat \o (c \o rest)
    <3>1. flat \in Seq(Byte) /\ c \in Seq(Byte) /\ rest \in Seq(Byte)
      BY <1>4, <2>1
    <3> QED
      BY <3>1, Assoc
  <2> QED
    BY <1>2, <1>4, <2>1, <2>2 DEF flat
<1>6. Append(chunks, c) \in Seq(Seq(Byte))
  BY <1>2, <1>4
<1>7. d' = d
  BY <1>1 DEF Decoded, IsZlib, Inflated
<1> HIDE DEF d
<1>8. Cut'
  BY <1>1, <1>4, <1>5, <1>6, <1>7 DEF Cut, d
<1>9. Progress' /\ Written'
  BY <1>1 DEF IInv, Progress, Written
<1>10. Described'
  BY <1>1 DEF IInv, Described, FileType, Decoded, IsZlib, Inflated
<1> QED
  BY <1>1, <1>8, <1>9, <1>10, NotYetDone DEF IInv

\* With nothing left, the chunks are the whole file.
LEMMA DescribeKeeps == ASSUME IInv, DescribeFile PROVE IInv'
<1> DEFINE desc == [file_type |-> FileType(world[file]), file_name |-> world[file].name,
                    content_chunks |-> chunks]
<1>1. /\ phase = "chunking" /\ data = <<>> /\ phase' = "opening"
      /\ files' = Append(files, desc) /\ file' = file + 1
      /\ UNCHANGED <<world, data, rolling_hash, chunks, zip, crc_hasher, output, announced>>
  BY DEF DescribeFile, FileType
<1>2. /\ world \in Worlds /\ file \in 1 .. Len(world) /\ Len(world) \in Nat
      /\ world[file].name \in Byte
      /\ files \in Seq(Descriptions) /\ Len(files) = file - 1
  <2>1. world \in Worlds /\ file \in 1 .. Len(world) + 1 /\ file <= Len(world) /\ Len(files) = file - 1
    BY <1>1 DEF IInv, Progress
  <2>2. Len(world) \in Nat /\ \A i \in 1 .. Len(world) : world[i] \in [name : Byte, data : Seq(Byte)]
    BY <2>1, WorldFacts
  <2>3. files \in Seq(Descriptions)
    BY DEF IInv, Described
  <2>4. file \in 1 .. Len(world)
    BY <2>1, <2>2
  <2>5. world[file].name \in Byte
    BY <2>2, <2>4
  <2> QED
    BY <2>1, <2>2, <2>3, <2>4, <2>5
<1>3. chunks \in Seq(Seq(Byte)) /\ FlattenSeq(chunks) = Decoded(world[file])
  <2>1. chunks \in Seq(Seq(Byte)) /\ FlattenSeq(chunks) \o <<>> = Decoded(world[file])
    BY <1>1 DEF IInv, Cut
  <2>2. FlattenSeq(chunks) \in Seq(Byte)
    BY <2>1, FlattenExists, FlattenEnds
  <2> QED
    BY <2>1, <2>2
<1>4. desc \in Descriptions
  BY <1>2, <1>3 DEF Descriptions, FileType
<1>5. /\ desc.file_type = FileType(world[file]) /\ desc.file_name = world[file].name
      /\ desc.content_chunks = chunks
  OBVIOUS
<1> HIDE DEF desc
<1>6. /\ Append(files, desc) \in Seq(Descriptions) /\ Len(Append(files, desc)) = file
      /\ Append(files, desc)[file] = desc
      /\ \A i \in 1 .. Len(files) : Append(files, desc)[i] = files[i]
  BY <1>2, <1>4
<1> DEFINE more == Append(files, desc)
<1> HIDE DEF more
<1>7. Described'
  <2>1. ASSUME NEW i \in 1 .. file
        PROVE  /\ more[i].file_type = FileType(world[i])
               /\ more[i].file_name = world[i].name
               /\ FlattenSeq(more[i].content_chunks) = Decoded(world[i])
    <3>1. CASE i = file
      BY <1>3, <1>5, <1>6, <3>1 DEF more
    <3>2. CASE i # file
      <4>1. i \in 1 .. Len(files)
        BY <1>2, <3>2
      <4>2. more[i] = files[i]
        BY <1>6, <4>1 DEF more
      <4> QED
        BY <4>1, <4>2 DEF IInv, Described
    <3> QED
      BY <3>1, <3>2
  <2>2. files' = more /\ world' = world /\ more \in Seq(Descriptions) /\ Len(more) = file
    BY <1>1, <1>6 DEF more
  <2>3. file <= Len(world)
    BY <1>2
  <2> QED
    BY <2>1, <2>2, <2>3 DEF Described, FileType, Decoded, IsZlib, Inflated
<1>8. Progress'
  BY <1>1, <1>2, <1>6 DEF IInv, Progress
<1>9. Cut'
  BY <1>1 DEF IInv, Cut
<1>10. Written'
  <2>1. zip = NewZip
    BY <1>1 DEF IInv, Progress
  <2>2. Len(NewZip.entries) = 0
    BY DEF NewZip
  <2> QED
    BY <1>1, <1>2, <1>6, <2>1, <2>2 DEF IInv, Written
<1> QED
  BY <1>1, <1>7, <1>8, <1>9, <1>10, NotYetDone DEF IInv

\* A new WorldReconstructor has written nothing.
LEMMA BeginKeeps == ASSUME IInv, BeginRebuild PROVE IInv'
<1>1. /\ phase = "opening" /\ file > Len(world) /\ phase' = "rebuilding" /\ file' = 1
      /\ zip' = NewZip /\ crc_hasher' = InitialCrc
      /\ UNCHANGED <<world, data, rolling_hash, chunks, files, output, announced>>
  BY DEF BeginRebuild
<1>2. /\ world \in Worlds /\ file \in 1 .. Len(world) + 1 /\ Len(files) = file - 1
      /\ output = <<>> /\ zip = NewZip /\ crc_hasher = InitialCrc
  BY <1>1 DEF IInv, Progress
<1>3. Len(world) \in Nat
  BY <1>2, WorldFacts
<1>4. Progress'
  BY <1>1, <1>2, <1>3 DEF Progress
<1>5. Cut'
  BY <1>1 DEF IInv, Cut
<1>6. Described'
  BY <1>1 DEF IInv, Described, FileType, Decoded, IsZlib, Inflated
<1>7. Written'
  <2>1. InitialCrc \in Register
    BY TableAssumption DEF InitialCrc, Register
  <2>2. CrcUpdate(InitialCrc, <<>>) = InitialCrc
    <3>1. <<>> \in Seq(Byte) /\ Len(<<>>) = 0
      OBVIOUS
    <3> DEFINE h == [i \in 0 .. 0 |-> InitialCrc]
    <3>2. h \in [0 .. 0 -> Register] /\ h[0] = InitialCrc
      BY <2>1
    <3> HIDE DEF h
    <3>3. Runs(h, InitialCrc, <<>>)
      BY <3>1, <3>2 DEF Runs
    <3>4. CrcUpdate(InitialCrc, <<>>) = h[Len(<<>>)]
      BY <2>1, <3>1, <3>3, RunEnds
    <3> QED
      BY <3>1, <3>2, <3>4
  <2>3. /\ NewZip.current_offset = 0 /\ NewZip.entries = <<>> /\ Len(NewZip.entries) = 0
        /\ NewZip \in [current_offset : Nat, entries : Seq(Entries)]
    BY DEF NewZip
  <2> HIDE DEF NewZip
  <2>4. Len(files) \in Nat
    BY DEF IInv, Described
  <2> QED
    BY <1>1, <1>2, <2>1, <2>2, <2>3, <2>4 DEF Written
<1> QED
  BY <1>1, <1>4, <1>5, <1>6, <1>7, NotYetDone DEF IInv

\* What is written stays where it is when more is written.
LEMMA StaysInPlace ==
    ASSUME NEW e \in Entries, NEW f, NEW out, NEW end \in Nat, InPlace(e, f, out, end),
           NEW more, NEW last \in Nat, end <= last, \A k \in 1 .. end : more[k] = out[k]
    PROVE  InPlace(e, f, more, last)
<1>1. e.start_offset \in Nat /\ e.data_size \in Nat
  BY DEF Entries
<1>2. e.start_offset + 2 + e.data_size <= end
  BY DEF InPlace
<1>3. e.start_offset + 1 \in 1 .. end /\ e.start_offset + 2 \in 1 .. end
  BY <1>1, <1>2
<1>4. \A n \in 1 .. e.data_size : e.start_offset + 2 + n \in 1 .. end
  BY <1>1, <1>2
<1>5. e.start_offset + 2 + e.data_size <= last
  BY <1>1, <1>2
<1> QED
  BY <1>3, <1>4, <1>5 DEF InPlace

\* A file, once its header and its data are written.
LEMMA WrittenInPlace ==
    ASSUME NEW f \in [name : Byte, data : Seq(Byte)], NEW out \in Seq(Byte),
           Rebuilt(f) \in Seq(Byte), Len(Rebuilt(f)) < U32, Len(Rebuilt(f)) \in Byte
    PROVE  LET bytes == Rebuilt(f)
               more == (out \o <<Len(bytes), f.name>>) \o bytes
           IN  /\ more \in Seq(Byte) /\ Len(more) = Len(out) + 2 + Len(bytes)
               /\ \A k \in 1 .. Len(out) : more[k] = out[k]
               /\ InPlace([start_offset |-> Len(out), file_name |-> f.name, data_size |-> Len(bytes)],
                          f, more, Len(more))
<1> DEFINE bytes == Rebuilt(f)
           size == Len(bytes)
           name == f.name
           header == <<size, name>>
           mid == out \o header
           more == mid \o bytes
           e == [start_offset |-> Len(out), file_name |-> name, data_size |-> size]
<1>1. bytes \in Seq(Byte) /\ size \in Nat /\ size < U32 /\ size \in Byte /\ name \in Byte /\ Len(out) \in Nat
  OBVIOUS
<1> HIDE DEF bytes
<1>2. header \in Seq(Byte) /\ Len(header) = 2 /\ header[1] = size /\ header[2] = name
  BY <1>1
<1> HIDE DEF header
<1>3. mid \in Seq(Byte) /\ Joined(mid, out, header)
  BY <1>2, ConcatAt
<1> HIDE DEF mid
<1>4. more \in Seq(Byte) /\ Joined(more, mid, bytes)
  BY <1>1, <1>3, ConcatAt
<1> HIDE DEF more
<1>5. /\ Len(mid) = Len(out) + 2
      /\ \A k \in 1 .. Len(out) : mid[k] = out[k]
      /\ \A k \in 1 .. 2 : mid[Len(out) + k] = header[k]
  BY <1>2, <1>3 DEF Joined
<1>6. /\ Len(more) = Len(mid) + size
      /\ \A k \in 1 .. Len(mid) : more[k] = mid[k]
      /\ \A k \in 1 .. size : more[Len(mid) + k] = bytes[k]
  BY <1>4 DEF Joined
<1>7. \A k \in 1 .. Len(out) : k \in 1 .. Len(mid)
  BY <1>1, <1>5
<1>8. Len(out) + 1 \in 1 .. Len(mid) /\ Len(out) + 2 \in 1 .. Len(mid) /\ 1 \in 1 .. 2 /\ 2 \in 1 .. 2
  BY <1>1, <1>5
<1>9. more[Len(out) + 1] = size /\ more[Len(out) + 2] = name
  BY <1>2, <1>5, <1>6, <1>8
<1>10. \A k \in 1 .. size : more[Len(out) + 2 + k] = bytes[k]
  BY <1>5, <1>6
<1>11. Len(more) = Len(out) + 2 + size
  BY <1>5, <1>6
<1>12. e.start_offset = Len(out) /\ e.file_name = name /\ e.data_size = size
  OBVIOUS
<1> HIDE DEF e, size, name
<1>13. size = Len(Rebuilt(f)) /\ bytes = Rebuilt(f) /\ name = f.name
  BY DEF size, bytes, name
<1>14. e.start_offset + 2 + e.data_size <= Len(more)
  BY <1>1, <1>11, <1>12
<1>15. InPlace(e, f, more, Len(more))
  BY <1>1, <1>9, <1>10, <1>12, <1>13, <1>14 DEF InPlace
<1>16. \A k \in 1 .. Len(out) : more[k] = out[k]
  BY <1>5, <1>6, <1>7
<1> QED
  BY <1>4, <1>11, <1>15, <1>16 DEF e, more, mid, header, bytes, size, name

\* The writer adds an entry for what it appends.
LEMMA RebuildKeeps == ASSUME IInv, RebuildFile PROVE IInv'
<1> DEFINE desc == files[file]
           f == world[file]
           bytes == Rebuilt(f)
           name == f.name
           header == <<Len(bytes), name>>
<1>1. phase = "rebuilding" /\ file <= Len(files) /\ UNCHANGED <<world, data, rolling_hash, chunks, files, announced>>
  BY DEF RebuildFile
<1>2. /\ world \in Worlds /\ Len(files) = Len(world) /\ file \in 1 .. Len(world) /\ Len(world) \in Nat
      /\ f \in [name : Byte, data : Seq(Byte)] /\ name \in Byte
      /\ IsZlib(f) => f.data # <<>>
  <2>1. world \in Worlds /\ Len(files) = Len(world) /\ file \in 1 .. Len(world) + 1
    BY <1>1 DEF IInv, Progress
  <2>2. /\ Len(world) \in Nat
        /\ \A i \in 1 .. Len(world) : /\ world[i] \in [name : Byte, data : Seq(Byte)]
                                      /\ IsZlib(world[i]) => world[i].data # <<>>
    BY <2>1, WorldFacts
  <2>3. file \in 1 .. Len(world)
    BY <1>1, <2>1, <2>2
  <2>4. f \in [name : Byte, data : Seq(Byte)] /\ (IsZlib(f) => f.data # <<>>)
    BY <2>2, <2>3
  <2> QED
    BY <2>1, <2>2, <2>3, <2>4
<1>3. Encoded(desc.file_type, FlattenSeq(desc.content_chunks)) = bytes /\ desc.file_name = name
  BY <1>1, <1>2 DEF IInv, Described, Rebuilt
<1>4. Len(bytes) \in Nat /\ (Len(bytes) < U32 => bytes \in Seq(Byte) /\ Len(bytes) \in Byte)
  BY <1>2, FileFacts
<1>5. \/ /\ Len(bytes) >= U32 /\ phase' = "entry_too_large"
         /\ UNCHANGED <<file, zip, crc_hasher, output>>
      \/ /\ Len(bytes) < U32
         /\ zip' = WithFile(zip, name, bytes)
         /\ crc_hasher' = CrcUpdate(CrcUpdate(crc_hasher, header), bytes)
         /\ output' = (output \o header) \o bytes
         /\ file' = file + 1 /\ phase' = phase
  BY <1>3 DEF RebuildFile, FileHeader
<1>6. phase' \in {"rebuilding", "entry_too_large"} /\ (file' = file \/ file' = file + 1)
  BY <1>1, <1>5
<1>7. Progress'
  <2>1. file' \in 1 .. Len(world) + 1
    BY <1>2, <1>6
  <2> QED
    BY <1>1, <1>2, <1>6, <2>1 DEF Progress
<1>8. Cut'
  BY <1>1, <1>6 DEF IInv, Cut
<1>9. Described'
  BY <1>1 DEF IInv, Described, FileType, Decoded, IsZlib, Inflated
<1>10. /\ output \in Seq(Byte) /\ crc_hasher \in Register
       /\ zip \in [current_offset : Nat, entries : Seq(Entries)]
       /\ Len(zip.entries) = file - 1
       /\ Len(output) = zip.current_offset
       /\ crc_hasher = CrcUpdate(InitialCrc, output)
       /\ \A i \in 1 .. Len(zip.entries) : InPlace(zip.entries[i], world[i], output, zip.current_offset)
  BY <1>1 DEF IInv, Written
<1>11. Written'
  <2>1. CASE Len(bytes) >= U32
    <3>1. phase' = "entry_too_large" /\ UNCHANGED <<file, zip, crc_hasher, output>>
      BY <1>4, <1>5, <2>1, WidthAssumption
    <3> QED
      BY <1>1, <3>1 DEF IInv, Written
  <2>2. CASE Len(bytes) < U32
    <3> DEFINE e == [start_offset |-> zip.current_offset, file_name |-> name, data_size |-> Len(bytes)]
               more == (output \o header) \o bytes
               es == zip.entries
    <3>1. /\ zip' = WithFile(zip, name, bytes)
          /\ crc_hasher' = CrcUpdate(CrcUpdate(crc_hasher, header), bytes)
          /\ output' = more /\ file' = file + 1 /\ phase' = "rebuilding"
      <4>1. ~(Len(bytes) >= U32)
        BY <1>4, <2>2, WidthAssumption
      <4> HIDE DEF bytes, header, name
      <4> QED
        BY <1>1, <1>5, <4>1
    <3>2. bytes \in Seq(Byte) /\ Len(bytes) \in Byte
      BY <1>4, <2>2
    <3>3. /\ more \in Seq(Byte) /\ Len(more) = Len(output) + 2 + Len(bytes)
          /\ \A k \in 1 .. Len(output) : more[k] = output[k]
          /\ InPlace(e, f, more, Len(more))
      BY <1>2, <1>10, <2>2, <3>2, WrittenInPlace
    <3>4. crc_hasher' \in Register /\ crc_hasher' = CrcUpdate(InitialCrc, more)
      <4>1. InitialCrc \in Register
        BY TableAssumption DEF InitialCrc, Register
      <4>2. header \in Seq(Byte)
        BY <1>2, <3>2
      <4> HIDE DEF header, bytes
      <4>3. output \o header \in Seq(Byte)
        BY <1>10, <4>2
      <4> DEFINE mid == output \o header
      <4>4. CrcUpdate(InitialCrc, mid) = CrcUpdate(crc_hasher, header)
        BY <1>10, <4>1, <4>2, CrcConcat
      <4> HIDE DEF mid
      <4>5. CrcUpdate(InitialCrc, mid \o bytes) = CrcUpdate(CrcUpdate(InitialCrc, mid), bytes)
        BY <3>2, <4>1, <4>3, CrcConcat DEF mid
      <4>6. CrcUpdate(InitialCrc, mid \o bytes) \in Register
        BY <3>3, <4>1, CrcUpdateType DEF mid
      <4> QED
        BY <3>1, <4>4, <4>5, <4>6 DEF mid
    <3>5. e \in Entries
      BY <1>2, <1>4, <1>10 DEF Entries
    <3>6. es \in Seq(Entries) /\ Len(es) = file - 1 /\ zip.current_offset \in Nat
      BY <1>10
    <3>7. zip'.current_offset = Len(more) /\ zip'.entries = Append(es, e)
      BY <1>10, <3>1, <3>3 DEF WithFile, FileHeaderSize
    <3>8. zip' \in [current_offset : Nat, entries : Seq(Entries)]
      <4>1. Append(es, e) \in Seq(Entries)
        BY <3>5, <3>6
      <4>2. zip.current_offset + 2 + Len(bytes) \in Nat
        BY <1>4, <3>6
      <4> QED
        BY <3>1, <4>1, <4>2 DEF WithFile, FileHeaderSize
    <3> HIDE DEF more, e, es
    <3>9. /\ Len(Append(es, e)) = file /\ Append(es, e)[file] = e
          /\ \A i \in 1 .. file - 1 : Append(es, e)[i] = es[i] /\ es[i] \in Entries
      BY <1>2, <3>5, <3>6
    <3>10. ASSUME NEW i \in 1 .. file PROVE InPlace(Append(es, e)[i], world[i], more, Len(more))
      <4>1. CASE i = file
        BY <3>3, <3>9, <4>1
      <4>2. CASE i # file
        <5>1. i \in 1 .. file - 1 /\ i \in 1 .. Len(es)
          BY <1>2, <3>6, <4>2
        <5>2. InPlace(es[i], world[i], output, Len(output)) /\ es[i] \in Entries
          BY <1>10, <3>9, <5>1 DEF es
        <5>3. Len(output) \in Nat /\ Len(more) \in Nat /\ Len(output) <= Len(more)
          BY <1>4, <1>10, <3>3
        <5>4. InPlace(es[i], world[i], more, Len(more))
          BY <3>3, <5>2, <5>3, StaysInPlace
        <5> QED
          BY <3>9, <5>1, <5>4
      <4> QED
        BY <4>1, <4>2
    <3>11. Len(zip'.entries) = file' - 1 /\ Len(zip'.entries) <= Len(files)
      BY <1>1, <1>2, <3>1, <3>7, <3>9
    <3>12. \A i \in 1 .. Len(zip'.entries) : InPlace(zip'.entries[i], world[i], output', zip'.current_offset)
      BY <3>1, <3>7, <3>9, <3>10
    <3>13. output' \in Seq(Byte) /\ Len(output') = zip'.current_offset /\ crc_hasher' = CrcUpdate(InitialCrc, output')
      BY <3>1, <3>3, <3>4, <3>7
    <3>14. files' = files /\ world' = world
      BY <1>1
    <3> HIDE DEF bytes, header, name, f
    <3> QED
      BY <3>4, <3>8, <3>11, <3>12, <3>13, <3>14
         DEF Written, InPlace, Rebuilt, FileType, Decoded, Encoded, IsZlib, Inflated, Deflated
  <2> QED
    BY <1>4, <2>1, <2>2, WidthAssumption
<1> QED
  BY <1>6, <1>7, <1>8, <1>9, <1>11, NotYetDone DEF IInv

-----------------------------------------------------------------------------
(* What finalize_world_file appends. *)

\* Padding is bytes.
LEMMA ZeroedType ==
    ASSUME NEW n \in Nat PROVE Zeroed(n) \in Seq(Byte) /\ Len(Zeroed(n)) = n
<1>1. 0 \in Byte
  BY WidthAssumption
<1> QED
  BY <1>1 DEF Zeroed

\* Elements m + 1, m + 2, ... of s are those of t.
LEMMA PartIs ==
    ASSUME NEW S, NEW s \in Seq(S), NEW t \in Seq(S), NEW m \in Nat, m + Len(t) <= Len(s),
           \A k \in 1 .. Len(t) : s[m + k] = t[k]
    PROVE  SubSeq(s, m + 1, m + Len(t)) = t
<1> DEFINE n == Len(t)
           r == SubSeq(s, m + 1, m + n)
<1>1. n \in Nat /\ Len(s) \in Nat /\ \A i \in 1 .. Len(s) : s[i] \in S
  OBVIOUS
<1>2. m + 1 \in Int /\ m + n \in Int /\ \A i \in m + 1 .. m + n : s[i] \in S
  BY <1>1
<1>3. /\ r \in Seq(S) /\ Len(r) = IF m + 1 <= m + n THEN m + n - (m + 1) + 1 ELSE 0
      /\ \A i \in 1 .. m + n - (m + 1) + 1 : r[i] = s[m + 1 + i - 1]
  <2> DEFINE a == m + 1
             b == m + n
             q == SubSeq(s, a, b)
  <2>1. a \in Int /\ b \in Int /\ \A i \in a .. b : s[i] \in S
    BY <1>2
  <2> HIDE DEF a, b
  <2>2. /\ q \in Seq(S) /\ Len(q) = IF a <= b THEN b - a + 1 ELSE 0
        /\ \A i \in 1 .. b - a + 1 : q[i] = s[a + i - 1]
    BY <2>1, SubSeqProperties
  <2> HIDE DEF q
  <2> QED
    BY <2>2 DEF q, a, b
<1> HIDE DEF r
<1>4. Len(r) = n
  BY <1>1, <1>3
<1>5. ASSUME NEW i \in 1 .. n PROVE r[i] = t[i]
  <2>1. m + n - (m + 1) + 1 = n /\ m + 1 + i - 1 = m + i
    BY <1>1
  <2> QED
    BY <1>3, <2>1
<1> QED
  BY <1>3, <1>4, <1>5 DEF r

\* The directory, moved to where it ends the archive, has fields that are bytes.
LEMMA FooterFacts ==
    ASSUME IInv, phase = "rebuilding", NEW shift \in Nat,
           zip.current_offset + shift < U32, Len(zip.entries) < U16
    PROVE  LET n == Len(zip.entries)
               footer == CentralDirectory(Advanced(zip, shift))
           IN  /\ footer \in Seq(Byte) /\ Len(footer) = 3 * n + 2
               /\ \A j \in 1 .. n :
                    /\ footer[3 * (j - 1) + 1] = zip.entries[j].data_size
                    /\ footer[3 * (j - 1) + 2] = zip.entries[j].start_offset
                    /\ footer[3 * (j - 1) + 3] = zip.entries[j].file_name
               /\ footer[3 * n + 1] = n
               /\ footer[3 * n + 2] = zip.current_offset + shift
<1> DEFINE es == zip.entries
           n == Len(es)
           off == zip.current_offset
           z == Advanced(zip, shift)
<1>1. /\ zip \in [current_offset : Nat, entries : Seq(Entries)]
      /\ \A i \in 1 .. n : InPlace(es[i], world[i], output, off)
  BY DEF IInv, Written
<1>2. off \in Nat /\ es \in Seq(Entries) /\ n \in Nat
  BY <1>1
<1>3. z.entries = es /\ z.current_offset = off + shift
  BY <1>1 DEF Advanced
<1>4. off + shift \in Byte /\ n \in Byte
  BY <1>2, WidthAssumption
<1> HIDE DEF z, es
<1>5. ASSUME NEW i \in 1 .. n PROVE es[i] \in Entry(Byte)
  <2>1. es[i] \in Entries /\ InPlace(es[i], world[i], output, off)
    BY <1>1, <1>2
  <2>2. /\ es[i] = [start_offset |-> es[i].start_offset, file_name |-> es[i].file_name, data_size |-> es[i].data_size]
        /\ es[i].start_offset \in Nat /\ es[i].data_size \in Nat /\ es[i].file_name \in Byte
    BY <2>1 DEF Entries
  <2>3. es[i].start_offset + 2 + es[i].data_size <= off
    BY <2>1 DEF InPlace
  <2>4. es[i].start_offset < U32 /\ es[i].data_size < U32
    BY <1>2, <2>2, <2>3, WidthAssumption
  <2>5. es[i].start_offset \in Byte /\ es[i].data_size \in Byte
    BY <2>2, <2>4, WidthAssumption
  <2> QED
    BY <2>2, <2>5 DEF Entry
<1>6. es \in Seq(Entry(Byte))
  BY <1>2, <1>5
<1>7. CentralDirectorySize(z) = 3 * n + 2
  BY <1>2, <1>3 DEF CentralDirectorySize, CENTRAL_DIRECTORY_ENTRY_SIZE, END_OF_CENTRAL_DIRECTORY_SIZE
<1>8. z.entries \in Seq(Entry(Byte)) /\ Len(z.entries) \in Byte /\ z.current_offset \in Byte
  BY <1>3, <1>4, <1>6
<1> DEFINE footer == CentralDirectory(z)
<1>9. /\ footer \in Seq(Byte) /\ Len(footer) = CentralDirectorySize(z)
      /\ \A j \in 1 .. Len(z.entries) :
           /\ footer[3 * (j - 1) + 1] = z.entries[j].data_size
           /\ footer[3 * (j - 1) + 2] = z.entries[j].start_offset
           /\ footer[3 * (j - 1) + 3] = z.entries[j].file_name
      /\ footer[3 * Len(z.entries) + 1] = Len(z.entries)
      /\ footer[3 * Len(z.entries) + 2] = z.current_offset
  BY <1>8, DirectoryFacts
<1> HIDE DEF footer
<1>10. /\ footer \in Seq(Byte) /\ Len(footer) = 3 * n + 2
       /\ \A j \in 1 .. n :
            /\ footer[3 * (j - 1) + 1] = es[j].data_size
            /\ footer[3 * (j - 1) + 2] = es[j].start_offset
            /\ footer[3 * (j - 1) + 3] = es[j].file_name
       /\ footer[3 * n + 1] = n
       /\ footer[3 * n + 2] = off + shift
  BY <1>3, <1>7, <1>9
<1> QED
  BY <1>10 DEF footer, z, es

\* An archive that has what was written, and ends with its directory.
Complete(archive, out, es) ==
    LET n == Len(es)
        dir == Len(archive) - (3 * n + 2)
    IN  /\ Len(out) <= dir
        /\ \A k \in 1 .. Len(out) : archive[k] = out[k]
        /\ \A j \in 1 .. n :
             /\ archive[dir + 3 * (j - 1) + 1] = es[j].data_size
             /\ archive[dir + 3 * (j - 1) + 2] = es[j].start_offset
             /\ archive[dir + 3 * (j - 1) + 3] = es[j].file_name
        /\ archive[dir + 3 * n + 1] = n
        /\ archive[dir + 3 * n + 2] = dir

\* The archive of `target' bytes that finalize_world_file completes.
LEMMA LastDataFacts ==
    ASSUME IInv, phase = "rebuilding",
           NEW target \in Nat, target < U32, CanEncode(target),
           zip.current_offset + CentralDirectorySize(zip) + 4 <= target,
           NEW aux \in Seq(Byte), Len(aux) + TRANSFER_BLOCK_SIZE <= U32,
           NEW crc \in Register
    PROVE  LET out == output \o LastData(target, aux, crc)
           IN  \E archive \in Seq(Byte) :
                 /\ Len(archive) = target
                 /\ Complete(archive, output, zip.entries)
                 /\ XorOut(CrcUpdate(InitialCrc, archive \o aux)) = crc
                 /\ out \in Seq(Byte) /\ Len(out) = Aligned(target) + Aligned(Len(aux))
                 /\ \A k \in 1 .. target : out[k] = archive[k]
                 /\ \A k \in 1 .. Len(aux) : out[Aligned(target) + k] = aux[k]
<1> DEFINE es == zip.entries
           n == Len(es)
           o == Len(output)
           d == 3 * n + 2
           P == Zeroed(target - zip.current_offset - CentralDirectorySize(zip) - 4)
           D == CentralDirectory(Advanced(zip, DirectoryShift(P)))
           before == CrcUpdate(crc_hasher, P)
           after == RevUpdate(RevUpdate(XorOut(crc), aux), D)
           G == Forge(before, after)
           Z1 == Zeroed(Aligned(target) - target)
           Z2 == Zeroed(Aligned(Len(aux)) - Len(aux))
           s1 == P \o G
           s2 == s1 \o D
           s3 == s2 \o Z1
           s4 == s3 \o aux
           s5 == s4 \o Z2
           archive == output \o s2
           out == output \o s5
<1>1. LastData(target, aux, crc) = s5
  BY DEF LastData
<1>2. /\ output \in Seq(Byte) /\ crc_hasher \in Register /\ zip.current_offset = o
      /\ crc_hasher = CrcUpdate(InitialCrc, output)
      /\ zip \in [current_offset : Nat, entries : Seq(Entries)]
  BY DEF IInv, Written
<1>3. o \in Nat /\ n \in Nat /\ d \in Nat /\ Len(aux) \in Nat
  BY <1>2
<1>4. CentralDirectorySize(zip) = d
  BY <1>3 DEF CentralDirectorySize, CENTRAL_DIRECTORY_ENTRY_SIZE, END_OF_CENTRAL_DIRECTORY_SIZE
<1>5. P = Zeroed(target - o - d - 4) /\ target - o - d - 4 \in Nat
  BY <1>2, <1>3, <1>4
<1> HIDE DEF P
<1>6. P \in Seq(Byte) /\ Len(P) = target - o - d - 4
  BY <1>5, ZeroedType
<1>7. /\ D \in Seq(Byte) /\ Len(D) = d
      /\ \A j \in 1 .. n : /\ D[3 * (j - 1) + 1] = es[j].data_size
                           /\ D[3 * (j - 1) + 2] = es[j].start_offset
                           /\ D[3 * (j - 1) + 3] = es[j].file_name
      /\ D[3 * n + 1] = n /\ D[3 * n + 2] = target - d
  <2>1. DirectoryShift(P) \in Nat /\ zip.current_offset + DirectoryShift(P) = target - d
    BY <1>2, <1>3, <1>6 DEF DirectoryShift
  <2>2. target - d < U32
    BY <1>3, WidthAssumption
  <2>3. Len(zip.entries) < U16
    BY DEF CanEncode
  <2> DEFINE shift == DirectoryShift(P)
  <2>4. shift \in Nat /\ zip.current_offset + shift = target - d /\ zip.current_offset + shift < U32
    BY <2>1, <2>2
  <2> HIDE DEF shift
  <2> DEFINE footer == CentralDirectory(Advanced(zip, shift))
  <2>5. /\ footer \in Seq(Byte) /\ Len(footer) = 3 * n + 2
        /\ \A j \in 1 .. n :
             /\ footer[3 * (j - 1) + 1] = zip.entries[j].data_size
             /\ footer[3 * (j - 1) + 2] = zip.entries[j].start_offset
             /\ footer[3 * (j - 1) + 3] = zip.entries[j].file_name
        /\ footer[3 * n + 1] = n
        /\ footer[3 * n + 2] = zip.current_offset + shift
    BY <2>3, <2>4, FooterFacts
  <2>6. footer = D
    BY DEF shift
  <2> HIDE DEF footer, D
  <2> QED
    BY <2>4, <2>5, <2>6
<1> HIDE DEF D
<1>8. /\ before \in Register /\ after \in Register
      /\ XorOut(CrcUpdate(CrcUpdate(CrcUpdate(before, G), D), aux)) = crc
  BY <1>2, <1>6, <1>7, CrcForged
<1> HIDE DEF after
<1>9. G \in Seq(Byte) /\ Len(G) = 4
  BY <1>8, ForgeRuns
<1> HIDE DEF G
<1>10. Aligned(target) \in Nat /\ Aligned(target) >= target
  <2>1. Aligned(target) >= target
    BY DEF CanEncode
  <2>2. target + TRANSFER_BLOCK_SIZE <= U32
    BY <2>1, BlocksTooFew
  <2> QED
    BY <2>2, BlocksEnough
<1>11. Aligned(Len(aux)) \in Nat /\ Aligned(Len(aux)) >= Len(aux)
  BY <1>3, BlocksEnough
<1>12. Z1 \in Seq(Byte) /\ Len(Z1) = Aligned(target) - target
  <2>1. Aligned(target) - target \in Nat
    BY <1>10
  <2> QED
    BY <2>1, ZeroedType
<1>13. Z2 \in Seq(Byte) /\ Len(Z2) = Aligned(Len(aux)) - Len(aux)
  <2>1. Aligned(Len(aux)) - Len(aux) \in Nat
    BY <1>3, <1>11
  <2> QED
    BY <2>1, ZeroedType
<1> HIDE DEF Z1, Z2
<1>14. s1 \in Seq(Byte) /\ Joined(s1, P, G)
  BY <1>6, <1>9, ConcatAt
<1> HIDE DEF s1
<1>15. s2 \in Seq(Byte) /\ Joined(s2, s1, D)
  BY <1>7, <1>14, ConcatAt
<1> HIDE DEF s2
<1>16. s3 \in Seq(Byte) /\ Joined(s3, s2, Z1)
  BY <1>12, <1>15, ConcatAt
<1> HIDE DEF s3
<1>17. s4 \in Seq(Byte) /\ Joined(s4, s3, aux)
  BY <1>16, ConcatAt
<1> HIDE DEF s4
<1>18. s5 \in Seq(Byte) /\ Joined(s5, s4, Z2)
  BY <1>13, <1>17, ConcatAt
<1> HIDE DEF s5
<1>19. archive \in Seq(Byte) /\ Joined(archive, output, s2)
  BY <1>2, <1>15, ConcatAt
<1> HIDE DEF archive
<1>20. out \in Seq(Byte) /\ Joined(out, output, s5)
  BY <1>2, <1>18, ConcatAt
<1> HIDE DEF out, o, d, n
<1>21. /\ Len(s1) = target - o - d /\ Len(s2) = target - o
       /\ Len(s3) = Aligned(target) - o /\ Len(s4) = Aligned(target) - o + Len(aux)
       /\ Len(s5) = Aligned(target) - o + Aligned(Len(aux))
       /\ Len(archive) = target /\ Len(out) = Aligned(target) + Aligned(Len(aux))
  <2>1. Len(s1) = target - o - d
    BY <1>3, <1>6, <1>9, <1>14 DEF Joined
  <2>2. Len(s2) = target - o
    BY <1>3, <1>7, <1>15, <2>1 DEF Joined
  <2>3. Len(s3) = Aligned(target) - o
    BY <1>3, <1>10, <1>12, <1>16, <2>2 DEF Joined
  <2>4. Len(s4) = Aligned(target) - o + Len(aux)
    BY <1>17, <2>3 DEF Joined
  <2>5. Len(s5) = Aligned(target) - o + Aligned(Len(aux))
    BY <1>3, <1>10, <1>11, <1>13, <1>18, <2>4 DEF Joined
  <2>6. Len(archive) = target
    BY <1>3, <1>19, <2>2 DEF Joined, o
  <2>7. Len(out) = Aligned(target) + Aligned(Len(aux))
    BY <1>3, <1>10, <1>11, <1>20, <2>5 DEF Joined, o
  <2> QED
    BY <2>1, <2>2, <2>3, <2>4, <2>5, <2>6, <2>7
<1>22. o + d + 4 <= target
  BY <1>3, <1>6
<1>23. Complete(archive, output, es)
  <2> DEFINE dir == target - d
  <2>1. dir \in Nat /\ o <= dir /\ dir + d = target
    BY <1>3, <1>22
  <2>2. \A k \in 1 .. o : archive[k] = output[k]
    BY <1>19 DEF Joined, o
  <2>3. ASSUME NEW k \in 1 .. d PROVE archive[dir + k] = D[k]
    <3>1. s2[Len(s1) + k] = D[k]
      BY <1>7, <1>15 DEF Joined
    <3>2. Len(s1) + k \in 1 .. Len(s2) /\ o + (Len(s1) + k) = dir + k
      BY <1>3, <1>21, <1>22
    <3>3. archive[o + (Len(s1) + k)] = s2[Len(s1) + k]
      BY <1>19, <3>2 DEF Joined, o
    <3> QED
      BY <3>1, <3>2, <3>3
  <2> HIDE DEF dir
  <2>4. ASSUME NEW j \in 1 .. n
        PROVE  /\ archive[dir + 3 * (j - 1) + 1] = es[j].data_size
               /\ archive[dir + 3 * (j - 1) + 2] = es[j].start_offset
               /\ archive[dir + 3 * (j - 1) + 3] = es[j].file_name
    <3>1. 3 * (j - 1) + 1 \in 1 .. d /\ 3 * (j - 1) + 2 \in 1 .. d /\ 3 * (j - 1) + 3 \in 1 .. d
      BY <1>3 DEF d
    <3>2. /\ dir + (3 * (j - 1) + 1) = dir + 3 * (j - 1) + 1
          /\ dir + (3 * (j - 1) + 2) = dir + 3 * (j - 1) + 2
          /\ dir + (3 * (j - 1) + 3) = dir + 3 * (j - 1) + 3
      BY <1>3, <2>1
    <3> QED
      BY <1>7, <2>3, <3>1, <3>2
  <2>5. archive[dir + 3 * n + 1] = n /\ archive[dir + 3 * n + 2] = dir
    <3>1. 3 * n + 1 \in 1 .. d /\ 3 * n + 2 \in 1 .. d
      BY <1>3 DEF d
    <3>2. dir + (3 * n + 1) = dir + 3 * n + 1 /\ dir + (3 * n + 2) = dir + 3 * n + 2
      BY <1>3, <2>1
    <3> QED
      BY <1>7, <2>3, <3>1, <3>2 DEF dir
  <2>6. dir = Len(archive) - (3 * n + 2)
    BY <1>21 DEF dir, d
  <2> HIDE DEF es
  <2>7. n = Len(es) /\ o = Len(output)
    BY DEF n, o
  <2> QED
    BY <2>1, <2>2, <2>4, <2>5, <2>6, <2>7 DEF Complete
<1>24. XorOut(CrcUpdate(InitialCrc, archive \o aux)) = crc
  <2>1. InitialCrc \in Register
    BY TableAssumption DEF InitialCrc, Register
  <2>2. CrcUpdate(InitialCrc, archive \o aux) = CrcUpdate(CrcUpdate(InitialCrc, archive), aux)
    BY <1>19, <2>1, CrcConcat
  <2>3. CrcUpdate(InitialCrc, archive) = CrcUpdate(crc_hasher, s2)
    BY <1>2, <1>15, <2>1, CrcConcat DEF archive
  <2>4. CrcUpdate(crc_hasher, s2) = CrcUpdate(CrcUpdate(crc_hasher, s1), D)
    BY <1>2, <1>7, <1>14, CrcConcat DEF s2
  <2>5. CrcUpdate(crc_hasher, s1) = CrcUpdate(before, G)
    BY <1>2, <1>6, <1>9, CrcConcat DEF s1
  <2> HIDE DEF before
  <2> QED
    BY <1>8, <2>2, <2>3, <2>4, <2>5
<1>25. ASSUME NEW k \in 1 .. target PROVE out[k] = archive[k]
  <2>1. CASE k \in 1 .. o
    BY <1>19, <1>20, <2>1 DEF Joined, o
  <2>2. CASE k \notin 1 .. o
    <3> DEFINE i == k - o
    <3>1. i \in 1 .. Len(s2) /\ i \in 1 .. Len(s3) /\ i \in 1 .. Len(s4) /\ i \in 1 .. Len(s5) /\ o + i = k
      <4> DEFINE a == Aligned(target)
                 b == Aligned(Len(aux))
                 m == Len(aux)
      <4>1. /\ a \in Nat /\ b \in Nat /\ m \in Nat /\ o \in Nat /\ a >= target
            /\ Len(s2) = target - o /\ Len(s3) = a - o /\ Len(s4) = a - o + m /\ Len(s5) = a - o + b
        BY <1>3, <1>10, <1>11, <1>21
      <4>2. i \in Nat /\ i >= 1 /\ i <= target - o /\ o + i = k
        BY <1>3, <2>2
      <4> HIDE DEF a, b, m, i
      <4> QED
        BY <4>1, <4>2
    <3> HIDE DEF i
    <3>2. s3[i] = s2[i] /\ s4[i] = s3[i] /\ s5[i] = s4[i]
      BY <1>16, <1>17, <1>18, <3>1 DEF Joined
    <3>3. out[o + i] = s5[i] /\ archive[o + i] = s2[i]
      BY <1>19, <1>20, <3>1 DEF Joined, o
    <3> QED
      BY <3>1, <3>2, <3>3
  <2> QED
    BY <2>1, <2>2
<1>26. ASSUME NEW k \in 1 .. Len(aux) PROVE out[Aligned(target) + k] = aux[k]
  <2> DEFINE i == Len(s3) + k
  <2>1. i \in 1 .. Len(s4) /\ i \in 1 .. Len(s5) /\ o + i = Aligned(target) + k
    <3> DEFINE a == Aligned(target)
               b == Aligned(Len(aux))
               m == Len(aux)
    <3>1. /\ a \in Nat /\ b \in Nat /\ m \in Nat /\ o \in Nat /\ k \in 1 .. m /\ b >= m
          /\ Len(s3) = a - o /\ Len(s4) = a - o + m /\ Len(s5) = a - o + b
      BY <1>3, <1>10, <1>11, <1>21
    <3>2. o <= a
      BY <1>3, <1>10, <1>22
    <3> HIDE DEF a, b, m
    <3>3. i \in 1 .. Len(s4) /\ i \in 1 .. Len(s5) /\ o + i = a + k
      BY <3>1, <3>2
    <3> QED
      BY <3>3 DEF a
  <2>2. s4[i] = aux[k]
    BY <1>17 DEF Joined
  <2> HIDE DEF i
  <2>3. s5[i] = s4[i]
    BY <1>18, <2>1 DEF Joined
  <2>4. out[o + i] = s5[i]
    BY <1>20, <2>1 DEF Joined, o
  <2> QED
    BY <2>1, <2>2, <2>3, <2>4
<1>27. out = output \o LastData(target, aux, crc)
  BY <1>1 DEF out
<1> HIDE DEF es
<1>28. es = zip.entries
  BY DEF es
<1> QED
  BY <1>19, <1>20, <1>21, <1>23, <1>24, <1>25, <1>26, <1>27, <1>28

\* A reader of a complete archive finds the files of the original.
LEMMA ReadsBack ==
    ASSUME NEW w \in Worlds, NEW es \in Seq(Entries), Len(es) = Len(w), NEW out \in Seq(Byte),
           \A i \in 1 .. Len(es) : InPlace(es[i], w[i], out, Len(out)),
           NEW archive \in Seq(Byte), Complete(archive, out, es)
    PROVE  LET read == ReadZip(archive)
           IN  /\ Len(read) = Len(w)
               /\ \A i \in 1 .. Len(w) :
                      /\ read[i].valid
                      /\ read[i].name = w[i].name
                      /\ Decoded(read[i]) = Decoded(w[i])
<1> DEFINE L == Len(archive)
           n == Len(es)
           dir == L - (3 * n + 2)
           At(i) == IF i \in DOMAIN archive THEN archive[i] ELSE 0
           Field(i, m) == At(At(L) + (i - 1) * CENTRAL_DIRECTORY_ENTRY_SIZE + m)
           Item(i) == [name |-> Field(i, 3),
                       data |-> [m \in 1 .. Field(i, 1) |-> At(Field(i, 2) + FileHeaderSize + m)],
                       valid |-> At(Field(i, 2) + 1) = Field(i, 1) /\ At(Field(i, 2) + 2) = Field(i, 3)]
           read == ReadZip(archive)
<1>1. read = [i \in 1 .. At(L - 1) |-> Item(i)]
  BY DEF ReadZip
<1> HIDE DEF read
<1>2. n \in Nat /\ n = Len(w) /\ L \in Nat /\ Len(out) \in Nat /\ DOMAIN archive = 1 .. L
  OBVIOUS
<1>3. /\ Len(out) <= dir
      /\ \A k \in 1 .. Len(out) : archive[k] = out[k]
      /\ \A j \in 1 .. n : /\ archive[dir + 3 * (j - 1) + 1] = es[j].data_size
                           /\ archive[dir + 3 * (j - 1) + 2] = es[j].start_offset
                           /\ archive[dir + 3 * (j - 1) + 3] = es[j].file_name
      /\ archive[dir + 3 * n + 1] = n
      /\ archive[dir + 3 * n + 2] = dir
  BY DEF Complete
<1>4. \A k \in 1 .. L : At(k) = archive[k]
  BY <1>2
<1>5. dir \in Nat /\ dir + 3 * n + 2 = L /\ dir + 3 * n + 1 = L - 1 /\ L \in 1 .. L /\ L - 1 \in 1 .. L
  BY <1>2, <1>3
<1> HIDE DEF At
<1>6. At(L) = dir /\ At(L - 1) = n
  BY <1>3, <1>4, <1>5
<1> HIDE DEF dir
<1>7. ASSUME NEW j \in 1 .. n
      PROVE  /\ Field(j, 1) = es[j].data_size
             /\ Field(j, 2) = es[j].start_offset
             /\ Field(j, 3) = es[j].file_name
  <2>1. \A m \in 1 .. 3 : At(L) + (j - 1) * CENTRAL_DIRECTORY_ENTRY_SIZE + m = dir + 3 * (j - 1) + m
    BY <1>2, <1>5, <1>6 DEF CENTRAL_DIRECTORY_ENTRY_SIZE
  <2>2. \A m \in 1 .. 3 : dir + 3 * (j - 1) + m \in 1 .. L
    BY <1>2, <1>5
  <2>3. \A m \in 1 .. 3 : Field(j, m) = archive[dir + 3 * (j - 1) + m]
    BY <1>4, <2>1, <2>2
  <2>4. 1 \in 1 .. 3 /\ 2 \in 1 .. 3 /\ 3 \in 1 .. 3
    OBVIOUS
  <2> HIDE DEF Field
  <2> QED
    BY <1>3, <2>3, <2>4
<1> HIDE DEF Field
<1>8. ASSUME NEW j \in 1 .. n
      PROVE  Item(j).valid /\ Item(j).name = w[j].name /\ Decoded(Item(j)) = Decoded(w[j])
  <2> DEFINE e == es[j]
             f == w[j]
             bytes == Rebuilt(f)
             start == e.start_offset
             size == e.data_size
  <2>1. e \in Entries
    BY <1>2
  <2>2. start \in Nat /\ size \in Nat
    BY <2>1 DEF Entries
  <2>3. InPlace(e, f, out, Len(out))
    OBVIOUS
  <2>4. /\ e.file_name = f.name /\ size = Len(bytes) /\ size < U32
        /\ start + 2 + size <= Len(out)
        /\ out[start + 1] = size /\ out[start + 2] = f.name
        /\ \A m \in 1 .. size : out[start + 2 + m] = bytes[m]
    BY <2>3 DEF InPlace
  <2>5. f \in [name : Byte, data : Seq(Byte)] /\ (IsZlib(f) => f.data # <<>>)
    BY <1>2, WorldFacts
  <2>6. bytes \in Seq(Byte) /\ \A g : g.name = f.name /\ g.data = bytes => Decoded(g) = Decoded(f)
    BY <2>4, <2>5, FileFacts
  <2> HIDE DEF e, f, bytes, start, size
  <2>7. ASSUME NEW k \in 1 .. Len(out) PROVE At(k) = out[k]
    <3>1. k \in 1 .. L
      BY <1>2, <1>3, <1>5
    <3> QED
      BY <1>3, <1>4, <3>1
  <2>8. start + 1 \in 1 .. Len(out) /\ start + 2 \in 1 .. Len(out)
    BY <1>2, <2>2, <2>4
  <2>9. \A m \in 1 .. size : start + 2 + m \in 1 .. Len(out)
    BY <1>2, <2>2, <2>4
  <2>10. Field(j, 1) = size /\ Field(j, 2) = start /\ Field(j, 3) = f.name
    BY <1>7, <2>4 DEF e, size, start
  <2>11. At(start + 1) = size /\ At(start + 2) = f.name
    BY <2>4, <2>7, <2>8
  <2>12. [m \in 1 .. size |-> At(start + 2 + m)] = bytes
    <3>1. \A m \in 1 .. size : At(start + 2 + m) = bytes[m]
      BY <2>4, <2>7, <2>9
    <3>2. bytes = [m \in 1 .. size |-> bytes[m]]
      BY <2>4, <2>6
    <3> QED
      BY <3>1, <3>2
  <2>13. Item(j).valid /\ Item(j).name = f.name
    BY <2>10, <2>11
  <2>14. Item(j).data = bytes
    <3>1. Item(j).data = [m \in 1 .. Field(j, 1) |-> At(Field(j, 2) + FileHeaderSize + m)]
      OBVIOUS
    <3> HIDE DEF Item
    <3> QED
      BY <2>10, <2>12, <3>1 DEF FileHeaderSize
  <2> HIDE DEF Item
  <2>15. Decoded(Item(j)) = Decoded(f)
    BY <2>6, <2>13, <2>14
  <2> QED
    BY <2>13, <2>15 DEF f
<1> HIDE DEF Item, n, L
<1>9. Len(read) = n /\ \A i \in 1 .. n : read[i] = Item(i)
  BY <1>1, <1>2, <1>6
<1> QED
  BY <1>2, <1>8, <1>9 DEF read

\* The sizes that finalize_world_file is given.
LEMMA EstimatedFacts ==
    ASSUME NEW size \in Nat
    PROVE  /\ Estimated(size) \in Nat /\ Estimated(size) < U32
           /\ 2 * size < U32 => Estimated(size) = 2 * size
<1>1. 2 * size \in Nat /\ U32 \in Nat \ {0}
  BY WidthAssumption
<1>2. (2 * size) % U32 \in Nat /\ (2 * size) % U32 < U32
  BY <1>1
<1>3. 2 * size < U32 => (2 * size) % U32 = 2 * size
  BY <1>1, ModSmall
<1> QED
  BY <1>2, <1>3 DEF Estimated

\* The end of the world is as promised, or there is a reason to give up.
LEMMA FinalizeKeeps ==
    ASSUME IInv, NEW size \in Size, NEW aux \in Aux, NEW crc \in Crc, FinalizeWorld(size, aux, crc)
    PROVE  IInv'
<1> DEFINE target == Estimated(size)
           total == zip.current_offset + CentralDirectorySize(zip) + 4
           out == output \o LastData(target, aux, crc)
           b == TRANSFER_BLOCK_SIZE
<1>1. /\ phase = "rebuilding" /\ file > Len(files)
      /\ announced' = [size |-> size, aux |-> aux, crc |-> crc]
      /\ UNCHANGED <<world, file, data, rolling_hash, chunks, files, zip, crc_hasher>>
      /\ \/ total > target /\ phase' = "too_large" /\ output' = output
         \/ total <= target /\ ~CanEncode(target) /\ phase' = "panicked" /\ output' = output
         \/ total <= target /\ CanEncode(target) /\ phase' = "done" /\ output' = out
  <2>1. total \in Nat /\ target \in Nat
    <3>1. zip.current_offset \in Nat /\ Len(zip.entries) \in Nat
      BY DEF IInv, Written
    <3>2. target \in Nat
      BY EstimatedFacts, AnnouncedAssumption
    <3> QED
      BY <3>1, <3>2
         DEF CentralDirectorySize, CENTRAL_DIRECTORY_ENTRY_SIZE, END_OF_CENTRAL_DIRECTORY_SIZE
  <2> HIDE DEF total, target
  <2>2. ~(total <= target) <=> total > target
    BY <2>1
  <2>3. /\ phase = "rebuilding" /\ file > Len(files)
        /\ announced' = [size |-> size, aux |-> aux, crc |-> crc]
        /\ UNCHANGED <<world, file, data, rolling_hash, chunks, files, zip, crc_hasher>>
        /\ \/ ~(total <= target) /\ phase' = "too_large" /\ output' = output
           \/ total <= target /\ ~CanEncode(target) /\ phase' = "panicked" /\ output' = output
           \/ total <= target /\ CanEncode(target) /\ phase' = "done" /\ output' = out
    BY DEF FinalizeWorld, Fits, total, target
  <2> QED
    BY <2>2, <2>3
<1>2. /\ size \in Nat /\ aux \in Seq(Byte) /\ Len(aux) + b <= U32 /\ crc \in Register
      /\ b \in Nat \ {0} /\ U32 \in Nat
  BY AnnouncedAssumption, WidthAssumption
<1>3. target \in Nat /\ target < U32 /\ (2 * size < U32 => target = 2 * size)
  BY <1>2, EstimatedFacts
<1>4. /\ world \in Worlds /\ Len(files) = Len(world) /\ file \in 1 .. Len(world) + 1
      /\ output \in Seq(Byte)
      /\ zip \in [current_offset : Nat, entries : Seq(Entries)]
      /\ Len(zip.entries) = file - 1 /\ Len(output) = zip.current_offset
      /\ \A i \in 1 .. Len(zip.entries) : InPlace(zip.entries[i], world[i], output, zip.current_offset)
  BY <1>1 DEF IInv, Progress, Written
<1>5. Len(world) \in Nat /\ DOMAIN world = 1 .. Len(world)
  BY <1>4, WorldFacts
<1>6. Len(zip.entries) = Len(world) /\ zip.entries \in Seq(Entries)
  BY <1>1, <1>4, <1>5
<1>7. total \in Nat
  <2>1. zip.current_offset \in Nat /\ Len(zip.entries) \in Nat
    BY <1>4
  <2> QED
    BY <2>1 DEF CentralDirectorySize, CENTRAL_DIRECTORY_ENTRY_SIZE, END_OF_CENTRAL_DIRECTORY_SIZE
<1> HIDE DEF target, out
<1>8. phase' \in {"too_large", "panicked", "done"}
  BY <1>1
<1>9. Progress'
  BY <1>1, <1>4, <1>8 DEF Progress
<1>10. Cut'
  BY <1>1, <1>8 DEF IInv, Cut
<1>11. Described'
  BY <1>1 DEF IInv, Described, FileType, Decoded, IsZlib, Inflated
<1>12. announced'.size = size /\ announced'.aux = aux /\ announced'.crc = crc
  BY <1>1
<1>13. CASE phase' = "too_large" \/ phase' = "panicked"
  <2>1. output' = output /\ (total > target \/ ~CanEncode(target))
    BY <1>1, <1>13
  <2>2. Written'
    BY <1>1, <1>13, <2>1 DEF IInv, Written
  <2>3. ASSUME total <= 2 * size, 2 * size + b - 1 < U32, Len(world) < U16 PROVE FALSE
    <3>1. 2 * size < U32 /\ target = 2 * size
      BY <1>2, <1>3, <2>3
    <3>2. ~CanEncode(target)
      BY <1>3, <1>7, <2>1, <2>3, <3>1
    <3>3. target + b <= U32
      BY <1>2, <2>3, <3>1
    <3>4. Aligned(target) >= target
      BY <1>3, <3>3, BlocksEnough
    <3> QED
      BY <1>6, <2>3, <3>2, <3>4 DEF CanEncode
  <2>4. total > 2 * size \/ 2 * size + b - 1 >= U32 \/ Len(world) >= U16
    BY <1>2, <1>5, <1>7, <2>3, WidthAssumption
  <2>5. FitsIsServed'
    BY <1>1, <1>12, <2>4 DEF FitsIsServed, CentralDirectorySize
  <2>6. ArchiveReadsBack' /\ CrcAsAnnounced' /\ BlocksAsAnnounced'
    BY <1>13 DEF ArchiveReadsBack, CrcAsAnnounced, BlocksAsAnnounced
  <2> QED
    BY <1>9, <1>10, <1>11, <2>2, <2>5, <2>6 DEF IInv
<1>14. CASE phase' = "done"
  <2>1. output' = out /\ total <= target /\ CanEncode(target)
    BY <1>1, <1>14
  <2>2. PICK archive \in Seq(Byte) :
               /\ Len(archive) = target
               /\ Complete(archive, output, zip.entries)
               /\ XorOut(CrcUpdate(InitialCrc, archive \o aux)) = crc
               /\ out \in Seq(Byte) /\ Len(out) = Aligned(target) + Aligned(Len(aux))
               /\ \A k \in 1 .. target : out[k] = archive[k]
               /\ \A k \in 1 .. Len(aux) : out[Aligned(target) + k] = aux[k]
    BY <1>1, <1>2, <1>3, <2>1, LastDataFacts DEF out
  <2>3. Aligned(target) \in Nat /\ Aligned(target) >= target /\ BlockCount(target) = BlocksFor(target)
        /\ BlocksFor(target) \in Nat
    <3>1. Aligned(target) >= target
      BY <2>1 DEF CanEncode
    <3>2. target + b <= U32
      BY <1>3, <3>1, BlocksTooFew
    <3> QED
      BY <1>3, <3>2, BlocksEnough
  <2>4. /\ Aligned(Len(aux)) \in Nat /\ Aligned(Len(aux)) >= Len(aux)
        /\ BlockCount(Len(aux)) = BlocksFor(Len(aux)) /\ BlocksFor(Len(aux)) \in Nat
    <3>1. Len(aux) \in Nat
      BY <1>2
    <3> QED
      BY <1>2, <3>1, BlocksEnough
  <2>5. Estimated(announced'.size) = target
    BY <1>12 DEF target
  <2>6. SubSeq(out, 1, target) = archive
    <3>1. 0 \in Nat /\ 0 + Len(archive) <= Len(out) /\ \A k \in 1 .. Len(archive) : out[0 + k] = archive[k]
      BY <1>3, <2>2, <2>3, <2>4
    <3>2. SubSeq(out, 0 + 1, 0 + Len(archive)) = archive
      BY <2>2, <3>1, PartIs
    <3>3. 0 + 1 = 1 /\ 0 + Len(archive) = target
      BY <1>3, <2>2
    <3> QED
      BY <3>2, <3>3
  <2>7. Archive' = archive
    BY <2>1, <2>5, <2>6 DEF Archive, Estimated
  <2>8. CrcAsAnnounced'
    BY <1>12, <2>2, <2>7 DEF CrcAsAnnounced
  <2>9. BlocksAsAnnounced'
    <3> DEFINE x == BlocksFor(target)
               y == BlocksFor(Len(aux))
    <3>1. Aligned(target) = x * b /\ Aligned(Len(aux)) = y * b
      BY <2>3, <2>4 DEF Aligned
    <3>2. x \in Nat /\ y \in Nat
      BY <2>3, <2>4
    <3> HIDE DEF x, y
    <3>3. Len(out) = (x + y) * b
      BY <1>2, <2>2, <3>1, <3>2
    <3>4. SubSeq(out, x * b + 1, x * b + Len(aux)) = aux
      <4> DEFINE m == x * b
      <4>1. m \in Nat /\ m + Len(aux) <= Len(out) /\ \A k \in 1 .. Len(aux) : out[m + k] = aux[k]
        BY <1>2, <2>2, <2>3, <2>4, <3>1
      <4> HIDE DEF m
      <4>2. SubSeq(out, m + 1, m + Len(aux)) = aux
        BY <1>2, <2>2, <4>1, PartIs
      <4> QED
        BY <4>2 DEF m
    <3> QED
      BY <1>12, <2>1, <2>5, <3>3, <3>4 DEF BlocksAsAnnounced, x, y, BlocksFor, Estimated
  <2>10. ArchiveReadsBack'
    <3> DEFINE es == zip.entries
               read == ReadZip(archive)
    <3>1. \A i \in 1 .. Len(es) : InPlace(es[i], world[i], output, Len(output))
      BY <1>4
    <3>2. es \in Seq(Entries) /\ Len(es) = Len(world) /\ output \in Seq(Byte)
          /\ Complete(archive, output, es) /\ world \in Worlds
      BY <1>4, <1>6, <2>2
    <3> HIDE DEF es
    <3>3. /\ Len(read) = Len(world)
          /\ \A i \in 1 .. Len(world) :
               /\ read[i].valid
               /\ read[i].name = world[i].name
               /\ Decoded(read[i]) = Decoded(world[i])
      BY <3>1, <3>2, ReadsBack
    <3>4. read = ReadZip(Archive)'
      BY <2>7
    <3>5. DOMAIN world = 1 .. Len(world) /\ world' = world
      BY <1>1, <1>5
    <3> HIDE DEF read
    <3> QED
      BY <2>7, <3>3, <3>4, <3>5 DEF ArchiveReadsBack, Decoded, IsZlib, Inflated
  <2>11. Written'
    BY <1>1, <1>14, <2>1, <2>2 DEF IInv, Written
  <2>12. FitsIsServed'
    BY <1>14 DEF FitsIsServed
  <2> QED
    BY <1>9, <1>10, <1>11, <2>8, <2>9, <2>10, <2>11, <2>12 DEF IInv
<1> QED
  BY <1>8, <1>13, <1>14

-----------------------------------------------------------------------------
(* The theorems. *)

\* The invariant is inductive.
LEMMA NextIInv == IInv /\ [Next]_vars => IInv'
<1> SUFFICES ASSUME IInv, [Next]_vars PROVE IInv'
  OBVIOUS
<1>1. CASE OpenFile
  BY <1>1, OpenKeeps
<1>2. CASE TakeChunk
  BY <1>2, TakeKeeps
<1>3. CASE DescribeFile
  BY <1>3, DescribeKeeps
<1>4. CASE BeginRebuild
  BY <1>4, BeginKeeps
<1>5. CASE RebuildFile
  BY <1>5, RebuildKeeps
<1>6. ASSUME NEW size \in Size, NEW aux \in Aux, NEW crc \in Crc, FinalizeWorld(size, aux, crc)
      PROVE  IInv'
  BY <1>6, FinalizeKeeps
<1>7. CASE UNCHANGED vars
  <2>1. /\ world' = world /\ phase' = phase /\ file' = file /\ data' = data
        /\ rolling_hash' = rolling_hash /\ chunks' = chunks /\ files' = files /\ zip' = zip
        /\ crc_hasher' = crc_hasher /\ output' = output /\ announced' = announced
    BY <1>7 DEF vars
  <2>2. Progress'
    BY <2>1 DEF IInv, Progress
  <2>3. Cut'
    BY <2>1 DEF IInv, Cut
  <2>4. Described'
    BY <2>1 DEF IInv, Described
  <2>5. Written'
    BY <2>1 DEF IInv, Written
  <2>6. Archive' = Archive
    BY <2>1 DEF Archive
  <2>7. ArchiveReadsBack' /\ CrcAsAnnounced'
    BY <2>1, <2>6 DEF IInv, ArchiveReadsBack, CrcAsAnnounced
  <2>8. BlocksAsAnnounced' /\ FitsIsServed'
    BY <2>1 DEF IInv, BlocksAsAnnounced, FitsIsServed
  <2> QED
    BY <2>2, <2>3, <2>4, <2>5, <2>7, <2>8 DEF IInv
<1> QED
  BY <1>1, <1>2, <1>3, <1>4, <1>5, <1>6, <1>7 DEF Next

\* It holds in every reachable state.
LEMMA Inductive == Spec => []IInv
BY InitIInv, NextIInv, PTL DEF Spec

\* The state of both halves has its type: what the writer appends is bytes,
\* its sizes, offsets and entry count included, whatever the world is.
THEOREM TypeCorrect == Spec => []TypeOK
<1>1. IInv => TypeOK
  <2> SUFFICES ASSUME IInv PROVE TypeOK
    OBVIOUS
  <2>1. rolling_hash.hash \in 0 .. HashRange - 1 /\ rolling_hash.window_pos \in 0 .. WindowSize - 1
    <3>1. rolling_hash = NewHash
      BY DEF IInv, Cut
    <3>2. NewHash.hash = 0 /\ NewHash.window_pos = 0
      BY DEF NewHash
    <3>3. HashRange \in Nat \ {0} /\ WindowSize \in Nat \ {0}
      BY ChunkerAssumption
    <3> QED
      BY <3>1, <3>2, <3>3
  <2>2. \A i \in DOMAIN chunks : chunks[i] \in Seq(Byte)
    BY DEF IInv, Cut
  <2>3. zip.current_offset \in Nat
    BY DEF IInv, Written
  <2> QED
    BY <2>1, <2>2, <2>3 DEF TypeOK, IInv, Progress, Cut, Described, Written
<1> QED
  BY <1>1, Inductive, PTL

\* A reader that goes by the directory of the rebuilt archive finds the files of
\* the original: deconstruct_world and WorldReconstructor lose nothing, and
\* finalize_world_file writes the directory where its end record says.
THEOREM ReadsBackHolds == Spec => []ArchiveReadsBack
<1>1. IInv => ArchiveReadsBack
  BY DEF IInv
<1> QED
  BY <1>1, Inductive, PTL

\* The archive and the aux data together have the announced CRC, which
\* finalize_world_file asserts (dedup.rs:167).
THEOREM CrcHolds == Spec => []CrcAsAnnounced
<1>1. IInv => CrcAsAnnounced
  BY DEF IInv
<1> QED
  BY <1>1, Inductive, PTL

\* The blocks are as many as the Factorio client asks for, with the aux data at
\* the start of the one after the archive.
THEOREM BlocksHold == Spec => []BlocksAsAnnounced
<1>1. IInv => BlocksAsAnnounced
  BY DEF IInv
<1> QED
  BY <1>1, Inductive, PTL

\* finalize_world_file gives up only on a world that cannot be served.
THEOREM ServedHolds == Spec => []FitsIsServed
<1>1. IInv => FitsIsServed
  BY DEF IInv
<1> QED
  BY <1>1, Inductive, PTL

-----------------------------------------------------------------------------
(* The chunks are those of the content. *)

\* The description of a file has the chunks of its content and no others.
FilesFollowContent ==
    \A i \in 1 .. Len(files) : files[i].content_chunks = ChunksOf(Decoded(world[i]))

\* A chunk is at most MaxChunk and, unless it is the last one, more than MinChunk
\* bytes long.
SizesBounded(cs, ended) ==
    \A i \in 1 .. Len(cs) :
        /\ Len(cs[i]) \in 1 .. MaxChunk
        /\ Len(cs[i]) > MinChunk \/ (ended /\ i = Len(cs))

\* So are the chunks that are sent to the client.
ChunkSizes ==
    /\ SizesBounded(chunks, data = <<>>)
    /\ \A i \in 1 .. Len(files) : SizesBounded(files[i].content_chunks, TRUE)

CInv == ChunksFollowContent /\ FilesFollowContent /\ ChunkSizes

\* Nothing is cut yet.
LEMMA InitCInv == Init => CInv
<1> SUFFICES ASSUME Init PROVE CInv
  OBVIOUS
<1>1. Len(chunks) = 0 /\ Len(files) = 0 /\ phase # "chunking"
  BY DEF Init
<1> QED
  BY <1>1 DEF CInv, ChunksFollowContent, FilesFollowContent, ChunkSizes, SizesBounded

\* A file that is opened is all still to be cut.
LEMMA OpenCuts == ASSUME IInv, CInv, OpenFile PROVE CInv'
<1>1. world \in Worlds /\ file \in 1 .. Len(world)
  BY WorldFacts DEF IInv, Progress, OpenFile
<1>2. Decoded(world[file]) \in Seq(Byte)
  BY <1>1, WorldFacts, FileFacts
<1>3. world' = world /\ files' = files /\ file' = file
  BY DEF OpenFile
<1>4. FilesFollowContent' /\ \A i \in 1 .. Len(files') : SizesBounded(files'[i].content_chunks, TRUE)
  BY <1>3 DEF CInv, FilesFollowContent, ChunkSizes, Decoded, IsZlib, Inflated
<1>5. CASE phase' = "no_zlib"
  <2>1. data' = data /\ chunks' = chunks
    BY <1>5 DEF OpenFile
  <2> QED
    BY <1>4, <1>5, <2>1 DEF CInv, ChunksFollowContent, ChunkSizes
<1>6. CASE phase' = "chunking"
  <2> DEFINE D == Decoded(world[file])
  <2>1. data' = D /\ chunks' = <<>>
    BY <1>6 DEF OpenFile
  <2>2. Decoded(world'[file']) = D
    BY <1>3
  <2> HIDE DEF D
  <2>3. ChunksOf(D) \in Seq(Seq(Byte))
    BY <1>2, ChunksOfType DEF D
  <2>4. ChunksOf(D) = <<>> \o ChunksOf(D)
    <3> DEFINE C == ChunksOf(D)
    <3> HIDE DEF C
    <3>1. C \in Seq(Seq(Byte))
      BY <2>3 DEF C
    <3>2. C = <<>> \o C
      BY <3>1
    <3> QED
      BY <3>2 DEF C
  <2>5. ChunksFollowContent'
    BY <2>1, <2>2, <2>4 DEF ChunksFollowContent
  <2>6. SizesBounded(chunks', data' = <<>>)
    BY <2>1 DEF SizesBounded
  <2> QED
    BY <1>4, <2>5, <2>6 DEF CInv, ChunkSizes
<1> QED
  BY <1>5, <1>6 DEF OpenFile

\* The chunk that is taken is the first of what is left.
LEMMA TakeCuts == ASSUME IInv, CInv, TakeChunk PROVE CInv'
<1> DEFINE n == FirstEnd(data)
           c == SubSeq(data, 1, n)
           rest == After(data, n)
           D == Decoded(world[file])
<1>1. /\ phase = "chunking" /\ data # <<>> /\ phase' = phase
      /\ world' = world /\ files' = files /\ file' = file
  BY DEF TakeChunk
<1>2. data \in Seq(Byte) /\ chunks \in Seq(Seq(Byte)) /\ rolling_hash = NewHash
  BY DEF IInv, Cut
<1>3. NextChunk(rolling_hash, data).size = n
  BY <1>1, <1>2, NextIsFirst
<1>4. chunks' = Append(chunks, c) /\ data' = rest
  BY <1>3 DEF TakeChunk, After
<1>5. n \in 1 .. Len(data) /\ c \in Seq(Byte)
  BY <1>1, <1>2, FirstEndType
<1>6. ChunksOf(rest) \in Seq(Seq(Byte)) /\ ChunksOf(data) = <<c>> \o ChunksOf(rest)
  BY <1>1, <1>2, ChunksStep
<1>7. n <= MaxChunk /\ (n > MinChunk \/ n = Len(data))
  BY <1>1, <1>2, FirstEndBounds
<1>8. Len(c) = n
  <2>1. 1 \in Int /\ n \in Int /\ \A i \in 1 .. n : data[i] \in Byte
    BY <1>2, <1>5
  <2> HIDE DEF n
  <2>2. Len(SubSeq(data, 1, n)) = IF 1 <= n THEN n - 1 + 1 ELSE 0
    BY <2>1, SubSeqProperties
  <2> QED
    BY <1>5, <2>2
<1>9. n = Len(data) => rest = <<>>
  <2>1. n \in 0 .. Len(data) /\ Len(data) \in Nat
    BY <1>2, <1>5
  <2>2. rest \in Seq(Byte) /\ Len(rest) = Len(data) - n
    BY <1>2, <2>1, AfterFacts
  <2> HIDE DEF rest, n
  <2> QED
    BY <2>1, <2>2
<1>10. ChunksOf(D) = chunks \o ChunksOf(data)
  BY <1>1 DEF CInv, ChunksFollowContent
<1> DEFINE R == ChunksOf(rest)
<1> HIDE DEF c, rest, n, R
<1>11. chunks \o (<<c>> \o R) = Append(chunks, c) \o R
  <2>1. <<c>> \in Seq(Seq(Byte)) /\ R \in Seq(Seq(Byte))
    BY <1>5, <1>6 DEF R
  <2>2. chunks \o (<<c>> \o R) = (chunks \o <<c>>) \o R
    BY <1>2, <2>1, AssocChunks
  <2>3. Append(chunks, c) = chunks \o <<c>>
    BY <1>2, <1>5
  <2> QED
    BY <2>2, <2>3
<1>12. ChunksFollowContent'
  <2>1. Decoded(world'[file']) = D
    BY <1>1
  <2>2. ChunksOf(D) = Append(chunks, c) \o R
    BY <1>6, <1>10, <1>11 DEF R
  <2> HIDE DEF D
  <2> QED
    BY <1>4, <2>1, <2>2 DEF ChunksFollowContent, R
<1>13. FilesFollowContent'
  BY <1>1 DEF CInv, FilesFollowContent, Decoded, IsZlib, Inflated
<1>14. SizesBounded(chunks', data' = <<>>)
  <2>1. SizesBounded(chunks, FALSE)
    BY <1>1 DEF CInv, ChunkSizes, SizesBounded
  <2>2. Len(chunks) \in Nat /\ Len(chunks') = Len(chunks) + 1 /\ chunks'[Len(chunks) + 1] = c
        /\ \A i \in 1 .. Len(chunks) : chunks'[i] = chunks[i]
    BY <1>2, <1>4, <1>5
  <2>3. Len(c) \in 1 .. MaxChunk /\ (Len(c) > MinChunk \/ data' = <<>>)
    BY <1>4, <1>5, <1>7, <1>8, <1>9, ChunkerNumbers
  <2> SUFFICES ASSUME NEW i \in 1 .. Len(chunks')
               PROVE  /\ Len(chunks'[i]) \in 1 .. MaxChunk
                      /\ Len(chunks'[i]) > MinChunk \/ (data' = <<>> /\ i = Len(chunks'))
    BY DEF SizesBounded
  <2>4. CASE i = Len(chunks) + 1
    BY <2>2, <2>3, <2>4
  <2>5. CASE i # Len(chunks) + 1
    <3>1. i \in 1 .. Len(chunks)
      BY <2>2, <2>5
    <3> QED
      BY <2>1, <2>2, <3>1 DEF SizesBounded
  <2> QED
    BY <2>4, <2>5
<1>15. \A i \in 1 .. Len(files') : SizesBounded(files'[i].content_chunks, TRUE)
  BY <1>1 DEF CInv, ChunkSizes
<1> QED
  BY <1>12, <1>13, <1>14, <1>15 DEF CInv, ChunkSizes

\* With nothing left, the chunks are those of the content.
LEMMA DescribeCuts == ASSUME IInv, CInv, DescribeFile PROVE CInv'
<1> DEFINE desc == [file_type |-> IF IsZlib(world[file]) THEN "Zlib" ELSE "Normal",
                    file_name |-> world[file].name,
                    content_chunks |-> chunks]
           k == Len(files)
<1>1. /\ phase = "chunking" /\ data = <<>> /\ phase' = "opening" /\ files' = Append(files, desc)
      /\ world' = world /\ chunks' = chunks /\ data' = data
  BY DEF DescribeFile
<1>2. files \in Seq(Descriptions) /\ chunks \in Seq(Seq(Byte)) /\ k = file - 1 /\ file \in Nat
  BY <1>1, WorldFacts DEF IInv, Described, Cut, Progress
<1>3. chunks = ChunksOf(Decoded(world[file]))
  <2>1. ChunksOf(Decoded(world[file])) = chunks \o ChunksOf(data)
    BY <1>1 DEF CInv, ChunksFollowContent
  <2>2. ChunksOf(data) = <<>>
    BY <1>1, ChunksOfNothing
  <2>3. chunks \o <<>> = chunks
    BY <1>2
  <2> QED
    BY <2>1, <2>2, <2>3
<1>4. desc.content_chunks = chunks
  OBVIOUS
<1> HIDE DEF desc
<1>5. k \in Nat /\ Len(files') = k + 1 /\ files'[k + 1] = desc /\ k + 1 = file
      /\ \A i \in 1 .. k : files'[i] = files[i]
  BY <1>1, <1>2
<1> HIDE DEF k
<1>6. \A i \in 1 .. Len(files') : i \in 1 .. k \/ i = file
  BY <1>5
<1>7. \A i \in 1 .. k : files[i].content_chunks = ChunksOf(Decoded(world[i]))
                        /\ SizesBounded(files[i].content_chunks, TRUE)
  BY DEF CInv, FilesFollowContent, ChunkSizes, k
<1>8. FilesFollowContent'
  <2>1. \A i \in 1 .. Len(files') : files'[i].content_chunks = ChunksOf(Decoded(world[i]))
    BY <1>3, <1>4, <1>5, <1>6, <1>7
  <2> QED
    BY <1>1, <2>1 DEF FilesFollowContent, Decoded, IsZlib, Inflated
<1>9. SizesBounded(chunks, data = <<>>)
  BY DEF CInv, ChunkSizes
<1>10. SizesBounded(chunks, TRUE)
  BY <1>1, <1>9 DEF SizesBounded
<1>11. ChunkSizes'
  <2>1. SizesBounded(chunks', data' = <<>>)
    BY <1>1, <1>9
  <2>2. \A i \in 1 .. Len(files') : SizesBounded(files'[i].content_chunks, TRUE)
    BY <1>4, <1>5, <1>6, <1>7, <1>10
  <2> QED
    BY <2>1, <2>2 DEF ChunkSizes
<1>12. ChunksFollowContent'
  BY <1>1 DEF ChunksFollowContent
<1> QED
  BY <1>8, <1>11, <1>12 DEF CInv

\* What no file is opened, cut or described by leaves the chunks alone.
LEMMA LeavesCuts ==
    ASSUME CInv, UNCHANGED <<world, files, chunks, data>>,
           phase' # "chunking" \/ UNCHANGED <<phase, file>>
    PROVE  CInv'
<1>1. world' = world /\ files' = files /\ chunks' = chunks /\ data' = data
  OBVIOUS
<1>2. FilesFollowContent'
  BY <1>1 DEF CInv, FilesFollowContent, Decoded, IsZlib, Inflated
<1>3. ChunkSizes'
  BY <1>1 DEF CInv, ChunkSizes
<1>4. ChunksFollowContent'
  <2>1. CASE phase' # "chunking"
    BY <2>1 DEF ChunksFollowContent
  <2>2. CASE UNCHANGED <<phase, file>>
    <3>1. phase' = phase /\ file' = file
      BY <2>2
    <3> QED
      BY <1>1, <3>1 DEF CInv, ChunksFollowContent
  <2> QED
    BY <2>1, <2>2
<1> QED
  BY <1>2, <1>3, <1>4 DEF CInv

\* The invariant about chunks is inductive, given the first one.
LEMMA NextCInv == IInv /\ CInv /\ [Next]_vars => CInv'
<1> SUFFICES ASSUME IInv, CInv, [Next]_vars PROVE CInv'
  OBVIOUS
<1>1. CASE OpenFile
  BY <1>1, OpenCuts
<1>2. CASE TakeChunk
  BY <1>2, TakeCuts
<1>3. CASE DescribeFile
  BY <1>3, DescribeCuts
<1>4. CASE BeginRebuild
  BY <1>4, LeavesCuts DEF BeginRebuild
<1>5. CASE RebuildFile
  <2>1. phase = "rebuilding" /\ phase' \in {"rebuilding", "entry_too_large"}
        /\ UNCHANGED <<world, files, chunks, data>>
    BY <1>5 DEF RebuildFile
  <2> QED
    BY <2>1, LeavesCuts
<1>6. ASSUME NEW size \in Size, NEW aux \in Aux, NEW crc \in Crc, FinalizeWorld(size, aux, crc)
      PROVE  CInv'
  <2>1. phase' \in {"too_large", "panicked", "done"} /\ UNCHANGED <<world, files, chunks, data>>
    BY <1>6 DEF FinalizeWorld
  <2> QED
    BY <2>1, LeavesCuts
<1>7. CASE UNCHANGED vars
  BY <1>7, LeavesCuts DEF vars
<1> QED
  BY <1>1, <1>2, <1>3, <1>4, <1>5, <1>6, <1>7 DEF Next

\* It holds in every reachable state.
LEMMA CutsInductive == Spec => []CInv
BY InitCInv, NextCInv, Inductive, PTL DEF Spec

\* Where Chunker::next ends a chunk depends on the bytes of that chunk alone,
\* although it comes from a hash that is rolled on byte by byte, over a circular
\* window, in wrapping arithmetic: for any multiplier, window and mask.
THEOREM ChunksHold == Spec => []ChunksFollowContent
<1>1. CInv => ChunksFollowContent
  BY DEF CInv
<1> QED
  BY <1>1, CutsInductive, PTL

\* What deconstruct_world tells the client of a file are the chunks of its
\* content, the same ones for the same content in any world.
THEOREM FilesHold == Spec => []FilesFollowContent
<1>1. CInv => FilesFollowContent
  BY DEF CInv
<1> QED
  BY <1>1, CutsInductive, PTL

\* Every chunk that deconstruct_world makes has from 1 to MaxChunk bytes, and
\* more than MinChunk unless the file ends with it.
THEOREM ChunkSizesHold == Spec => []ChunkSizes
<1>1. CInv => ChunkSizes
  BY DEF CInv
<1> QED
  BY <1>1, CutsInductive, PTL

=============================================================================
