-------------------------- MODULE CacheOrderProofs --------------------------
(***************************************************************************)
(* What the operators of CacheOrder compute, for any keys, sizes and cache *)
(* limit.  The proofs about RawChunkCache, ChunkCache and CacheFile rest   *)
(* on these lemmas.                                                        *)
(*                                                                         *)
(* The induction theorems of the library take an operator, which the       *)
(* provers cannot instantiate; the ones here take a set instead, and come  *)
(* from the fact that a set of numbers has a least element.                *)
(***************************************************************************)
EXTENDS CacheOrder, FiniteSetTheorems, WellFoundedInduction, TLAPS

-----------------------------------------------------------------------------
(* Induction and recursion over numbers and sequences. *)

\* A set of numbers that is not empty has a least element.
LEMMA Least ==
    ASSUME NEW S \in SUBSET Nat, S # {}
    PROVE  \E x \in S : \A y \in S : ~(y < x)
<1>1. PICK x \in S : \A y \in S : <<y, x>> \notin OpToRel(<, Nat)
  BY WFMin, NatLessThanWellFounded
<1> QED
  BY <1>1 DEF OpToRel

\* Induction over numbers.
LEMMA NumberInduction ==
    ASSUME NEW T, 0 \in T, \A n \in Nat : n \in T => n + 1 \in T
    PROVE  Nat \subseteq T
<1> SUFFICES ASSUME Nat \ T # {} PROVE FALSE
  OBVIOUS
<1>1. PICK m \in Nat \ T : \A y \in Nat \ T : ~(y < m)
  BY Least
<1>2. m - 1 \in Nat /\ m - 1 < m
  BY <1>1
<1>3. m - 1 \in T
  BY <1>1, <1>2
<1>4. m - 1 + 1 \in T /\ m - 1 + 1 = m
  BY <1>2, <1>3
<1> QED
  BY <1>1, <1>4

\* A sequence with an entry is its first entry and the rest.
LEMMA HeadAndTail ==
    ASSUME NEW S, NEW s \in Seq(S), s # <<>>
    PROVE  /\ Head(s) \in S /\ Tail(s) \in Seq(S)
           /\ Len(Tail(s)) = Len(s) - 1 /\ Len(s) \in Nat \ {0}
           /\ s = <<Head(s)>> \o Tail(s)
<1>1. Len(s) \in Nat \ {0} /\ Head(s) \in S /\ Tail(s) \in Seq(S) /\ Len(Tail(s)) = Len(s) - 1
  OBVIOUS
<1>2. s = <<Head(s)>> \o Tail(s)
  OBVIOUS
<1> QED
  BY <1>1, <1>2

\* An entry put in front of a sequence.
LEMMA ConsFacts ==
    ASSUME NEW S, NEW e \in S, NEW s \in Seq(S)
    PROVE  /\ <<e>> \o s \in Seq(S) /\ <<e>> \o s # <<>>
           /\ Len(<<e>> \o s) = Len(s) + 1
           /\ Head(<<e>> \o s) = e /\ Tail(<<e>> \o s) = s
<1>1. <<e>> \o s \in Seq(S) /\ Len(<<e>> \o s) = Len(s) + 1
  OBVIOUS
<1>2. <<e>> \o s # <<>>
  BY <1>1
<1>3. Head(<<e>> \o s) = e
  OBVIOUS
<1>4. Tail(<<e>> \o s) = s
  OBVIOUS
<1> QED
  BY <1>1, <1>2, <1>3, <1>4

\* Induction over sequences, from the tail to the whole.
LEMMA SequenceInduction ==
    ASSUME NEW S, NEW T, <<>> \in T,
           \A s \in Seq(S), e \in S : s \in T => <<e>> \o s \in T
    PROVE  Seq(S) \subseteq T
<1> DEFINE N == {n \in Nat : \A s \in Seq(S) : Len(s) = n => s \in T}
<1>1. 0 \in N
  <2>1. \A s \in Seq(S) : Len(s) = 0 => s = <<>>
    OBVIOUS
  <2> QED
    BY <2>1
<1>2. ASSUME NEW n \in Nat, n \in N PROVE n + 1 \in N
  <2> SUFFICES ASSUME NEW s \in Seq(S), Len(s) = n + 1 PROVE s \in T
    OBVIOUS
  <2>1. s # <<>>
    OBVIOUS
  <2>2. Tail(s) \in Seq(S) /\ Len(Tail(s)) = n /\ Head(s) \in S /\ s = <<Head(s)>> \o Tail(s)
    BY <2>1, HeadAndTail
  <2>3. Tail(s) \in T
    BY <1>2, <2>2
  <2> QED
    BY <2>2, <2>3
<1> HIDE DEF N
<1>3. Nat \subseteq N
  BY <1>1, <1>2, NumberInduction
<1> QED
  BY <1>3 DEF N

\* f is defined by recursion over the tail of its argument.
Recursive(f, S, R, base, step) ==
    /\ f \in [Seq(S) -> R]
    /\ f[<<>>] = base
    /\ \A s \in Seq(S) : s # <<>> => f[s] = step[<<Head(s), f[Tail(s)]>>]

\* Such a function exists.
LEMMA SequenceRecursion ==
    ASSUME NEW S, NEW R, NEW base \in R, NEW step \in [S \X R -> R]
    PROVE  \E f : Recursive(f, S, R, base, step)
<1> DEFINE D(n) == {s \in Seq(S) : Len(s) <= n}
           Good(n) == {g \in [D(n) -> R] :
                         /\ g[<<>>] = base
                         /\ \A s \in D(n) : s # <<>> => g[s] = step[<<Head(s), g[Tail(s)]>>]}
           N == {n \in Nat : Good(n) # {}}
<1>1. 0 \in N
  <2> DEFINE g == [s \in D(0) |-> base]
  <2>1. \A s \in D(0) : s = <<>>
    OBVIOUS
  <2>2. <<>> \in D(0)
    OBVIOUS
  <2>3. g \in Good(0)
    BY <2>1, <2>2
  <2> QED
    BY <2>3
<1>2. ASSUME NEW n \in Nat, n \in N PROVE n + 1 \in N
  <2>1. PICK g : g \in Good(n)
    BY <1>2
  <2> DEFINE h == [s \in D(n + 1) |-> IF s = <<>> THEN base ELSE step[<<Head(s), g[Tail(s)]>>]]
  <2>2. ASSUME NEW s \in D(n + 1), s # <<>>
        PROVE  Head(s) \in S /\ Tail(s) \in D(n) /\ g[Tail(s)] \in R
    <3>1. Head(s) \in S /\ Tail(s) \in Seq(S) /\ Len(Tail(s)) = Len(s) - 1 /\ Len(s) \in Nat
      BY <2>2, HeadAndTail
    <3>2. Tail(s) \in D(n)
      BY <3>1
    <3> QED
      BY <2>1, <3>1, <3>2
  <2>3. h \in [D(n + 1) -> R]
    BY <2>2
  <2>4. ASSUME NEW s \in D(n) PROVE s \in D(n + 1) /\ h[s] = g[s]
    <3>1. s \in D(n + 1)
      OBVIOUS
    <3>2. g[s] = IF s = <<>> THEN base ELSE step[<<Head(s), g[Tail(s)]>>]
      BY <2>1
    <3> QED
      BY <3>1, <3>2
  <2>5. <<>> \in D(n + 1) /\ h[<<>>] = base
    OBVIOUS
  <2>6. \A s \in D(n + 1) : s # <<>> => h[s] = step[<<Head(s), h[Tail(s)]>>]
    BY <2>2, <2>4
  <2>7. h \in Good(n + 1)
    BY <2>3, <2>5, <2>6
  <2> HIDE DEF h, D, Good
  <2> QED
    BY <2>7
<1> HIDE DEF N
<1>3. \A n \in Nat : Good(n) # {}
  <2>1. Nat \subseteq N
    BY <1>1, <1>2, NumberInduction
  <2> QED
    BY <2>1 DEF N
<1> HIDE DEF D, Good
\* Two such functions agree where both are defined.
<1>4. ASSUME NEW m \in Nat, NEW n \in Nat, NEW g \in Good(m), NEW h \in Good(n)
      PROVE  \A s \in Seq(S) : s \in D(m) /\ s \in D(n) => g[s] = h[s]
  <2> DEFINE T == {s \in Seq(S) : s \in D(m) /\ s \in D(n) => g[s] = h[s]}
  <2>1. <<>> \in T
    BY DEF Good
  <2>2. ASSUME NEW s \in Seq(S), NEW e \in S, s \in T PROVE <<e>> \o s \in T
    <3> DEFINE c == <<e>> \o s
    <3>1. c \in Seq(S) /\ c # <<>> /\ Len(c) = Len(s) + 1 /\ Head(c) = e /\ Tail(c) = s
      BY ConsFacts
    <3> HIDE DEF c
    <3> SUFFICES ASSUME c \in D(m), c \in D(n) PROVE g[c] = h[c]
      BY <3>1 DEF c
    <3>2. s \in D(m) /\ s \in D(n)
      BY <3>1 DEF D
    <3>3. g[s] = h[s]
      BY <2>2, <3>2
    <3>4. g[c] = step[<<e, g[s]>>] /\ h[c] = step[<<e, h[s]>>]
      BY <3>1 DEF Good
    <3> QED
      BY <3>3, <3>4
  <2> HIDE DEF T
  <2>3. Seq(S) \subseteq T
    BY <2>1, <2>2, SequenceInduction
  <2> QED
    BY <2>3 DEF T
<1> DEFINE G(n) == CHOOSE g : g \in Good(n)
           f == [s \in Seq(S) |-> G(Len(s))[s]]
<1>5. \A n \in Nat : G(n) \in Good(n)
  BY <1>3
<1>6. \A s \in Seq(S) : Len(s) \in Nat /\ s \in D(Len(s))
  BY DEF D
<1> HIDE DEF G
<1>7. f \in [Seq(S) -> R]
  BY <1>5, <1>6 DEF Good
<1>8. <<>> \in Seq(S) /\ f[<<>>] = base
  BY <1>5, <1>6 DEF Good
<1>9. ASSUME NEW s \in Seq(S), s # <<>> PROVE f[s] = step[<<Head(s), f[Tail(s)]>>]
  <2>1. Tail(s) \in Seq(S) /\ Len(Tail(s)) = Len(s) - 1 /\ Len(s) \in Nat \ {0}
    BY <1>9, HeadAndTail
  <2>2. Len(Tail(s)) \in Nat /\ Tail(s) \in D(Len(s)) /\ Tail(s) \in D(Len(Tail(s)))
    BY <2>1 DEF D
  <2>3. G(Len(s))[Tail(s)] = G(Len(Tail(s)))[Tail(s)]
    BY <1>4, <1>5, <2>1, <2>2, ZenonT(30)
  <2>4. G(Len(s))[s] = step[<<Head(s), G(Len(s))[Tail(s)]>>]
    BY <1>5, <1>6, <1>9 DEF Good
  <2> QED
    BY <2>1, <2>3, <2>4
<1> HIDE DEF f
<1>10. Recursive(f, S, R, base, step)
  BY <1>7, <1>8, <1>9 DEF Recursive
<1> QED
  BY <1>10

-----------------------------------------------------------------------------
(* The bytes of an order. *)

\* Bytes adds up the sizes.
LEMMA BytesFacts ==
    /\ Bytes \in [Seq(Key) -> Nat]
    /\ Bytes[<<>>] = 0
    /\ \A e \in Key, s \in Seq(Key) : Bytes[<<e>> \o s] = Size[e] + Bytes[s]
<1> DEFINE Rec(f) == [s \in Seq(Key) |-> IF s = <<>> THEN 0 ELSE Size[Head(s)] + f[Tail(s)]]
           step == [p \in Key \X Nat |-> Size[p[1]] + p[2]]
<1>1. step \in [Key \X Nat -> Nat]
  BY SizeAssumption
<1>2. PICK f : Recursive(f, Key, Nat, 0, step)
  <2> HIDE DEF step
  <2> QED
    BY <1>1, SequenceRecursion
<1>3. f = Rec(f)
  <2>1. ASSUME NEW s \in Seq(Key), s # <<>> PROVE f[s] = Size[Head(s)] + f[Tail(s)]
    <3>1. Head(s) \in Key /\ Tail(s) \in Seq(Key)
      BY <2>1, HeadAndTail
    <3>2. <<Head(s), f[Tail(s)]>> \in Key \X Nat
      BY <1>2, <3>1 DEF Recursive
    <3> QED
      BY <1>2, <2>1, <3>2 DEF Recursive
  <2> QED
    BY <1>2, <2>1 DEF Recursive
<1>4. Bytes = Rec(Bytes)
  <2>1. Bytes = CHOOSE g : g = Rec(g)
    BY DEF Bytes
  <2> HIDE DEF Rec
  <2> QED
    BY <1>3, <2>1
<1>5. <<>> \in Seq(Key) /\ Bytes[<<>>] = 0
  BY <1>4
<1>6. ASSUME NEW e \in Key, NEW s \in Seq(Key) PROVE Bytes[<<e>> \o s] = Size[e] + Bytes[s]
  <2> DEFINE c == <<e>> \o s
  <2>1. c \in Seq(Key) /\ c # <<>> /\ Head(c) = e /\ Tail(c) = s
    BY ConsFacts
  <2> HIDE DEF c
  <2>2. Bytes[c] = Size[Head(c)] + Bytes[Tail(c)]
    BY <1>4, <2>1
  <2> QED
    BY <2>1, <2>2 DEF c
<1>7. \A s \in Seq(Key) : Bytes[s] \in Nat
  <2> DEFINE T == {s \in Seq(Key) : Bytes[s] \in Nat}
  <2>1. <<>> \in T
    BY <1>5
  <2>2. ASSUME NEW s \in Seq(Key), NEW e \in Key, s \in T PROVE <<e>> \o s \in T
    BY <1>6, <2>2, SizeAssumption, ConsFacts
  <2> HIDE DEF T
  <2>3. Seq(Key) \subseteq T
    BY <2>1, <2>2, SequenceInduction
  <2> QED
    BY <2>3 DEF T
<1> QED
  BY <1>4, <1>5, <1>6, <1>7

\* The bytes of two orders, one after the other.
LEMMA BytesConcat ==
    ASSUME NEW s \in Seq(Key), NEW t \in Seq(Key)
    PROVE  s \o t \in Seq(Key) /\ Bytes[s \o t] = Bytes[s] + Bytes[t]
<1> DEFINE T == {x \in Seq(Key) : Bytes[x \o t] = Bytes[x] + Bytes[t]}
<1>1. <<>> \in T
  <2>1. <<>> \o t = t
    OBVIOUS
  <2> QED
    BY <2>1, BytesFacts
<1>2. ASSUME NEW x \in Seq(Key), NEW e \in Key, x \in T PROVE <<e>> \o x \in T
  <2>1. (<<e>> \o x) \o t = <<e>> \o (x \o t) /\ x \o t \in Seq(Key) /\ <<e>> \o x \in Seq(Key)
    OBVIOUS
  <2>2. Bytes[(<<e>> \o x) \o t] = Size[e] + (Bytes[x] + Bytes[t])
    BY <1>2, <2>1, BytesFacts
  <2>3. Bytes[<<e>> \o x] = Size[e] + Bytes[x]
    BY BytesFacts
  <2>4. Size[e] \in Nat /\ Bytes[x] \in Nat /\ Bytes[t] \in Nat
    BY SizeAssumption, BytesFacts
  <2> QED
    BY <2>1, <2>2, <2>3, <2>4
<1> HIDE DEF T
<1>3. Seq(Key) \subseteq T
  BY <1>1, <1>2, SequenceInduction
<1> QED
  BY <1>3 DEF T

\* The bytes of one key.
LEMMA BytesOne ==
    ASSUME NEW k \in Key
    PROVE  <<k>> \in Seq(Key) /\ Bytes[<<k>>] = Size[k] /\ Size[k] \in Nat /\ Size[k] > 0
<1>1. <<k>> \o <<>> = <<k>> /\ <<>> \in Seq(Key) /\ <<k>> \in Seq(Key)
  OBVIOUS
<1>2. Size[k] \in Nat /\ Size[k] > 0
  BY SizeAssumption
<1>3. Bytes[<<k>> \o <<>>] = Size[k] + 0
  BY <1>1, BytesFacts
<1> QED
  BY <1>1, <1>2, <1>3

-----------------------------------------------------------------------------
(* The keys of an order that are in a set. *)

\* Kept decides key by key.
LEMMA KeptSteps ==
    ASSUME NEW K
    PROVE  /\ \A s \in Seq(Key) : Kept(s, K) \in Seq(Key)
           /\ Kept(<<>>, K) = <<>>
           /\ \A e \in Key, s \in Seq(Key) :
                Kept(<<e>> \o s, K) = IF e \in K THEN <<e>> \o Kept(s, K) ELSE Kept(s, K)
<1> DEFINE One(e) == IF e \in K THEN <<e>> ELSE <<>>
           Rec(f) == [s \in Seq(Key) |-> IF s = <<>> THEN <<>>
                                         ELSE One(Head(s)) \o f[Tail(s)]]
           step == [p \in Key \X Seq(Key) |-> One(p[1]) \o p[2]]
           kept == CHOOSE g : g = Rec(g)
<1>1. step \in [Key \X Seq(Key) -> Seq(Key)]
  <2> SUFFICES ASSUME NEW p \in Key \X Seq(Key) PROVE One(p[1]) \o p[2] \in Seq(Key)
    OBVIOUS
  <2>1. p[1] \in Key /\ p[2] \in Seq(Key)
    OBVIOUS
  <2>2. One(p[1]) \in Seq(Key)
    BY <2>1
  <2> QED
    BY <2>1, <2>2
<1>2. PICK f : Recursive(f, Key, Seq(Key), <<>>, step)
  <2> HIDE DEF step
  <2>1. <<>> \in Seq(Key)
    OBVIOUS
  <2> QED
    BY <1>1, <2>1, SequenceRecursion
<1> HIDE DEF One
<1>3. f = Rec(f)
  <2>1. ASSUME NEW s \in Seq(Key), s # <<>> PROVE f[s] = One(Head(s)) \o f[Tail(s)]
    <3>1. Head(s) \in Key /\ Tail(s) \in Seq(Key)
      BY <2>1, HeadAndTail
    <3>2. <<Head(s), f[Tail(s)]>> \in Key \X Seq(Key)
      BY <1>2, <3>1 DEF Recursive
    <3> QED
      BY <1>2, <2>1, <3>2 DEF Recursive
  <2> QED
    BY <1>2, <2>1 DEF Recursive
<1>4. kept = Rec(kept)
  <2> HIDE DEF Rec
  <2> QED
    BY <1>3
<1>5. \A s : Kept(s, K) = kept[s]
  BY DEF Kept, One
<1> HIDE DEF kept
<1>6. <<>> \in Seq(Key) /\ Kept(<<>>, K) = <<>>
  <2>1. <<>> \in Seq(Key)
    OBVIOUS
  <2>2. kept[<<>>] = <<>>
    BY <1>4, <2>1
  <2> QED
    BY <1>5, <2>1, <2>2
<1>7. ASSUME NEW e \in Key, NEW s \in Seq(Key) PROVE Kept(<<e>> \o s, K) = One(e) \o Kept(s, K)
  <2> DEFINE c == <<e>> \o s
  <2>1. c \in Seq(Key) /\ c # <<>> /\ Head(c) = e /\ Tail(c) = s
    BY ConsFacts
  <2> HIDE DEF c
  <2>2. kept[c] = One(Head(c)) \o kept[Tail(c)]
    BY <1>4, <2>1
  <2> QED
    BY <1>5, <2>1, <2>2 DEF c
<1>8. \A s \in Seq(Key) : Kept(s, K) \in Seq(Key)
  <2> DEFINE T == {s \in Seq(Key) : Kept(s, K) \in Seq(Key)}
  <2>1. <<>> \in T
    BY <1>6
  <2>2. ASSUME NEW s \in Seq(Key), NEW e \in Key, s \in T PROVE <<e>> \o s \in T
    <3>1. One(e) \in Seq(Key)
      BY DEF One
    <3>2. One(e) \o Kept(s, K) \in Seq(Key)
      BY <2>2, <3>1
    <3> QED
      BY <1>7, <3>2, ConsFacts
  <2> HIDE DEF T
  <2>3. Seq(Key) \subseteq T
    BY <2>1, <2>2, SequenceInduction
  <2> QED
    BY <2>3 DEF T
<1>9. ASSUME NEW e \in Key, NEW s \in Seq(Key)
      PROVE  Kept(<<e>> \o s, K) = IF e \in K THEN <<e>> \o Kept(s, K) ELSE Kept(s, K)
  <2>1. Kept(s, K) \in Seq(Key) /\ <<>> \o Kept(s, K) = Kept(s, K)
    BY <1>8
  <2> QED
    BY <1>7, <2>1 DEF One
<1> QED
  BY <1>6, <1>8, <1>9

\* The decision about the first key.
LEMMA KeptCons ==
    ASSUME NEW K, NEW e \in Key, NEW s \in Seq(Key)
    PROVE  /\ e \in K => Kept(<<e>> \o s, K) = <<e>> \o Kept(s, K)
           /\ e \notin K => Kept(<<e>> \o s, K) = Kept(s, K)
BY KeptSteps, ZenonT(30)

\* The keys of two orders, one after the other; the concatenation repeats a key
\* when one of them does or when they share one.
LEMMA ConcatFacts ==
    ASSUME NEW s \in Seq(Key), NEW t \in Seq(Key)
    PROVE  /\ s \o t \in Seq(Key)
           /\ Range(s \o t) = Range(s) \cup Range(t)
           /\ IsInjective(s \o t) <=>
                IsInjective(s) /\ IsInjective(t) /\ Range(s) \cap Range(t) = {}
<1> DEFINE both == s \o t
<1>1. /\ both \in Seq(Key)
      /\ Len(both) = Len(s) + Len(t)
      /\ \A i \in 1 .. Len(both) : both[i] = IF i <= Len(s) THEN s[i] ELSE t[i - Len(s)]
  OBVIOUS
<1>2. /\ DOMAIN both = 1 .. Len(both) /\ DOMAIN s = 1 .. Len(s) /\ DOMAIN t = 1 .. Len(t)
      /\ Len(s) \in Nat /\ Len(t) \in Nat
  BY <1>1
<1>3. \A i \in DOMAIN both :
        \/ i \in DOMAIN s /\ both[i] = s[i]
        \/ i > Len(s) /\ i - Len(s) \in DOMAIN t /\ both[i] = t[i - Len(s)]
  BY <1>1, <1>2
<1>4. \A i \in DOMAIN s : i \in DOMAIN both /\ both[i] = s[i]
  BY <1>1, <1>2
<1>5. \A i \in DOMAIN t : Len(s) + i \in DOMAIN both /\ both[Len(s) + i] = t[i]
  BY <1>1, <1>2
<1> HIDE DEF both
<1>6. Range(both) = Range(s) \cup Range(t)
  <2>1. Range(both) \subseteq Range(s) \cup Range(t)
    BY <1>3 DEF Range
  <2>2. Range(s) \subseteq Range(both) /\ Range(t) \subseteq Range(both)
    BY <1>4, <1>5 DEF Range
  <2> QED
    BY <2>1, <2>2
<1>7. ASSUME IsInjective(s), IsInjective(t), Range(s) \cap Range(t) = {}
      PROVE  IsInjective(both)
  <2> SUFFICES ASSUME NEW i \in DOMAIN both, NEW j \in DOMAIN both, both[i] = both[j]
               PROVE  i = j
    BY DEF IsInjective
  <2>0. \A x \in DOMAIN s, y \in DOMAIN t : s[x] # t[y]
    BY <1>7 DEF Range
  <2>1. CASE i \in DOMAIN s /\ j \in DOMAIN s /\ both[i] = s[i] /\ both[j] = s[j]
    BY <1>7, <2>1 DEF IsInjective
  <2>2. CASE /\ i > Len(s) /\ i - Len(s) \in DOMAIN t /\ both[i] = t[i - Len(s)]
             /\ j > Len(s) /\ j - Len(s) \in DOMAIN t /\ both[j] = t[j - Len(s)]
    <3>1. i - Len(s) = j - Len(s)
      BY <1>7, <2>2 DEF IsInjective
    <3> QED
      BY <1>2, <3>1
  <2> QED
    BY <1>3, <2>0, <2>1, <2>2
<1>8. ASSUME IsInjective(both)
      PROVE  IsInjective(s) /\ IsInjective(t) /\ Range(s) \cap Range(t) = {}
  <2>1. IsInjective(s)
    BY <1>4, <1>8 DEF IsInjective
  <2>2. IsInjective(t)
    <3> SUFFICES ASSUME NEW i \in DOMAIN t, NEW j \in DOMAIN t, t[i] = t[j] PROVE i = j
      BY DEF IsInjective
    <3>1. Len(s) + i = Len(s) + j
      BY <1>5, <1>8 DEF IsInjective
    <3> QED
      BY <1>2, <3>1
  <2>3. ASSUME NEW i \in DOMAIN s, NEW j \in DOMAIN t PROVE s[i] # t[j]
    <3>1. i # Len(s) + j
      BY <1>2
    <3> QED
      BY <1>4, <1>5, <1>8, <3>1 DEF IsInjective
  <2>4. Range(s) \cap Range(t) = {}
    BY <2>3 DEF Range
  <2> QED
    BY <2>1, <2>2, <2>4
<1> QED
  BY <1>1, <1>6, <1>7, <1>8 DEF both

\* The order of one key, and the empty one.
LEMMA SmallOrders ==
    /\ <<>> \in Seq(Key) /\ Range(<<>>) = {} /\ IsInjective(<<>>)
    /\ \A e \in Key : <<e>> \in Seq(Key) /\ Range(<<e>>) = {e} /\ IsInjective(<<e>>)
<1>1. <<>> \in Seq(Key) /\ DOMAIN <<>> = {}
  OBVIOUS
<1>2. Range(<<>>) = {} /\ IsInjective(<<>>)
  BY <1>1 DEF Range, IsInjective
<1>3. ASSUME NEW e \in Key PROVE <<e>> \in Seq(Key) /\ Range(<<e>>) = {e} /\ IsInjective(<<e>>)
  <2>1. <<e>> \in Seq(Key) /\ DOMAIN <<e>> = {1} /\ <<e>>[1] = e
    OBVIOUS
  <2> QED
    BY <2>1 DEF Range, IsInjective
<1> QED
  BY <1>1, <1>2, <1>3

\* A key put in front of an order.
LEMMA ConsOrder ==
    ASSUME NEW e \in Key, NEW s \in Seq(Key)
    PROVE  /\ <<e>> \o s \in Seq(Key)
           /\ Range(<<e>> \o s) = {e} \cup Range(s)
           /\ IsInjective(<<e>> \o s) <=> IsInjective(s) /\ e \notin Range(s)
<1>1. <<e>> \in Seq(Key) /\ Range(<<e>>) = {e} /\ IsInjective(<<e>>)
  BY SmallOrders
<1> DEFINE one == <<e>>
<1> HIDE DEF one
<1>2. one \in Seq(Key) /\ Range(one) = {e} /\ IsInjective(one)
  BY <1>1 DEF one
<1>3. /\ one \o s \in Seq(Key) /\ Range(one \o s) = Range(one) \cup Range(s)
      /\ IsInjective(one \o s) <=>
           IsInjective(one) /\ IsInjective(s) /\ Range(one) \cap Range(s) = {}
  BY <1>2, ConcatFacts
<1>4. Range(one) \cap Range(s) = {} <=> e \notin Range(s)
  BY <1>2
<1> QED
  BY <1>2, <1>3, <1>4 DEF one

\* Kept has the keys of s that are in K, repeats none that s does not repeat,
\* and holds no more bytes.
LEMMA KeptFacts ==
    ASSUME NEW K, NEW s \in Seq(Key)
    PROVE  /\ Kept(s, K) \in Seq(Key)
           /\ Range(Kept(s, K)) = Range(s) \cap K
           /\ IsInjective(s) => IsInjective(Kept(s, K))
           /\ Bytes[Kept(s, K)] <= Bytes[s]
<1> DEFINE P(x) == /\ Range(Kept(x, K)) = Range(x) \cap K
                   /\ IsInjective(x) => IsInjective(Kept(x, K))
                   /\ Bytes[Kept(x, K)] <= Bytes[x]
           T == {x \in Seq(Key) : P(x)}
<1>1. <<>> \in T
  <2>1. Kept(<<>>, K) = <<>>
    BY KeptSteps
  <2>2. <<>> \in Seq(Key) /\ Range(<<>>) = {} /\ Bytes[<<>>] = 0
    BY SmallOrders, BytesFacts
  <2>3. P(<<>>)
    BY <2>1, <2>2
  <2> HIDE DEF P
  <2> QED
    BY <2>2, <2>3
<1>2. ASSUME NEW x \in Seq(Key), NEW e \in Key, x \in T PROVE <<e>> \o x \in T
  <2> DEFINE c == <<e>> \o x
             y == Kept(x, K)
  <2>1. y \in Seq(Key)
    BY KeptSteps
  <2>2. /\ c \in Seq(Key) /\ Range(c) = {e} \cup Range(x)
        /\ IsInjective(c) <=> IsInjective(x) /\ e \notin Range(x)
    BY ConsOrder
  <2>3. Bytes[c] = Size[e] + Bytes[x] /\ Size[e] \in Nat /\ Bytes[x] \in Nat /\ Bytes[y] \in Nat
    BY <2>1, BytesFacts, SizeAssumption
  <2>4. Kept(c, K) = IF e \in K THEN <<e>> \o y ELSE y
    BY KeptSteps, ZenonT(30)
  <2>5. Range(y) = Range(x) \cap K /\ (IsInjective(x) => IsInjective(y)) /\ Bytes[y] <= Bytes[x]
    BY <1>2
  <2>6. CASE e \in K
    <3>1. /\ Range(<<e>> \o y) = {e} \cup Range(y)
          /\ IsInjective(<<e>> \o y) <=> IsInjective(y) /\ e \notin Range(y)
      BY <2>1, ConsOrder
    <3>2. Bytes[<<e>> \o y] = Size[e] + Bytes[y]
      BY <2>1, BytesFacts
    <3>3. Bytes[<<e>> \o y] <= Bytes[c]
      BY <2>3, <2>5, <3>2
    <3> HIDE DEF c, y
    <3>4. Kept(c, K) = <<e>> \o y
      BY <2>4, <2>6
    <3>5. Range(Kept(c, K)) = Range(c) \cap K
      BY <2>2, <2>5, <2>6, <3>1, <3>4
    <3>6. IsInjective(c) => IsInjective(Kept(c, K))
      BY <2>2, <2>5, <3>1, <3>4
    <3> QED
      BY <2>2, <3>3, <3>4, <3>5, <3>6 DEF c
  <2>7. CASE e \notin K
    <3>1. Bytes[y] <= Bytes[c]
      BY <2>3, <2>5
    <3> HIDE DEF c, y
    <3>2. Kept(c, K) = y
      BY <2>4, <2>7
    <3> QED
      BY <2>2, <2>5, <2>7, <3>1, <3>2 DEF c
  <2> QED
    BY <2>6, <2>7
<1> HIDE DEF T
<1>3. Seq(Key) \subseteq T
  BY <1>1, <1>2, SequenceInduction
<1> QED
  BY <1>3, KeptSteps DEF T

\* Nothing is left out when every key is in K.
LEMMA KeptAll ==
    ASSUME NEW K, NEW s \in Seq(Key), Range(s) \subseteq K
    PROVE  Kept(s, K) = s
<1> DEFINE T == {x \in Seq(Key) : Range(x) \subseteq K => Kept(x, K) = x}
<1>1. <<>> \in T
  BY KeptSteps, SmallOrders
<1>2. ASSUME NEW x \in Seq(Key), NEW e \in Key, x \in T PROVE <<e>> \o x \in T
  <2>1. <<e>> \o x \in Seq(Key) /\ Range(<<e>> \o x) = {e} \cup Range(x)
    BY ConsOrder
  <2> SUFFICES ASSUME Range(<<e>> \o x) \subseteq K PROVE Kept(<<e>> \o x, K) = <<e>> \o x
    BY <2>1
  <2>2. e \in K /\ Kept(x, K) = x
    BY <1>2, <2>1
  <2> QED
    BY <2>2, KeptCons
<1> HIDE DEF T
<1>3. Seq(Key) \subseteq T
  BY <1>1, <1>2, SequenceInduction
<1> QED
  BY <1>3 DEF T

\* Two orders, one after the other, are gone through one after the other.
LEMMA KeptConcat ==
    ASSUME NEW K, NEW s \in Seq(Key), NEW t \in Seq(Key)
    PROVE  Kept(s \o t, K) = Kept(s, K) \o Kept(t, K)
<1> DEFINE T == {x \in Seq(Key) : Kept(x \o t, K) = Kept(x, K) \o Kept(t, K)}
<1>0. Kept(t, K) \in Seq(Key)
  BY KeptSteps
<1>1. <<>> \in T
  <2>1. <<>> \o t = t /\ <<>> \o Kept(t, K) = Kept(t, K)
    BY <1>0
  <2> QED
    BY <2>1, KeptSteps, SmallOrders
<1>2. ASSUME NEW x \in Seq(Key), NEW e \in Key, x \in T PROVE <<e>> \o x \in T
  <2> DEFINE u == x \o t
             y == Kept(x, K)
             z == Kept(t, K)
  <2>1. (<<e>> \o x) \o t = <<e>> \o u /\ u \in Seq(Key) /\ <<e>> \o x \in Seq(Key)
    OBVIOUS
  <2>2. Kept(u, K) = y \o z
    BY <1>2
  <2>3. y \in Seq(Key) /\ z \in Seq(Key)
    BY KeptSteps
  <2>4. Kept(<<e>> \o x, K) = IF e \in K THEN <<e>> \o y ELSE y
    BY KeptCons
  <2> HIDE DEF u, y, z
  <2>5. Kept(<<e>> \o u, K) = IF e \in K THEN <<e>> \o (y \o z) ELSE y \o z
    BY <2>1, <2>2, KeptCons
  <2>6. <<e>> \o (y \o z) = (<<e>> \o y) \o z
    BY <2>3
  <2>7. Kept(<<e>> \o u, K) = Kept(<<e>> \o x, K) \o z
    BY <2>4, <2>5, <2>6
  <2> QED
    BY <2>1, <2>7 DEF z
<1> HIDE DEF T
<1>3. Seq(Key) \subseteq T
  BY <1>1, <1>2, SequenceInduction
<1> QED
  BY <1>3 DEF T

\* Keeping twice is keeping what is in both sets.
LEMMA KeptTwice ==
    ASSUME NEW K, NEW L, NEW s \in Seq(Key)
    PROVE  Kept(Kept(s, K), L) = Kept(s, K \cap L)
<1> DEFINE T == {x \in Seq(Key) : Kept(Kept(x, K), L) = Kept(x, K \cap L)}
<1>1. <<>> \in T
  BY KeptSteps, SmallOrders
<1>2. ASSUME NEW x \in Seq(Key), NEW e \in Key, x \in T PROVE <<e>> \o x \in T
  <2> DEFINE y == Kept(x, K)
  <2>1. y \in Seq(Key) /\ <<e>> \o x \in Seq(Key)
    BY KeptSteps, ConsOrder
  <2>2. Kept(y, L) = Kept(x, K \cap L)
    BY <1>2
  <2>3. (e \in K => Kept(<<e>> \o x, K) = <<e>> \o y) /\ (e \notin K => Kept(<<e>> \o x, K) = y)
    BY KeptCons
  <2> HIDE DEF y
  <2>4. /\ e \in L => Kept(<<e>> \o y, L) = <<e>> \o Kept(y, L)
        /\ e \notin L => Kept(<<e>> \o y, L) = Kept(y, L)
    BY <2>1, KeptCons
  <2>5. /\ e \in K \cap L => Kept(<<e>> \o x, K \cap L) = <<e>> \o Kept(x, K \cap L)
        /\ e \notin K \cap L => Kept(<<e>> \o x, K \cap L) = Kept(x, K \cap L)
    BY KeptCons
  <2>6. Kept(Kept(<<e>> \o x, K), L) = Kept(<<e>> \o x, K \cap L)
    <3>1. CASE e \in K /\ e \in L
      BY <2>2, <2>3, <2>4, <2>5, <3>1
    <3>2. CASE e \in K /\ e \notin L
      BY <2>2, <2>3, <2>4, <2>5, <3>2
    <3>3. CASE e \notin K
      BY <2>2, <2>3, <2>5, <3>3
    <3> QED
      BY <3>1, <3>2, <3>3
  <2> QED
    BY <2>1, <2>6
<1> HIDE DEF T
<1>3. Seq(Key) \subseteq T
  BY <1>1, <1>2, SequenceInduction
<1> QED
  BY <1>3 DEF T

\* Taking one key out of an order that does not repeat it.
LEMMA BytesDropped ==
    ASSUME NEW k \in Key, NEW s \in Seq(Key), IsInjective(s)
    PROVE  Bytes[s] = Bytes[Kept(s, Key \ {k})] + (IF k \in Range(s) THEN Size[k] ELSE 0)
<1> DEFINE K == Key \ {k}
           Gone(x) == IF k \in Range(x) THEN Size[k] ELSE 0
           T == {x \in Seq(Key) : IsInjective(x) => Bytes[x] = Bytes[Kept(x, K)] + Gone(x)}
<1>1. <<>> \in T
  <2>1. Kept(<<>>, K) = <<>> /\ <<>> \in Seq(Key) /\ Gone(<<>>) = 0 /\ Bytes[<<>>] = 0
    BY KeptSteps, SmallOrders, BytesFacts
  <2> HIDE DEF Gone
  <2> QED
    BY <2>1
<1>2. ASSUME NEW x \in Seq(Key), NEW e \in Key, x \in T PROVE <<e>> \o x \in T
  <2> DEFINE c == <<e>> \o x
             y == Kept(x, K)
  <2>1. /\ c \in Seq(Key) /\ Range(c) = {e} \cup Range(x)
        /\ IsInjective(c) <=> IsInjective(x) /\ e \notin Range(x)
    BY ConsOrder
  <2>2. y \in Seq(Key) /\ Kept(c, K) = IF e \in K THEN <<e>> \o y ELSE y
    BY KeptSteps, ZenonT(30)
  <2>3. /\ Bytes[c] = Size[e] + Bytes[x] /\ Bytes[<<e>> \o y] = Size[e] + Bytes[y]
        /\ Size[e] \in Nat /\ Size[k] \in Nat /\ Bytes[x] \in Nat /\ Bytes[y] \in Nat
    BY <2>2, BytesFacts, SizeAssumption
  <2> SUFFICES ASSUME IsInjective(c) PROVE Bytes[c] = Bytes[Kept(c, K)] + Gone(c)
    BY <2>1
  <2>4. IsInjective(x) /\ e \notin Range(x)
    BY <2>1
  <2>5. Bytes[x] = Bytes[y] + Gone(x)
    BY <1>2, <2>4
  <2> HIDE DEF c, y
  <2>6. CASE e = k
    <3>1. Kept(c, K) = y /\ Gone(c) = Size[k] /\ Gone(x) = 0
      BY <2>1, <2>2, <2>4, <2>6
    <3> HIDE DEF Gone
    <3> QED
      BY <2>3, <2>5, <2>6, <3>1
  <2>7. CASE e # k
    <3>1. Kept(c, K) = <<e>> \o y /\ Gone(c) = Gone(x) /\ Gone(x) \in Nat
      BY <2>1, <2>2, <2>3, <2>7
    <3> HIDE DEF Gone
    <3>2. Bytes[Kept(c, K)] = Size[e] + Bytes[y]
      BY <2>3, <3>1
    <3> QED
      BY <2>3, <2>5, <3>1, <3>2
  <2> QED
    BY <2>6, <2>7
<1> HIDE DEF T
<1>3. Seq(Key) \subseteq T
  BY <1>1, <1>2, SequenceInduction
<1> QED
  BY <1>3 DEF T

-----------------------------------------------------------------------------
(* Eviction. *)

\* The evicted positions are finitely many.
LEMMA EvictedFinite ==
    ASSUME NEW max \in Nat, NEW s \in Seq(Key)
    PROVE  /\ IsFiniteSet(Evicted(s, max))
           /\ Cardinality(Evicted(s, max)) \in 0 .. Len(s)
<1>1. Len(s) \in Nat
  OBVIOUS
<1>2. IsFiniteSet(1 .. Len(s)) /\ Cardinality(1 .. Len(s)) = Len(s)
  BY <1>1, FS_Interval
<1>3. Evicted(s, max) \in SUBSET (1 .. Len(s))
  BY DEF Evicted
<1>4. IsFiniteSet(Evicted(s, max)) /\ Cardinality(Evicted(s, max)) <= Len(s)
  BY <1>2, <1>3, FS_Subset
<1>5. Cardinality(Evicted(s, max)) \in Nat
  BY <1>4, FS_CardinalityType
<1> QED
  BY <1>1, <1>4, <1>5

\* An order that is within the limit stays as it is.
LEMMA FitWithin ==
    ASSUME NEW max \in Nat, NEW s \in Seq(Key), Bytes[s] <= max
    PROVE  Fit(s, max) = s
<1>1. ASSUME NEW i \in 1 .. Len(s) PROVE Bytes[SubSeq(s, i, Len(s))] <= max
  <2> DEFINE old == SubSeq(s, 1, i - 1)
             new == SubSeq(s, i, Len(s))
  <2>1. old \in Seq(Key) /\ new \in Seq(Key) /\ s = old \o new
    OBVIOUS
  <2> HIDE DEF old, new
  <2>2. Bytes[s] = Bytes[old] + Bytes[new]
    BY <2>1, BytesConcat
  <2>3. Bytes[old] \in Nat /\ Bytes[new] \in Nat
    BY <2>1, BytesFacts
  <2> QED
    BY <2>2, <2>3 DEF new
<1>2. Evicted(s, max) = {}
  <2> SUFFICES ASSUME NEW i \in 1 .. Len(s), Bytes[SubSeq(s, i, Len(s))] > max PROVE FALSE
    BY DEF Evicted
  <2>1. SubSeq(s, i, Len(s)) \in Seq(Key)
    OBVIOUS
  <2>2. Bytes[SubSeq(s, i, Len(s))] \in Nat
    BY <2>1, BytesFacts
  <2> QED
    BY <1>1, <2>2
<1>3. Cardinality(Evicted(s, max)) + 1 = 1
  BY <1>2, FS_EmptySet
<1>4. SubSeq(s, 1, Len(s)) = s
  OBVIOUS
<1> QED
  BY <1>3, <1>4 DEF Fit

\* The oldest entry of an order that is over the limit goes.
LEMMA FitOver ==
    ASSUME NEW max \in Nat, NEW e \in Key, NEW s \in Seq(Key), Bytes[<<e>> \o s] > max
    PROVE  Fit(<<e>> \o s, max) = Fit(s, max)
<1> DEFINE c == <<e>> \o s
           E == Evicted(s, max)
           up == [i \in E |-> i + 1]
           F == {i + 1 : i \in E}
<1>1. c \in Seq(Key) /\ Len(c) = Len(s) + 1 /\ Len(s) \in Nat
  BY ConsFacts
<1>2. SubSeq(c, 1, Len(c)) = c /\ Bytes[c] > max
  BY <1>1
<1>3. \A i \in 1 .. Len(s) + 1 : SubSeq(c, i + 1, Len(c)) = SubSeq(s, i, Len(s))
  <2> SUFFICES ASSUME NEW i \in 1 .. Len(s) + 1
               PROVE  SubSeq(c, i + 1, Len(c)) = SubSeq(s, i, Len(s))
    OBVIOUS
  <2> QED
    BY <1>1
<1> HIDE DEF c
<1>4. E \subseteq 1 .. Len(s) /\ IsFiniteSet(E) /\ Cardinality(E) \in 0 .. Len(s)
  BY EvictedFinite DEF Evicted
<1>5. Evicted(c, max) = F \cup {1}
  <2>1. ASSUME NEW i \in Evicted(c, max) PROVE i \in F \cup {1}
    <3>1. i \in 1 .. Len(s) + 1 /\ Bytes[SubSeq(c, i, Len(c))] > max
      BY <1>1 DEF Evicted
    <3>2. CASE i # 1
      <4>1. i - 1 \in 1 .. Len(s) /\ i = i - 1 + 1
        BY <1>1, <3>1, <3>2
      <4>2. PICK j \in 1 .. Len(s) : i = j + 1
        BY <4>1
      <4>a. SubSeq(c, i, Len(c)) = SubSeq(s, j, Len(s))
        BY <1>1, <1>3, <4>2
      <4>b. Bytes[SubSeq(s, j, Len(s))] > max
        BY <3>1, <4>a
      <4>3. j \in E
        BY <4>b DEF Evicted
      <4> QED
        BY <4>2, <4>3
    <3> QED
      BY <3>2
  <2>2. ASSUME NEW i \in E PROVE i + 1 \in Evicted(c, max)
    <3>1. i \in 1 .. Len(s) /\ Bytes[SubSeq(s, i, Len(s))] > max
      BY DEF Evicted
    <3>2. i + 1 \in 1 .. Len(c) /\ SubSeq(c, i + 1, Len(c)) = SubSeq(s, i, Len(s))
      BY <1>1, <1>3, <3>1
    <3> QED
      BY <3>1, <3>2 DEF Evicted
  <2>3. 1 \in Evicted(c, max)
    <3>1. 1 \in 1 .. Len(c)
      BY <1>1
    <3>2. Bytes[SubSeq(c, 1, Len(c))] > max
      BY <1>2, Zenon
    <3> QED
      BY <3>1, <3>2 DEF Evicted
  <2> QED
    BY <2>1, <2>2, <2>3
<1> HIDE DEF E
<1>6. Cardinality(F) = Cardinality(E) /\ IsFiniteSet(F)
  <2>1. up \in [E -> F]
    OBVIOUS
  <2>2. ASSUME NEW i \in E, NEW j \in E, up[i] = up[j] PROVE i = j
    BY <1>1, <1>4, <2>2
  <2>3. \A j \in F : \E i \in E : up[i] = j
    OBVIOUS
  <2> HIDE DEF up, F
  <2>4. up \in Bijection(E, F)
    BY <2>1, <2>2, <2>3 DEF Bijection, Injection, IsInjective, Surjection
  <2> QED
    BY <1>4, <2>4, FS_Bijection DEF ExistsBijection
<1>7. 1 \notin F
  BY <1>1, <1>4
<1> HIDE DEF F
<1>8. Cardinality(Evicted(c, max)) = Cardinality(E) + 1
  BY <1>5, <1>6, <1>7, FS_AddElement
<1>9. SubSeq(c, Cardinality(E) + 1 + 1, Len(c)) = SubSeq(s, Cardinality(E) + 1, Len(s))
  <2>1. Cardinality(E) + 1 \in 1 .. Len(s) + 1
    BY <1>1, <1>4
  <2> QED
    BY <1>3, <2>1
<1> QED
  BY <1>8, <1>9 DEF Fit, E, c

\* Whatever is older than entries that are over the limit goes.
LEMMA FitDrops ==
    ASSUME NEW max \in Nat, NEW a \in Seq(Key), NEW b \in Seq(Key), Bytes[b] > max
    PROVE  Fit(a \o b, max) = Fit(b, max)
<1> DEFINE T == {x \in Seq(Key) : Fit(x \o b, max) = Fit(b, max)}
<1>1. <<>> \in T
  BY SmallOrders
<1>2. ASSUME NEW x \in Seq(Key), NEW e \in Key, x \in T PROVE <<e>> \o x \in T
  <2> DEFINE u == x \o b
  <2>1. (<<e>> \o x) \o b = <<e>> \o u /\ u \in Seq(Key) /\ <<e>> \o x \in Seq(Key)
    OBVIOUS
  <2>2. Bytes[u] = Bytes[x] + Bytes[b] /\ Bytes[x] \in Nat /\ Bytes[b] \in Nat
    BY BytesConcat, BytesFacts
  <2> HIDE DEF u
  <2>3. Bytes[<<e>> \o u] = Size[e] + Bytes[u] /\ Size[e] \in Nat
    BY <2>1, BytesFacts, SizeAssumption
  <2>4. Bytes[<<e>> \o u] > max
    BY <2>2, <2>3
  <2>5. Fit(<<e>> \o u, max) = Fit(u, max)
    BY <2>1, <2>4, FitOver
  <2>6. Fit(u, max) = Fit(b, max)
    BY <1>2 DEF u
  <2> QED
    BY <2>1, <2>5, <2>6
<1> HIDE DEF T
<1>3. Seq(Key) \subseteq T
  BY <1>1, <1>2, SequenceInduction
<1> QED
  BY <1>3 DEF T

\* s is a run b of newest entries within the limit, after a run a of older
\* entries whose newest does not fit any more.
Splits(s, a, b, max) ==
    /\ a \in Seq(Key) /\ b \in Seq(Key)
    /\ s = a \o b
    /\ Bytes[b] <= max
    /\ \/ a = <<>>
       \/ \E old \in Seq(Key), k \in Key : a = old \o <<k>> /\ Size[k] + Bytes[b] > max

\* Fit is the longest run of newest entries that fits.
LEMMA FitSplits ==
    ASSUME NEW max \in Nat, NEW s \in Seq(Key)
    PROVE  \E a, b : Splits(s, a, b, max) /\ Fit(s, max) = b
<1> DEFINE T == {x \in Seq(Key) : \E a, b : Splits(x, a, b, max) /\ Fit(x, max) = b}
<1>s. ASSUME NEW x \in Seq(Key), NEW a, NEW b, Splits(x, a, b, max), Fit(x, max) = b PROVE x \in T
  BY <1>s
<1>0. ASSUME NEW x \in Seq(Key), Bytes[x] <= max PROVE x \in T
  <2>1. <<>> \o x = x /\ <<>> \in Seq(Key)
    OBVIOUS
  <2>2. Splits(x, <<>>, x, max)
    BY <1>0, <2>1 DEF Splits
  <2> QED
    BY <1>0, <2>2, FitWithin
<1>1. <<>> \in T
  <2>1. <<>> \in Seq(Key) /\ Bytes[<<>>] <= max
    BY SmallOrders, BytesFacts
  <2> QED
    BY <1>0, <2>1
<1>2. ASSUME NEW x \in Seq(Key), NEW e \in Key, x \in T PROVE <<e>> \o x \in T
  <2> DEFINE c == <<e>> \o x
  <2>1. c \in Seq(Key) /\ Bytes[c] = Size[e] + Bytes[x] /\ Bytes[c] \in Nat
    BY ConsOrder, BytesFacts
  <2> SUFFICES c \in T
    OBVIOUS
  <2>2. CASE Bytes[c] <= max
    BY <1>0, <2>1, <2>2
  <2>3. CASE Bytes[c] > max
    <3>1. PICK a, b : Splits(x, a, b, max) /\ Fit(x, max) = b
      BY <1>2
    <3>2. Fit(c, max) = b
      BY <2>3, <3>1, FitOver
    <3>3. a \in Seq(Key) /\ b \in Seq(Key) /\ x = a \o b /\ Bytes[b] <= max
      BY <3>1 DEF Splits
    <3>4. <<e>> \o a \in Seq(Key) /\ c = (<<e>> \o a) \o b
      BY <3>3
    <3>5. CASE a = <<>>
      <4>1. x = b /\ <<e>> \o a = <<>> \o <<e>> /\ <<>> \in Seq(Key)
        BY <3>3, <3>5
      <4>2. Size[e] + Bytes[b] > max
        BY <2>1, <2>3, <4>1
      <4> HIDE DEF c
      <4>3. Splits(c, <<e>> \o a, b, max)
        BY <3>3, <3>4, <4>1, <4>2 DEF Splits
      <4> QED
        BY <1>s, <2>1, <3>2, <4>3
    <3>6. ASSUME NEW old \in Seq(Key), NEW k \in Key,
                 a = old \o <<k>>, Size[k] + Bytes[b] > max
          PROVE  c \in T
      <4>1. <<e>> \o old \in Seq(Key) /\ <<e>> \o a = (<<e>> \o old) \o <<k>>
        BY <3>6
      <4> HIDE DEF c
      <4>2. Splits(c, <<e>> \o a, b, max)
        BY <3>3, <3>4, <3>6, <4>1 DEF Splits
      <4> QED
        BY <1>s, <2>1, <3>2, <4>2
    <3>7. \/ a = <<>>
          \/ \E old \in Seq(Key), k \in Key : a = old \o <<k>> /\ Size[k] + Bytes[b] > max
      BY <3>1 DEF Splits
    <3> HIDE DEF c, T
    <3> QED
      BY <3>5, <3>6, <3>7
  <2> QED
    BY <2>1, <2>2, <2>3
<1> HIDE DEF T
<1>3. Seq(Key) \subseteq T
  BY <1>1, <1>2, SequenceInduction
<1> QED
  BY <1>3 DEF T

\* Eviction keeps a run of the entries, in their order, that is within the
\* limit: it invents no key and repeats none.
LEMMA FitKeeps ==
    ASSUME NEW max \in Nat, NEW s \in Seq(Key)
    PROVE  /\ Fit(s, max) \in Seq(Key)
           /\ Range(Fit(s, max)) \subseteq Range(s)
           /\ IsInjective(s) => IsInjective(Fit(s, max))
           /\ Bytes[Fit(s, max)] <= max
<1>1. PICK a, b : Splits(s, a, b, max) /\ Fit(s, max) = b
  BY FitSplits
<1>2. a \in Seq(Key) /\ b \in Seq(Key) /\ s = a \o b /\ Bytes[b] <= max
  BY <1>1 DEF Splits
<1>3. Range(s) = Range(a) \cup Range(b) /\ (IsInjective(s) => IsInjective(b))
  BY <1>2, ConcatFacts
<1> QED
  BY <1>1, <1>2, <1>3

-----------------------------------------------------------------------------
(* Inserting. *)

\* An order is its first n entries and the others.
LEMMA SplitAt ==
    ASSUME NEW s \in Seq(Key), NEW n \in 0 .. Len(s)
    PROVE  /\ SubSeq(s, 1, n) \in Seq(Key) /\ SubSeq(s, n + 1, Len(s)) \in Seq(Key)
           /\ Len(SubSeq(s, n + 1, Len(s))) = Len(s) - n
           /\ s = SubSeq(s, 1, n) \o SubSeq(s, n + 1, Len(s))
<1>1. Len(s) \in Nat /\ n \in Nat /\ n <= Len(s)
  OBVIOUS
<1>2. SubSeq(s, 1, n) \in Seq(Key) /\ SubSeq(s, n + 1, Len(s)) \in Seq(Key)
  BY <1>1
<1>3. Len(SubSeq(s, n + 1, Len(s))) = Len(s) - n
  BY <1>1
<1>4. s = SubSeq(s, 1, n) \o SubSeq(s, n + 1, Len(s))
  <2> DEFINE a == SubSeq(s, 1, n)
             b == SubSeq(s, n + 1, Len(s))
  <2>1. Len(a) = n /\ \A i \in 1 .. n : a[i] = s[i]
    BY <1>1
  <2>2. Len(b) = Len(s) - n /\ \A i \in 1 .. Len(s) - n : b[i] = s[n + i]
    BY <1>1
  <2>3. a \in Seq(Key) /\ b \in Seq(Key)
    BY <1>2
  <2> HIDE DEF a, b
  <2>5. ASSUME NEW i \in 1 .. Len(s) PROVE (a \o b)[i] = s[i]
    <3>1. CASE i <= n
      BY <1>1, <2>1, <2>2, <2>3, <3>1
    <3>2. CASE i > n
      <4>1. i - n \in 1 .. Len(s) - n /\ n + (i - n) = i
        BY <1>1, <3>2
      <4>2. b[i - n] = s[i]
        BY <2>2, <4>1
      <4> QED
        BY <1>1, <2>1, <2>2, <2>3, <3>2, <4>2
    <3>3. i <= n \/ i > n
      BY <1>1
    <3> QED
      BY <3>1, <3>2, <3>3
  <2>6. a \o b \in Seq(Key) /\ Len(a \o b) = Len(s)
    BY <1>1, <2>1, <2>2, <2>3
  <2> DEFINE both == a \o b
  <2> HIDE DEF both
  <2>7. both = s
    <3>1. both \in Seq(Key) /\ Len(both) = Len(s) /\ \A i \in 1 .. Len(s) : both[i] = s[i]
      BY <2>5, <2>6 DEF both
    <3> QED
      BY <3>1
  <2> QED
    BY <2>7 DEF both, a, b
<1> QED
  BY <1>2, <1>3, <1>4

\* Concatenations may be bracketed as one likes.
LEMMA Brackets ==
    ASSUME NEW a \in Seq(Key), NEW b \in Seq(Key), NEW c \in Seq(Key)
    PROVE  (a \o b) \o c = a \o (b \o c) /\ a \o b \in Seq(Key)
OBVIOUS

\* Keys that are not cached yet move no other key.
LEMMA WithoutNew ==
    ASSUME NEW s \in Seq(Key), NEW new \in Seq(Key), Range(s) \cap Range(new) = {}
    PROVE  Without(s, new) = s
<1>1. Range(s) \subseteq Key
  BY DEF Range
<1>2. Range(s) \subseteq Key \ Range(new)
  BY <1>1
<1> QED
  BY <1>2, KeptAll DEF Without

\* Inserting leaves a map of old and new keys that is within the limit.
LEMMA InsertAllKeeps ==
    ASSUME NEW max \in Nat, NEW s \in Seq(Key), NEW new \in Seq(Key), IsInjective(s), IsInjective(new)
    PROVE  /\ InsertAll(s, new, max) \in Seq(Key)
           /\ IsInjective(InsertAll(s, new, max))
           /\ Range(InsertAll(s, new, max)) \subseteq Range(s) \cup Range(new)
           /\ Bytes[InsertAll(s, new, max)] <= max
<1> DEFINE old == Without(s, new)
           both == old \o new
<1>1. /\ old \in Seq(Key) /\ IsInjective(old)
      /\ Range(old) = Range(s) \cap (Key \ Range(new))
  BY KeptFacts DEF Without
<1> HIDE DEF old
<1>2. Range(old) \cap Range(new) = {} /\ Range(old) \subseteq Range(s)
  BY <1>1
<1>3. both \in Seq(Key) /\ IsInjective(both) /\ Range(both) = Range(old) \cup Range(new)
  BY <1>1, <1>2, ConcatFacts
<1> HIDE DEF both
<1>4. /\ Fit(both, max) \in Seq(Key) /\ IsInjective(Fit(both, max))
      /\ Range(Fit(both, max)) \subseteq Range(both) /\ Bytes[Fit(both, max)] <= max
  BY <1>3, FitKeeps
<1>5. InsertAll(s, new, max) = Fit(both, max)
  BY DEF InsertAll, both, old
<1> QED
  BY <1>2, <1>3, <1>4, <1>5

\* Where everything fits, inserting loses no key.
LEMMA InsertAllLosesNone ==
    ASSUME NEW max \in Nat, NEW s \in Seq(Key), NEW new \in Seq(Key), Range(s) \cap Range(new) = {},
           Bytes[s \o new] <= max
    PROVE  Range(InsertAll(s, new, max)) = Range(s) \cup Range(new)
<1>1. s \o new \in Seq(Key) /\ Range(s \o new) = Range(s) \cup Range(new)
  BY ConcatFacts
<1>2. Fit(s \o new, max) = s \o new
  BY <1>1, FitWithin
<1>3. InsertAll(s, new, max) = Fit(s \o new, max)
  BY WithoutNew DEF InsertAll
<1> QED
  BY <1>1, <1>2, <1>3

\* It makes no difference whether entries that are over the limit are evicted
\* before one more key is inserted, or with it.
LEMMA EvictFirst ==
    ASSUME NEW max \in Nat, NEW x \in Seq(Key), IsInjective(x), NEW k \in Key
    PROVE  Fit(Without(Fit(x, max), <<k>>) \o <<k>>, max) = Fit(Without(x, <<k>>) \o <<k>>, max)
<1> DEFINE D(s) == Kept(s, Key \ {k})
<1>1. \A s : Without(s, <<k>>) = D(s)
  BY SmallOrders DEF Without
<1>2. PICK a, b : Splits(x, a, b, max) /\ Fit(x, max) = b
  BY FitSplits
<1>3. a \in Seq(Key) /\ b \in Seq(Key) /\ x = a \o b
  BY <1>2 DEF Splits
<1>4. /\ <<k>> \in Seq(Key) /\ Bytes[<<k>>] = Size[k]
      /\ Size[k] \in Nat /\ Bytes[b] \in Nat /\ max \in Nat
  BY <1>3, BytesOne, BytesFacts
<1>5. D(b) \in Seq(Key)
  BY <1>3, KeptFacts
<1>6. CASE a = <<>>
  <2>1. x = b
    BY <1>3, <1>6
  <2> QED
    BY <1>2, <2>1
<1>7. ASSUME NEW old \in Seq(Key), NEW j \in Key, a = old \o <<j>>, Size[j] + Bytes[b] > max
      PROVE  Fit(D(b) \o <<k>>, max) = Fit(D(x) \o <<k>>, max)
  <2>1. /\ <<j>> \in Seq(Key) /\ Bytes[<<j>>] = Size[j] /\ Size[j] \in Nat
    BY BytesOne
  <2>2. D(x) = (D(old) \o D(<<j>>)) \o D(b) /\ D(old) \in Seq(Key) /\ D(<<j>>) \in Seq(Key)
    <3>1. D(a) = D(old) \o D(<<j>>)
      BY <1>7, <2>1, KeptConcat
    <3>2. D(x) = D(a) \o D(b)
      BY <1>3, KeptConcat
    <3>3. D(old) \in Seq(Key) /\ D(<<j>>) \in Seq(Key)
      BY <2>1, KeptFacts
    <3> HIDE DEF D
    <3> QED
      BY <3>1, <3>2, <3>3
  <2>3. IsInjective(a) /\ IsInjective(b) /\ Range(a) \cap Range(b) = {}
    BY <1>3, ConcatFacts
  <2>4. CASE j = k
    <3>1. Range(a) = Range(old) \cup {k} /\ Range(old) \cap {k} = {}
      BY <1>4, <1>7, <2>3, <2>4, ConcatFacts, SmallOrders
    <3>2. Range(old) \subseteq Key \ {k} /\ Range(b) \subseteq Key \ {k}
      <4>1. Range(old) \subseteq Key /\ Range(b) \subseteq Key
        BY <1>3 DEF Range
      <4> QED
        BY <2>3, <3>1, <4>1
    <3>3. D(old) = old /\ D(b) = b
      BY <1>3, <3>2, KeptAll
    <3>4. D(<<j>>) = <<>>
      <4>1. <<k>> = <<k>> \o <<>> /\ <<>> \in Seq(Key)
        OBVIOUS
      <4> QED
        <5>1. Kept(<<k>> \o <<>>, Key \ {k}) = Kept(<<>>, Key \ {k})
          BY <4>1, KeptCons
        <5>2. Kept(<<>>, Key \ {k}) = <<>>
          BY KeptSteps
        <5> QED
          BY <2>4, <4>1, <5>1, <5>2
    <3> HIDE DEF D
    <3>5. D(x) \o <<k>> = old \o (b \o <<k>>)
      <4>1. D(old) \o D(<<j>>) = old
        BY <3>3, <3>4
      <4>2. D(x) = old \o b
        BY <2>2, <3>3, <4>1
      <4> QED
        BY <1>3, <1>4, <4>2, Brackets, SMTT(30)
    <3>6. b \o <<k>> \in Seq(Key) /\ Bytes[b \o <<k>>] > max
      <4>1. b \o <<k>> \in Seq(Key) /\ Bytes[b \o <<k>>] = Bytes[b] + Bytes[<<k>>]
        BY <1>3, <1>4, BytesConcat
      <4> QED
        BY <1>4, <1>7, <2>4, <4>1
    <3>7. Fit(D(x) \o <<k>>, max) = Fit(b \o <<k>>, max)
      BY <3>5, <3>6, FitDrops
    <3> QED
      BY <3>3, <3>7
  <2>5. CASE j # k
    <3>1. D(<<j>>) = <<j>>
      <4>1. Range(<<j>>) \subseteq Key \ {k}
        BY <2>5, SmallOrders
      <4> QED
        BY <2>1, <4>1, KeptAll
    <3>2. Bytes[D(b)] \in Nat /\ Bytes[D(b)] + Size[k] >= Bytes[b]
      <4>1. Bytes[b] = Bytes[D(b)] + (IF k \in Range(b) THEN Size[k] ELSE 0)
        BY <1>3, <2>3, BytesDropped
      <4>2. Bytes[D(b)] \in Nat
        BY <1>5, BytesFacts
      <4> HIDE DEF D
      <4> QED
        BY <1>4, <4>1, <4>2
    <3> HIDE DEF D
    <3> DEFINE new == D(b) \o <<k>>
    <3>3. new \in Seq(Key) /\ Bytes[new] = Bytes[D(b)] + Size[k]
      BY <1>4, <1>5, BytesConcat
    <3>4. D(x) \o <<k>> = D(old) \o (<<j>> \o new)
      <4>1. (D(old) \o <<j>>) \o D(b) = D(old) \o (<<j>> \o D(b)) /\ <<j>> \o D(b) \in Seq(Key)
        BY <1>5, <2>1, <2>2, Brackets, SMTT(30)
      <4>2. (D(old) \o (<<j>> \o D(b))) \o <<k>> = D(old) \o ((<<j>> \o D(b)) \o <<k>>)
        BY <1>4, <2>2, <4>1, Brackets, SMTT(30)
      <4>3. (<<j>> \o D(b)) \o <<k>> = <<j>> \o new
        BY <1>4, <1>5, <2>1, Brackets
      <4> QED
        BY <2>2, <3>1, <4>1, <4>2, <4>3
    <3> HIDE DEF new
    <3>5. <<j>> \o new \in Seq(Key) /\ Bytes[<<j>> \o new] = Size[j] + Bytes[new]
      BY <3>3, BytesFacts, ConsOrder
    <3>6. Bytes[<<j>> \o new] > max
      BY <1>4, <1>7, <2>1, <3>2, <3>3, <3>5
    <3>7. Fit(D(old) \o (<<j>> \o new), max) = Fit(<<j>> \o new, max)
      BY <2>2, <3>5, <3>6, FitDrops
    <3>8. Fit(<<j>> \o new, max) = Fit(new, max)
      BY <3>3, <3>6, FitOver
    <3> QED
      BY <3>4, <3>7, <3>8 DEF new
  <2> QED
    BY <2>4, <2>5
<1>8. \/ a = <<>>
      \/ \E old \in Seq(Key), j \in Key : a = old \o <<j>> /\ Size[j] + Bytes[b] > max
  BY <1>2 DEF Splits
<1> HIDE DEF D
<1>9. ASSUME a # <<>> PROVE Fit(D(b) \o <<k>>, max) = Fit(D(x) \o <<k>>, max)
  BY <1>7, <1>8, <1>9
<1> QED
  BY <1>1, <1>2, <1>6, <1>9

\* The order after one more key of a list.
LEMMA InsertOneMore ==
    ASSUME NEW max \in Nat, NEW s \in Seq(Key), NEW new \in Seq(Key), NEW k \in Key,
           IsInjective(s), IsInjective(new), k \notin Range(new)
    PROVE  Fit(Without(InsertAll(s, new, max), <<k>>) \o <<k>>, max) = InsertAll(s, new \o <<k>>, max)
<1> DEFINE x == Without(s, new) \o new
<1>0. <<k>> \in Seq(Key) /\ Range(<<k>>) = {k}
  BY SmallOrders
<1>1. /\ Without(s, new) \in Seq(Key) /\ IsInjective(Without(s, new))
      /\ Range(Without(s, new)) = Range(s) \cap (Key \ Range(new))
  BY KeptFacts DEF Without
<1>2. x \in Seq(Key) /\ IsInjective(x)
  BY <1>1, ConcatFacts
<1>3. InsertAll(s, new, max) = Fit(x, max)
  BY DEF InsertAll
<1>4. Without(x, <<k>>) = Without(s, new \o <<k>>) \o new
  <2>1. \A t : Without(t, <<k>>) = Kept(t, Key \ {k})
    BY <1>0 DEF Without
  <2>2. Kept(x, Key \ {k}) = Kept(Without(s, new), Key \ {k}) \o Kept(new, Key \ {k})
    BY <1>1, KeptConcat
  <2>3. Kept(new, Key \ {k}) = new
    <3>1. Range(new) \subseteq Key \ {k}
      BY DEF Range
    <3> QED
      BY <3>1, KeptAll
  <2>4. Kept(Without(s, new), Key \ {k}) = Kept(s, (Key \ Range(new)) \cap (Key \ {k}))
    BY KeptTwice DEF Without
  <2>5. Range(new \o <<k>>) = Range(new) \cup {k}
    BY <1>0, ConcatFacts
  <2>6. (Key \ Range(new)) \cap (Key \ {k}) = Key \ Range(new \o <<k>>)
    BY <2>5
  <2>7. Kept(Without(s, new), Key \ {k}) = Without(s, new \o <<k>>)
    BY <2>4, <2>6 DEF Without
  <2> HIDE DEF x
  <2> QED
    BY <2>1, <2>2, <2>3, <2>7
<1>5. Without(s, new \o <<k>>) \in Seq(Key)
  BY KeptFacts DEF Without
<1> HIDE DEF x
<1>6. Fit(Without(Fit(x, max), <<k>>) \o <<k>>, max) = Fit(Without(x, <<k>>) \o <<k>>, max)
  BY <1>2, EvictFirst
<1>7. Without(x, <<k>>) \o <<k>> = Without(s, new \o <<k>>) \o (new \o <<k>>)
  <2>1. (Without(s, new \o <<k>>) \o new) \o <<k>> = Without(s, new \o <<k>>) \o (new \o <<k>>)
    BY <1>0, <1>5, Brackets
  <2> QED
    BY <1>4, <2>1
<1> QED
  BY <1>3, <1>6, <1>7 DEF InsertAll

=============================================================================
