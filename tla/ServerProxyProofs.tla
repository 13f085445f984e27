------------------------- MODULE ServerProxyProofs -------------------------
(***************************************************************************)
(* Proofs about ServerProxy, for every size of the world and of a block    *)
(* and every window, with a network that loses, repeats and reorders.      *)
(***************************************************************************)
EXTENDS ServerProxy, FiniteSetTheorems, WellFoundedInduction, TLAPS

-----------------------------------------------------------------------------
(* Facts about numbers. *)

\* A set of numbers that is not empty has a least element.
LEMMA Least ==
    ASSUME NEW S \in SUBSET Nat, S # {}
    PROVE  \E x \in S : \A y \in S : ~(y < x)
<1>1. PICK x \in S : \A y \in S : <<y, x>> \notin OpToRel(<, Nat)
  BY WFMin, NatLessThanWellFounded
<1> QED
  BY <1>1 DEF OpToRel

\* A quotient of numbers is a number.
LEMMA QuotientNat ==
    ASSUME NEW n \in Nat, NEW d \in Nat \ {0}
    PROVE  n \div d \in Nat
OBVIOUS

-----------------------------------------------------------------------------
(* The blocks. *)

\* There are finitely many blocks, numbered from 0.
LEMMA BlockFacts ==
    /\ Count \in Nat
    /\ Block \subseteq Nat
    /\ IsFiniteSet(Block)
    /\ Cardinality(Block) = Count
<1>1. Count \in Nat
  <2>1. ASSUME NEW n \in Nat PROVE BlockCount(n) \in Nat
    <3>1. n + BlockSize - 1 \in Nat /\ BlockSize \in Nat \ {0} /\ U32 \in Nat \ {0}
      BY SizesAssumption
    <3>2. (n + BlockSize - 1) % U32 \in Nat
      BY <3>1
    <3> QED
      BY <3>1, <3>2, QuotientNat DEF BlockCount
  <2> QED
    BY <2>1, SizesAssumption DEF Count
<1>2. IsFiniteSet(Block) /\ Cardinality(Block) = Count
  BY <1>1, FS_Interval DEF Block
<1> QED
  BY <1>1, <1>2 DEF Block

\* A subset of the blocks that is not empty has a greatest element.
LEMMA Greatest ==
    ASSUME NEW S \in SUBSET Block, S # {}
    PROVE  \E x \in S : \A y \in S : y <= x
<1> DEFINE R == {Count - b : b \in S}
<1>1. R \in SUBSET Nat /\ R # {}
  <2>1. \A b \in S : Count - b \in Nat
    BY BlockFacts DEF Block
  <2> QED
    BY <2>1
<1>2. PICK x \in R : \A y \in R : ~(y < x)
  BY <1>1, Least
<1>3. PICK b \in S : x = Count - b
  BY <1>2
<1>4. \A c \in S : ~(Count - c < Count - b)
  BY <1>2, <1>3
<1>5. \A c \in S : c \in Nat /\ b \in Nat /\ Count \in Nat
  BY BlockFacts
<1>6. \A c \in S : c <= b
  BY <1>4, <1>5
<1> QED
  BY <1>6

-----------------------------------------------------------------------------
(* The window. *)

\* The size of a set of blocks is a number.
LEMMA BlockSetSize ==
    ASSUME NEW S \in SUBSET Block
    PROVE  IsFiniteSet(S) /\ Cardinality(S) \in Nat
<1>1. IsFiniteSet(S)
  BY BlockFacts, FS_Subset
<1> QED
  BY <1>1, FS_CardinalityType

\* The sizes of disjoint sets of blocks add up.
LEMMA DisjointSize ==
    ASSUME NEW S \in SUBSET Block, NEW T \in SUBSET Block, S \cap T = {}
    PROVE  Cardinality(S \cup T) = Cardinality(S) + Cardinality(T)
<1>1. IsFiniteSet(S) /\ IsFiniteSet(T) /\ Cardinality(S) \in Nat /\ Cardinality(T) \in Nat
  BY BlockSetSize
<1>2. Cardinality(S \cap T) = 0
  BY FS_EmptySet
<1>3. Cardinality(S \cup T) = Cardinality(S) + Cardinality(T) - Cardinality(S \cap T)
  BY <1>1, FS_Union
<1> QED
  BY <1>1, <1>2, <1>3

\* request_next_blocks takes blocks of the queue, does not overfill the window,
\* and fills it unless the queue runs empty.
LEMMA WantedFacts ==
    ASSUME NEW Q \in SUBSET Block, NEW F \in SUBSET Block, Q \cap F = {},
           Cardinality(F) <= Limit
    PROVE  /\ Wanted(Q, F) \subseteq Q
           /\ Cardinality(F \cup Wanted(Q, F)) <= Limit
           /\ Q \ Wanted(Q, F) # {} => Cardinality(F \cup Wanted(Q, F)) >= Limit
<1> DEFINE W == Wanted(Q, F)
           Below(b) == {c \in Q : c < b}
<1>1. W \subseteq Q /\ W \in SUBSET Block /\ W \cap F = {}
  BY DEF Wanted
<1>2. /\ Cardinality(F) \in Nat /\ Cardinality(W) \in Nat /\ Limit \in Nat
      /\ \A b \in Q : Below(b) \in SUBSET Block /\ Cardinality(Below(b)) \in Nat
  BY <1>1, BlockSetSize, LimitAssumption
<1>3. Cardinality(F \cup W) = Cardinality(F) + Cardinality(W)
  BY <1>1, DisjointSize
<1>4. \A b \in W : Cardinality(F) + Cardinality(Below(b)) < Limit
  BY DEF Wanted
<1>5. \A b \in Q \ W : ~(Cardinality(F) + Cardinality(Below(b)) < Limit)
  BY DEF Wanted
<1>6. Q \subseteq Nat
  BY BlockFacts
<1> HIDE DEF W
<1>7. Cardinality(F \cup W) <= Limit
  <2>1. CASE W = {}
    <3>1. F \cup W = F
      BY <2>1
    <3> QED
      BY <3>1
  <2>2. CASE W # {}
    <3>1. PICK m \in W : \A y \in W : y <= m
      BY <1>1, <2>2, Greatest
    <3>2. m \in Q /\ W \ {m} \subseteq Below(m)
      BY <1>1, <1>6, <3>1
    <3>3. IsFiniteSet(Below(m)) /\ IsFiniteSet(W)
      BY <1>1, <1>2, <3>2, BlockSetSize
    <3>4. Cardinality(W \ {m}) <= Cardinality(Below(m))
      BY <3>2, <3>3, FS_Subset
    <3>5. Cardinality(W \ {m}) = Cardinality(W) - 1
      BY <3>3, FS_RemoveElement
    <3>6. Cardinality(F) + Cardinality(Below(m)) < Limit /\ Cardinality(Below(m)) \in Nat
      BY <1>2, <1>4, <3>2
    <3> HIDE DEF Below
    <3> QED
      BY <1>2, <1>3, <3>4, <3>5, <3>6
  <2> QED
    BY <2>1, <2>2
<1>8. ASSUME Q \ W # {} PROVE Cardinality(F \cup W) >= Limit
  <2>1. Q \ W \in SUBSET Nat
    BY <1>6
  <2>2. PICK m \in Q \ W : \A y \in Q \ W : ~(y < m)
    BY <1>8, <2>1, Least
  <2>3. Below(m) \subseteq W
    BY <2>2
  <2>4. Cardinality(Below(m)) <= Cardinality(W)
    BY <1>1, <2>3, BlockSetSize, FS_Subset
  <2>5. ~(Cardinality(F) + Cardinality(Below(m)) < Limit) /\ Cardinality(Below(m)) \in Nat
    BY <1>2, <1>5, <2>2
  <2> HIDE DEF Below
  <2> QED
    BY <1>2, <1>3, <2>4, <2>5
<1> QED
  BY <1>1, <1>7, <1>8 DEF W

-----------------------------------------------------------------------------
(* The order of the blocks. *)

\* The rising list of all blocks is 0, 1, 2, and so on.
LEMMA RisingIsWhole ==
    ASSUME NEW n \in Nat, NEW r \in [1 .. n -> Block],
           \A i, j \in 1 .. n : i < j => r[i] < r[j],
           \A b \in Block : \E i \in 1 .. n : r[i] = b
    PROVE  \A i \in 1 .. n : r[i] = i - 1
<1> DEFINE Bad == {i \in 1 .. n : r[i] # i - 1}
<1> SUFFICES ASSUME Bad # {} PROVE FALSE
  OBVIOUS
<1>1. Bad \in SUBSET Nat
  OBVIOUS
<1>2. PICK i \in Bad : \A j \in Bad : ~(j < i)
  BY <1>1, Least
<1>3. \A j \in 1 .. n : j < i => r[j] = j - 1
  BY <1>2
<1>4. \A j \in 1 .. n : r[j] \in Nat
  BY BlockFacts
<1>5. i \in 1 .. n /\ r[i] # i - 1
  BY <1>2
<1> HIDE DEF Bad
<1>6. r[i] > i - 1
  <2>1. CASE i = 1
    BY <1>4, <1>5, <2>1
  <2>2. CASE i # 1
    <3>1. i - 1 \in 1 .. n /\ i - 1 < i
      BY <1>5, <2>2
    <3>2. r[i - 1] = i - 2 /\ r[i - 1] < r[i]
      BY <1>3, <1>5, <3>1
    <3> QED
      BY <1>4, <1>5, <3>2
  <2> QED
    BY <2>1, <2>2
<1>7. i - 1 \in Block
  <2>1. r[i] \in Block /\ r[i] \in Nat
    BY <1>4, <1>5
  <2> QED
    BY <1>5, <1>6, <2>1, BlockFacts DEF Block
<1>8. PICK j \in 1 .. n : r[j] = i - 1
  BY <1>7
<1>9. CASE j < i
  BY <1>3, <1>5, <1>8, <1>9
<1>10. CASE j = i
  BY <1>5, <1>8, <1>10
<1>11. CASE i < j
  <2>1. r[i] < r[j]
    BY <1>5, <1>11
  <2> QED
    BY <1>4, <1>5, <1>6, <1>8, <2>1
<1> QED
  BY <1>5, <1>9, <1>10, <1>11

\* sort_by_key on all blocks, each once, gives the whole world in order.
LEMMA SortedIsWhole ==
    ASSUME NEW s \in Seq(Block), IsInjective(s), Range(s) = Block, NEW r \in Sorted(s)
    PROVE  r = Download!Whole
<1> DEFINE n == Len(s)
<1>1. n \in Nat /\ DOMAIN s = 1 .. n /\ s \in [1 .. n -> Block]
  OBVIOUS
<1>2. PICK p \in [DOMAIN s -> DOMAIN s] :
        /\ \A i, j \in DOMAIN s : i < j => s[p[i]] <= s[p[j]]
        /\ IsInjective(p) /\ Range(p) = DOMAIN s
        /\ r = [i \in DOMAIN s |-> s[p[i]]]
  BY DEF Sorted
<1> HIDE DEF n
<1>3. r \in [1 .. n -> Block] /\ \A i \in 1 .. n : r[i] = s[p[i]] /\ p[i] \in 1 .. n
  BY <1>1, <1>2
<1>4. \A i, j \in 1 .. n : i < j => r[i] < r[j]
  <2> SUFFICES ASSUME NEW i \in 1 .. n, NEW j \in 1 .. n, i < j PROVE r[i] < r[j]
    OBVIOUS
  <2>1. r[i] <= r[j]
    BY <1>1, <1>2, <1>3
  <2>2. i # j /\ p[i] # p[j]
    BY <1>1, <1>2 DEF IsInjective
  <2>3. r[i] # r[j]
    BY <1>1, <1>3, <2>2 DEF IsInjective
  <2>4. r[i] \in Nat /\ r[j] \in Nat
    BY <1>3, BlockFacts
  <2> QED
    BY <2>1, <2>3, <2>4
<1>5. \A b \in Block : \E i \in 1 .. n : r[i] = b
  <2> SUFFICES ASSUME NEW b \in Block PROVE \E i \in 1 .. n : r[i] = b
    OBVIOUS
  <2>1. PICK k \in 1 .. n : s[k] = b
    BY <1>1 DEF Range
  <2>2. PICK i \in 1 .. n : p[i] = k
    BY <1>1, <1>2, <2>1 DEF Range
  <2> QED
    BY <1>3, <2>1, <2>2
<1>6. \A i \in 1 .. n : r[i] = i - 1
  BY <1>1, <1>3, <1>4, <1>5, RisingIsWhole
<1>7. n = Count
  <2>1. \A i \in 1 .. n : i - 1 \in 0 .. Count - 1
    BY <1>3, <1>6 DEF Block
  <2>2. n <= Count
    <3>1. CASE n = 0
      BY <3>1, BlockFacts
    <3>2. CASE n # 0
      <4>1. n \in 1 .. n
        BY <1>1, <3>2
      <4> QED
        BY <1>1, <2>1, <4>1, BlockFacts
    <3> QED
      BY <3>1, <3>2
  <2>3. Count <= n
    <3>1. CASE Count = 0
      BY <1>1, <3>1
    <3>2. CASE Count # 0
      <4>1. Count - 1 \in Block /\ Count \in Nat
        BY <3>2, BlockFacts DEF Block
      <4>2. PICK i \in 1 .. n : r[i] = Count - 1
        BY <1>5, <4>1
      <4> QED
        BY <1>1, <1>6, <4>1, <4>2
    <3> QED
      BY <3>1, <3>2
  <2> QED
    BY <1>1, <2>2, <2>3, BlockFacts
<1>8. r = [i \in 1 .. n |-> r[i]]
  BY <1>3
<1> QED
  BY <1>6, <1>7, <1>8 DEF Download!Whole

-----------------------------------------------------------------------------
(* The inductive invariant. *)

\* ServerProxyState::new: nothing is downloaded yet.
LEMMA InitIInv == Init => IInv
<1> SUFFICES ASSUME Init PROVE IInv
  OBVIOUS
<1>1. Cardinality({}) = 0
  BY FS_EmptySet
<1>2. TypeOK
  <2>1. received \in Seq(Block) /\ assembled \in Seq(Block)
    BY DEF Init
  <2>2. /\ queue \subseteq Block /\ inflight \subseteq Block
        /\ asked \subseteq Block /\ answers \subseteq Block /\ to_client \subseteq Packet
    BY DEF Init
  <2> QED
    BY <2>1, <2>2 DEF Init, TypeOK
<1>3. Phases /\ BlocksAccounted /\ WindowBounded /\ WindowFull
  BY <1>1, LimitAssumption DEF Init, Phases, BlocksAccounted, WindowBounded, WindowFull
<1> QED
  BY <1>2, <1>3 DEF IInv

\* Steps that leave the download alone, or end the peer.
LEMMA AsideIInv ==
    ASSUME IInv, TypeOK', phase' \in {phase, "gone"},
           UNCHANGED <<queue, inflight, received, assembled>>
    PROVE  IInv'
BY DEF IInv, Phases, BlocksAccounted, WindowBounded, WindowFull

\* request_next_blocks on a queue Q and a window F that, with what was
\* received, hold every block once.
LEMMA RequestNextIInv ==
    ASSUME TypeOK, TypeOK', phase' = "downloading", assembled' = <<>>,
           NEW Q \in SUBSET Block, NEW F \in SUBSET Block, NEW again,
           Q \cap F = {}, Cardinality(F) <= Limit,
           Q \cup F \cup Range(received') = Block,
           (Q \cup F) \cap Range(received') = {},
           IsInjective(received'),
           RequestNext(Q, F, again)
    PROVE  IInv'
<1>1. /\ Wanted(Q, F) \subseteq Q
      /\ Cardinality(F \cup Wanted(Q, F)) <= Limit
      /\ Q \ Wanted(Q, F) # {} => Cardinality(F \cup Wanted(Q, F)) >= Limit
  BY WantedFacts
<1>2. queue' = Q \ Wanted(Q, F) /\ inflight' = F \cup Wanted(Q, F)
  BY DEF RequestNext
<1>3. BlocksAccounted'
  BY <1>1, <1>2 DEF BlocksAccounted
<1>4. WindowBounded' /\ WindowFull' /\ Phases'
  BY <1>1, <1>2 DEF WindowBounded, WindowFull, Phases
<1> QED
  BY <1>3, <1>4 DEF IInv

\* transition_to_downloading_world: every block is queued, the first are asked for.
LEMMA StartDownloadIInv == IInv /\ StartDownload => IInv'
<1> SUFFICES ASSUME IInv, StartDownload PROVE IInv'
  OBVIOUS
<1>1. Wanted(Block, {}) \subseteq Block
  BY DEF Wanted
<1>2. TypeOK'
  <2>1. /\ queue' \subseteq Block /\ inflight' \subseteq Block /\ asked' \subseteq Block
        /\ answers' \subseteq Block
    BY <1>1 DEF IInv, TypeOK, StartDownload, RequestNext, FirstQueue
  <2>2. received' \in Seq(Block) /\ assembled' \in Seq(Block)
    BY DEF IInv, TypeOK, StartDownload
  <2> QED
    BY <2>1, <2>2 DEF TypeOK, StartDownload, Packet
<1>3. Range(received') = {} /\ IsInjective(received')
  BY DEF StartDownload, Range, IsInjective
<1>4. Cardinality({}) <= Limit
  BY FS_EmptySet, LimitAssumption
<1>5. /\ phase' = "downloading" /\ assembled' = <<>> /\ RequestNext(Block, {}, {})
      /\ TypeOK
  BY DEF IInv, Phases, StartDownload, FirstQueue
<1> QED
  BY <1>2, <1>3, <1>4, <1>5, RequestNextIInv

\* A block that arrives is counted once, and leaves where it was.
LEMMA TakeBlockFacts ==
    ASSUME IInv, phase = "downloading", NEW b \in Block,
           received' = IF Fresh(b) THEN Append(received, b) ELSE received
    PROVE  /\ received' \in Seq(Block)
           /\ IsInjective(received')
           /\ QueueAfter(b) \cap (inflight \ {b}) = {}
           /\ QueueAfter(b) \cup (inflight \ {b}) \cup Range(received') = Block
           /\ (QueueAfter(b) \cup (inflight \ {b})) \cap Range(received') = {}
<1>1. /\ received \in Seq(Block) /\ IsInjective(received)
      /\ queue \subseteq Block /\ inflight \subseteq Block
      /\ queue \cup inflight \cup Range(received) = Block
      /\ queue \cap inflight = {}
      /\ (queue \cup inflight) \cap Range(received) = {}
  BY DEF IInv, TypeOK, BlocksAccounted
<1>2. CASE ~Fresh(b)
  BY <1>1, <1>2 DEF Fresh, QueueAfter
<1>3. CASE Fresh(b)
  <2>1. received' = Append(received, b)
    BY <1>3
  <2>2. /\ received' \in Seq(Block)
        /\ Len(received') = Len(received) + 1 /\ Len(received) \in Nat
        /\ DOMAIN received = 1 .. Len(received) /\ DOMAIN received' = 1 .. Len(received')
        /\ received'[Len(received')] = b
        /\ \A i \in DOMAIN received : received'[i] = received[i]
    BY <1>1, <2>1
  <2>3. Range(received') = Range(received) \cup {b}
    <3>1. Range(received') = {received'[i] : i \in DOMAIN received'}
      BY DEF Range
    <3>2. Range(received) = {received[i] : i \in DOMAIN received}
      BY DEF Range
    <3>3. DOMAIN received' = DOMAIN received \cup {Len(received')}
      BY <2>2
    <3> QED
      BY <2>2, <3>1, <3>2, <3>3
  <2>4. b \notin Range(received)
    BY <1>1, <1>3 DEF Fresh
  <2>5. IsInjective(received')
    <3> SUFFICES ASSUME NEW i \in DOMAIN received', NEW k \in DOMAIN received',
                        received'[i] = received'[k]
                 PROVE  i = k
      BY DEF IsInjective
    <3>1. \A m \in DOMAIN received : received[m] # b
      BY <2>4 DEF Range
    <3>2. \A m \in DOMAIN received' : m \in DOMAIN received \/ m = Len(received')
      BY <2>2
    <3> QED
      BY <1>1, <2>2, <3>1, <3>2 DEF IsInjective
  <2>6. QueueAfter(b) = queue \ {b}
    BY <1>1 DEF QueueAfter
  <2> QED
    BY <1>1, <2>2, <2>3, <2>4, <2>5, <2>6
<1> QED
  BY <1>2, <1>3

\* The last block: transfer_world_data gets the whole world.
LEMMA LastBlockWhole ==
    ASSUME IInv, NEW b \in Block, TakeBlock(b), QueueAfter(b) = {}, inflight \ {b} = {}
    PROVE  phase' = "done" /\ assembled' = Download!Whole /\ assembled' \in Seq(Block)
<1>1. /\ phase = "downloading" /\ phase' = "done" /\ assembled' \in Sorted(received')
      /\ received' = IF Fresh(b) THEN Append(received, b) ELSE received
  BY DEF TakeBlock, Finalize
<1>2. /\ received' \in Seq(Block) /\ IsInjective(received')
      /\ QueueAfter(b) \cup (inflight \ {b}) \cup Range(received') = Block
  BY <1>1, TakeBlockFacts
<1>3. assembled' = Download!Whole
  <2>1. Range(received') = Block
    BY <1>2
  <2> QED
    BY <1>1, <1>2, <2>1, SortedIsWhole
<1>4. Download!Whole \in Seq(Block)
  BY BlockFacts DEF Download!Whole, Block
<1> QED
  BY <1>1, <1>3, <1>4

\* A block that arrives, whether new, repeated or the last one.
LEMMA TakeBlockIInv ==
    ASSUME IInv, NEW b \in Block, TakeBlock(b), answers' \subseteq Block
    PROVE  IInv'
<1> DEFINE Q == QueueAfter(b)
           F == inflight \ {b}
<1>1. /\ phase = "downloading" /\ TypeOK
      /\ received' = IF Fresh(b) THEN Append(received, b) ELSE received
  BY DEF TakeBlock, IInv
<1>2. /\ received' \in Seq(Block) /\ IsInjective(received')
      /\ Q \cap F = {}
      /\ Q \cup F \cup Range(received') = Block
      /\ (Q \cup F) \cap Range(received') = {}
  BY <1>1, TakeBlockFacts
<1>3. Q \subseteq Block /\ F \subseteq Block /\ late' \in BOOLEAN
  BY DEF QueueAfter, IInv, TypeOK, TakeBlock, LateAfter
<1>4. CASE Q = {} /\ F = {}
  <2>1. phase' = "done" /\ assembled' \in Seq(Block)
    BY <1>4, LastBlockWhole
  <2>2. queue' = {} /\ inflight' = {} /\ asked' = asked
    BY <1>4 DEF TakeBlock, Finalize
  <2>3. TypeOK'
    BY <1>2, <1>3, <2>1, <2>2 DEF IInv, TypeOK, TakeBlock, filtering
  <2> QED
    BY <2>1, <2>2, <2>3, FS_EmptySet, LimitAssumption
    DEF IInv, Phases, BlocksAccounted, WindowBounded, WindowFull
<1>5. CASE ~(Q = {} /\ F = {})
  <2>1. /\ RequestNext(Q, F, {}) /\ UNCHANGED <<phase, assembled>>
        /\ to_client' = {} /\ filter' = filter /\ told' = told
    BY <1>5 DEF TakeBlock, filtering
  <2>2. assembled' = <<>> /\ phase' = "downloading"
    BY <1>1, <2>1 DEF IInv, Phases
  <2>3. Wanted(Q, F) \subseteq Q
    BY DEF Wanted
  <2> HIDE DEF Q, F
  <2>4. TypeOK'
    BY <1>1, <1>2, <1>3, <2>1, <2>2, <2>3 DEF TypeOK, RequestNext
  <2>5. Cardinality(F) <= Limit
    <3>1. F \subseteq inflight /\ inflight \in SUBSET Block
      BY <1>1 DEF F, TypeOK
    <3>2. Cardinality(F) <= Cardinality(inflight)
      BY <3>1, BlockSetSize, FS_Subset
    <3> QED
      BY <1>3, <3>1, <3>2, BlockSetSize, LimitAssumption DEF IInv, WindowBounded
  <2> QED
    BY <1>1, <1>2, <1>3, <2>1, <2>2, <2>4, <2>5, RequestNextIInv
<1> QED
  BY <1>4, <1>5

\* A packet that passes, and may repeat the requests of the window.
LEMMA PassPacketIInv ==
    ASSUME IInv, NEW x \in {"original", "other"}, PassPacket(x)
    PROVE  IInv'
<1>1. filter' \in {"none", "recent", "old"} /\ to_client' \subseteq Packet /\ told' \in BOOLEAN
  BY DEF PassPacket, PassOn, Filtered, FilterAfter, Packet, IInv, TypeOK
<1>2. CASE ~(phase = "downloading" /\ late)
  <2>1. TypeOK'
    BY <1>1, <1>2 DEF IInv, TypeOK, PassPacket
  <2> QED
    BY <1>2, <2>1, AsideIInv DEF PassPacket
<1>3. CASE phase = "downloading" /\ late
  <2>1. /\ RequestNext(queue, inflight, inflight) /\ late' = FALSE
        /\ UNCHANGED <<phase, received, assembled, answers>>
    BY <1>3 DEF PassPacket
  <2>2. Wanted(queue, inflight) \subseteq queue
    BY DEF Wanted
  <2>3. TypeOK'
    BY <1>1, <2>1, <2>2 DEF IInv, TypeOK, RequestNext
  <2>4. /\ queue \in SUBSET Block /\ inflight \in SUBSET Block /\ queue \cap inflight = {}
        /\ queue \cup inflight \cup Range(received') = Block
        /\ (queue \cup inflight) \cap Range(received') = {}
        /\ IsInjective(received')
        /\ Cardinality(inflight) <= Limit
        /\ assembled' = <<>> /\ phase' = "downloading" /\ TypeOK
    BY <1>3, <2>1 DEF IInv, TypeOK, BlocksAccounted, WindowBounded, Phases
  <2> QED
    BY <2>1, <2>3, <2>4, RequestNextIInv
<1> QED
  BY <1>2, <1>3

\* Every step keeps the inductive invariant.
LEMMA NextIInv == IInv /\ [Next]_vars => IInv'
<1> SUFFICES ASSUME IInv, [Next]_vars PROVE IInv'
  OBVIOUS
<1>1. CASE UNCHANGED vars
  BY <1>1, AsideIInv DEF vars, IInv, TypeOK
<1>2. CASE StartDownload
  BY <1>2, StartDownloadIInv
<1>3. CASE DropBlock
  BY <1>3, AsideIInv DEF DropBlock, network, filtering, IInv, TypeOK
<1>4. ASSUME NEW x \in {"original", "other"}, PassPacket(x) PROVE IInv'
  BY <1>4, PassPacketIInv
<1>5. ASSUME NEW b \in Block, Deliver(b) PROVE IInv'
  <2>1. answers' \subseteq Block
    BY <1>5 DEF Deliver, IInv, TypeOK
  <2>2. CASE TakeBlock(b)
    BY <2>1, <2>2, TakeBlockIInv
  <2>3. CASE PassBlock
    <3>1. filter' \in {"none", "recent", "old"} /\ to_client' \subseteq Packet /\ told' \in BOOLEAN
      BY <2>3 DEF PassBlock, PassOn, Filtered, FilterAfter, Packet, IInv, TypeOK
    <3>2. TypeOK'
      BY <2>1, <2>3, <3>1 DEF PassBlock, IInv, TypeOK
    <3> QED
      BY <2>3, <3>2, AsideIInv DEF PassBlock
  <2> QED
    BY <1>5, <2>2, <2>3 DEF Deliver
<1>6. ASSUME NEW b \in Block, Serve(b) PROVE IInv'
  <2>1. TypeOK'
    BY <1>6 DEF Serve, filtering, IInv, TypeOK
  <2> QED
    BY <1>6, <2>1, AsideIInv DEF Serve
<1>7. CASE Lose
  <2>1. TypeOK'
    BY <1>7 DEF Lose, filtering, IInv, TypeOK
  <2> QED
    BY <1>7, <2>1, AsideIInv DEF Lose
<1>8. CASE BlockTimeout \/ FilterTimeout
  <2>1. TypeOK'
    BY <1>8 DEF BlockTimeout, FilterTimeout, network, filtering, IInv, TypeOK
  <2> QED
    BY <1>8, <2>1, AsideIInv DEF BlockTimeout, FilterTimeout
<1>9. CASE Stop
  <2>1. TypeOK'
    BY <1>9 DEF Stop, network, filtering, IInv, TypeOK
  <2> QED
    BY <1>9, <2>1, AsideIInv DEF Stop
<1> QED
  BY <1>1, <1>2, <1>3, <1>4, <1>5, <1>6, <1>7, <1>8, <1>9 DEF Next

-----------------------------------------------------------------------------
(* What the invariant gives. *)

\* Every reachable state of a download satisfies the inductive invariant.
THEOREM InvariantHolds == Spec => []IInv
  BY InitIInv, NextIInv, PTL DEF Spec

\* The proxy never loses a block and never takes one twice.
THEOREM BlocksAccountedHolds == Spec => []BlocksAccounted
<1>1. IInv => BlocksAccounted
  BY DEF IInv
<1> QED
  BY <1>1, InvariantHolds, PTL

\* request_next_blocks keeps the window within its limit, and full.
THEOREM WindowHolds == Spec => []Window
<1>1. IInv => Window
  BY DEF IInv, Window
<1> QED
  BY <1>1, InvariantHolds, PTL

\* The download implements what the cacher server promises: the transfer is
\* started once, with every block of the world in order.
THEOREM DownloadRefines == Spec => DownloadImplemented
<1>1. Init => Download!DInit
  BY DEF Init, Download!DInit
<1>2. IInv /\ [Next]_vars => [Download!DNext]_(Download!dvars)
  <2> SUFFICES ASSUME IInv, [Next]_vars, ~UNCHANGED Download!dvars
               PROVE  Download!DNext
    OBVIOUS
  <2> USE DEF Download!dvars, Download!DNext
  <2>1. CASE UNCHANGED vars
    BY <2>1 DEF vars
  <2>2. CASE StartDownload
    BY <2>2 DEF StartDownload, Download!Announce
  <2>3. ASSUME NEW b \in Block, Deliver(b), TakeBlock(b) PROVE Download!DNext
    <3>1. CASE QueueAfter(b) = {} /\ inflight \ {b} = {}
      BY <2>3, <3>1, LastBlockWhole DEF TakeBlock, Download!Transfer
    <3>2. CASE ~(QueueAfter(b) = {} /\ inflight \ {b} = {})
      BY <2>3, <3>2 DEF TakeBlock
    <3> QED
      BY <3>1, <3>2
  <2>4. CASE Stop
    BY <2>4 DEF Stop, Download!GoAway, IInv, TypeOK
  <2>5. UNCHANGED <<phase, assembled>> => UNCHANGED Download!dvars
    OBVIOUS
  <2>6. CASE DropBlock \/ Lose \/ BlockTimeout \/ FilterTimeout
    BY <2>5, <2>6 DEF DropBlock, Lose, BlockTimeout, FilterTimeout
  <2>7. ASSUME NEW b \in Block, Serve(b) \/ (Deliver(b) /\ PassBlock) PROVE Download!DNext
    BY <2>5, <2>7 DEF Serve, PassBlock
  <2>8. ASSUME NEW x \in {"original", "other"}, PassPacket(x) PROVE Download!DNext
    BY <2>5, <2>8 DEF PassPacket
  <2> QED
    BY <2>1, <2>2, <2>3, <2>4, <2>6, <2>7, <2>8 DEF Next, Deliver
<1> QED
  BY <1>1, <1>2, InvariantHolds, PTL DEF Spec, DownloadImplemented, Download!DSpec

\* filter_packet and the age of last_replace: a replacement that is less than 30 s
\* old keeps packet_filter in place, so no original metadata passes.
THEOREM OriginalHidden == Spec => []OriginalStaysHidden
<1> DEFINE Renewed == told => filter = "recent"
           Hidden == Renewed /\ OriginalStaysHidden
<1>1. Init => Hidden
  BY DEF Init, OriginalStaysHidden
<1>2. ASSUME Hidden, Next PROVE Hidden'
  <2> USE <1>2 DEF OriginalStaysHidden
  <2>1. CASE StartDownload
    BY <2>1 DEF StartDownload
  <2>2. CASE DropBlock \/ Stop
    BY <2>2 DEF DropBlock, Stop, filtering
  <2>3. ASSUME NEW x \in {"original", "other"}, PassPacket(x) PROVE Hidden'
    BY <2>3 DEF PassPacket, PassOn, Filtered, FilterAfter
  <2>4. ASSUME NEW b \in Block, Deliver(b) PROVE Hidden'
    <3>1. CASE TakeBlock(b)
      BY <3>1 DEF TakeBlock, filtering
    <3>2. CASE PassBlock
      BY <3>2 DEF PassBlock, PassOn, Filtered, FilterAfter
    <3> QED
      BY <2>4, <3>1, <3>2 DEF Deliver
  <2>5. ASSUME NEW b \in Block, Serve(b) PROVE Hidden'
    BY <2>5 DEF Serve, filtering
  <2>6. CASE Lose \/ BlockTimeout
    BY <2>6 DEF Lose, BlockTimeout, filtering
  <2>7. CASE FilterTimeout
    BY <2>7 DEF FilterTimeout
  <2> QED
    BY <2>1, <2>2, <2>3, <2>4, <2>5, <2>6, <2>7 DEF Next
<1>3. Hidden /\ UNCHANGED vars => Hidden'
  BY DEF vars, OriginalStaysHidden
<1>4. Hidden => OriginalStaysHidden
  OBVIOUS
<1> HIDE DEF Hidden
<1> QED
  BY <1>1, <1>2, <1>3, <1>4, PTL DEF Spec

=============================================================================
