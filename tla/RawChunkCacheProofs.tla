------------------------ MODULE RawChunkCacheProofs -------------------------
(***************************************************************************)
(* Proofs about RawChunkCache, for any keys and sizes, any cache limit and *)
(* any lists that repeat no key: the running count is exact, and the loops *)
(* of insert compute InsertAll.                                            *)
(***************************************************************************)
EXTENDS RawChunkCache, CacheOrderProofs

-----------------------------------------------------------------------------
(* The inductive invariant. *)

\* What the history holds: an order that was within the limit, and a list.
HistoryInv ==
    /\ before \in Seq(Key) /\ IsInjective(before)
    /\ list \in Seq(Key) /\ IsInjective(list)

\* The first n keys of the list are inserted and the others are still to come;
\* inside the while loop of the n-th insert, eviction will end in the order that
\* InsertAll gives for them.
LoopInv ==
    \E n \in 0 .. Len(list) :
        /\ todo = SubSeq(list, n + 1, Len(list))
        /\ evicting => Fit(chunks, MaxSize) = InsertAll(before, SubSeq(list, 1, n), MaxSize)
        /\ ~evicting => chunks = InsertAll(before, SubSeq(list, 1, n), MaxSize)

Inv == TypeOK /\ HistoryInv /\ TotalExact /\ LoopInv

-----------------------------------------------------------------------------
\* Between two inserts the cache is within the limit.
LEMMA WithinBetween ==
    ASSUME Inv, ~evicting
    PROVE  Bytes[chunks] <= MaxSize
<1>1. PICK n \in 0 .. Len(list) : chunks = InsertAll(before, SubSeq(list, 1, n), MaxSize)
  BY DEF Inv, LoopInv
<1> DEFINE new == SubSeq(list, 1, n)
           rest == SubSeq(list, n + 1, Len(list))
<1>2. new \in Seq(Key) /\ rest \in Seq(Key) /\ list = new \o rest
  BY SplitAt DEF Inv, HistoryInv
<1> HIDE DEF new, rest
<1>3. IsInjective(new)
  BY <1>2, ConcatFacts DEF Inv, HistoryInv
<1>4. Bytes[InsertAll(before, new, MaxSize)] <= MaxSize
  BY <1>2, <1>3, InsertAllKeeps, MaxSizeAssumption DEF Inv, HistoryInv
<1> QED
  BY <1>1, <1>4 DEF new

\* RawChunkCache::new: an empty map and a count of zero.
LEMMA InitInv == Init => Inv
<1> SUFFICES ASSUME Init PROVE Inv
  OBVIOUS
<1>0. <<>> \in Seq(Key) /\ IsInjective(<<>>) /\ Bytes[<<>>] = 0 /\ Range(<<>>) = {}
  BY SmallOrders, BytesFacts
<1>1. TypeOK
  BY <1>0 DEF Init, TypeOK
<1>2. HistoryInv
  BY <1>0 DEF Init, HistoryInv
<1>3. TotalExact
  BY <1>0 DEF Init, TotalExact
<1>4. InsertAll(<<>>, <<>>, MaxSize) = <<>>
  <2>1. Without(<<>>, <<>>) = <<>>
    BY <1>0, WithoutNew
  <2>2. Fit(<<>>, MaxSize) = <<>>
    <3>1. Bytes[<<>>] <= MaxSize
      BY <1>0, MaxSizeAssumption
    <3> QED
      BY <1>0, <3>1, FitWithin, MaxSizeAssumption
  <2>3. <<>> \o <<>> = <<>>
    OBVIOUS
  <2> QED
    BY <2>1, <2>2, <2>3 DEF InsertAll
<1>5. LoopInv
  <2>1. 0 \in 0 .. Len(list) /\ SubSeq(list, 0 + 1, Len(list)) = <<>> /\ SubSeq(list, 1, 0) = <<>>
    BY DEF Init
  <2>2. ~evicting /\ todo = <<>> /\ chunks = InsertAll(before, <<>>, MaxSize)
    BY <1>4 DEF Init
  <2> QED
    BY <2>1, <2>2 DEF LoopInv
<1> QED
  BY <1>1, <1>2, <1>3, <1>5 DEF Inv

\* A list is taken up: none of its keys is inserted yet.
LEMMA StartInv ==
    ASSUME Inv, NEW l \in InsertList, Start(l)
    PROVE  Inv'
<1>1. l \in Seq(Key) /\ IsInjective(l)
  BY InsertListAssumption
<1>2. /\ ~evicting /\ ~evicting' /\ chunks' = chunks /\ before' = chunks /\ list' = l /\ todo' = l
      /\ chunks \in Seq(Key) /\ IsInjective(chunks)
  BY DEF Start, Idle, Inv, TypeOK
<1>3. TypeOK' /\ HistoryInv' /\ TotalExact'
  BY <1>1, <1>2 DEF Start, Inv, TypeOK, HistoryInv, TotalExact
<1>4. InsertAll(chunks, <<>>, MaxSize) = chunks
  <2>1. <<>> \in Seq(Key) /\ Range(<<>>) = {}
    BY SmallOrders
  <2>2. Without(chunks, <<>>) = chunks
    BY <1>2, <2>1, WithoutNew
  <2>3. Fit(chunks, MaxSize) = chunks
    BY <1>2, WithinBetween, FitWithin, MaxSizeAssumption
  <2>4. chunks \o <<>> = chunks
    BY <1>2
  <2> QED
    BY <2>2, <2>3, <2>4 DEF InsertAll
<1>5. 0 \in 0 .. Len(l) /\ SubSeq(l, 0 + 1, Len(l)) = l /\ SubSeq(l, 1, 0) = <<>>
  BY <1>1
<1>6. LoopInv'
  BY <1>2, <1>4, <1>5 DEF LoopInv
<1> QED
  BY <1>3, <1>6 DEF Inv

\* insert up to its loop: eviction starts from the order with one more key.
LEMMA PushBackInv ==
    ASSUME Inv, PushBack
    PROVE  Inv'
<1>1. /\ chunks \in Seq(Key) /\ IsInjective(chunks) /\ todo \in Seq(Key) /\ todo # <<>>
      /\ list \in Seq(Key) /\ IsInjective(list) /\ before \in Seq(Key) /\ IsInjective(before)
      /\ list' = list /\ before' = before /\ ~evicting /\ evicting'
  BY DEF PushBack, Inv, TypeOK, HistoryInv
<1> DEFINE k == Head(todo)
           old == Without(chunks, <<k>>)
<1>2. k \in Key /\ <<k>> \in Seq(Key) /\ Range(<<k>>) = {k} /\ IsInjective(<<k>>)
  BY <1>1, SmallOrders, HeadAndTail
<1>3. /\ chunks' = Append(old, k) /\ todo' = Tail(todo)
      /\ total_size' = total_size + Size[k] - SizeReplaced(k)
  BY DEF PushBack
<1> HIDE DEF k
<1>4. old = Kept(chunks, Key \ {k})
  BY <1>2 DEF Without
<1>5. /\ old \in Seq(Key) /\ IsInjective(old) /\ Range(old) = Range(chunks) \cap (Key \ {k})
      /\ Bytes[chunks] = Bytes[old] + (IF k \in Range(chunks) THEN Size[k] ELSE 0)
  BY <1>1, <1>2, <1>4, KeptFacts, BytesDropped
<1>6. /\ Bytes[<<k>>] = Size[k] /\ Size[k] \in Nat
      /\ Bytes[old] \in Nat /\ Bytes[chunks] \in Nat
  BY <1>1, <1>2, <1>5, BytesOne, BytesFacts
<1> HIDE DEF old
<1>7. chunks' = old \o <<k>>
  BY <1>3, <1>5
<1>8. chunks' \in Seq(Key) /\ IsInjective(chunks')
  <2>1. Range(old) \cap Range(<<k>>) = {}
    BY <1>2, <1>5
  <2> QED
    BY <1>2, <1>5, <1>7, <2>1, ConcatFacts
<1>9. Bytes[chunks'] = Bytes[old] + Size[k]
  BY <1>2, <1>5, <1>6, <1>7, BytesConcat
<1>10. TotalExact'
  <2>1. total_size = Bytes[chunks]
    BY DEF Inv, TotalExact
  <2> QED
    BY <1>3, <1>5, <1>6, <1>9, <2>1 DEF TotalExact, SizeReplaced
<1>11. TypeOK'
  <2>1. total_size' \in Nat
    BY <1>6, <1>9, <1>10 DEF TotalExact
  <2>2. todo' \in Seq(Key)
    BY <1>1, <1>3, HeadAndTail
  <2> QED
    BY <1>1, <1>8, <2>1, <2>2 DEF TypeOK
<1>12. HistoryInv'
  BY <1>1 DEF HistoryInv
<1>13. LoopInv'
  <2>1. PICK n \in 0 .. Len(list) :
          /\ todo = SubSeq(list, n + 1, Len(list))
          /\ chunks = InsertAll(before, SubSeq(list, 1, n), MaxSize)
    BY <1>1 DEF Inv, LoopInv
  <2> DEFINE new == SubSeq(list, 1, n)
             now == SubSeq(list, 1, n + 1)
             rest == SubSeq(list, n + 2, Len(list))
  <2>2. n + 1 \in 0 .. Len(list) /\ n \in Nat /\ Len(list) \in Nat
    BY <1>1, <2>1
  <2>3. k = list[n + 1] /\ Tail(todo) = rest
    BY <1>1, <2>1, <2>2 DEF k
  <2>4. new \in Seq(Key) /\ now \in Seq(Key) /\ rest \in Seq(Key) /\ now = new \o <<k>>
    BY <1>1, <2>2, <2>3
  <2>5. list = now \o rest
    <3>1. n + 1 + 1 = n + 2
      BY <2>2
    <3> QED
      BY <1>1, <2>2, <3>1, SplitAt
  <2> HIDE DEF new, now, rest
  <2>6. IsInjective(now)
    BY <1>1, <2>4, <2>5, ConcatFacts
  <2>7. IsInjective(new) /\ k \notin Range(new)
    <3>1. IsInjective(new) /\ Range(new) \cap Range(<<k>>) = {}
      BY <1>2, <2>4, <2>6, ConcatFacts
    <3> QED
      BY <1>2, <3>1
  <2>8. Fit(Without(InsertAll(before, new, MaxSize), <<k>>) \o <<k>>, MaxSize) = InsertAll(before, new \o <<k>>, MaxSize)
    BY <1>1, <1>2, <2>4, <2>7, InsertOneMore, MaxSizeAssumption
  <2>9. Fit(chunks', MaxSize) = InsertAll(before, now, MaxSize)
    BY <1>7, <2>1, <2>4, <2>8 DEF old, new
  <2>10. todo' = SubSeq(list, n + 1 + 1, Len(list)) /\ now = SubSeq(list, 1, n + 1)
    BY <1>3, <2>2, <2>3 DEF rest, now
  <2> QED
    BY <1>1, <2>2, <2>9, <2>10 DEF LoopInv
<1> QED
  BY <1>10, <1>11, <1>12, <1>13 DEF Inv

\* One turn of the loop: the oldest entry goes, and its size with it.
LEMMA PopFrontInv ==
    ASSUME Inv, PopFront
    PROVE  Inv'
<1>1. /\ chunks \in Seq(Key) /\ IsInjective(chunks) /\ chunks # <<>> /\ chunks' = Tail(chunks)
      /\ total_size = Bytes[chunks] /\ total_size > MaxSize /\ evicting
      /\ total_size' = total_size - Size[Head(chunks)]
      /\ UNCHANGED <<todo, evicting, before, list>>
  BY DEF PopFront, Inv, TypeOK, TotalExact, OverLimit, SizePopped
<1> DEFINE e == Head(chunks)
           t == Tail(chunks)
<1>2. e \in Key /\ t \in Seq(Key) /\ chunks = <<e>> \o t
  BY <1>1, HeadAndTail
<1> HIDE DEF e, t
<1>3. IsInjective(t)
  BY <1>1, <1>2, ConsOrder
<1>4. Bytes[chunks] = Size[e] + Bytes[t] /\ Size[e] \in Nat /\ Bytes[t] \in Nat
  BY <1>2, BytesFacts, SizeAssumption
<1>5. total_size' = Bytes[t] /\ chunks' = t
  BY <1>1, <1>4 DEF e, t
<1>6. TypeOK' /\ HistoryInv' /\ TotalExact'
  BY <1>1, <1>2, <1>3, <1>4, <1>5 DEF Inv, TypeOK, HistoryInv, TotalExact
<1>7. Fit(chunks, MaxSize) = Fit(t, MaxSize)
  BY <1>1, <1>2, FitOver, MaxSizeAssumption
<1>8. LoopInv'
  BY <1>1, <1>5, <1>7 DEF Inv, LoopInv
<1> QED
  BY <1>6, <1>8 DEF Inv

\* insert returns once the count, and so the cache, is within the limit.
LEMMA ReturnInv ==
    ASSUME Inv, Return
    PROVE  Inv'
<1>1. /\ evicting /\ ~evicting' /\ UNCHANGED <<chunks, total_size, todo, before, list>>
      /\ chunks \in Seq(Key) /\ Bytes[chunks] <= MaxSize
  <2>1. /\ chunks \in Seq(Key) /\ total_size = Bytes[chunks] /\ ~(total_size > MaxSize)
        /\ total_size \in Nat
    BY DEF Return, Inv, TypeOK, TotalExact, OverLimit
  <2> QED
    BY <2>1, MaxSizeAssumption DEF Return
<1>2. TypeOK' /\ HistoryInv' /\ TotalExact'
  BY <1>1 DEF Return, Inv, TypeOK, HistoryInv, TotalExact
<1>3. Fit(chunks, MaxSize) = chunks
  BY <1>1, FitWithin, MaxSizeAssumption
<1>4. LoopInv'
  BY <1>1, <1>3 DEF Inv, LoopInv
<1> QED
  BY <1>2, <1>4 DEF Inv

LEMMA NextInv == Inv /\ [Next]_vars => Inv'
<1> SUFFICES ASSUME Inv, [Next]_vars PROVE Inv'
  OBVIOUS
<1>1. CASE UNCHANGED vars
  BY <1>1 DEF vars, Inv, TypeOK, HistoryInv, TotalExact, LoopInv
<1> QED
  BY <1>1, StartInv, PushBackInv, PopFrontInv, ReturnInv DEF Next

LEMMA InvariantHolds == Spec => []Inv
<1> QED
  BY InitInv, NextInv, PTL DEF Spec

-----------------------------------------------------------------------------
(* The theorems. *)

\* The map never holds a key twice, and the running count never becomes
\* negative (total_size is a usize).
THEOREM RawCacheTypes == Spec => []TypeOK
<1>1. Inv => TypeOK
  BY DEF Inv
<1> QED
  BY <1>1, InvariantHolds, PTL

\* total_size is the sum of the sizes in the map, after every step of insert
\* and of its loop.
THEOREM CountIsExact == Spec => []TotalExact
<1>1. Inv => TotalExact
  BY DEF Inv
<1> QED
  BY <1>1, InvariantHolds, PTL

\* The unwrap in `self.chunks.pop_front().unwrap()' never panics: the loop does
\* not ask an empty map for an entry.
THEOREM PopFindsEntry == Spec => [](OverLimit => chunks # <<>>)
<1>1. Inv => (OverLimit => chunks # <<>>)
  <2> SUFFICES ASSUME Inv, total_size > MaxSize, chunks = <<>> PROVE FALSE
    BY DEF OverLimit
  <2>1. total_size = 0
    BY BytesFacts DEF Inv, TotalExact
  <2> QED
    BY <2>1, MaxSizeAssumption
<1> QED
  BY <1>1, InvariantHolds, PTL

\* A series of inserts ends in the order that InsertAll gives in one step: the
\* longest run of newest entries that fits, whatever was evicted on the way.
THEOREM LoopsComputeInsertAll == Spec => []LoopsMeetInsertAll
<1>1. Inv => LoopsMeetInsertAll
  <2> SUFFICES ASSUME Inv, Idle PROVE chunks = InsertAll(before, list, MaxSize)
    BY DEF LoopsMeetInsertAll
  <2>1. PICK n \in 0 .. Len(list) :
          /\ todo = SubSeq(list, n + 1, Len(list))
          /\ chunks = InsertAll(before, SubSeq(list, 1, n), MaxSize)
    BY DEF Inv, LoopInv, Idle
  <2>2. list \in Seq(Key) /\ todo = <<>>
    BY DEF Inv, HistoryInv, Idle
  <2>3. n = Len(list)
    <3>1. Len(todo) = Len(list) - n /\ Len(todo) = 0
      BY <2>1, <2>2, SplitAt
    <3>2. Len(list) \in Nat /\ n \in Nat
      BY <2>2
    <3> QED
      BY <3>1, <3>2
  <2>4. SubSeq(list, 1, n) = list
    BY <2>2, <2>3
  <2> QED
    BY <2>1, <2>4
<1> QED
  BY <1>1, InvariantHolds, PTL

=============================================================================
